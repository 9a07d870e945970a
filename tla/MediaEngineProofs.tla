-------------------------- MODULE MediaEngineProofs --------------------------
(* What holds of the media engine for any number of peers, any lengths of  *)
(* the queues and rings, any frame and callback sizes and any sample rates *)
(* up to twice the engine's own.                                           *)
EXTENDS MediaEngine, TLAPS

-----------------------------------------------------------------------------
(* The loudspeaker side.  NoGapWhilePrimed follows from a stronger bound:  *)
(* a primed ring holds at least half a preroll.                            *)

HalfPreroll == MIN_PREROLL_SAMPLES \div 2

PrimedIsHalfFull == \A p \in primed : samples[p] >= HalfPreroll

RingInv == OutputTypeOK /\ PrimedIsHalfFull

\* Half a preroll is a natural number within the ring.
LEMMA HalfPrerollFacts ==
    /\ HalfPreroll \in Nat
    /\ HalfPreroll <= MIN_PREROLL_SAMPLES
    /\ HalfPreroll <= MAX_QUEUED_SAMPLES
    /\ \A n \in Buffers : n \in Nat /\ (2 * n <= MIN_PREROLL_SAMPLES => n <= HalfPreroll)
<1>1. MIN_PREROLL_SAMPLES \in Nat /\ MAX_QUEUED_SAMPLES \in Nat
      /\ MIN_PREROLL_SAMPLES <= MAX_QUEUED_SAMPLES
  BY OutputAssumption
<1>2. MIN_PREROLL_SAMPLES \div 2 \in Nat /\ MIN_PREROLL_SAMPLES \div 2 <= MIN_PREROLL_SAMPLES
  BY <1>1
<1>3. \A n \in Buffers :
        n \in Nat /\ (2 * n <= MIN_PREROLL_SAMPLES => n <= MIN_PREROLL_SAMPLES \div 2)
  BY <1>1, OutputAssumption
<1> QED
  BY <1>1, <1>2, <1>3 DEF HalfPreroll

\* One sequence behind another.
LEMMA ConcatFacts ==
    ASSUME NEW S, NEW s \in Seq(S), NEW t \in Seq(S)
    PROVE  s \o t \in Seq(S) /\ Len(s \o t) = Len(s) + Len(t)
OBVIOUS

\* The engine's steps touch the commands only.
LEMMA EngineKeepsRings ==
    ASSUME RingInv, NEW p \in Speakers,
           RegisterPeer(p) \/ DisconnectPeer(p) \/ PlayPcm(p)
    PROVE  RingInv'
<1> USE DEF RingInv, OutputTypeOK
<1>1. UNCHANGED <<nodes, samples, primed>>
  BY DEF RegisterPeer, DisconnectPeer, PlayPcm
<1>2. PrimedIsHalfFull'
  BY <1>1 DEF PrimedIsHalfFull
<1>3. runtimes' \subseteq Speakers /\ output_registered' \subseteq runtimes'
  BY DEF RegisterPeer, DisconnectPeer, PlayPcm
<1>4. commands' \in Seq(Commands) /\ Len(commands') <= COMMAND_DEPTH
  <2>1. CASE RegisterPeer(p)
    BY <2>1 DEF RegisterPeer
  <2>2. CASE DisconnectPeer(p)
    <3>1. [cmd |-> "Remove", peer |-> p] \in Commands
      BY DEF Commands
    <3> QED
      BY <2>2, <3>1, OutputAssumption DEF DisconnectPeer
  <2>3. CASE PlayPcm(p)
    <3> DEFINE register == IF p \in output_registered THEN <<>>
                           ELSE <<[cmd |-> "Register", peer |-> p]>>
               push == <<[cmd |-> "Push", peer |-> p]>>
    <3>0. [cmd |-> "Register", peer |-> p] \in Commands /\ [cmd |-> "Push", peer |-> p] \in Commands
      BY DEF Commands
    <3>1. register \in Seq(Commands)
      <4>1. CASE p \in output_registered
        BY <4>1
      <4>2. CASE p \notin output_registered
        BY <4>2, <3>0
      <4> QED
        BY <4>1, <4>2
    <3>5. push \in Seq(Commands) /\ Len(push) = 1
      BY <3>0
    <3>2. commands' = (commands \o register) \o push
          /\ Len(commands) + Len(register) < COMMAND_DEPTH
      BY <2>3 DEF PlayPcm
    <3> HIDE DEF register, push
    <3>3. commands \o register \in Seq(Commands)
          /\ Len(commands \o register) = Len(commands) + Len(register)
      BY <3>1, ConcatFacts
    <3>4. commands' \in Seq(Commands) /\ Len(commands') = Len(commands \o register) + 1
      <4>1. /\ (commands \o register) \o push \in Seq(Commands)
            /\ Len((commands \o register) \o push) = Len(commands \o register) + Len(push)
        <5> HIDE DEF RingInv, OutputTypeOK
        <5> QED
          BY <3>3, <3>5, ConcatFacts, Zenon
      <4> QED
        BY <3>2, <3>5, <4>1
    <3> QED
      BY <3>1, <3>2, <3>3, <3>4, OutputAssumption
  <2> QED
    BY <2>1, <2>2, <2>3
<1> QED
  BY <1>1, <1>2, <1>3, <1>4

\* The backend's task keeps the rings within their limit and never takes from them.
LEMMA HandleCommandKeepsRings ==
    ASSUME RingInv, NEW started \in BOOLEAN, NEW renamed \in BOOLEAN,
           HandleCommand(started, renamed)
    PROVE  RingInv'
<1> USE DEF RingInv, OutputTypeOK
<1> DEFINE p == Head(commands).peer
<1>0. commands \in Seq(Commands) /\ commands # <<>>
  BY DEF HandleCommand
<1>1. Head(commands) \in Commands /\ p \in Speakers
  <2>1. Head(commands) \in Commands
    BY <1>0
  <2> QED
    BY <2>1 DEF Commands
<1>2. commands' \in Seq(Commands) /\ Len(commands') <= COMMAND_DEPTH
  BY OutputAssumption DEF HandleCommand
<1>3. UNCHANGED <<runtimes, output_registered>>
  BY DEF HandleCommand
<1>4. CASE ensure_peer_node(p, started, renamed)
  BY <1>1, <1>2, <1>3, <1>4, OutputAssumption DEF ensure_peer_node, PrimedIsHalfFull
<1>5. CASE remove_peer_node(p)
  BY <1>1, <1>2, <1>3, <1>5, OutputAssumption DEF remove_peer_node, PrimedIsHalfFull
<1>6. CASE push_peer_pcm(p)
  BY <1>1, <1>2, <1>3, <1>6, OutputAssumption, HalfPrerollFacts
     DEF push_peer_pcm, Capped, PrimedIsHalfFull
<1>7. Head(commands).cmd \in {"Register", "Remove", "Push"}
  BY <1>1 DEF Commands
<1> QED
  BY <1>4, <1>5, <1>6, <1>7 DEF HandleCommand

\* PipeWire takes at most what is there, and the lower threshold unprimes the ring.
LEMMA FillKeepsRings ==
    ASSUME RingInv, NEW p \in Speakers, NEW n \in Buffers, fill_output_buffer(p, n)
    PROVE  RingInv'
<1> USE DEF RingInv, OutputTypeOK
<1> DEFINE left == IF samples[p] > n THEN samples[p] - n ELSE 0
<1>1. n \in Nat /\ samples[p] \in 0..MAX_QUEUED_SAMPLES /\ MAX_QUEUED_SAMPLES \in Nat
  BY HalfPrerollFacts, OutputAssumption
<1>2. left \in 0..MAX_QUEUED_SAMPLES
  BY <1>1
<1>3. samples' = [samples EXCEPT ![p] = left]
      /\ primed' = (IF left >= HalfPreroll THEN primed \union {p} ELSE primed \ {p})
      /\ p \in nodes
      /\ UNCHANGED <<runtimes, output_registered, commands, nodes>>
  BY DEF fill_output_buffer, StaysPrimed, HalfPreroll
<1> HIDE DEF left
<1> QED
  BY <1>2, <1>3 DEF PrimedIsHalfFull

-----------------------------------------------------------------------------

\* A frame built for a flow adds at most a runtime.
LEMMA BuildKeepsRings ==
    ASSUME RingInv, NEW p \in Flows, BuildNextAudioFrame(p)
    PROVE  RingInv'
BY DEF RingInv, OutputTypeOK, PrimedIsHalfFull, BuildNextAudioFrame

LEMMA StepKeepsRings ==
    ASSUME RingInv, [Next]_vars
    PROVE  RingInv'
<1>1. CASE UNCHANGED outputVars
  BY <1>1 DEF RingInv, OutputTypeOK, PrimedIsHalfFull, outputVars
<1>2. CASE \E p \in Flows : BuildNextAudioFrame(p)
  BY <1>2, BuildKeepsRings
<1>3. CASE \E p \in Speakers : RegisterPeer(p) \/ DisconnectPeer(p) \/ PlayPcm(p)
  BY <1>3, EngineKeepsRings
<1>4. CASE \E started, renamed \in BOOLEAN : HandleCommand(started, renamed)
  BY <1>4, HandleCommandKeepsRings
<1>5. CASE \E p \in Speakers, n \in Buffers : fill_output_buffer(p, n)
  BY <1>5, FillKeepsRings
<1> QED
  BY <1>1, <1>2, <1>3, <1>4, <1>5 DEF Next, EngineStep, Beside, vars

LEMMA InitRings == Init => RingInv
<1> SUFFICES ASSUME Init PROVE RingInv
  OBVIOUS
<1>1. commands \in Seq(Commands) /\ Len(commands) <= COMMAND_DEPTH
  BY OutputAssumption DEF Init, OutputInit
<1> QED
  BY <1>1, OutputAssumption
     DEF Init, OutputInit, RingInv, OutputTypeOK, PrimedIsHalfFull

\* The inductive invariant of the rings, for every choice of the constants.
THEOREM RingsSafe == Spec => []RingInv
<1>1. RingInv /\ [Next]_vars => RingInv'
  BY StepKeepsRings
<1> QED
  BY <1>1, InitRings, PTL DEF Spec

\* However pushes, callbacks, overflows and reconnections interleave, PipeWire's callback
\* with a buffer of at most half a preroll never empties the ring of a peer that is
\* playing (fill_output_buffer).
THEOREM PlaysWithoutGap == Spec => []NoGapWhilePrimed
<1>1. RingInv => NoGapWhilePrimed
  <2> SUFFICES ASSUME RingInv, NEW p \in primed, NEW n \in Buffers,
                      2 * n <= MIN_PREROLL_SAMPLES
               PROVE  samples[p] >= n
    BY DEF NoGapWhilePrimed
  <2>1. samples[p] \in Nat /\ samples[p] >= HalfPreroll
    BY OutputAssumption DEF RingInv, OutputTypeOK, PrimedIsHalfFull
  <2> QED
    BY <2>1, HalfPrerollFacts
<1> QED
  BY <1>1, RingsSafe, PTL

-----------------------------------------------------------------------------
(* Nodes and runtimes.  NodesFollowRuntimes is inductive once the commands *)
(* are known to be a sequence of commands.                                 *)

\* The positions of a command in the channel.
At(q, cmd, p) == {i \in DOMAIN q : q[i] = [cmd |-> cmd, peer |-> p]}

\* NodesFollowRuntimes for one peer.
Followed(p) ==
    p \in nodes \/ At(commands, "Register", p) # {}
      => \E i \in At(commands, "Remove", p) : \A j \in At(commands, "Register", p) : j < i

LEMMA FollowedIsProperty ==
    NodesFollowRuntimes <=> \A p \in Speakers \ output_registered : Followed(p)
BY DEF NodesFollowRuntimes, Followed, At

\* A command of one peer behind the others leaves those of another where they are.
LEMMA AppendElsewhere ==
    ASSUME NEW q \in Seq(Commands), NEW c \in Commands, NEW p \in Speakers, c.peer # p,
           NEW cmd \in {"Register", "Remove"}
    PROVE  At(Append(q, c), cmd, p) = At(q, cmd, p)
<1>1. DOMAIN Append(q, c) = 1..(Len(q) + 1) /\ DOMAIN q = 1..Len(q)
  OBVIOUS
<1>2. \A i \in 1..Len(q) : Append(q, c)[i] = q[i]
  OBVIOUS
<1>3. Append(q, c)[Len(q) + 1] = c /\ c # [cmd |-> cmd, peer |-> p]
  OBVIOUS
<1> QED
  BY <1>1, <1>2, <1>3 DEF At

\* The engine's commands: what it queues for a peer it drops ends with the removal.
LEMMA EngineKeepsFollowed ==
    ASSUME RingInv, NodesFollowRuntimes, NEW p \in Speakers,
           RegisterPeer(p) \/ DisconnectPeer(p) \/ PlayPcm(p)
    PROVE  NodesFollowRuntimes'
<1> SUFFICES ASSUME NEW r \in Speakers, r \notin output_registered'
             PROVE  Followed(r)'
  BY DEF NodesFollowRuntimes, Followed, At
<1>0. commands \in Seq(Commands)
  BY DEF RingInv, OutputTypeOK
<1>1. r \notin output_registered => Followed(r)
  BY FollowedIsProperty
<1>2. CASE RegisterPeer(p)
  BY <1>1, <1>2 DEF RegisterPeer, Followed, At
<1>3. CASE DisconnectPeer(p)
  <2> DEFINE c == [cmd |-> "Remove", peer |-> p]
  <2>1. c \in Commands /\ c.peer = p
    BY DEF Commands
  <2>2. commands' = Append(commands, c) /\ nodes' = nodes
        /\ (r # p => r \notin output_registered)
    BY <1>3 DEF DisconnectPeer
  <2>3. CASE r # p
    <3> HIDE DEF c
    <3>1. \A cmd \in {"Register", "Remove"} : At(commands, cmd, r)' = At(commands, cmd, r)
      BY <1>0, <2>1, <2>2, <2>3, AppendElsewhere DEF At
    <3> QED
      BY <3>1, <1>1, <2>2, <2>3 DEF Followed
  <2>4. CASE r = p
    <3>1. Len(commands) + 1 \in At(commands', "Remove", p)
      BY <1>0, <2>2 DEF At
    <3>2. \A j \in At(commands', "Register", p) : j < Len(commands) + 1
      BY <1>0, <2>2 DEF At
    <3> QED
      BY <3>1, <3>2, <2>4 DEF Followed
  <2> QED
    BY <2>3, <2>4
<1>4. CASE PlayPcm(p)
  <2> DEFINE reg  == [cmd |-> "Register", peer |-> p]
             push == [cmd |-> "Push", peer |-> p]
             sent == IF p \in output_registered THEN commands ELSE Append(commands, reg)
  <2>1. reg \in Commands /\ push \in Commands /\ reg.peer = p /\ push.peer = p
    BY DEF Commands
  <2>2. r # p /\ r \notin output_registered /\ nodes' = nodes
    BY <1>4 DEF PlayPcm
  <2>3. commands' = Append(sent, push)
    BY <1>0, <1>4 DEF PlayPcm
  <2> HIDE DEF reg, push
  <2>4. sent \in Seq(Commands)
    BY <1>0, <2>1
  <2>5. \A cmd \in {"Register", "Remove"} : At(sent, cmd, r) = At(commands, cmd, r)
    BY <1>0, <2>1, <2>2, AppendElsewhere
  <2> HIDE DEF sent
  <2>6. \A cmd \in {"Register", "Remove"} : At(commands', cmd, r) = At(sent, cmd, r)
    BY <2>1, <2>2, <2>3, <2>4, AppendElsewhere
  <2> QED
    BY <1>1, <2>2, <2>5, <2>6 DEF Followed
<1> QED
  BY <1>2, <1>3, <1>4

\* The backend handles the oldest command: the rest move up by one place.
LEMMA HandleCommandKeepsFollowed ==
    ASSUME RingInv, NodesFollowRuntimes, NEW started \in BOOLEAN, NEW renamed \in BOOLEAN,
           HandleCommand(started, renamed)
    PROVE  NodesFollowRuntimes'
<1> SUFFICES ASSUME NEW r \in Speakers, r \notin output_registered'
             PROVE  Followed(r)'
  BY DEF NodesFollowRuntimes, Followed, At
<1>0. commands \in Seq(Commands) /\ commands # <<>> /\ commands' = Tail(commands)
  BY DEF RingInv, OutputTypeOK, HandleCommand
<1>1. Followed(r)
  BY FollowedIsProperty DEF HandleCommand
<1>2. \A cmd \in {"Register", "Remove"} : \A i \in Nat :
        i \in At(commands', cmd, r) <=> i # 0 /\ i + 1 \in At(commands, cmd, r)
  <2>1. DOMAIN commands = 1..Len(commands) /\ DOMAIN Tail(commands) = 1..(Len(commands) - 1)
        /\ Len(commands) \in Nat
    BY <1>0
  <2>2. \A i \in 1..(Len(commands) - 1) : Tail(commands)[i] = commands[i + 1]
    BY <1>0
  <2> QED
    BY <1>0, <2>1, <2>2 DEF At
<1>3. \A cmd : At(commands, cmd, r) \subseteq Nat \ {0} /\ At(commands', cmd, r) \subseteq Nat \ {0}
  BY <1>0 DEF At
<1>4. CASE 1 \in At(commands, "Remove", r)
  <2>1. r \notin nodes'
    <3>1. Head(commands) = [cmd |-> "Remove", peer |-> r]
      BY <1>0, <1>4 DEF At
    <3>2. Head(commands).cmd = "Remove" /\ Head(commands).peer = r
      BY <3>1
    <3>3. remove_peer_node(Head(commands).peer)
      BY <3>2 DEF HandleCommand
    <3> QED
      BY <3>2, <3>3 DEF remove_peer_node
  <2>2. CASE At(commands', "Register", r) = {}
    BY <2>1, <2>2 DEF Followed
  <2>3. CASE At(commands', "Register", r) # {}
    <3>1. PICK j \in At(commands', "Register", r) : TRUE
      BY <2>3
    <3>2. j + 1 \in At(commands, "Register", r)
      BY <3>1, <1>2, <1>3
    <3>3. PICK i \in At(commands, "Remove", r) : \A k \in At(commands, "Register", r) : k < i
      BY <3>2, <1>1 DEF Followed
    <3>4. i \in Nat /\ i - 1 \in Nat \ {0}
      BY <3>2, <3>3, <1>3
    <3>5. i - 1 \in At(commands', "Remove", r)
      BY <3>3, <3>4, <1>2
    <3>6. \A k \in At(commands', "Register", r) : k < i - 1
      BY <3>3, <3>4, <1>2, <1>3
    <3> QED
      BY <3>5, <3>6 DEF Followed
  <2> QED
    BY <2>2, <2>3
<1>5. CASE 1 \notin At(commands, "Remove", r)
  <2>1. r \in nodes' \/ At(commands', "Register", r) # {}
          => r \in nodes \/ At(commands, "Register", r) # {}
    <3>1. CASE At(commands', "Register", r) # {}
      BY <3>1, <1>2, <1>3
    <3>2. CASE r \in nodes' /\ r \notin nodes
      <4>0. Head(commands) = commands[1] /\ 1 \in DOMAIN commands
            /\ Head(commands) \in Commands
        BY <1>0
      <4>1. Head(commands).cmd = "Register" /\ Head(commands).peer = r
        BY <3>2, <4>0 DEF HandleCommand, Commands, ensure_peer_node, remove_peer_node, push_peer_pcm
      <4> QED
        BY <4>0, <4>1 DEF At, Commands
    <3> QED
      BY <3>1, <3>2
  <2>2. CASE r \in nodes' \/ At(commands', "Register", r) # {}
    <3>1. PICK i \in At(commands, "Remove", r) : \A k \in At(commands, "Register", r) : k < i
      BY <2>1, <2>2, <1>1 DEF Followed
    <3>2. i \in Nat /\ i - 1 \in Nat \ {0}
      BY <3>1, <1>3, <1>5
    <3>3. i - 1 \in At(commands', "Remove", r)
      BY <3>1, <3>2, <1>2
    <3>4. \A k \in At(commands', "Register", r) : k < i - 1
      BY <3>1, <3>2, <1>2, <1>3
    <3> QED
      BY <3>3, <3>4 DEF Followed
  <2> QED
    BY <2>2 DEF Followed
<1> QED
  BY <1>4, <1>5

\* No node outlives its peer's runtime without a removal on its way, however the engine's
\* commands and the backend's task interleave (DisconnectPeer, drive_playout).
THEOREM NodesFollow == Spec => []NodesFollowRuntimes
<1>1. Init => NodesFollowRuntimes
  BY DEF Init, OutputInit, NodesFollowRuntimes
<1>2. RingInv /\ NodesFollowRuntimes /\ [Next]_vars => NodesFollowRuntimes'
  <2> SUFFICES ASSUME RingInv, NodesFollowRuntimes, [Next]_vars
               PROVE  NodesFollowRuntimes'
    OBVIOUS
  <2>1. CASE UNCHANGED <<output_registered, commands, nodes>>
    <3> SUFFICES ASSUME NEW r \in Speakers, r \notin output_registered'
                 PROVE  Followed(r)'
      BY DEF NodesFollowRuntimes, Followed, At
    <3>1. Followed(r)
      BY <2>1, FollowedIsProperty
    <3> QED
      BY <2>1, <3>1 DEF Followed
  <2>2. CASE \E p \in Speakers : RegisterPeer(p) \/ DisconnectPeer(p) \/ PlayPcm(p)
    BY <2>2, EngineKeepsFollowed
  <2>3. CASE \E started, renamed \in BOOLEAN : HandleCommand(started, renamed)
    BY <2>3, HandleCommandKeepsFollowed
  <2>4. (\E p \in Flows : BuildNextAudioFrame(p)) => UNCHANGED <<output_registered, commands, nodes>>
    BY DEF BuildNextAudioFrame
  <2>5. (\E p \in Speakers, n \in Buffers : fill_output_buffer(p, n))
          => UNCHANGED <<output_registered, commands, nodes>>
    BY DEF fill_output_buffer
  <2> QED
    BY <2>1, <2>2, <2>3, <2>4, <2>5 DEF Next, EngineStep, Beside, vars, outputVars
<1> QED
  BY <1>1, <1>2, RingsSafe, PTL DEF Spec

-----------------------------------------------------------------------------
(* The microphone side: the resampler stays inside its samples.            *)

PipelineFields ==
    {"sample_rate_hz", "input_samples", "output_cursor", "frame_assembly", "ready_frames",
     "last_frame"}

Chunks == [sample_rate_hz : Nat \ {0}, samples : Seq(Nat)]

ResamplerInv ==
    /\ running \in BOOLEAN
    /\ ~running => mic > 2 * SAMPLE_RATE
    /\ mic \in Nat
    /\ stamp \in Nat
    /\ chunk_rx \in Seq(Chunks)
    /\ \A i \in DOMAIN chunk_rx : chunk_rx[i].sample_rate_hz = mic
    /\ DOMAIN capture = PipelineFields
    /\ capture.sample_rate_hz \in Nat \ {0}
    /\ capture.output_cursor \in 0..(SAMPLE_RATE - 1)
    /\ capture.input_samples \in Seq(Nat)

\* Division rounds down.
LEMMA DivFacts ==
    ASSUME NEW a \in Nat, NEW b \in Nat \ {0}
    PROVE  /\ a \div b \in Nat
           /\ (a \div b) * b <= a
           /\ a % b \in 0..(b - 1)
           /\ \A k \in Nat : a < (k + 1) * b => a \div b <= k
<1>1. a \div b \in Nat /\ a % b \in 0..(b - 1) /\ a = (a \div b) * b + (a % b)
  OBVIOUS
<1> DEFINE q == a \div b
<1>2. q \in Nat /\ q * b <= a
  BY <1>1
<1>3. ASSUME NEW k \in Nat, a < (k + 1) * b
      PROVE  q <= k
  <2> HIDE DEF q
  <2>1. SUFFICES ASSUME q >= k + 1 PROVE FALSE
    BY <1>2
  <2>2. q * b >= (k + 1) * b
    BY <1>2, <2>1
  <2> QED
    BY <1>2, <1>3, <2>2
<1> QED
  BY <1>1, <1>2, <1>3

LEMMA PushedIsNat ==
    ASSUME NEW len \in Nat, NEW cursor \in 0..(SAMPLE_RATE - 1), NEW rate \in Nat \ {0}
    PROVE  Pushed(len, cursor, rate) \in Nat
<1>1. SAMPLE_RATE \in Nat \ {0}
  BY CaptureAssumption
<1>2. CASE len < 2
  BY <1>2 DEF Pushed
<1>3. CASE len >= 2
  <2> DEFINE a == (len - 1) * SAMPLE_RATE - cursor + rate - 1
  <2>1. (len - 1) * SAMPLE_RATE >= SAMPLE_RATE /\ (len - 1) * SAMPLE_RATE \in Nat
    BY <1>1, <1>3
  <2>2. a \in Nat /\ Pushed(len, cursor, rate) = a \div rate
    BY <1>1, <1>3, <2>1 DEF Pushed
  <2> HIDE DEF a
  <2> QED
    BY <2>2, DivFacts
<1> QED
  BY <1>2, <1>3

\* A step of at most two samples never drains past the end: the loop stops at the first
\* position without a right neighbour, which is at most one sample further on.
LEMMA DrainsWithinSamples ==
    ASSUME NEW len \in Nat, NEW cursor \in 0..(SAMPLE_RATE - 1),
           NEW rate \in 1..(2 * SAMPLE_RATE)
    PROVE  (cursor + Pushed(len, cursor, rate) * rate) \div SAMPLE_RATE <= len
<1> DEFINE S == SAMPLE_RATE
           n == Pushed(len, cursor, rate)
<1>1. S \in Nat \ {0}
  BY CaptureAssumption
<1>2. CASE len < 2
  <2>1. n = 0 /\ cursor \in Nat /\ cursor < S
    BY <1>1, <1>2 DEF Pushed
  <2>2. cursor \div S <= 0
    <3>1. cursor < (0 + 1) * S
      BY <1>1, <2>1
    <3> HIDE DEF n, S
    <3> QED
      BY <1>1, <2>1, <3>1, DivFacts
  <2> QED
    BY <1>1, <2>1, <2>2
<1>3. CASE len >= 2
  <2> DEFINE a == (len - 1) * S - cursor + rate - 1
  <2>1. (len - 1) * S >= S /\ (len - 1) * S \in Nat
    BY <1>1, <1>3
  <2>2. a \in Nat
    BY <1>1, <2>1
  <2>3. n = a \div rate
    BY <1>3 DEF Pushed
  <2>4. n \in Nat /\ n * rate <= a
    <3>1. rate \in Nat \ {0}
      BY <1>1
    <3> HIDE DEF a, n, S
    <3> QED
      BY <2>2, <2>3, <3>1, DivFacts
  <2>5. (len - 1) * S + 2 * S = (len + 1) * S
    BY <1>1
  <2>6. cursor + n * rate \in Nat /\ cursor + n * rate < (len + 1) * S
    <3> HIDE DEF n
    <3>1. n * rate \in Nat
      BY <2>4
    <3> QED
      BY <3>1, <1>1, <2>1, <2>4, <2>5
  <2> QED
    BY <1>1, <2>4, <2>6, DivFacts
<1> QED
  BY <1>2, <1>3

\* ingest keeps the engine alive, unless the device is too fast.
LEMMA IngestKeepsResampler ==
    ASSUME ResamplerInv, ingest
    PROVE  ResamplerInv'
<1> DEFINE chunk == Head(chunk_rx)
           c     == WithChunk(chunk)
           len   == Len(c.input_samples)
<1>0. SAMPLE_RATE \in Nat \ {0}
  BY CaptureAssumption
<1>1. chunk \in Chunks /\ chunk_rx' \in Seq(Chunks) /\ UNCHANGED <<mic, stamp>>
      /\ chunk.sample_rate_hz = mic /\ running
      /\ \A i \in DOMAIN chunk_rx' : chunk_rx'[i].sample_rate_hz = mic
  <2>1. chunk_rx \in Seq(Chunks) /\ chunk_rx # <<>> /\ chunk_rx' = Tail(chunk_rx)
        /\ \A i \in DOMAIN chunk_rx : chunk_rx[i].sample_rate_hz = mic
    BY DEF ingest, ResamplerInv
  <2>2. chunk \in Chunks /\ chunk = chunk_rx[1] /\ 1 \in DOMAIN chunk_rx
    BY <2>1
  <2>3. \A i \in DOMAIN chunk_rx' : i + 1 \in DOMAIN chunk_rx /\ chunk_rx'[i] = chunk_rx[i + 1]
    BY <2>1
  <2>4. chunk_rx' \in Seq(Chunks)
    BY <2>1
  <2> QED
    BY <2>1, <2>2, <2>3, <2>4 DEF ingest
<1>2. /\ DOMAIN c = PipelineFields
      /\ c.sample_rate_hz = mic /\ c.sample_rate_hz \in Nat \ {0}
      /\ c.output_cursor \in 0..(SAMPLE_RATE - 1)
      /\ c.input_samples \in Seq(Nat)
  <2>1. chunk.samples \in Seq(Nat) /\ chunk.sample_rate_hz \in Nat \ {0}
    BY <1>1 DEF Chunks
  <2>2. CASE chunk.sample_rate_hz = capture.sample_rate_hz
    <3>1. c = [capture EXCEPT !.input_samples = @ \o chunk.samples]
      BY <2>2 DEF WithChunk
    <3>2. capture.input_samples \o chunk.samples \in Seq(Nat)
      BY <2>1, ConcatFacts DEF ResamplerInv
    <3> HIDE DEF chunk
    <3>3. /\ DOMAIN c = PipelineFields
          /\ c.sample_rate_hz = capture.sample_rate_hz
          /\ c.output_cursor = capture.output_cursor
          /\ c.input_samples = capture.input_samples \o chunk.samples
      <4> HIDE DEF c
      <4> QED
        BY <3>1 DEF ResamplerInv, PipelineFields
    <3> QED
      BY <1>1, <2>2, <3>2, <3>3 DEF ResamplerInv, chunk
  <2>3. CASE chunk.sample_rate_hz # capture.sample_rate_hz
    <3> DEFINE e == EmptyPipeline(chunk.sample_rate_hz)
    <3>1. c = [e EXCEPT !.input_samples = @ \o chunk.samples]
      BY <2>3 DEF WithChunk
    <3> QED
      BY <1>0, <1>1, <2>1, <3>1 DEF EmptyPipeline, PipelineFields
  <2> QED
    BY <2>2, <2>3
<1> HIDE DEF c
<1>3. len \in Nat /\ (mic <= 2 * SAMPLE_RATE => Drained(c) <= len)
  <2>1. len \in Nat
    BY <1>2
  <2>2. ASSUME mic <= 2 * SAMPLE_RATE
        PROVE  Drained(c) <= len
    <3>1. c.sample_rate_hz \in 1..(2 * SAMPLE_RATE)
      BY <1>0, <1>2, <2>2
    <3> QED
      BY <1>2, <2>1, <3>1, DrainsWithinSamples DEF Drained, Position
  <2> QED
    BY <2>1, <2>2
<1>4. Position(c, len) \in Nat /\ Position(c, len) % SAMPLE_RATE \in 0..(SAMPLE_RATE - 1)
      /\ Drained(c) \in Nat
  <2>1. Pushed(len, c.output_cursor, c.sample_rate_hz) \in Nat
    BY <1>2, <1>3, PushedIsNat
  <2>2. Position(c, len) \in Nat
    BY <1>0, <1>2, <2>1 DEF Position
  <2> QED
    BY <1>0, <2>2, DivFacts DEF Drained
<1>5. CASE chunk.samples = <<>>
  BY <1>1, <1>5 DEF ingest, ResamplerInv
<1>6. CASE chunk.samples # <<>> /\ Drained(c) > len
  <2>1. running' = FALSE /\ capture' = capture
    BY <1>6 DEF ingest, c
  <2>2. mic > 2 * SAMPLE_RATE
    BY <1>0, <1>3, <1>4, <1>6 DEF ResamplerInv
  <2> QED
    BY <1>1, <2>1, <2>2 DEF ResamplerInv
<1>7. CASE chunk.samples # <<>> /\ ~(Drained(c) > len)
  <2> DEFINE r == rebuild_ready_frames(c)
  <2>1. Drained(c) <= len
    BY <1>3, <1>4, <1>7
  <2>2. capture' = [r EXCEPT !.ready_frames = Newest(@)] /\ running' = running
    BY <1>7 DEF ingest, c
  <2>3. /\ DOMAIN capture' = PipelineFields
        /\ capture'.sample_rate_hz = c.sample_rate_hz
        /\ capture'.output_cursor = Position(c, len) % SAMPLE_RATE
        /\ capture'.input_samples = SubSeq(c.input_samples, Drained(c) + 1, len)
    <3>1. /\ DOMAIN r = PipelineFields
          /\ r.sample_rate_hz = c.sample_rate_hz
          /\ r.output_cursor = Position(c, len) % SAMPLE_RATE
          /\ r.input_samples = SubSeq(c.input_samples, Drained(c) + 1, len)
      BY <1>2 DEF rebuild_ready_frames, PipelineFields
    <3> HIDE DEF r
    <3> QED
      BY <2>2, <3>1 DEF PipelineFields
  <2>4. SubSeq(c.input_samples, Drained(c) + 1, len) \in Seq(Nat)
    BY <1>2, <1>3, <1>4, <2>1, SMTT(30)
  <2> QED
    BY <1>1, <1>2, <1>4, <2>2, <2>3, <2>4 DEF ResamplerInv
<1> QED
  BY <1>5, <1>6, <1>7

LEMMA StepKeepsResampler ==
    ASSUME ResamplerInv, [Next]_vars
    PROVE  ResamplerInv'
<1>0. SAMPLE_RATE \in Nat \ {0} /\ Rates \subseteq Nat \ {0}
  BY CaptureAssumption
<1>1. CASE UNCHANGED captureVars
  BY <1>1 DEF ResamplerInv, captureVars
<1>2. CASE ingest
  BY <1>2, IngestKeepsResampler
<1>3. CASE \E p \in Flows : BuildNextAudioFrame(p)
  <2>1. capture' = take_ready_frame /\ UNCHANGED <<mic, stamp, chunk_rx, running>>
    BY <1>3 DEF BuildNextAudioFrame, build_next_audio_frame
  <2> QED
    BY <2>1 DEF ResamplerInv, take_ready_frame, PipelineFields
<1>4. CASE \E rate \in Rates : switch_capture_device(rate)
  <2>1. mic' \in Rates /\ chunk_rx' = <<>> /\ capture' = EmptyPipeline(SAMPLE_RATE)
        /\ UNCHANGED <<stamp, running>> /\ running
    BY <1>4 DEF switch_capture_device
  <2> QED
    BY <1>0, <2>1 DEF ResamplerInv, EmptyPipeline, PipelineFields
<1>5. CASE \E n \in 0..MaxChunk : InputCallback(n)
  <2>1. PICK n \in 0..MaxChunk : InputCallback(n)
    BY <1>5
  <2> DEFINE chunk == [sample_rate_hz |-> mic, samples |-> [i \in 1..n |-> stamp']]
  <2>2. UNCHANGED <<mic, capture, running>> /\ stamp' = stamp + 1 /\ mic # 0
        /\ (chunk_rx' = chunk_rx \/ chunk_rx' = Append(chunk_rx, chunk))
    BY <2>1 DEF InputCallback
  <2>3. chunk \in Chunks
    <3>1. n \in Nat /\ stamp' \in Nat
      BY <2>2, CaptureAssumption DEF ResamplerInv
    <3>2. [i \in 1..n |-> stamp'] \in Seq(Nat)
      BY <3>1
    <3>3. mic \in Nat \ {0}
      BY <1>0, <2>2 DEF ResamplerInv
    <3> QED
      BY <3>2, <3>3 DEF Chunks
  <2>4. chunk_rx' \in Seq(Chunks) /\ \A i \in DOMAIN chunk_rx' : chunk_rx'[i].sample_rate_hz = mic
    <3>1. chunk.sample_rate_hz = mic
      OBVIOUS
    <3>2. chunk_rx \in Seq(Chunks) /\ \A i \in DOMAIN chunk_rx : chunk_rx[i].sample_rate_hz = mic
      BY DEF ResamplerInv
    <3> HIDE DEF chunk
    <3>3. CASE chunk_rx' = Append(chunk_rx, chunk)
      <4>1. \A i \in DOMAIN chunk_rx' :
              chunk_rx'[i] = chunk \/ (i \in DOMAIN chunk_rx /\ chunk_rx'[i] = chunk_rx[i])
        BY <2>3, <3>2, <3>3
      <4>2. chunk_rx' \in Seq(Chunks)
        BY <2>3, <3>2, <3>3
      <4> QED
        BY <3>1, <3>2, <4>1, <4>2
    <3> QED
      BY <2>2, <3>2, <3>3 DEF chunk
  <2> QED
    BY <2>2, <2>4 DEF ResamplerInv
<1> QED
  BY <1>1, <1>2, <1>3, <1>4, <1>5 DEF Next, EngineStep, Beside, vars

LEMMA InitResampler == Init => ResamplerInv
<1> SUFFICES ASSUME Init PROVE ResamplerInv
  OBVIOUS
<1>1. SAMPLE_RATE \in Nat \ {0} /\ Rates \subseteq Nat \ {0}
  BY CaptureAssumption
<1> QED
  BY <1>1 DEF Init, CaptureInit, ResamplerInv, EmptyPipeline, PipelineFields

\* Whatever chunks, rates and device switches there are, the resampler drains samples that
\* are not there only for a device faster than twice the engine's rate
\* (rebuild_ready_frames).
THEOREM EngineNeverPanics == Spec => []EngineSurvives
<1>1. ResamplerInv /\ [Next]_vars => ResamplerInv'
  BY StepKeepsResampler
<1>2. ResamplerInv => EngineSurvives
  BY DEF ResamplerInv, EngineSurvives
<1> QED
  BY <1>1, <1>2, InitResampler, PTL DEF Spec

-----------------------------------------------------------------------------
(* The microphone side: the pipeline keeps its types and its limits, holds *)
(* nothing of a device that was switched away, and keeps the samples in    *)
(* the order in which they were recorded all the way to the peers.         *)

Ordered(s) == \A i, j \in DOMAIN s : i <= j => s[i] <= s[j]

Vals(s) == {s[i] : i \in DOMAIN s}
FrameVals(frames) == UNION {Vals(frames[i]) : i \in DOMAIN frames}
ChunkVals(chunks) == UNION {Vals(chunks[i].samples) : i \in DOMAIN chunks}

UpTo(A, B) == \A a \in A, b \in B : a <= b

\* All that is buffered in a pipeline.
Buffered(c) == FrameVals(c.ready_frames) \cup Vals(c.frame_assembly) \cup Vals(c.input_samples)

\* Frames one behind the other, each in order.
FramesInOrder(frames) ==
    \A i, j \in DOMAIN frames :
        /\ Ordered(frames[i])
        /\ i < j => UpTo(Vals(frames[i]), Vals(frames[j]))

\* A pipeline of natural numbers in order: the ready frames, behind them the frame being
\* assembled, behind that the samples not yet resampled.
InOrder(c) ==
    /\ FramesInOrder(c.ready_frames)
    /\ Ordered(c.frame_assembly) /\ Ordered(c.input_samples)
    /\ UpTo(FrameVals(c.ready_frames), Vals(c.frame_assembly) \cup Vals(c.input_samples))
    /\ UpTo(Vals(c.frame_assembly), Vals(c.input_samples))

ChunksInOrder(chunks) ==
    \A i, j \in DOMAIN chunks :
        /\ Ordered(chunks[i].samples)
        /\ i < j => UpTo(Vals(chunks[i].samples), Vals(chunks[j].samples))

\* The types, the limits of the queues and the rate of what is in the channel.
PipelineOK ==
    /\ ResamplerInv /\ mic \in Rates \cup {0} /\ stamp \in 0..MaxStamp /\ opened \in 0..stamp
    /\ Len(chunk_rx) <= MAX_CAPTURE_QUEUE_DEPTH
    /\ \A i \in DOMAIN chunk_rx : chunk_rx[i].sample_rate_hz = mic
    /\ capture.sample_rate_hz \in Rates \cup {SAMPLE_RATE}
    /\ capture.frame_assembly \in Seq(Nat) /\ Len(capture.frame_assembly) < FRAME_SAMPLES
    /\ capture.ready_frames \in Seq([1..FRAME_SAMPLES -> Nat])
    /\ Len(capture.ready_frames) <= MAX_CAPTURE_QUEUE_DEPTH
    /\ capture.last_frame \in Frames
    /\ heard \in [Flows -> Frames]

\* All that waits to be sent was recorded since the running stream was opened.
RecordedSince ==
    /\ Buffered(capture) \subseteq (opened + 1)..stamp
    /\ ChunkVals(chunk_rx) \subseteq (opened + 1)..stamp
    /\ capture.last_frame = Silence \/ Vals(capture.last_frame) \subseteq (opened + 1)..stamp

\* It is in order, in the pipeline and on into the channel.
WaitsInOrder ==
    /\ InOrder(capture) /\ ChunksInOrder(chunk_rx)
    /\ UpTo(Buffered(capture), ChunkVals(chunk_rx))

Waiting == Buffered(capture) \cup ChunkVals(chunk_rx)

\* What was sent, and the frame that may be sent again, is no newer than what waits; and no
\* peer is ahead of the frame that may be sent again.
SentInOrder ==
    /\ Ordered(capture.last_frame)
    /\ Vals(capture.last_frame) \subseteq 0..stamp
    /\ UpTo(Vals(capture.last_frame), Waiting)
    /\ \A p \in Flows :
          /\ Vals(heard[p]) \subseteq 0..stamp
          /\ UpTo(Vals(heard[p]), Waiting)
          /\ capture.last_frame # Silence =>
                heard[p] = capture.last_frame \/ UpTo(Vals(heard[p]), Vals(capture.last_frame))

\* The inductive invariant of the microphone side.
CaptureInv == PipelineOK /\ RecordedSince /\ WaitsInOrder /\ SentInOrder

-----------------------------------------------------------------------------
(* Where the resampler reads *)

LEMMA DivMonotone ==
    ASSUME NEW a \in Nat, NEW b \in Nat, a <= b, NEW d \in Nat \ {0}
    PROVE  a \div d <= b \div d
<1> DEFINE q == b \div d
<1>1. q \in Nat /\ b < (q + 1) * d
  <2>1. b = q * d + (b % d) /\ b % d \in 0..(d - 1) /\ q \in Nat
    OBVIOUS
  <2> HIDE DEF q
  <2>2. (q + 1) * d = q * d + d
    BY <2>1
  <2>3. q * d \in Nat
    BY <2>1
  <2> QED
    BY <2>1, <2>2, <2>3
<1> HIDE DEF q
<1>2. (q + 1) * d \in Nat
  BY <1>1
<1>3. a < (q + 1) * d
  BY <1>1, <1>2
<1>4. a \div d <= q
  BY <1>1, <1>3, DivFacts
<1> QED
  BY <1>4 DEF q

\* The left neighbour of the j-th output sample.
LeftOf(cursor, rate, j) == (cursor + (j - 1) * rate) \div SAMPLE_RATE + 1

\* Output samples are read inside the buffer, from left to right, and never behind the
\* first sample that stays.
LEMMA ReadsForward ==
    ASSUME NEW len \in Nat, NEW cursor \in 0..(SAMPLE_RATE - 1),
           NEW rate \in Nat \ {0}, NEW j \in 1..Pushed(len, cursor, rate)
    PROVE  /\ LeftOf(cursor, rate, j) \in 1..len
           /\ LeftOf(cursor, rate, j)
                <= (cursor + Pushed(len, cursor, rate) * rate) \div SAMPLE_RATE + 1
           /\ \A i \in 1..j : LeftOf(cursor, rate, i) <= LeftOf(cursor, rate, j)
<1> DEFINE S == SAMPLE_RATE
           n == Pushed(len, cursor, rate)
           pos(k) == cursor + (k - 1) * rate
<1>1. S \in Nat \ {0} /\ rate \in Nat \ {0} /\ cursor \in Nat /\ n \in Nat /\ j \in Nat
  BY CaptureAssumption, PushedIsNat
<1>2. len >= 2 /\ n = ((len - 1) * S - cursor + rate - 1) \div rate
  BY <1>1 DEF Pushed
<1>3. n * rate <= (len - 1) * S - cursor + rate - 1
  <2> DEFINE a == (len - 1) * S - cursor + rate - 1
  <2>1. (len - 1) * S >= S /\ (len - 1) * S \in Nat
    BY <1>1, <1>2
  <2>2. a \in Nat /\ n = a \div rate
    BY <1>1, <1>2, <2>1
  <2>3. n * rate <= a
    <3> HIDE DEF a, n
    <3> QED
      BY <1>1, <2>2, DivFacts
  <2> QED
    BY <2>3
<1> HIDE DEF n, S
<1>4. \A k \in Nat : k >= 1 => pos(k) \in Nat
  BY <1>1
<1>5. ASSUME NEW i \in Nat, NEW k \in Nat, 1 <= i, i <= k
      PROVE  pos(i) <= pos(k)
  <2>1. (i - 1) * rate <= (k - 1) * rate
    BY <1>1, <1>5
  <2>2. (i - 1) * rate \in Nat /\ (k - 1) * rate \in Nat
    BY <1>1, <1>5
  <2> QED
    BY <1>1, <2>1, <2>2
<1>6. j >= 1 /\ j <= n
  BY <1>1 DEF n
<1>7. pos(n) < (len - 1) * S
  <2>1. (n - 1) * rate = n * rate - rate /\ n * rate \in Nat
    BY <1>1, <1>6
  <2>2. (len - 1) * S \in Nat
    BY <1>1, <1>2
  <2> QED
    BY <1>1, <1>3, <2>1, <2>2
<1>8. pos(n + 1) = cursor + n * rate
  BY <1>1
<1>9. /\ pos(j) \in Nat /\ pos(n) \in Nat /\ pos(n + 1) \in Nat
      /\ pos(j) <= pos(n) /\ pos(j) <= pos(n + 1)
      /\ \A i \in 1..j : pos(i) \in Nat /\ pos(i) <= pos(j)
  <2>1. /\ n >= 1 /\ j <= n + 1 /\ n + 1 \in Nat
    BY <1>1, <1>6
  <2>2. \A i \in 1..j : i \in Nat /\ 1 <= i /\ i <= j
    BY <1>1
  <2> HIDE DEF pos
  <2> QED
    BY <1>1, <1>4, <1>5, <1>6, <2>1, <2>2
<1>10. \A k : LeftOf(cursor, rate, k) = pos(k) \div S + 1
  BY DEF LeftOf, S
<1>11. pos(j) \div S <= len - 2 /\ pos(j) \div S \in Nat
  <2>1. pos(j) < ((len - 2) + 1) * S
    <3>1. (len - 2) + 1 = len - 1 /\ (len - 1) * S \in Nat
      BY <1>1, <1>2
    <3> HIDE DEF pos
    <3> QED
      BY <1>7, <1>9, <3>1
  <2>2. len - 2 \in Nat
    BY <1>2
  <2> HIDE DEF pos
  <2> QED
    BY <1>1, <1>9, <2>1, <2>2, DivFacts
<1>12. pos(j) \div S <= pos(n + 1) \div S
  <2> HIDE DEF pos
  <2> QED
    BY <1>1, <1>9, DivMonotone
<1>13. ASSUME NEW i \in 1..j
       PROVE  pos(i) \div S <= pos(j) \div S
  <2> HIDE DEF pos
  <2> QED
    BY <1>1, <1>9, DivMonotone
<1>14. \A i \in 1..j : pos(i) \div S \in Nat /\ pos(n + 1) \div S \in Nat
  <2> HIDE DEF pos
  <2> QED
    BY <1>1, <1>9, DivFacts
<1>15. (cursor + Pushed(len, cursor, rate) * rate) \div SAMPLE_RATE = pos(n + 1) \div S
  BY <1>8 DEF n, S
<1> HIDE DEF pos
<1> QED
  BY <1>1, <1>2, <1>10, <1>11, <1>12, <1>13, <1>14, <1>15

-----------------------------------------------------------------------------
(* Cutting samples into frames *)

LEMMA FunctionIsSeq ==
    ASSUME NEW S, NEW n \in Nat, NEW f \in [1..n -> S]
    PROVE  f \in Seq(S) /\ Len(f) = n
OBVIOUS

LEMMA RestOfSeq ==
    ASSUME NEW S, NEW s \in Seq(S), NEW d \in Nat, d <= Len(s),
           NEW rest, rest = SubSeq(s, d + 1, Len(s))
    PROVE  /\ rest \in Seq(S) /\ Len(rest) = Len(s) - d /\ DOMAIN rest = 1..(Len(s) - d)
           /\ \A i \in 1..(Len(s) - d) : rest[i] = s[d + i] /\ d + i \in DOMAIN s
OBVIOUS

LEMMA ValsUpTo ==
    ASSUME NEW s, NEW t, \A i \in DOMAIN s, j \in DOMAIN t : s[i] <= t[j]
    PROVE  UpTo(Vals(s), Vals(t))
BY DEF UpTo, Vals

LEMMA FrameValsFacts ==
    ASSUME NEW frames, NEW A, NEW B,
           \A k \in DOMAIN frames : UpTo(Vals(frames[k]), B) /\ Vals(frames[k]) \subseteq A
    PROVE  UpTo(FrameVals(frames), B) /\ FrameVals(frames) \subseteq A
<1> DEFINE vals(k) == Vals(frames[k])
<1>1. FrameVals(frames) = UNION {vals(k) : k \in DOMAIN frames}
  BY DEF FrameVals
<1> HIDE DEF vals
<1>2. \A v \in FrameVals(frames) : \E k \in DOMAIN frames : v \in vals(k)
  BY <1>1
<1>3. \A v \in FrameVals(frames) : \E k \in DOMAIN frames : v \in Vals(frames[k])
  BY <1>2 DEF vals
<1> QED
  BY <1>3, Zenon DEF UpTo

\* Multiplication keeps the order.
LEMMA TimesMonotone ==
    ASSUME NEW k \in Nat, NEW l \in Nat, NEW f \in Nat, k <= l
    PROVE  k * f <= l * f
<1>1. (l - k) * f \in Nat
  OBVIOUS
<1>2. l * f = k * f + (l - k) * f
  OBVIOUS
<1> QED
  BY <1>1, <1>2

\* A stretch of a sequence.
LEMMA Stretch ==
    ASSUME NEW a \in Seq(Nat), NEW m \in Nat, NEW n \in Nat, m <= n, n <= Len(a)
    PROVE  /\ SubSeq(a, m + 1, n) \in Seq(Nat) /\ Len(SubSeq(a, m + 1, n)) = n - m
           /\ \A i \in 1..(n - m) : SubSeq(a, m + 1, n)[i] = a[m + i] /\ m + i \in 1..Len(a)
  OBVIOUS

\* The k-th frame cut off a sequence of samples.
Cut(a, k) == SubSeq(a, (k - 1) * FRAME_SAMPLES + 1, k * FRAME_SAMPLES)

LEMMA CutFacts ==
    ASSUME NEW a \in Seq(Nat), NEW full, full = Len(a) \div FRAME_SAMPLES,
           NEW k \in 1..full
    PROVE  /\ (k - 1) * FRAME_SAMPLES \in Nat
           /\ k * FRAME_SAMPLES = (k - 1) * FRAME_SAMPLES + FRAME_SAMPLES
           /\ k * FRAME_SAMPLES <= full * FRAME_SAMPLES
           /\ Cut(a, k) \in [1..FRAME_SAMPLES -> Nat]
           /\ \A i \in 1..FRAME_SAMPLES :
                 /\ Cut(a, k)[i] = a[(k - 1) * FRAME_SAMPLES + i]
                 /\ (k - 1) * FRAME_SAMPLES + i \in 1..Len(a)
<1> DEFINE F == FRAME_SAMPLES
           m == (k - 1) * F
           n == k * F
<1>1. F \in Nat \ {0} /\ full \in Nat /\ full * F <= Len(a) /\ Len(a) \in Nat
  <2>1. F \in Nat \ {0} /\ Len(a) \in Nat /\ full = Len(a) \div F
    BY CaptureAssumption
  <2> HIDE DEF F
  <2> QED
    BY <2>1, DivFacts
<1>2. m \in Nat /\ n = m + F /\ n \in Nat
  BY <1>1
<1>3. n <= full * F
  <2>1. k \in Nat /\ k <= full /\ F \in Nat
    BY <1>1
  <2> HIDE DEF F
  <2> QED
    BY <1>1, <2>1, TimesMonotone
<1>4. full * F \in Nat
  BY <1>1
<1>5. n <= Len(a) /\ m <= n /\ n - m = F
  BY <1>1, <1>2, <1>3, <1>4
<1>6. /\ Cut(a, k) = SubSeq(a, m + 1, n)
  BY DEF Cut
<1> HIDE DEF m, n
<1>7. /\ Cut(a, k) \in Seq(Nat) /\ Len(Cut(a, k)) = F
      /\ \A i \in 1..F : Cut(a, k)[i] = a[m + i] /\ m + i \in 1..Len(a)
  <2>1. /\ SubSeq(a, m + 1, n) \in Seq(Nat) /\ Len(SubSeq(a, m + 1, n)) = n - m
        /\ \A i \in 1..(n - m) : SubSeq(a, m + 1, n)[i] = a[m + i] /\ m + i \in 1..Len(a)
    BY <1>2, <1>5, Stretch
  <2> QED
    BY <1>5, <1>6, <2>1
<1>8. Cut(a, k) \in [1..F -> Nat]
  BY <1>7
<1> QED
  BY <1>2, <1>3, <1>7, <1>8 DEF m, n

\* What is left is shorter than a frame.
Remainder(a) == SubSeq(a, (Len(a) \div FRAME_SAMPLES) * FRAME_SAMPLES + 1, Len(a))

LEMMA RemainderFacts ==
    ASSUME NEW a \in Seq(Nat), NEW full, full = Len(a) \div FRAME_SAMPLES
    PROVE  /\ full \in Nat /\ full * FRAME_SAMPLES \in Nat
           /\ Remainder(a) \in Seq(Nat) /\ Len(Remainder(a)) < FRAME_SAMPLES
           /\ \A i \in DOMAIN Remainder(a) :
                 /\ Remainder(a)[i] = a[full * FRAME_SAMPLES + i]
                 /\ full * FRAME_SAMPLES + i \in 1..Len(a)
<1> DEFINE F == FRAME_SAMPLES
           m == full * F
<1>1. F \in Nat \ {0} /\ full \in Nat /\ Len(a) \in Nat
      /\ Len(a) = m + (Len(a) % F) /\ Len(a) % F \in 0..(F - 1)
  BY CaptureAssumption
<1>2. m \in Nat
  BY <1>1
<1>3. Remainder(a) = SubSeq(a, m + 1, Len(a))
  BY DEF Remainder
<1> HIDE DEF m
<1>4. m <= Len(a) /\ Len(a) - m < F
  BY <1>1, <1>2
<1>5. /\ Remainder(a) \in Seq(Nat) /\ Len(Remainder(a)) = Len(a) - m
      /\ \A i \in 1..(Len(a) - m) : Remainder(a)[i] = a[m + i] /\ m + i \in 1..Len(a)
  <2>1. Len(a) \in Nat
    BY <1>1
  <2>2. /\ SubSeq(a, m + 1, Len(a)) \in Seq(Nat) /\ Len(SubSeq(a, m + 1, Len(a))) = Len(a) - m
        /\ \A i \in 1..(Len(a) - m) :
              SubSeq(a, m + 1, Len(a))[i] = a[m + i] /\ m + i \in 1..Len(a)
    <3> DEFINE n == Len(a)
    <3>1. n \in Nat /\ m <= n /\ n <= Len(a)
      BY <1>4, <2>1
    <3> HIDE DEF n
    <3>2. /\ SubSeq(a, m + 1, n) \in Seq(Nat) /\ Len(SubSeq(a, m + 1, n)) = n - m
          /\ \A i \in 1..(n - m) : SubSeq(a, m + 1, n)[i] = a[m + i] /\ m + i \in 1..Len(a)
      BY <1>2, <3>1, Stretch, Zenon
    <3> QED
      BY <3>2 DEF n
  <2> QED
    BY <1>3, <2>2, Zenon
<1>6. DOMAIN Remainder(a) = 1..(Len(a) - m)
  BY <1>5
<1> QED
  BY <1>1, <1>2, <1>4, <1>5, <1>6 DEF m

\* Frames cut from samples in order are in order, and the remainder is behind them.
LEMMA CutInOrder ==
    ASSUME NEW a \in Seq(Nat), Ordered(a), NEW full, full = Len(a) \div FRAME_SAMPLES,
           NEW frames, frames = [k \in 1..full |-> Cut(a, k)]
    PROVE  /\ frames \in Seq([1..FRAME_SAMPLES -> Nat])
           /\ FramesInOrder(frames) /\ Ordered(Remainder(a))
           /\ UpTo(FrameVals(frames), Vals(Remainder(a)))
           /\ FrameVals(frames) \subseteq Vals(a) /\ Vals(Remainder(a)) \subseteq Vals(a)
<1> DEFINE F == FRAME_SAMPLES
           r == Remainder(a)
           m == full * F
           b(k) == (k - 1) * F
<1>0. F \in Nat \ {0} /\ DOMAIN a = 1..Len(a) /\ Len(a) \in Nat
  BY CaptureAssumption
<1>1. /\ full \in Nat /\ m \in Nat /\ r \in Seq(Nat)
      /\ \A i \in DOMAIN r : r[i] = a[m + i] /\ m + i \in 1..Len(a)
  BY RemainderFacts
<1>2. \A k \in 1..full :
        /\ b(k) \in Nat /\ b(k) + F <= m
        /\ frames[k] \in [1..F -> Nat]
        /\ \A i \in 1..F : frames[k][i] = a[b(k) + i] /\ b(k) + i \in 1..Len(a)
  BY CutFacts
<1>3. DOMAIN frames = 1..full /\ DOMAIN r \subseteq Nat \ {0}
  BY <1>1
<1>4. \A k \in 1..full : DOMAIN frames[k] = 1..F
  BY <1>2
<1>5. frames \in Seq([1..F -> Nat])
  <2>1. frames \in [1..full -> [1..F -> Nat]]
    BY <1>2
  <2> QED
    BY <1>1, <2>1, FunctionIsSeq
<1>6. ASSUME NEW k \in 1..full, NEW l \in 1..full, k < l
      PROVE  b(k) + F <= b(l)
  <2>1. k \in Nat /\ l - 1 \in Nat /\ k <= l - 1
    BY <1>1, <1>6
  <2>2. k * F <= (l - 1) * F
    BY <1>0, <2>1, TimesMonotone
  <2>3. (k - 1) * F + F = k * F
    BY <1>0, <2>1
  <2> QED
    BY <2>2, <2>3
<1> HIDE DEF r, m, b, F
<1>7. ASSUME NEW k \in 1..full
      PROVE  Ordered(frames[k]) /\ Vals(frames[k]) \subseteq Vals(a)
  <2>1. DOMAIN frames[k] = 1..F /\ b(k) \in Nat
        /\ \A i \in 1..F : frames[k][i] = a[b(k) + i] /\ b(k) + i \in 1..Len(a)
    BY <1>2, <1>4
  <2>2. ASSUME NEW i \in 1..F, NEW j \in 1..F, i <= j
        PROVE  frames[k][i] <= frames[k][j]
    <3>1. b(k) + i <= b(k) + j
      BY <1>0, <2>1, <2>2
    <3> QED
      BY <1>0, <2>1, <3>1 DEF Ordered
  <2>3. Ordered(frames[k])
    BY <2>1, <2>2 DEF Ordered
  <2>4. Vals(frames[k]) \subseteq Vals(a)
    BY <1>0, <2>1 DEF Vals
  <2> QED
    BY <2>3, <2>4
<1>8. ASSUME NEW k \in 1..full, NEW l \in 1..full, k < l
      PROVE  UpTo(Vals(frames[k]), Vals(frames[l]))
  <2>1. ASSUME NEW i \in 1..F, NEW j \in 1..F
        PROVE  frames[k][i] <= frames[l][j]
    <3>1. b(k) \in Nat /\ b(l) \in Nat /\ b(k) + F <= b(l)
      BY <1>2, <1>6, <1>8
    <3>2. b(k) + i <= b(l) + j
      BY <1>0, <3>1
    <3>3. frames[k][i] = a[b(k) + i] /\ b(k) + i \in DOMAIN a
          /\ frames[l][j] = a[b(l) + j] /\ b(l) + j \in DOMAIN a
      BY <1>0, <1>2
    <3> QED
      BY <3>2, <3>3 DEF Ordered
  <2>2. DOMAIN frames[k] = 1..F /\ DOMAIN frames[l] = 1..F
    BY <1>4
  <2> QED
    BY <2>1, <2>2, ValsUpTo
<1>9. Ordered(r) /\ Vals(r) \subseteq Vals(a)
  <2>1. ASSUME NEW i \in DOMAIN r, NEW j \in DOMAIN r, i <= j
        PROVE  r[i] <= r[j]
    <3>1. i \in Nat /\ j \in Nat /\ m + i <= m + j
      BY <1>1, <1>3, <2>1
    <3> QED
      BY <1>0, <1>1, <3>1 DEF Ordered
  <2> QED
    BY <1>0, <1>1, <2>1 DEF Ordered, Vals
<1>10. ASSUME NEW k \in 1..full
       PROVE  UpTo(Vals(frames[k]), Vals(r))
  <2>1. ASSUME NEW i \in 1..F, NEW j \in DOMAIN r
        PROVE  frames[k][i] <= r[j]
    <3>1. b(k) \in Nat /\ b(k) + F <= m /\ j \in Nat
      BY <1>2, <1>3
    <3>2. b(k) + i <= m + j
      BY <1>0, <1>1, <3>1
    <3>3. frames[k][i] = a[b(k) + i] /\ b(k) + i \in DOMAIN a
          /\ r[j] = a[m + j] /\ m + j \in DOMAIN a
      BY <1>0, <1>1, <1>2
    <3> QED
      BY <3>2, <3>3 DEF Ordered
  <2>2. DOMAIN frames[k] = 1..F
    BY <1>4
  <2> QED
    BY <2>1, <2>2, ValsUpTo
<1>11. FramesInOrder(frames)
  <2> SUFFICES ASSUME NEW k \in 1..full, NEW l \in 1..full
               PROVE  /\ Ordered(frames[k])
                      /\ k < l => UpTo(Vals(frames[k]), Vals(frames[l]))
    BY <1>3, Zenon DEF FramesInOrder
  <2> QED
    BY <1>7, <1>8
<1>12. UpTo(FrameVals(frames), Vals(r)) /\ FrameVals(frames) \subseteq Vals(a)
  <2>1. \A k \in DOMAIN frames :
          UpTo(Vals(frames[k]), Vals(r)) /\ Vals(frames[k]) \subseteq Vals(a)
    BY <1>3, <1>7, <1>10
  <2> QED
    BY <2>1, FrameValsFacts
<1> QED
  BY <1>5, <1>9, <1>11, <1>12 DEF r, F

-----------------------------------------------------------------------------
(* Joining and shortening *)

LEMMA ConcatInOrder ==
    ASSUME NEW s \in Seq(Nat), NEW t \in Seq(Nat), Ordered(s), Ordered(t),
           UpTo(Vals(s), Vals(t)), NEW u, u = s \o t
    PROVE  u \in Seq(Nat) /\ Ordered(u) /\ Vals(u) = Vals(s) \cup Vals(t)
<1>1. /\ u \in Seq(Nat) /\ DOMAIN u = 1..(Len(s) + Len(t))
      /\ Len(s) \in Nat /\ Len(t) \in Nat
      /\ DOMAIN s = 1..Len(s) /\ DOMAIN t = 1..Len(t)
  BY ConcatFacts
<1>2. /\ \A i \in 1..Len(s) : u[i] = s[i]
      /\ \A i \in (Len(s) + 1)..(Len(s) + Len(t)) : u[i] = t[i - Len(s)]
  OBVIOUS
<1>3. \A i \in 1..Len(t) : u[Len(s) + i] = t[i]
  BY <1>1, <1>2
<1>4. ASSUME NEW i \in DOMAIN u, NEW j \in DOMAIN u, i <= j
      PROVE  u[i] <= u[j]
  <2>1. CASE j <= Len(s)
    <3>1. i \in DOMAIN s /\ j \in DOMAIN s
      BY <1>1, <1>4, <2>1
    <3> QED
      BY <1>1, <1>2, <1>4, <3>1 DEF Ordered
  <2>2. CASE i > Len(s)
    <3>1. i - Len(s) \in DOMAIN t /\ j - Len(s) \in DOMAIN t /\ i - Len(s) <= j - Len(s)
      BY <1>1, <1>4, <2>2
    <3>2. u[i] = t[i - Len(s)] /\ u[j] = t[j - Len(s)]
      BY <1>1, <1>2, <1>4, <2>2
    <3> QED
      BY <3>1, <3>2 DEF Ordered
  <2>3. CASE i <= Len(s) /\ j > Len(s)
    <3>1. i \in DOMAIN s /\ j - Len(s) \in DOMAIN t
      BY <1>1, <2>3
    <3>2. u[i] = s[i] /\ u[j] = t[j - Len(s)]
      BY <1>1, <1>2, <2>3
    <3>3. s[i] \in Vals(s) /\ t[j - Len(s)] \in Vals(t)
      BY <3>1, Zenon DEF Vals
    <3>4. s[i] <= t[j - Len(s)]
      BY <3>3, Zenon DEF UpTo
    <3> QED
      BY <3>2, <3>4, Zenon
  <2> QED
    BY <1>1, <2>1, <2>2, <2>3
<1>5. Vals(u) \subseteq Vals(s) \cup Vals(t)
  <2> SUFFICES ASSUME NEW i \in DOMAIN u
               PROVE  u[i] \in Vals(s) \cup Vals(t)
    BY DEF Vals
  <2>1. CASE i <= Len(s)
    BY <1>1, <1>2, <2>1 DEF Vals
  <2>2. CASE i > Len(s)
    <3>1. u[i] = t[i - Len(s)] /\ i - Len(s) \in DOMAIN t
      BY <1>1, <1>2, <2>2
    <3> QED
      BY <3>1 DEF Vals
  <2> QED
    BY <1>1, <2>1, <2>2
<1>6. Vals(s) \subseteq Vals(u)
  BY <1>1, <1>2 DEF Vals
<1>7. Vals(t) \subseteq Vals(u)
  <2> SUFFICES ASSUME NEW i \in DOMAIN t
               PROVE  t[i] \in Vals(u)
    BY DEF Vals
  <2>1. u[Len(s) + i] = t[i] /\ Len(s) + i \in DOMAIN u
    BY <1>1, <1>3
  <2> QED
    BY <2>1 DEF Vals
<1> QED
  BY <1>1, <1>4, <1>5, <1>6, <1>7 DEF Ordered

\* The samples of the frames of a queue.
LEMMA FrameValIn ==
    ASSUME NEW frames, NEW k \in DOMAIN frames
    PROVE  Vals(frames[k]) \subseteq FrameVals(frames)
BY DEF FrameVals

LEMMA ConcatFrames ==
    ASSUME NEW S, NEW q \in Seq(S), NEW r \in Seq(S), FramesInOrder(q), FramesInOrder(r),
           UpTo(FrameVals(q), FrameVals(r)), NEW u, u = q \o r
    PROVE  /\ u \in Seq(S) /\ FramesInOrder(u)
           /\ FrameVals(u) \subseteq FrameVals(q) \cup FrameVals(r)
<1>1. /\ u \in Seq(S) /\ DOMAIN u = 1..(Len(q) + Len(r))
      /\ Len(q) \in Nat /\ Len(r) \in Nat
      /\ DOMAIN q = 1..Len(q) /\ DOMAIN r = 1..Len(r)
  BY ConcatFacts
<1>2. \A i \in 1..Len(q) : u[i] = q[i] /\ i \in DOMAIN q
  BY <1>1
<1>3. \A i \in (Len(q) + 1)..(Len(q) + Len(r)) :
        u[i] = r[i - Len(q)] /\ i - Len(q) \in DOMAIN r
  BY <1>1
<1>4. ASSUME NEW i \in DOMAIN u
      PROVE  \/ i \in 1..Len(q) /\ u[i] = q[i] /\ i \in DOMAIN q
             \/ i \in (Len(q) + 1)..(Len(q) + Len(r)) /\ u[i] = r[i - Len(q)]
                /\ i - Len(q) \in DOMAIN r
  BY <1>1, <1>2, <1>3
<1>5. \A i \in DOMAIN u : Ordered(u[i])
  BY <1>4 DEF FramesInOrder
<1>6. ASSUME NEW i \in DOMAIN u, NEW j \in DOMAIN u, i < j
      PROVE  UpTo(Vals(u[i]), Vals(u[j]))
  <2>1. CASE j \in 1..Len(q)
    <3>1. i \in DOMAIN q /\ j \in DOMAIN q /\ u[i] = q[i] /\ u[j] = q[j]
      BY <1>1, <1>2, <1>6, <2>1
    <3> QED
      BY <1>6, <3>1 DEF FramesInOrder
  <2>2. CASE i \in (Len(q) + 1)..(Len(q) + Len(r))
    <3>1. /\ i - Len(q) \in DOMAIN r /\ j - Len(q) \in DOMAIN r /\ i - Len(q) < j - Len(q)
          /\ u[i] = r[i - Len(q)] /\ u[j] = r[j - Len(q)]
      BY <1>1, <1>3, <1>6, <2>2
    <3> QED
      BY <3>1 DEF FramesInOrder
  <2>3. CASE i \in 1..Len(q) /\ j \in (Len(q) + 1)..(Len(q) + Len(r))
    <3>1. i \in DOMAIN q /\ j - Len(q) \in DOMAIN r /\ u[i] = q[i] /\ u[j] = r[j - Len(q)]
      BY <1>2, <1>3, <2>3
    <3>2. Vals(u[i]) \subseteq FrameVals(q) /\ Vals(u[j]) \subseteq FrameVals(r)
      BY <3>1, FrameValIn
    <3> QED
      BY <3>2 DEF UpTo
  <2> QED
    BY <1>1, <2>1, <2>2, <2>3
<1>7. \A i \in DOMAIN u : Vals(u[i]) \subseteq FrameVals(q) \cup FrameVals(r)
  <2> SUFFICES ASSUME NEW i \in DOMAIN u
               PROVE  Vals(u[i]) \subseteq FrameVals(q) \cup FrameVals(r)
    OBVIOUS
  <2>1. \/ u[i] = q[i] /\ i \in DOMAIN q
        \/ u[i] = r[i - Len(q)] /\ i - Len(q) \in DOMAIN r
    BY <1>4
  <2> QED
    BY <2>1, FrameValIn
<1>8. FrameVals(u) \subseteq FrameVals(q) \cup FrameVals(r)
  BY <1>7 DEF FrameVals
<1>9. FramesInOrder(u)
  BY <1>5, <1>6, Zenon DEF FramesInOrder
<1> QED
  BY <1>1, <1>8, <1>9

\* The newest frames of a queue.
LEMMA SuffixInOrder ==
    ASSUME NEW S, NEW q \in Seq(S), FramesInOrder(q), NEW m \in 0..Len(q),
           NEW u, u = SubSeq(q, m + 1, Len(q))
    PROVE  /\ u \in Seq(S) /\ Len(u) = Len(q) - m
           /\ FramesInOrder(u) /\ FrameVals(u) \subseteq FrameVals(q)
<1>1. /\ u \in Seq(S) /\ Len(u) = Len(q) - m /\ DOMAIN u = 1..(Len(q) - m)
      /\ \A i \in 1..(Len(q) - m) : u[i] = q[m + i] /\ m + i \in DOMAIN q
  <2>1. m \in Nat /\ m <= Len(q)
    OBVIOUS
  <2> QED
    BY <2>1, RestOfSeq
<1>2. /\ Len(q) \in Nat /\ DOMAIN q = 1..Len(q) /\ m \in Nat
      /\ \A i \in DOMAIN u : i \in Nat /\ u[i] = q[m + i] /\ m + i \in DOMAIN q
  BY <1>1
<1>3. ASSUME NEW i \in DOMAIN u, NEW j \in DOMAIN u
      PROVE  /\ Ordered(u[i])
             /\ i < j => UpTo(Vals(u[i]), Vals(u[j]))
  <2>1. m + i \in DOMAIN q /\ m + j \in DOMAIN q /\ (i < j => m + i < m + j)
        /\ u[i] = q[m + i] /\ u[j] = q[m + j]
    BY <1>2
  <2> QED
    BY <2>1 DEF FramesInOrder
<1>4. FramesInOrder(u)
  BY <1>3, Zenon DEF FramesInOrder
<1>5. \A i \in DOMAIN u : Vals(u[i]) \subseteq FrameVals(q)
  BY <1>2, FrameValIn
<1>6. FrameVals(u) \subseteq FrameVals(q)
  BY <1>5 DEF FrameVals
<1> QED
  BY <1>1, <1>4, <1>6

-----------------------------------------------------------------------------
(* The resampler, one chunk at a time *)

\* Samples read from left to right, none of them behind the first that stays.
Forward(at, n, d) == \A j \in 1..n : at[j] <= d + 1 /\ \A i \in 1..j : at[i] <= at[j]

Picked(s, at, n) == [j \in 1..n |-> s[at[j]]]

LEMMA PickedInOrder ==
    ASSUME NEW s \in Seq(Nat), Ordered(s), NEW n \in Nat, NEW at \in [1..n -> 1..Len(s)],
           NEW d \in Nat, d <= Len(s), Forward(at, n, d), NEW made, made = Picked(s, at, n),
           NEW rest, rest = SubSeq(s, d + 1, Len(s))
    PROVE  /\ made \in Seq(Nat) /\ Ordered(made) /\ Vals(made) \subseteq Vals(s)
           /\ rest \in Seq(Nat) /\ Ordered(rest) /\ Vals(rest) \subseteq Vals(s)
           /\ UpTo(Vals(made), Vals(rest))
<1>1. Len(s) \in Nat /\ DOMAIN s = 1..Len(s) /\ \A i \in 1..Len(s) : s[i] \in Nat
  OBVIOUS
<1>2. DOMAIN made = 1..n /\ \A j \in 1..n : made[j] = s[at[j]] /\ at[j] \in DOMAIN s
  BY <1>1 DEF Picked
<1>3. made \in Seq(Nat)
  <2>1. made \in [1..n -> Nat]
    BY <1>1 DEF Picked
  <2> QED
    BY <2>1, FunctionIsSeq
<1>4. Ordered(made)
  <2> SUFFICES ASSUME NEW i \in 1..n, NEW j \in 1..n, i <= j
               PROVE  made[i] <= made[j]
    BY <1>2 DEF Ordered
  <2>1. i \in 1..j
    OBVIOUS
  <2> QED
    BY <1>2, <2>1 DEF Ordered, Forward
<1>5. Vals(made) \subseteq Vals(s)
  BY <1>2 DEF Vals
<1>6. /\ rest \in Seq(Nat) /\ DOMAIN rest = 1..(Len(s) - d)
      /\ \A i \in 1..(Len(s) - d) : rest[i] = s[d + i] /\ d + i \in DOMAIN s
  BY RestOfSeq
<1>7. Ordered(rest)
  <2> SUFFICES ASSUME NEW i \in 1..(Len(s) - d), NEW j \in 1..(Len(s) - d), i <= j
               PROVE  rest[i] <= rest[j]
    BY <1>6 DEF Ordered
  <2>1. d + i <= d + j
    BY <1>1
  <2> QED
    BY <1>6, <2>1 DEF Ordered
<1>8. Vals(rest) \subseteq Vals(s)
  BY <1>6 DEF Vals
<1>9. UpTo(Vals(made), Vals(rest))
  <2>1. ASSUME NEW i \in 1..n, NEW j \in 1..(Len(s) - d)
        PROVE  made[i] <= rest[j]
    <3>1. at[i] \in Nat /\ at[i] <= d + 1 /\ j \in Nat /\ j >= 1
      BY <1>1 DEF Forward
    <3>2. at[i] <= d + j
      BY <3>1
    <3> QED
      BY <1>2, <1>6, <3>2 DEF Ordered
  <2> QED
    BY <1>2, <1>6, <2>1, ValsUpTo
<1> QED
  BY <1>3, <1>4, <1>5, <1>6, <1>7, <1>8, <1>9

\* Interpolation keeps the order and takes nothing behind the first sample that stays.
LEMMA ResampledInOrder ==
    ASSUME NEW s \in Seq(Nat), Ordered(s), NEW cursor \in 0..(SAMPLE_RATE - 1),
           NEW rate \in Nat \ {0},
           (cursor + Pushed(Len(s), cursor, rate) * rate) \div SAMPLE_RATE <= Len(s)
    PROVE  LET n    == Pushed(Len(s), cursor, rate)
               d    == (cursor + n * rate) \div SAMPLE_RATE
               made == [j \in 1..n |-> s[LeftOf(cursor, rate, j)]]
               rest == SubSeq(s, d + 1, Len(s))
           IN  /\ made \in Seq(Nat) /\ Ordered(made) /\ Vals(made) \subseteq Vals(s)
               /\ rest \in Seq(Nat) /\ Ordered(rest) /\ Vals(rest) \subseteq Vals(s)
               /\ UpTo(Vals(made), Vals(rest))
<1> DEFINE n    == Pushed(Len(s), cursor, rate)
           d    == (cursor + n * rate) \div SAMPLE_RATE
           at   == [j \in 1..n |-> LeftOf(cursor, rate, j)]
           made == [j \in 1..n |-> s[LeftOf(cursor, rate, j)]]
           rest == SubSeq(s, d + 1, Len(s))
<1>1. Len(s) \in Nat
  OBVIOUS
<1>2. n \in Nat /\ d \in Nat /\ d <= Len(s)
  <2>1. n \in Nat /\ d <= Len(s)
    BY <1>1, PushedIsNat
  <2>2. cursor + n * rate \in Nat /\ SAMPLE_RATE \in Nat \ {0}
    <3>1. SAMPLE_RATE \in Nat \ {0} /\ rate \in Nat /\ cursor \in Nat
      BY CaptureAssumption
    <3> HIDE DEF n
    <3> QED
      BY <2>1, <3>1
  <2>3. d \in Nat
    <3> DEFINE x == cursor + n * rate
    <3>1. x \in Nat /\ d = x \div SAMPLE_RATE
      BY <2>2
    <3> HIDE DEF x, d
    <3> QED
      BY <2>2, <3>1, DivFacts
  <2> QED
    BY <2>1, <2>3
<1>3. ASSUME NEW j \in 1..n
      PROVE  /\ LeftOf(cursor, rate, j) \in 1..Len(s) /\ LeftOf(cursor, rate, j) <= d + 1
             /\ \A i \in 1..j : LeftOf(cursor, rate, i) <= LeftOf(cursor, rate, j)
  BY <1>1, ReadsForward
<1> HIDE DEF n, d
<1>4. at \in [1..n -> 1..Len(s)]
  BY <1>3
<1>5. Forward(at, n, d)
  <2> SUFFICES ASSUME NEW j \in 1..n
               PROVE  at[j] <= d + 1 /\ \A i \in 1..j : at[i] <= at[j]
    BY DEF Forward
  <2>1. \A i \in 1..j : i \in 1..n
    BY <1>2
  <2> QED
    BY <1>3, <2>1
<1>6. made = Picked(s, at, n)
  BY DEF Picked
<1>7. rest = SubSeq(s, d + 1, Len(s))
  OBVIOUS
<1> HIDE DEF at, made, rest
<1>8. /\ made \in Seq(Nat) /\ Ordered(made) /\ Vals(made) \subseteq Vals(s)
      /\ rest \in Seq(Nat) /\ Ordered(rest) /\ Vals(rest) \subseteq Vals(s)
      /\ UpTo(Vals(made), Vals(rest))
  BY <1>2, <1>4, <1>5, <1>6, <1>7, PickedInOrder, Zenon
<1> QED
  BY <1>8 DEF made, rest, n, d

Fr == [1..FRAME_SAMPLES -> Nat]

\* A pipeline with its samples, whatever their order.
IsPipeline(c) ==
    /\ DOMAIN c = PipelineFields
    /\ c.sample_rate_hz \in Nat \ {0}
    /\ c.output_cursor \in 0..(SAMPLE_RATE - 1)
    /\ c.input_samples \in Seq(Nat) /\ c.frame_assembly \in Seq(Nat)
    /\ c.ready_frames \in Seq(Fr)

\* The fields that rebuild_ready_frames computes.
MadeOf(c) ==
    [j \in 1..Pushed(Len(c.input_samples), c.output_cursor, c.sample_rate_hz) |->
        c.input_samples[LeftOf(c.output_cursor, c.sample_rate_hz, j)]]

AssembledOf(c) == c.frame_assembly \o MadeOf(c)

CutsOf(a) == [k \in 1..(Len(a) \div FRAME_SAMPLES) |-> Cut(a, k)]

LEMMA RebuiltFields ==
    ASSUME NEW c, DOMAIN c = PipelineFields, NEW r, r = rebuild_ready_frames(c)
    PROVE  /\ DOMAIN r = PipelineFields
           /\ r.sample_rate_hz = c.sample_rate_hz /\ r.last_frame = c.last_frame
           /\ r.input_samples = SubSeq(c.input_samples, Drained(c) + 1, Len(c.input_samples))
           /\ r.frame_assembly = Remainder(AssembledOf(c))
           /\ r.ready_frames = c.ready_frames \o CutsOf(AssembledOf(c))
<1> USE DEF PipelineFields
<1>1. DOMAIN r = PipelineFields
      /\ r.sample_rate_hz = c.sample_rate_hz /\ r.last_frame = c.last_frame
  BY DEF rebuild_ready_frames
<1>2. r.input_samples = SubSeq(c.input_samples, Drained(c) + 1, Len(c.input_samples))
  BY DEF rebuild_ready_frames
<1>3. r.frame_assembly = Remainder(AssembledOf(c))
  BY DEF rebuild_ready_frames, Remainder, AssembledOf, MadeOf, LeftOf
<1>4. r.ready_frames = c.ready_frames \o CutsOf(AssembledOf(c))
  BY DEF rebuild_ready_frames, CutsOf, Cut, AssembledOf, MadeOf, LeftOf
<1> QED
  BY <1>1, <1>2, <1>3, <1>4

\* Orders carry over to parts.
LEMMA UpToParts ==
    ASSUME NEW A, NEW B, NEW C, NEW D, UpTo(A, B), C \subseteq A, D \subseteq B
    PROVE  UpTo(C, D)
BY DEF UpTo

LEMMA UpToUnion ==
    ASSUME NEW A, NEW B, NEW C
    PROVE  /\ UpTo(A, B \cup C) <=> UpTo(A, B) /\ UpTo(A, C)
           /\ UpTo(A \cup B, C) <=> UpTo(A, C) /\ UpTo(B, C)
BY DEF UpTo

\* rebuild_ready_frames moves samples on without changing their order.
LEMMA RebuildInOrder ==
    ASSUME NEW c, IsPipeline(c), InOrder(c), Drained(c) <= Len(c.input_samples),
           NEW r, r = rebuild_ready_frames(c)
    PROVE  /\ r.input_samples \in Seq(Nat) /\ r.frame_assembly \in Seq(Nat)
           /\ r.ready_frames \in Seq(Fr) /\ Len(r.frame_assembly) < FRAME_SAMPLES
           /\ InOrder(r) /\ Buffered(r) \subseteq Buffered(c)
<1> DEFINE s    == c.input_samples
           half == c.frame_assembly
           q    == c.ready_frames
           made == MadeOf(c)
           a    == AssembledOf(c)
           cuts == CutsOf(a)
           left == Remainder(a)
           rest == r.input_samples
<1>1. /\ rest = SubSeq(s, Drained(c) + 1, Len(s))
      /\ r.frame_assembly = left /\ r.ready_frames = q \o cuts
  BY RebuiltFields DEF IsPipeline
<1>2. /\ s \in Seq(Nat) /\ half \in Seq(Nat) /\ q \in Seq(Fr)
      /\ Ordered(s) /\ Ordered(half) /\ FramesInOrder(q)
      /\ UpTo(FrameVals(q), Vals(half)) /\ UpTo(FrameVals(q), Vals(s))
      /\ UpTo(Vals(half), Vals(s))
  BY UpToUnion DEF IsPipeline, InOrder
<1>3. /\ made \in Seq(Nat) /\ Ordered(made) /\ Vals(made) \subseteq Vals(s)
      /\ rest \in Seq(Nat) /\ Ordered(rest) /\ Vals(rest) \subseteq Vals(s)
      /\ UpTo(Vals(made), Vals(rest))
  <2>1. c.output_cursor \in 0..(SAMPLE_RATE - 1) /\ c.sample_rate_hz \in Nat \ {0}
    BY DEF IsPipeline
  <2>2. Drained(c) = (c.output_cursor
                        + Pushed(Len(s), c.output_cursor, c.sample_rate_hz) * c.sample_rate_hz)
                     \div SAMPLE_RATE
    BY DEF Drained, Position
  <2>3. LET n  == Pushed(Len(s), c.output_cursor, c.sample_rate_hz)
            d  == (c.output_cursor + n * c.sample_rate_hz) \div SAMPLE_RATE
            m  == [j \in 1..n |-> s[LeftOf(c.output_cursor, c.sample_rate_hz, j)]]
            t  == SubSeq(s, d + 1, Len(s))
        IN  /\ m \in Seq(Nat) /\ Ordered(m) /\ Vals(m) \subseteq Vals(s)
            /\ t \in Seq(Nat) /\ Ordered(t) /\ Vals(t) \subseteq Vals(s)
            /\ UpTo(Vals(m), Vals(t))
    <3>1. (c.output_cursor
             + Pushed(Len(s), c.output_cursor, c.sample_rate_hz) * c.sample_rate_hz)
           \div SAMPLE_RATE <= Len(s)
      BY <2>2
    <3> HIDE DEF s
    <3> QED
      BY <1>2, <2>1, <3>1, ResampledInOrder
  <2> QED
    BY <1>1, <2>2, <2>3, Zenon DEF MadeOf
<1> HIDE DEF s, half, q, made, rest
<1>4. UpTo(Vals(half), Vals(made)) /\ UpTo(Vals(half), Vals(rest))
  BY <1>2, <1>3 DEF UpTo
<1>5. a \in Seq(Nat) /\ Ordered(a) /\ Vals(a) = Vals(half) \cup Vals(made)
  <2>1. a = half \o made
    BY DEF AssembledOf, half, made
  <2> HIDE DEF a
  <2> QED
    BY <1>2, <1>3, <1>4, <2>1, ConcatInOrder
<1> HIDE DEF a
<1>6. /\ cuts \in Seq(Fr) /\ FramesInOrder(cuts) /\ Ordered(left)
      /\ UpTo(FrameVals(cuts), Vals(left))
      /\ FrameVals(cuts) \subseteq Vals(a) /\ Vals(left) \subseteq Vals(a)
  BY <1>5, CutInOrder DEF CutsOf, Fr
<1>7. left \in Seq(Nat) /\ Len(left) < FRAME_SAMPLES
  BY <1>5, RemainderFacts
<1> HIDE DEF cuts, left
<1>8. UpTo(Vals(a), Vals(rest)) /\ UpTo(FrameVals(q), Vals(a)) /\ UpTo(FrameVals(q), Vals(rest))
  BY <1>2, <1>3, <1>4, <1>5 DEF UpTo
<1>9. UpTo(FrameVals(q), FrameVals(cuts)) /\ UpTo(FrameVals(q), Vals(left))
      /\ UpTo(FrameVals(cuts), Vals(rest)) /\ UpTo(Vals(left), Vals(rest))
  BY <1>6, <1>8 DEF UpTo
<1>10. /\ r.ready_frames \in Seq(Fr) /\ FramesInOrder(r.ready_frames)
       /\ FrameVals(r.ready_frames) \subseteq FrameVals(q) \cup FrameVals(cuts)
  BY <1>1, <1>2, <1>6, <1>9, ConcatFrames
<1>11. InOrder(r)
  <2>1. UpTo(FrameVals(q) \cup FrameVals(cuts), Vals(left) \cup Vals(rest))
    BY <1>6, <1>8, <1>9 DEF UpTo
  <2>2. UpTo(FrameVals(r.ready_frames), Vals(left) \cup Vals(rest))
    BY <1>10, <2>1 DEF UpTo
  <2> QED
    BY <1>1, <1>3, <1>6, <1>9, <1>10, <2>2 DEF InOrder, rest
<1>12. Buffered(r) \subseteq Buffered(c)
  <2>1. Buffered(r) \subseteq FrameVals(q) \cup Vals(half) \cup Vals(s)
    BY <1>1, <1>3, <1>5, <1>6, <1>10 DEF Buffered, rest
  <2> QED
    BY <2>1 DEF Buffered, q, half, s
<1> QED
  BY <1>1, <1>3, <1>7, <1>10, <1>11, <1>12 DEF rest

-----------------------------------------------------------------------------
(* The channel and the queue of frames *)

LEMMA ChunkValIn ==
    ASSUME NEW q, NEW i \in DOMAIN q
    PROVE  Vals(q[i].samples) \subseteq ChunkVals(q)
BY DEF ChunkVals

LEMMA ChunkValsWithin ==
    ASSUME NEW q, NEW A, \A i \in DOMAIN q : Vals(q[i].samples) \subseteq A
    PROVE  ChunkVals(q) \subseteq A
BY DEF ChunkVals

LEMMA ChunkValsBehind ==
    ASSUME NEW q, NEW A, \A i \in DOMAIN q : UpTo(A, Vals(q[i].samples))
    PROVE  UpTo(A, ChunkVals(q))
<1> DEFINE vals(k) == Vals(q[k].samples)
<1>1. ChunkVals(q) = UNION {vals(k) : k \in DOMAIN q}
  BY DEF ChunkVals
<1> HIDE DEF vals
<1>2. \A v \in ChunkVals(q) : \E k \in DOMAIN q : v \in vals(k)
  BY <1>1
<1>3. \A v \in ChunkVals(q) : \E k \in DOMAIN q : v \in Vals(q[k].samples)
  BY <1>2 DEF vals
<1> QED
  BY <1>3, Zenon DEF UpTo

\* The oldest chunk is no newer than the others.
LEMMA OldestChunk ==
    ASSUME NEW S, NEW q \in Seq(S), q # <<>>, ChunksInOrder(q),
           NEW h, h = Head(q), NEW t, t = Tail(q)
    PROVE  /\ Ordered(h.samples) /\ Vals(h.samples) \subseteq ChunkVals(q)
           /\ ChunksInOrder(t) /\ ChunkVals(t) \subseteq ChunkVals(q)
           /\ UpTo(Vals(h.samples), ChunkVals(t))
<1>1. /\ h = q[1] /\ 1 \in DOMAIN q
      /\ \A i \in DOMAIN t : i \in Nat \ {0} /\ i + 1 \in DOMAIN q /\ t[i] = q[i + 1]
  OBVIOUS
<1>2. Ordered(h.samples)
  BY <1>1 DEF ChunksInOrder
<1>3. Vals(h.samples) \subseteq ChunkVals(q)
  BY <1>1, ChunkValIn
<1>4. ASSUME NEW i \in DOMAIN t, NEW j \in DOMAIN t
      PROVE  /\ Ordered(t[i].samples)
             /\ i < j => UpTo(Vals(t[i].samples), Vals(t[j].samples))
  <2>1. /\ i + 1 \in DOMAIN q /\ j + 1 \in DOMAIN q /\ (i < j => i + 1 < j + 1)
        /\ t[i] = q[i + 1] /\ t[j] = q[j + 1]
    BY <1>1
  <2> QED
    BY <2>1 DEF ChunksInOrder
<1>5. ChunksInOrder(t)
  BY <1>4, Zenon DEF ChunksInOrder
<1>6. ASSUME NEW i \in DOMAIN t
      PROVE  Vals(t[i].samples) \subseteq ChunkVals(q)
             /\ UpTo(Vals(h.samples), Vals(t[i].samples))
  <2>1. i + 1 \in DOMAIN q /\ 1 < i + 1 /\ t[i] = q[i + 1]
    BY <1>1
  <2>2. Vals(t[i].samples) \subseteq ChunkVals(q)
    BY <2>1, ChunkValIn
  <2>3. UpTo(Vals(h.samples), Vals(t[i].samples))
    BY <1>1, <2>1 DEF ChunksInOrder
  <2> QED
    BY <2>2, <2>3
<1>7. ChunkVals(t) \subseteq ChunkVals(q)
  BY <1>6, ChunkValsWithin
<1>8. UpTo(Vals(h.samples), ChunkVals(t))
  BY <1>6, ChunkValsBehind
<1> QED
  BY <1>2, <1>3, <1>5, <1>7, <1>8

\* A newer chunk behind the others.
LEMMA NewestChunk ==
    ASSUME NEW S, NEW q \in Seq(S), ChunksInOrder(q), NEW c \in S, Ordered(c.samples),
           UpTo(ChunkVals(q), Vals(c.samples)), NEW u, u = Append(q, c)
    PROVE  ChunksInOrder(u) /\ ChunkVals(u) \subseteq ChunkVals(q) \cup Vals(c.samples)
<1> DEFINE n == Len(q)
<1>1. /\ n \in Nat /\ DOMAIN q = 1..n /\ DOMAIN u = 1..(n + 1)
      /\ u[n + 1] = c /\ \A i \in 1..n : u[i] = q[i]
  OBVIOUS
<1> HIDE DEF n
<1>2. ASSUME NEW i \in DOMAIN u
      PROVE  i \in Nat /\ ((u[i] = q[i] /\ i \in DOMAIN q) \/ (u[i] = c /\ i = n + 1))
  <2>1. i \in 1..n \/ i = n + 1
    BY <1>1
  <2> QED
    BY <1>1, <2>1
<1>3. ASSUME NEW i \in DOMAIN u, NEW j \in DOMAIN u
      PROVE  /\ Ordered(u[i].samples)
             /\ i < j => UpTo(Vals(u[i].samples), Vals(u[j].samples))
  <2>1. Ordered(u[i].samples)
    BY <1>2 DEF ChunksInOrder
  <2>2. ASSUME i < j
        PROVE  UpTo(Vals(u[i].samples), Vals(u[j].samples))
    <3>1. i \in DOMAIN q /\ u[i] = q[i]
      BY <1>1, <2>2
    <3>2. CASE j \in DOMAIN q /\ u[j] = q[j]
      BY <2>2, <3>1, <3>2 DEF ChunksInOrder
    <3>3. CASE u[j] = c
      <4>1. Vals(u[i].samples) \subseteq ChunkVals(q)
        BY <3>1, ChunkValIn
      <4> QED
        BY <3>3, <4>1 DEF UpTo
    <3> QED
      BY <1>2, <3>2, <3>3
  <2> QED
    BY <2>1, <2>2
<1>4. ChunksInOrder(u)
  BY <1>3, Zenon DEF ChunksInOrder
<1>5. ASSUME NEW i \in DOMAIN u
      PROVE  Vals(u[i].samples) \subseteq ChunkVals(q) \cup Vals(c.samples)
  <2>1. CASE u[i] = q[i] /\ i \in DOMAIN q
    BY <2>1, ChunkValIn
  <2>2. CASE u[i] = c
    BY <2>2
  <2> QED
    BY <1>2, <2>1, <2>2
<1>6. ChunkVals(u) \subseteq ChunkVals(q) \cup Vals(c.samples)
  BY <1>5, ChunkValsWithin
<1> QED
  BY <1>4, <1>6

\* Whatever frames of the queue are dropped or taken, what is left is in order.
LEMMA FewerFrames ==
    ASSUME NEW c, InOrder(c), NEW d, d.frame_assembly = c.frame_assembly,
           d.input_samples = c.input_samples, FramesInOrder(d.ready_frames),
           FrameVals(d.ready_frames) \subseteq FrameVals(c.ready_frames)
    PROVE  InOrder(d) /\ Buffered(d) \subseteq Buffered(c)
BY DEF InOrder, Buffered, UpTo

LEMMA NewestInOrder ==
    ASSUME NEW q \in Seq(Fr), FramesInOrder(q), NEW u, u = Newest(q)
    PROVE  /\ u \in Seq(Fr) /\ Len(u) <= MAX_CAPTURE_QUEUE_DEPTH
           /\ FramesInOrder(u) /\ FrameVals(u) \subseteq FrameVals(q)
<1>0. MAX_CAPTURE_QUEUE_DEPTH \in Nat /\ Len(q) \in Nat
  BY CaptureAssumption
<1>1. CASE Len(q) <= MAX_CAPTURE_QUEUE_DEPTH
  BY <1>1 DEF Newest
<1>2. CASE ~(Len(q) <= MAX_CAPTURE_QUEUE_DEPTH)
  <2> DEFINE m == Len(q) - MAX_CAPTURE_QUEUE_DEPTH
  <2>1. m \in 0..Len(q) /\ Len(q) - m = MAX_CAPTURE_QUEUE_DEPTH
    BY <1>0, <1>2
  <2>2. u = SubSeq(q, m + 1, Len(q))
    BY <1>2 DEF Newest
  <2> HIDE DEF m
  <2>3. /\ u \in Seq(Fr) /\ Len(u) = Len(q) - m
        /\ FramesInOrder(u) /\ FrameVals(u) \subseteq FrameVals(q)
    BY <2>1, <2>2, SuffixInOrder
  <2> QED
    BY <1>0, <2>1, <2>3
<1> QED
  BY <1>1, <1>2

\* The oldest frame is no newer than the others.
LEMMA OldestFrame ==
    ASSUME NEW q \in Seq(Fr), q # <<>>, FramesInOrder(q),
           NEW f, f = Head(q), NEW u, u = Tail(q)
    PROVE  /\ f \in Fr /\ Ordered(f) /\ Vals(f) \subseteq FrameVals(q)
           /\ u \in Seq(Fr) /\ Len(u) <= Len(q)
           /\ FramesInOrder(u) /\ FrameVals(u) \subseteq FrameVals(q)
           /\ UpTo(Vals(f), FrameVals(u))
<1>1. /\ f = q[1] /\ 1 \in DOMAIN q /\ f \in Fr
      /\ u = SubSeq(q, 2, Len(q)) /\ 1 \in 0..Len(q) /\ Len(u) <= Len(q)
      /\ \A i \in DOMAIN u : i \in Nat \ {0} /\ i + 1 \in DOMAIN q /\ u[i] = q[i + 1]
  OBVIOUS
<1>2. Ordered(f) /\ Vals(f) \subseteq FrameVals(q)
  BY <1>1, FrameValIn DEF FramesInOrder
<1>3. u \in Seq(Fr) /\ FramesInOrder(u) /\ FrameVals(u) \subseteq FrameVals(q)
  <2>1. u = SubSeq(q, 1 + 1, Len(q))
    BY <1>1
  <2> QED
    BY <1>1, <2>1, SuffixInOrder
<1>4. ASSUME NEW i \in DOMAIN u
      PROVE  UpTo(Vals(f), Vals(u[i])) /\ Vals(u[i]) \subseteq FrameVals(q)
  <2>1. i + 1 \in DOMAIN q /\ 1 < i + 1 /\ u[i] = q[i + 1]
    BY <1>1
  <2> QED
    BY <1>1, <2>1, FrameValIn DEF FramesInOrder
<1>5. \A v \in FrameVals(u) : \E i \in DOMAIN u : v \in Vals(u[i])
  <2> DEFINE vals(k) == Vals(u[k])
  <2>1. FrameVals(u) = UNION {vals(k) : k \in DOMAIN u}
    BY DEF FrameVals
  <2> HIDE DEF vals
  <2>2. \A v \in FrameVals(u) : \E k \in DOMAIN u : v \in vals(k)
    BY <2>1
  <2> QED
    BY <2>2 DEF vals
<1>6. UpTo(Vals(f), FrameVals(u))
  BY <1>4, <1>5, Zenon DEF UpTo
<1> QED
  BY <1>1, <1>2, <1>3, <1>6

-----------------------------------------------------------------------------
(* The steps of the microphone side *)

LEMMA SilenceFacts ==
    /\ Silence \in Frames /\ Ordered(Silence)
    /\ \A S \in SUBSET Nat : UpTo(Vals(Silence), S)
    /\ \A n \in Nat : Vals(Silence) \subseteq 0..n
<1>0. FRAME_SAMPLES \in Nat \ {0} /\ MaxStamp \in Nat
  BY CaptureAssumption
<1>1. DOMAIN Silence = 1..FRAME_SAMPLES /\ \A i \in DOMAIN Silence : Silence[i] = 0
  BY DEF Silence
<1>2. Silence \in Frames
  BY <1>0 DEF Silence, Frames
<1>3. Vals(Silence) \subseteq {0}
  BY <1>1 DEF Vals
<1>4. Ordered(Silence)
  BY <1>1 DEF Ordered
<1>5. \A S \in SUBSET Nat : UpTo(Vals(Silence), S)
  BY <1>3 DEF UpTo
<1>6. \A n \in Nat : Vals(Silence) \subseteq 0..n
  BY <1>3
<1> QED
  BY <1>2, <1>4, <1>5, <1>6

\* An empty pipeline.
LEMMA EmptyInOrder ==
    ASSUME NEW rate \in Nat \ {0}, NEW c, c = EmptyPipeline(rate)
    PROVE  /\ IsPipeline(c) /\ InOrder(c) /\ Buffered(c) = {}
           /\ c.sample_rate_hz = rate /\ c.last_frame = Silence
           /\ c.ready_frames = <<>> /\ c.frame_assembly = <<>>
<1>1. /\ DOMAIN c = PipelineFields /\ c.sample_rate_hz = rate /\ c.output_cursor = 0
      /\ c.input_samples = <<>> /\ c.frame_assembly = <<>> /\ c.ready_frames = <<>>
      /\ c.last_frame = Silence
  BY DEF EmptyPipeline, PipelineFields
<1>2. DOMAIN <<>> = {} /\ <<>> \in Seq(Nat) /\ <<>> \in Seq(Fr)
  OBVIOUS
<1>3. Vals(<<>>) = {} /\ FrameVals(<<>>) = {} /\ Ordered(<<>>) /\ FramesInOrder(<<>>)
  BY <1>2 DEF Vals, FrameVals, Ordered, FramesInOrder
<1>4. 0 \in 0..(SAMPLE_RATE - 1)
  BY CaptureAssumption
<1>5. IsPipeline(c)
  BY <1>1, <1>2, <1>4 DEF IsPipeline
<1>6. InOrder(c) /\ Buffered(c) = {}
  BY <1>1, <1>3 DEF InOrder, Buffered, UpTo
<1> QED
  BY <1>1, <1>5, <1>6

LEMMA CaptureIsPipeline ==
    ASSUME PipelineOK
    PROVE  IsPipeline(capture)
BY DEF PipelineOK, ResamplerInv, IsPipeline, Fr

\* The samples of the oldest chunk come behind all that is buffered, or behind nothing.
LEMMA ChunkAdded ==
    ASSUME CaptureInv, NEW chunk, chunk \in Chunks, Ordered(chunk.samples),
           UpTo(Buffered(capture), Vals(chunk.samples)), NEW c, c = WithChunk(chunk)
    PROVE  /\ IsPipeline(c) /\ InOrder(c)
           /\ Buffered(c) \subseteq Buffered(capture) \cup Vals(chunk.samples)
           /\ c.sample_rate_hz = chunk.sample_rate_hz
           /\ c.last_frame \in {Silence, capture.last_frame}
<1>1. chunk.samples \in Seq(Nat) /\ chunk.sample_rate_hz \in Nat \ {0}
  BY DEF Chunks
<1>2. PICK b : /\ IsPipeline(b) /\ InOrder(b) /\ Buffered(b) \subseteq Buffered(capture)
               /\ b.sample_rate_hz = chunk.sample_rate_hz
               /\ b.last_frame \in {Silence, capture.last_frame}
               /\ c = [b EXCEPT !.input_samples = @ \o chunk.samples]
  <2>1. CASE chunk.sample_rate_hz = capture.sample_rate_hz
    <3>1. IsPipeline(capture) /\ InOrder(capture)
      BY CaptureIsPipeline DEF CaptureInv, WaitsInOrder
    <3> QED
      BY <2>1, <3>1 DEF WithChunk
  <2>2. CASE chunk.sample_rate_hz # capture.sample_rate_hz
    <3> DEFINE b == EmptyPipeline(chunk.sample_rate_hz)
    <3>1. c = [b EXCEPT !.input_samples = @ \o chunk.samples]
      BY <2>2 DEF WithChunk
    <3>2. /\ IsPipeline(b) /\ InOrder(b) /\ Buffered(b) = {}
          /\ b.sample_rate_hz = chunk.sample_rate_hz /\ b.last_frame = Silence
      BY <1>1, EmptyInOrder
    <3> HIDE DEF b
    <3> QED
      BY <3>1, <3>2
  <2> QED
    BY <2>1, <2>2
<1>3. /\ DOMAIN c = PipelineFields
      /\ c.sample_rate_hz = b.sample_rate_hz /\ c.output_cursor = b.output_cursor
      /\ c.frame_assembly = b.frame_assembly /\ c.ready_frames = b.ready_frames
      /\ c.last_frame = b.last_frame
      /\ c.input_samples = b.input_samples \o chunk.samples
  BY <1>2 DEF IsPipeline, PipelineFields
<1>4. UpTo(Vals(b.input_samples), Vals(chunk.samples))
      /\ UpTo(FrameVals(b.ready_frames), Vals(chunk.samples))
      /\ UpTo(Vals(b.frame_assembly), Vals(chunk.samples))
  BY <1>2 DEF Buffered, UpTo
<1>5. /\ c.input_samples \in Seq(Nat) /\ Ordered(c.input_samples)
      /\ Vals(c.input_samples) = Vals(b.input_samples) \cup Vals(chunk.samples)
  <2>1. b.input_samples \in Seq(Nat) /\ Ordered(b.input_samples)
    BY <1>2 DEF IsPipeline, InOrder
  <2>2. chunk.samples \in Seq(Nat) /\ Ordered(chunk.samples)
        /\ UpTo(Vals(b.input_samples), Vals(chunk.samples))
        /\ c.input_samples = b.input_samples \o chunk.samples
    BY <1>1, <1>3, <1>4
  <2> QED
    BY <2>1, <2>2, ConcatInOrder, Zenon
<1>6. IsPipeline(c)
  BY <1>2, <1>3, <1>5 DEF IsPipeline
<1>7. InOrder(c)
  <2>1. UpTo(FrameVals(b.ready_frames), Vals(b.frame_assembly) \cup Vals(c.input_samples))
        /\ UpTo(Vals(b.frame_assembly), Vals(c.input_samples))
    BY <1>2, <1>4, <1>5 DEF InOrder, UpTo
  <2> QED
    BY <1>2, <1>3, <1>5, <2>1 DEF InOrder
<1>8. Buffered(c) \subseteq Buffered(capture) \cup Vals(chunk.samples)
  BY <1>2, <1>3, <1>5 DEF Buffered
<1> QED
  BY <1>2, <1>3, <1>6, <1>7, <1>8

\* What is sent stays behind what waits, as long as only newer samples join it.
LEMMA SentKept ==
    ASSUME SentInOrder, stamp \in Nat, stamp' \in Nat, stamp <= stamp', UNCHANGED heard,
           capture'.last_frame \in {Silence, capture.last_frame}, Waiting' \subseteq Nat,
           \A w \in Waiting' : w \in Waiting \/ w >= stamp
    PROVE  SentInOrder'
<1>1. ASSUME NEW A, A \subseteq 0..stamp, UpTo(A, Waiting)
      PROVE  A \subseteq 0..stamp' /\ UpTo(A, Waiting')
  <2>1. A \subseteq 0..stamp'
    BY <1>1
  <2>2. ASSUME NEW x \in A, NEW w \in Waiting'
        PROVE  x <= w
    <3>1. CASE w \in Waiting
      BY <1>1, <3>1 DEF UpTo
    <3>2. CASE w >= stamp
      BY <1>1, <3>2
    <3> QED
      BY <3>1, <3>2
  <2> QED
    BY <2>1, <2>2 DEF UpTo
<1> DEFINE last == capture'.last_frame
<1>2. /\ Ordered(last) /\ Vals(last) \subseteq 0..stamp' /\ UpTo(Vals(last), Waiting')
  <2>1. CASE last = Silence
    BY <2>1, SilenceFacts
  <2>2. CASE last = capture.last_frame
    BY <1>1, <2>2 DEF SentInOrder
  <2> QED
    BY <2>1, <2>2
<1>3. ASSUME NEW p \in Flows
      PROVE  /\ Vals(heard[p]) \subseteq 0..stamp' /\ UpTo(Vals(heard[p]), Waiting')
             /\ last # Silence => heard[p] = last \/ UpTo(Vals(heard[p]), Vals(last))
  BY <1>1 DEF SentInOrder
<1> QED
  BY <1>2, <1>3 DEF SentInOrder

LEMMA RecordedIsNat ==
    ASSUME PipelineOK, RecordedSince
    PROVE  /\ Waiting \subseteq (opened + 1)..stamp /\ Waiting \subseteq Nat
           /\ stamp \in Nat /\ opened \in Nat
<1>1. stamp \in Nat /\ opened \in Nat
  BY CaptureAssumption DEF PipelineOK
<1> QED
  BY <1>1 DEF RecordedSince, Waiting

\* The pipeline that ingest leaves.
LEMMA IngestedPipeline ==
    ASSUME CaptureInv, ingest, NEW chunk, chunk = Head(chunk_rx)
    PROVE  /\ capture'.sample_rate_hz \in Rates \cup {SAMPLE_RATE}
           /\ capture'.frame_assembly \in Seq(Nat)
           /\ Len(capture'.frame_assembly) < FRAME_SAMPLES
           /\ capture'.ready_frames \in Seq(Fr)
           /\ Len(capture'.ready_frames) <= MAX_CAPTURE_QUEUE_DEPTH
           /\ capture'.last_frame \in {Silence, capture.last_frame}
           /\ InOrder(capture')
           /\ Buffered(capture') \subseteq Buffered(capture) \cup Vals(chunk.samples)
<1>1. chunk_rx \in Seq(Chunks) /\ chunk_rx # <<>> /\ ChunksInOrder(chunk_rx)
      /\ UpTo(Buffered(capture), ChunkVals(chunk_rx))
  BY DEF CaptureInv, PipelineOK, ResamplerInv, ingest, WaitsInOrder
<1>2. chunk \in Chunks /\ chunk = chunk_rx[1] /\ 1 \in DOMAIN chunk_rx
  BY <1>1
<1>3. Ordered(chunk.samples) /\ Vals(chunk.samples) \subseteq ChunkVals(chunk_rx)
  BY <1>1, OldestChunk
<1>4. UpTo(Buffered(capture), Vals(chunk.samples))
  BY <1>1, <1>3 DEF UpTo
<1>5. CASE capture' = capture
  BY <1>5 DEF CaptureInv, PipelineOK, WaitsInOrder, Fr
<1>6. CASE capture' # capture
  <2> DEFINE c == WithChunk(chunk)
             r == rebuild_ready_frames(c)
  <2>1. /\ IsPipeline(c) /\ InOrder(c)
        /\ Buffered(c) \subseteq Buffered(capture) \cup Vals(chunk.samples)
        /\ c.sample_rate_hz = chunk.sample_rate_hz
        /\ c.last_frame \in {Silence, capture.last_frame}
    BY <1>2, <1>3, <1>4, ChunkAdded
  <2>2. capture' = [r EXCEPT !.ready_frames = Newest(@)] /\ ~(Drained(c) > Len(c.input_samples))
    BY <1>6 DEF ingest
  <2> HIDE DEF c
  <2>within. Drained(c) <= Len(c.input_samples)
    <3>1. Len(c.input_samples) \in Nat
      BY <2>1 DEF IsPipeline
    <3>2. Drained(c) \in Nat
      <4>1. /\ c.output_cursor \in 0..(SAMPLE_RATE - 1) /\ c.sample_rate_hz \in Nat \ {0}
            /\ SAMPLE_RATE \in Nat \ {0}
        BY <2>1, CaptureAssumption DEF IsPipeline
      <4>2. Pushed(Len(c.input_samples), c.output_cursor, c.sample_rate_hz) \in Nat
        BY <3>1, <4>1, PushedIsNat
      <4>3. Position(c, Len(c.input_samples)) \in Nat
        BY <4>1, <4>2 DEF Position
      <4> QED
        BY <4>1, <4>3, DivFacts DEF Drained
    <3> QED
      BY <2>2, <3>1, <3>2
  <2>3. /\ r.frame_assembly \in Seq(Nat) /\ r.ready_frames \in Seq(Fr)
        /\ Len(r.frame_assembly) < FRAME_SAMPLES
        /\ InOrder(r) /\ Buffered(r) \subseteq Buffered(c)
    BY <2>1, <2>within, RebuildInOrder
  <2>4. /\ DOMAIN r = PipelineFields
        /\ r.sample_rate_hz = c.sample_rate_hz /\ r.last_frame = c.last_frame
    BY <2>1, RebuiltFields DEF IsPipeline
  <2> HIDE DEF r
  <2>5. /\ capture'.sample_rate_hz = r.sample_rate_hz
        /\ capture'.last_frame = r.last_frame
        /\ capture'.frame_assembly = r.frame_assembly
        /\ capture'.input_samples = r.input_samples
        /\ capture'.ready_frames = Newest(r.ready_frames)
    BY <2>2, <2>4 DEF PipelineFields
  <2>6. /\ capture'.ready_frames \in Seq(Fr)
        /\ Len(capture'.ready_frames) <= MAX_CAPTURE_QUEUE_DEPTH
        /\ FramesInOrder(capture'.ready_frames)
        /\ FrameVals(capture'.ready_frames) \subseteq FrameVals(r.ready_frames)
    BY <2>3, <2>5, NewestInOrder DEF InOrder
  <2>7. InOrder(capture') /\ Buffered(capture') \subseteq Buffered(r)
    BY <2>3, <2>5, <2>6, FewerFrames
  <2>8. chunk.sample_rate_hz \in Rates
    <3>1. chunk.sample_rate_hz = mic /\ mic \in Rates \cup {0}
      BY <1>2 DEF CaptureInv, PipelineOK
    <3>2. chunk.sample_rate_hz # 0
      BY <1>2, CaptureAssumption DEF Chunks
    <3> QED
      BY <3>1, <3>2
  <2> QED
    BY <2>1, <2>3, <2>4, <2>5, <2>6, <2>7, <2>8
<1> QED
  BY <1>5, <1>6

LEMMA IngestKeeps ==
    ASSUME CaptureInv, ingest
    PROVE  CaptureInv'
<1> DEFINE chunk == Head(chunk_rx)
<1>1. /\ chunk_rx \in Seq(Chunks) /\ chunk_rx # <<>> /\ ChunksInOrder(chunk_rx)
      /\ chunk_rx' = Tail(chunk_rx) /\ UNCHANGED <<mic, stamp, opened, heard>>
  BY DEF CaptureInv, PipelineOK, ResamplerInv, ingest, WaitsInOrder
<1>2. /\ Vals(chunk.samples) \subseteq ChunkVals(chunk_rx)
      /\ ChunksInOrder(chunk_rx') /\ ChunkVals(chunk_rx') \subseteq ChunkVals(chunk_rx)
      /\ UpTo(Vals(chunk.samples), ChunkVals(chunk_rx'))
  BY <1>1, OldestChunk
<1>3. /\ capture'.sample_rate_hz \in Rates \cup {SAMPLE_RATE}
      /\ capture'.frame_assembly \in Seq(Nat)
      /\ Len(capture'.frame_assembly) < FRAME_SAMPLES
      /\ capture'.ready_frames \in Seq(Fr)
      /\ Len(capture'.ready_frames) <= MAX_CAPTURE_QUEUE_DEPTH
      /\ capture'.last_frame \in {Silence, capture.last_frame}
      /\ InOrder(capture')
      /\ Buffered(capture') \subseteq Buffered(capture) \cup Vals(chunk.samples)
  BY IngestedPipeline
<1> HIDE DEF chunk
<1>4. PipelineOK'
  <2>1. ResamplerInv'
    BY IngestKeepsResampler DEF CaptureInv, PipelineOK
  <2>2. /\ Len(chunk_rx') <= MAX_CAPTURE_QUEUE_DEPTH
        /\ \A i \in DOMAIN chunk_rx' : chunk_rx'[i].sample_rate_hz = mic'
    <3>1. Len(chunk_rx') = Len(chunk_rx) - 1 /\ Len(chunk_rx) \in Nat
          /\ \A i \in DOMAIN chunk_rx' : i + 1 \in DOMAIN chunk_rx
                                         /\ chunk_rx'[i] = chunk_rx[i + 1]
      BY <1>1
    <3> QED
      BY <1>1, <3>1, CaptureAssumption DEF CaptureInv, PipelineOK
  <2>3. capture'.last_frame \in Frames
    BY <1>3, SilenceFacts DEF CaptureInv, PipelineOK
  <2> QED
    BY <1>1, <1>3, <2>1, <2>2, <2>3 DEF CaptureInv, PipelineOK, Fr
<1>5. Waiting' \subseteq Waiting
  BY <1>2, <1>3 DEF Waiting
<1>6. RecordedSince'
  BY <1>1, <1>2, <1>3 DEF CaptureInv, RecordedSince
<1>7. WaitsInOrder'
  <2>1. UpTo(Buffered(capture'), ChunkVals(chunk_rx'))
    BY <1>2, <1>3 DEF CaptureInv, WaitsInOrder, UpTo
  <2> QED
    BY <1>2, <1>3, <2>1 DEF WaitsInOrder
<1>8. SentInOrder'
  <2>1. stamp \in Nat /\ Waiting \subseteq Nat
    BY RecordedIsNat DEF CaptureInv
  <2> QED
    BY <1>1, <1>3, <1>5, <2>1, SentKept DEF CaptureInv
<1> QED
  BY <1>4, <1>6, <1>7, <1>8 DEF CaptureInv

\* A callback adds samples newer than all others, or none.
LEMMA CallbackKeeps ==
    ASSUME CaptureInv, NEW n \in 0..MaxChunk, InputCallback(n), ResamplerInv'
    PROVE  CaptureInv'
<1> DEFINE chunk == [sample_rate_hz |-> mic, samples |-> [i \in 1..n |-> stamp']]
<1>1. /\ stamp' = stamp + 1 /\ stamp < MaxStamp /\ mic # 0
      /\ UNCHANGED <<mic, opened, capture, heard>>
  BY DEF InputCallback
<1>2. stamp \in Nat /\ stamp' \in 0..MaxStamp /\ opened \in 0..stamp /\ stamp' \in Nat
  BY <1>1, CaptureAssumption DEF CaptureInv, PipelineOK
<1>3. /\ Waiting \subseteq (opened + 1)..stamp /\ Waiting \subseteq Nat
      /\ Buffered(capture) \subseteq Waiting /\ ChunkVals(chunk_rx) \subseteq Waiting
  BY RecordedIsNat DEF CaptureInv, Waiting
<1>older. UpTo(Buffered(capture), {stamp'}) /\ UpTo(ChunkVals(chunk_rx), {stamp'})
  <2>1. \A w \in (opened + 1)..stamp : w <= stamp'
    BY <1>1, <1>2
  <2>2. UpTo(Waiting, {stamp'})
    BY <1>3, <2>1 DEF UpTo
  <2> QED
    BY <1>3, <2>2 DEF UpTo
<1>4. /\ chunk.sample_rate_hz = mic /\ Ordered(chunk.samples)
      /\ Vals(chunk.samples) \subseteq {stamp'}
  BY <1>2 DEF Ordered, Vals
<1>5. chunk_rx \in Seq(Chunks) /\ ChunksInOrder(chunk_rx)
  BY DEF CaptureInv, PipelineOK, ResamplerInv, WaitsInOrder
<1>6. /\ ChunksInOrder(chunk_rx')
      /\ ChunkVals(chunk_rx') \subseteq ChunkVals(chunk_rx) \cup {stamp'}
      /\ Len(chunk_rx') <= MAX_CAPTURE_QUEUE_DEPTH
      /\ \A i \in DOMAIN chunk_rx' : chunk_rx'[i].sample_rate_hz = mic
  <2>1. CASE chunk_rx' = chunk_rx
    BY <1>5, <2>1 DEF CaptureInv, PipelineOK
  <2>2. CASE /\ chunk_rx' = Append(chunk_rx, chunk)
             /\ Len(chunk_rx) < MAX_CAPTURE_QUEUE_DEPTH
    <3> DEFINE All == Chunks \cup {chunk}
    <3>1. chunk_rx \in Seq(All) /\ chunk \in All
      BY <1>5
    <3>2. UpTo(ChunkVals(chunk_rx), Vals(chunk.samples))
      BY <1>4, <1>older, UpToParts
    <3> HIDE DEF All, chunk
    <3>3. /\ ChunksInOrder(chunk_rx')
          /\ ChunkVals(chunk_rx') \subseteq ChunkVals(chunk_rx) \cup Vals(chunk.samples)
      BY <1>4, <1>5, <2>2, <3>1, <3>2, NewestChunk
    <3>4. /\ Len(chunk_rx') <= MAX_CAPTURE_QUEUE_DEPTH
          /\ \A i \in DOMAIN chunk_rx' : chunk_rx'[i] = chunk \/
                                          (i \in DOMAIN chunk_rx /\ chunk_rx'[i] = chunk_rx[i])
      BY <1>5, <2>2, CaptureAssumption
    <3>5. \A i \in DOMAIN chunk_rx' : chunk_rx'[i].sample_rate_hz = mic
      BY <1>4, <3>4 DEF CaptureInv, PipelineOK
    <3> QED
      BY <1>4, <3>3, <3>4, <3>5
  <2>3. \/ chunk_rx' = chunk_rx
        \/ chunk_rx' = Append(chunk_rx, chunk) /\ Len(chunk_rx) < MAX_CAPTURE_QUEUE_DEPTH
    BY DEF InputCallback
  <2> QED
    BY <2>1, <2>2, <2>3
<1> HIDE DEF chunk
<1>7. PipelineOK'
  BY <1>1, <1>2, <1>6 DEF CaptureInv, PipelineOK
<1>8. Waiting' \subseteq Waiting \cup {stamp'}
  BY <1>1, <1>6 DEF Waiting
<1>9. RecordedSince'
  <2>1. (opened + 1)..stamp \subseteq (opened + 1)..stamp' /\ stamp' \in (opened + 1)..stamp'
    BY <1>1, <1>2
  <2> QED
    BY <1>1, <1>6, <2>1 DEF CaptureInv, RecordedSince
<1>10. WaitsInOrder'
  <2>1. UpTo(Buffered(capture), ChunkVals(chunk_rx'))
    BY <1>6, <1>older DEF CaptureInv, WaitsInOrder, UpTo
  <2> QED
    BY <1>1, <1>6, <2>1 DEF CaptureInv, WaitsInOrder
<1>11. SentInOrder'
  <2>1. Waiting' \subseteq Nat /\ \A w \in Waiting' : w \in Waiting \/ w >= stamp
    BY <1>1, <1>2, <1>3, <1>8
  <2> QED
    BY <1>1, <1>2, <2>1, SentKept DEF CaptureInv
<1> QED
  BY <1>7, <1>9, <1>10, <1>11 DEF CaptureInv

\* A switch leaves nothing that waits.
LEMMA SwitchKeeps ==
    ASSUME CaptureInv, NEW rate \in Rates, switch_capture_device(rate), ResamplerInv'
    PROVE  CaptureInv'
<1>1. /\ mic' = rate /\ opened' = stamp /\ chunk_rx' = <<>>
      /\ capture' = EmptyPipeline(SAMPLE_RATE) /\ UNCHANGED <<stamp, heard>>
  BY DEF switch_capture_device
<1>2. SAMPLE_RATE \in Nat \ {0} /\ FRAME_SAMPLES \in Nat \ {0}
      /\ MAX_CAPTURE_QUEUE_DEPTH \in Nat /\ stamp \in Nat
  BY CaptureAssumption DEF CaptureInv, PipelineOK
<1>3. /\ InOrder(capture') /\ Buffered(capture') = {}
      /\ capture'.sample_rate_hz = SAMPLE_RATE /\ capture'.last_frame = Silence
      /\ capture'.ready_frames = <<>> /\ capture'.frame_assembly = <<>>
  BY <1>1, <1>2, EmptyInOrder
<1>4. ChunkVals(chunk_rx') = {} /\ ChunksInOrder(chunk_rx') /\ DOMAIN chunk_rx' = {}
      /\ Len(chunk_rx') = 0
  <2>1. DOMAIN chunk_rx' = {} /\ Len(chunk_rx') = 0
    BY <1>1
  <2> QED
    BY <2>1 DEF ChunkVals, ChunksInOrder
<1>5. PipelineOK'
  <2>1. capture'.frame_assembly \in Seq(Nat) /\ capture'.ready_frames \in Seq(Fr)
        /\ Len(capture'.frame_assembly) = 0 /\ Len(capture'.ready_frames) = 0
    BY <1>3
  <2> QED
    BY <1>1, <1>2, <1>3, <1>4, <2>1, SilenceFacts DEF CaptureInv, PipelineOK, Fr
<1>6. Waiting' = {}
  BY <1>3, <1>4 DEF Waiting
<1>7. RecordedSince' /\ WaitsInOrder'
  BY <1>3, <1>4 DEF RecordedSince, WaitsInOrder, UpTo
<1>8. SentInOrder'
  BY <1>1, <1>2, <1>3, <1>6, SentKept DEF CaptureInv
<1> QED
  BY <1>5, <1>7, <1>8 DEF CaptureInv

\* A frame is taken for a flow: from the queue when there is one.
LEMMA TakeFromQueue ==
    ASSUME CaptureInv, NEW p \in Flows, NEW encoded \in BOOLEAN,
           build_next_audio_frame(p, encoded), capture.ready_frames # <<>>, ResamplerInv'
    PROVE  /\ CaptureInv'
           /\ \A o \in Flows : heard'[o] = heard[o] \/ UpTo(Vals(heard[o]), Vals(heard'[o]))
<1> DEFINE f == Head(capture.ready_frames)
           u == Tail(capture.ready_frames)
<1>1. /\ capture' = [capture EXCEPT !.ready_frames = u, !.last_frame = f]
      /\ heard' = (IF encoded /\ f # Silence THEN [heard EXCEPT ![p] = f] ELSE heard)
      /\ UNCHANGED <<mic, stamp, opened, chunk_rx>>
  BY DEF build_next_audio_frame, take_ready_frame, NextPcm
<1>2. capture.ready_frames \in Seq(Fr) /\ FramesInOrder(capture.ready_frames)
  BY DEF CaptureInv, PipelineOK, WaitsInOrder, InOrder, Fr
<1>3. /\ f \in Fr /\ Ordered(f) /\ Vals(f) \subseteq FrameVals(capture.ready_frames)
      /\ u \in Seq(Fr) /\ Len(u) <= Len(capture.ready_frames)
      /\ FramesInOrder(u) /\ FrameVals(u) \subseteq FrameVals(capture.ready_frames)
      /\ UpTo(Vals(f), FrameVals(u))
  BY <1>2, OldestFrame
<1> HIDE DEF f, u
<1>4. /\ capture'.ready_frames = u /\ capture'.last_frame = f
      /\ capture'.frame_assembly = capture.frame_assembly
      /\ capture'.input_samples = capture.input_samples
      /\ capture'.sample_rate_hz = capture.sample_rate_hz
  BY <1>1 DEF CaptureInv, PipelineOK, ResamplerInv, PipelineFields
<1>5. InOrder(capture') /\ Buffered(capture') \subseteq Buffered(capture)
  BY <1>3, <1>4, FewerFrames DEF CaptureInv, WaitsInOrder
<1>6. Waiting' \subseteq Waiting /\ Vals(f) \subseteq Buffered(capture)
      /\ Vals(f) \subseteq Waiting
  BY <1>1, <1>3, <1>5 DEF Waiting, Buffered
<1>7. /\ Waiting \subseteq (opened + 1)..stamp /\ stamp \in 0..MaxStamp /\ opened \in Nat
      /\ stamp \in Nat
  BY RecordedIsNat DEF CaptureInv, PipelineOK
<1>8. f \in Frames /\ Vals(f) \subseteq 0..stamp /\ Vals(f) \subseteq (opened + 1)..stamp
  <2>1. Vals(f) \subseteq 0..stamp /\ Vals(f) \subseteq (opened + 1)..stamp
        /\ Vals(f) \subseteq 0..MaxStamp
    <3>1. /\ (opened + 1)..stamp \subseteq 0..stamp
          /\ (opened + 1)..stamp \subseteq 0..MaxStamp
      BY <1>7, CaptureAssumption
    <3>2. Vals(f) \subseteq (opened + 1)..stamp
      BY <1>6, <1>7
    <3> QED
      BY <3>1, <3>2
  <2>2. DOMAIN f = 1..FRAME_SAMPLES /\ \A i \in 1..FRAME_SAMPLES : f[i] \in Vals(f)
    BY <1>3 DEF Fr, Vals
  <2> QED
    BY <1>3, <2>1, <2>2 DEF Frames, Fr
<1>9. UpTo(Vals(f), Waiting')
  <2>1. UpTo(Vals(f), ChunkVals(chunk_rx))
    BY <1>6 DEF CaptureInv, WaitsInOrder, UpTo
  <2>2. UpTo(Vals(f), Vals(capture.frame_assembly) \cup Vals(capture.input_samples))
    BY <1>3 DEF CaptureInv, WaitsInOrder, InOrder, UpTo
  <2> QED
    BY <1>1, <1>3, <1>4, <2>1, <2>2 DEF Waiting, Buffered, UpTo
<1>10. heard \in [Flows -> Frames] /\ heard' \in [Flows -> Frames]
       /\ \A o \in Flows : heard'[o] = heard[o] \/ heard'[o] = f
  BY <1>1, <1>8 DEF CaptureInv, PipelineOK
<1>11. \A o \in Flows : /\ Vals(heard[o]) \subseteq 0..stamp
                        /\ UpTo(Vals(heard[o]), Waiting') /\ UpTo(Vals(heard[o]), Vals(f))
  BY <1>6 DEF CaptureInv, SentInOrder, UpTo
<1>12. PipelineOK'
  <2>1. Len(u) <= MAX_CAPTURE_QUEUE_DEPTH
    <3>1. Len(u) \in Nat /\ Len(capture.ready_frames) \in Nat
          /\ Len(capture.ready_frames) <= MAX_CAPTURE_QUEUE_DEPTH
      BY <1>2, <1>3 DEF CaptureInv, PipelineOK
    <3> QED
      BY <1>3, <3>1, CaptureAssumption
  <2> QED
    BY <1>1, <1>3, <1>4, <1>8, <1>10, <2>1 DEF CaptureInv, PipelineOK, Fr
<1>13. RecordedSince'
  BY <1>1, <1>4, <1>5, <1>8 DEF CaptureInv, RecordedSince
<1>14. WaitsInOrder'
  BY <1>1, <1>5 DEF CaptureInv, WaitsInOrder, UpTo
<1>15. SentInOrder'
  <2> SUFFICES ASSUME NEW o \in Flows
               PROVE  /\ Vals(heard'[o]) \subseteq 0..stamp
                      /\ UpTo(Vals(heard'[o]), Waiting')
                      /\ heard'[o] = f \/ UpTo(Vals(heard'[o]), Vals(f))
    BY <1>1, <1>3, <1>4, <1>8, <1>9 DEF SentInOrder
  <2>1. CASE heard'[o] = f
    BY <1>8, <1>9, <2>1
  <2>2. CASE heard'[o] = heard[o]
    BY <1>11, <2>2
  <2> QED
    BY <1>10, <2>1, <2>2
<1>16. \A o \in Flows : heard'[o] = heard[o] \/ UpTo(Vals(heard[o]), Vals(heard'[o]))
  BY <1>10, <1>11
<1> QED
  BY <1>12, <1>13, <1>14, <1>15, <1>16 DEF CaptureInv

\* With an empty queue the last frame is sent again, or the tone.
LEMMA TakeAgain ==
    ASSUME CaptureInv, NEW p \in Flows, NEW encoded \in BOOLEAN,
           build_next_audio_frame(p, encoded), capture.ready_frames = <<>>, ResamplerInv'
    PROVE  /\ CaptureInv'
           /\ \A o \in Flows : heard'[o] = heard[o] \/ UpTo(Vals(heard[o]), Vals(heard'[o]))
<1> DEFINE last == capture.last_frame
<1>1. /\ capture' = capture /\ UNCHANGED <<mic, stamp, opened, chunk_rx>>
      /\ heard' = heard \/ (last # Silence /\ heard' = [heard EXCEPT ![p] = last])
  BY DEF build_next_audio_frame, take_ready_frame, NextPcm
<1>2. heard \in [Flows -> Frames] /\ last \in Frames
  BY DEF CaptureInv, PipelineOK
<1>3. /\ heard' \in [Flows -> Frames]
      /\ \A o \in Flows : heard'[o] = heard[o] \/ (heard'[o] = last /\ last # Silence)
  BY <1>1, <1>2
<1>4. PipelineOK'
  BY <1>1, <1>3 DEF CaptureInv, PipelineOK
<1>5. RecordedSince' /\ WaitsInOrder' /\ Waiting' = Waiting
  BY <1>1 DEF CaptureInv, RecordedSince, WaitsInOrder, Waiting
<1>6. SentInOrder'
  BY <1>1, <1>3, <1>5 DEF CaptureInv, SentInOrder
<1>7. \A o \in Flows : heard'[o] = heard[o] \/ UpTo(Vals(heard[o]), Vals(heard'[o]))
  BY <1>3 DEF CaptureInv, SentInOrder
<1> QED
  BY <1>4, <1>5, <1>6, <1>7 DEF CaptureInv

-----------------------------------------------------------------------------
(* Theorems *)

LEMMA InitCapture == Init => CaptureInv
<1> SUFFICES ASSUME Init PROVE CaptureInv
  OBVIOUS
<1>1. /\ mic \in Rates \cup {0} /\ stamp = 0 /\ opened = 0 /\ chunk_rx = <<>>
      /\ capture = EmptyPipeline(SAMPLE_RATE) /\ heard = [p \in Flows |-> Silence]
  BY DEF Init, CaptureInit
<1>2. SAMPLE_RATE \in Nat \ {0} /\ FRAME_SAMPLES \in Nat \ {0}
      /\ MAX_CAPTURE_QUEUE_DEPTH \in Nat /\ MaxStamp \in Nat
  BY CaptureAssumption
<1>3. /\ InOrder(capture) /\ Buffered(capture) = {}
      /\ capture.sample_rate_hz = SAMPLE_RATE /\ capture.last_frame = Silence
      /\ capture.ready_frames = <<>> /\ capture.frame_assembly = <<>>
  BY <1>1, <1>2, EmptyInOrder
<1>4. ChunkVals(chunk_rx) = {} /\ ChunksInOrder(chunk_rx) /\ DOMAIN chunk_rx = {}
      /\ Len(chunk_rx) = 0
  <2>1. DOMAIN chunk_rx = {} /\ Len(chunk_rx) = 0
    BY <1>1
  <2> QED
    BY <2>1 DEF ChunkVals, ChunksInOrder
<1>5. PipelineOK
  <2>1. capture.frame_assembly \in Seq(Nat) /\ capture.ready_frames \in Seq(Fr)
        /\ Len(capture.frame_assembly) = 0 /\ Len(capture.ready_frames) = 0
    BY <1>3
  <2>2. ResamplerInv
    BY InitResampler
  <2> QED
    BY <1>1, <1>2, <1>3, <1>4, <2>1, <2>2, SilenceFacts DEF PipelineOK, Fr
<1>6. RecordedSince /\ WaitsInOrder
  BY <1>3, <1>4 DEF RecordedSince, WaitsInOrder, UpTo
<1>7. SentInOrder
  <2>1. Waiting = {} /\ 0 \in Nat
    BY <1>3, <1>4 DEF Waiting
  <2> QED
    BY <1>1, <1>3, <2>1, SilenceFacts DEF SentInOrder, UpTo
<1> QED
  BY <1>5, <1>6, <1>7 DEF CaptureInv

\* A step keeps the invariant, and no peer is sent what is older than what it was sent.
LEMMA CaptureStep ==
    ASSUME CaptureInv, [Next]_vars
    PROVE  /\ CaptureInv'
           /\ \A o \in Flows : heard'[o] = heard[o] \/ UpTo(Vals(heard[o]), Vals(heard'[o]))
<1>1. ResamplerInv'
  BY StepKeepsResampler DEF CaptureInv, PipelineOK
<1>2. CASE UNCHANGED captureVars
  BY <1>1, <1>2 DEF captureVars, CaptureInv, PipelineOK, RecordedSince, WaitsInOrder,
                    SentInOrder, Waiting
<1>3. CASE ingest
  BY <1>3, IngestKeeps DEF ingest
<1>4. CASE \E p \in Flows : BuildNextAudioFrame(p)
  <2>1. PICK p \in Flows, encoded \in BOOLEAN : build_next_audio_frame(p, encoded)
    BY <1>4 DEF BuildNextAudioFrame
  <2> QED
    BY <1>1, <2>1, TakeFromQueue, TakeAgain
<1>5. CASE \E rate \in Rates : switch_capture_device(rate)
  BY <1>1, <1>5, SwitchKeeps DEF switch_capture_device
<1>6. CASE \E n \in 0..MaxChunk : InputCallback(n)
  BY <1>1, <1>6, CallbackKeeps DEF InputCallback
<1> QED
  BY <1>2, <1>3, <1>4, <1>5, <1>6 DEF Next, EngineStep, Beside, vars

\* The inductive invariant of the microphone side, for every choice of the constants.
THEOREM CaptureSafe == Spec => []CaptureInv
<1>1. CaptureInv /\ [Next]_vars => CaptureInv'
  BY CaptureStep
<1> QED
  BY <1>1, InitCapture, PTL DEF Spec

\* Both sides of the media engine keep their types, and the channels, the queue of ready
\* frames, the frame being assembled and the rings keep within their limits.
THEOREM TypeCorrect == Spec => []TypeOK
<1>1. CaptureInv => CaptureTypeOK
  <2> SUFFICES ASSUME CaptureInv PROVE CaptureTypeOK
    OBVIOUS
  <2> USE DEF CaptureInv
  <2>1. running \in BOOLEAN
    BY DEF PipelineOK, ResamplerInv
  <2>2. ASSUME NEW i \in DOMAIN capture.ready_frames
        PROVE  capture.ready_frames[i] \in Frames
    <3> DEFINE f == capture.ready_frames[i]
    <3>1. f \in Fr
      BY DEF PipelineOK, Fr
    <3>2. Vals(f) \subseteq (opened + 1)..stamp
      BY FrameValIn DEF RecordedSince, Buffered
    <3>3. (opened + 1)..stamp \subseteq 0..MaxStamp
      BY CaptureAssumption DEF PipelineOK
    <3>4. DOMAIN f = 1..FRAME_SAMPLES /\ \A k \in 1..FRAME_SAMPLES : f[k] \in Vals(f)
      BY <3>1 DEF Fr, Vals
    <3> QED
      BY <3>1, <3>2, <3>3, <3>4 DEF Frames, Fr
  <2> QED
    BY <2>1, <2>2 DEF PipelineOK, ResamplerInv, CaptureTypeOK
<1>2. RingInv => OutputTypeOK
  BY DEF RingInv
<1> QED
  BY <1>1, <1>2, CaptureSafe, RingsSafe, PTL DEF TypeOK

\* After a switch of the device nothing the old one recorded is left to be sent: not in the
\* channel, half a frame, the queue, nor the frame that is sent again.
THEOREM OldDeviceGone == Spec => []OnlyCurrentDevice
<1>1. CaptureInv => OnlyCurrentDevice
  <2> SUFFICES ASSUME CaptureInv PROVE OnlyCurrentDevice
    OBVIOUS
  <2>1. opened \in Nat /\ stamp \in Nat
    BY RecordedIsNat DEF CaptureInv
  <2>2. ASSUME NEW s, Vals(s) \subseteq (opened + 1)..stamp
        PROVE  \A i \in DOMAIN s : s[i] > opened
    <3>1. \A i \in DOMAIN s : s[i] \in (opened + 1)..stamp
      BY <2>2 DEF Vals
    <3> QED
      BY <2>1, <3>1
  <2>3. \A i \in DOMAIN chunk_rx : Vals(chunk_rx[i].samples) \subseteq (opened + 1)..stamp
    BY ChunkValIn DEF CaptureInv, RecordedSince
  <2>4. \A i \in DOMAIN capture.ready_frames :
          Vals(capture.ready_frames[i]) \subseteq (opened + 1)..stamp
    BY FrameValIn DEF CaptureInv, RecordedSince, Buffered
  <2>5. /\ Vals(capture.input_samples) \subseteq (opened + 1)..stamp
        /\ Vals(capture.frame_assembly) \subseteq (opened + 1)..stamp
        /\ capture.last_frame = Silence
           \/ Vals(capture.last_frame) \subseteq (opened + 1)..stamp
    BY DEF CaptureInv, RecordedSince, Buffered
  <2> QED
    BY <2>2, <2>3, <2>4, <2>5 DEF OnlyCurrentDevice
<1> QED
  BY <1>1, CaptureSafe, PTL

\* Although all flows take from one queue, which drops frames when it is full and repeats
\* one when it is empty, no peer is sent audio older than what it was sent before.
THEOREM FlowsGoForward == Spec => NoFlowGoesBack
<1> DEFINE Ahead == \A p \in Flows :
                      heard'[p] # heard[p] => heard'[p][1] >= heard[p][FRAME_SAMPLES]
<1>1. ASSUME CaptureInv, [Next]_vars
      PROVE  [Ahead]_captureVars
  <2> SUFFICES ASSUME NEW p \in Flows, heard'[p] # heard[p]
               PROVE  heard'[p][1] >= heard[p][FRAME_SAMPLES]
    OBVIOUS
  <2>1. UpTo(Vals(heard[p]), Vals(heard'[p])) /\ CaptureInv'
    BY <1>1, CaptureStep
  <2>2. heard[p] \in Frames /\ heard'[p] \in Frames
    BY <1>1, <2>1 DEF CaptureInv, PipelineOK
  <2>3. FRAME_SAMPLES \in Nat \ {0}
    BY CaptureAssumption
  <2>4. heard'[p][1] \in Vals(heard'[p]) /\ heard[p][FRAME_SAMPLES] \in Vals(heard[p])
        /\ heard'[p][1] \in Nat /\ heard[p][FRAME_SAMPLES] \in Nat
    <3>1. \A f \in Frames, i \in 1..FRAME_SAMPLES : f[i] \in Vals(f) /\ f[i] \in Nat
      BY CaptureAssumption DEF Frames, Vals
    <3>2. 1 \in 1..FRAME_SAMPLES /\ FRAME_SAMPLES \in 1..FRAME_SAMPLES
      BY <2>3
    <3> QED
      BY <2>2, <3>1, <3>2
  <2> QED
    BY <2>1, <2>4 DEF UpTo
<1>2. CaptureInv /\ [Next]_vars => [Ahead]_captureVars
  BY <1>1
<1> QED
  BY <1>2, CaptureSafe, PTL DEF Spec, NoFlowGoesBack

=============================================================================
