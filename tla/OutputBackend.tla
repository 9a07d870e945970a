---------------------------- MODULE OutputBackend ----------------------------
(* The loudspeaker side on Linux: the media engine decodes audio of a peer *)
(* and sends it, behind a registration, to the backend's task over one     *)
(* command channel; the task keeps a PipeWire node with a ring of samples  *)
(* for each peer; and PipeWire's realtime thread takes samples out of the  *)
(* ring, after a preroll.  Samples are counted, not represented.           *)
EXTENDS Naturals, Sequences

CONSTANTS
    Speakers,             \* peers that may send audio
    COMMAND_DEPTH,        \* bound of the command channel (128 in the code)
    MAX_QUEUED_SAMPLES,
    MIN_PREROLL_SAMPLES,
    PcmSamples,           \* samples of one decoded frame
    Buffers               \* lengths of the buffers PipeWire may hand over

ASSUME OutputAssumption ==
    /\ COMMAND_DEPTH \in Nat
    /\ MAX_QUEUED_SAMPLES \in Nat /\ MIN_PREROLL_SAMPLES \in Nat
    /\ MIN_PREROLL_SAMPLES <= MAX_QUEUED_SAMPLES
    /\ PcmSamples \in Nat \ {0}
    /\ Buffers \subseteq Nat \ {0}

VARIABLES
    runtimes,           \* peers with a MediaPeerRuntime in the engine
    output_registered,  \* runtimes whose output the engine has registered
    commands,           \* the channel to the backend's task
    nodes,              \* peers with a PipeWire node
    samples,            \* samples[p]: length of the ring of p's node
    primed              \* nodes whose ring has passed the preroll

outputVars == <<runtimes, output_registered, commands, nodes, samples, primed>>

Commands == [cmd : {"Register", "Remove", "Push"}, peer : Speakers]

OutputInit ==
    /\ runtimes = {} /\ output_registered = {}
    /\ commands = <<>>
    /\ nodes = {} /\ primed = {}
    /\ samples = [p \in Speakers |-> 0]

-----------------------------------------------------------------------------
(* The engine's side.  It waits when the channel is full.                  *)

RegisterPeer(p) ==
    /\ runtimes' = runtimes \union {p}
    /\ UNCHANGED <<output_registered, commands, nodes, samples, primed>>

DisconnectWithoutRemoval(p) ==
    /\ runtimes' = runtimes \ {p}
    /\ output_registered' = output_registered \ {p}
    /\ UNCHANGED <<commands, nodes, samples, primed>>

DisconnectPeer(p) ==
    /\ Len(commands) < COMMAND_DEPTH
    /\ runtimes' = runtimes \ {p}
    /\ output_registered' = output_registered \ {p}
    /\ commands' = Append(commands, [cmd |-> "Remove", peer |-> p])
    /\ UNCHANGED <<nodes, samples, primed>>

\* drive_playout has a decoded frame of p.  A registration counts as made when the
\* command is sent.
PlayPcm(p) ==
    LET register == IF p \in output_registered THEN <<>>
                    ELSE <<[cmd |-> "Register", peer |-> p]>>
    IN  /\ p \in runtimes
        /\ Len(commands) + Len(register) < COMMAND_DEPTH
        /\ output_registered' = output_registered \union {p}
        /\ commands' = commands \o register \o <<[cmd |-> "Push", peer |-> p]>>
        /\ UNCHANGED <<runtimes, nodes, samples, primed>>

-----------------------------------------------------------------------------
(* The backend's task handles one command at a time.                       *)

\* A node the peer has is kept unless the peer's name is another by now.  ensure_peer_node
\* waits for the new node's thread to report; a node that fails to start is not entered.
ensure_peer_node(p, started, renamed) ==
    IF p \in nodes /\ ~renamed THEN UNCHANGED <<nodes, samples, primed>>
    ELSE /\ nodes' = IF started THEN nodes \union {p} ELSE nodes \ {p}
         /\ samples' = [samples EXCEPT ![p] = 0]
         /\ primed' = primed \ {p}

remove_peer_node(p) ==
    /\ nodes' = nodes \ {p}
    /\ primed' = primed \ {p}
    /\ samples' = [samples EXCEPT ![p] = 0]

\* Audio for a peer without a node is dropped, and so are the oldest samples of a ring
\* that is too long.
Capped(n) == IF n > MAX_QUEUED_SAMPLES THEN MAX_QUEUED_SAMPLES ELSE n

push_peer_pcm(p) ==
    /\ samples' = IF p \in nodes THEN [samples EXCEPT ![p] = Capped(@ + PcmSamples)]
                  ELSE samples
    /\ UNCHANGED <<nodes, primed>>

HandleCommand(started, renamed) ==
    /\ commands # <<>>
    /\ commands' = Tail(commands)
    /\ LET p == Head(commands).peer
       IN  CASE Head(commands).cmd = "Register" -> ensure_peer_node(p, started, renamed)
             [] Head(commands).cmd = "Remove"   -> remove_peer_node(p)
             [] Head(commands).cmd = "Push"     -> push_peer_pcm(p)
    /\ UNCHANGED <<runtimes, output_registered>>

-----------------------------------------------------------------------------
(* PipeWire's callback.  A ring below the preroll plays silence and is not *)
(* touched; a primed one that falls below half of it must fill up again.   *)
(* The whole buffer is filled, with silence behind the last sample.        *)

StaysPrimedWhileAny(left) == left > 0

StaysPrimed(left) == left >= MIN_PREROLL_SAMPLES \div 2

fill_output_buffer(p, n) ==
    /\ p \in nodes
    /\ p \in primed \/ samples[p] >= MIN_PREROLL_SAMPLES
    /\ LET left == IF samples[p] > n THEN samples[p] - n ELSE 0
       IN  /\ samples' = [samples EXCEPT ![p] = left]
           /\ primed' = IF StaysPrimed(left) THEN primed \union {p} ELSE primed \ {p}
    /\ UNCHANGED <<runtimes, output_registered, commands, nodes>>

-----------------------------------------------------------------------------
(* What the loudspeaker side promises.                                     *)

OutputTypeOK ==
    /\ runtimes \subseteq Speakers
    /\ output_registered \subseteq runtimes
    /\ commands \in Seq(Commands) /\ Len(commands) <= COMMAND_DEPTH
    /\ nodes \subseteq Speakers
    /\ primed \subseteq nodes
    /\ samples \in [Speakers -> 0..MAX_QUEUED_SAMPLES]

\* A node that is playing does not run dry in the middle of a callback, as long as the
\* buffers are no longer than half a preroll: a primed ring fills the next one, however
\* pushes, overflows, reconnections and callbacks, those with longer buffers too, have
\* interleaved so far (fill_output_buffer's two thresholds).
NoGapWhilePrimed ==
    \A p \in primed : \A n \in Buffers :
        2 * n <= MIN_PREROLL_SAMPLES => samples[p] >= n

\* No node outlives its peer: when the engine has dropped a peer's runtime, either there
\* is no node of it and none is on its way, or its removal is still queued behind
\* everything that was queued for it (DisconnectPeer; the backend handles the commands in
\* the order they were sent).
NodesFollowRuntimes ==
    \A p \in Speakers \ output_registered :
        LET About(cmd) == {i \in DOMAIN commands : commands[i] = [cmd |-> cmd, peer |-> p]}
        IN  p \in nodes \/ About("Register") # {}
              => \E i \in About("Remove") : \A j \in About("Register") : j < i

=============================================================================
