----------------------------- MODULE JitterBuffer -----------------------------
(***************************************************************************)
(* Playout of one remote peer's audio: the JitterBuffer that the media     *)
(* engine keeps per peer, the 5 ms playout tick that drains it, the remote *)
(* sender that numbers its frames, and the network in between, which loses *)
(* and reorders them.                                                      *)
(*                                                                         *)
(* A frame is its index: its timestamp divided by FRAME_SAMPLES, of which  *)
(* every timestamp is a multiple.  Time is counted in playout ticks of     *)
(* PLAYOUT_TICK_MS.  The deadline is kept relative to the `now` of the     *)
(* current tick (due = deadline - now, so due <= 0 once it has passed);    *)
(* nothing else in the buffer reads a clock.                               *)
(*                                                                         *)
(* Inserting a frame, dropping the peer and a whole tick are turns of the  *)
(* one media task.  A tick takes up to MAX_PLAYOUT_BURST_FRAMES decisions, *)
(* each an action here; burst counts those left, and nothing else of the   *)
(* task runs until it is 0.                                                *)
(***************************************************************************)
EXTENDS Integers, FiniteSets, FiniteSetsExt

CONSTANTS
    JITTER_TARGET_DEPTH, JITTER_MIN_DEPTH, JITTER_MAX_TARGET_DEPTH,
    JITTER_MAX_DEPTH, DRIFT_REBASE_THRESHOLD_FRAMES,
    STABLE_PLAYOUT_TICKS_BEFORE_SHRINK, MAX_PLAYOUT_BURST_FRAMES,
    FRAME_TICKS,   \* FRAME_DURATION_MS in playout ticks
    GRACE_TICKS,   \* PLAYOUT_LATE_GRACE_MS in playout ticks
    MaxFrames,     \* bound: frames a sender numbers before it restarts
    MaxInFlight,   \* bound: frames in the network at once
    MaxDelay       \* bound: ticks that may pass between two turns of the timer

ASSUME JitterAssumption ==
    /\ JITTER_MIN_DEPTH \in Nat \ {0}
    /\ JITTER_TARGET_DEPTH \in JITTER_MIN_DEPTH .. JITTER_MAX_TARGET_DEPTH
    /\ JITTER_MAX_TARGET_DEPTH \in Nat
    /\ JITTER_MAX_DEPTH \in Nat
    /\ DRIFT_REBASE_THRESHOLD_FRAMES \in Nat
    /\ STABLE_PLAYOUT_TICKS_BEFORE_SHRINK \in Nat \ {0}
    /\ MAX_PLAYOUT_BURST_FRAMES \in Nat \ {0}
    /\ FRAME_TICKS \in Nat \ {0}
    /\ GRACE_TICKS \in Nat
    /\ MaxFrames \in Nat
    /\ MaxInFlight \in Nat
    /\ MaxDelay \in Nat

VARIABLES
    pending,              \* frames buffered and not yet played
    next_playout,         \* the frame the clock waits for, Unset before priming
    due,                  \* its deadline, relative to now
    target_depth,         \* frames to collect before playing
    stable_playout_ticks, \* consecutive plays with more than target_depth left
    burst,                \* playout decisions left in the current tick
    sent,                 \* the sender's next frame index
    net                   \* frames on their way

clockVars == <<next_playout, due>>
depthVars == <<target_depth, stable_playout_ticks>>
bufferVars == <<pending, clockVars, depthVars>>
remoteVars == <<sent, net>>
vars == <<bufferVars, burst, remoteVars>>

\* next_playout_timestamp_samples = None
Unset == -1

TypeOK ==
    /\ pending \subseteq Nat
    /\ next_playout \in Nat \cup {Unset}
    /\ due \in Int
    /\ target_depth \in JITTER_MIN_DEPTH .. JITTER_MAX_TARGET_DEPTH
    /\ stable_playout_ticks \in 0 .. STABLE_PLAYOUT_TICKS_BEFORE_SHRINK - 1
    /\ burst \in 0 .. MAX_PLAYOUT_BURST_FRAMES
    /\ sent \in Nat
    /\ net \subseteq Nat

Init ==
    /\ pending = {}
    /\ next_playout = Unset
    /\ due = 0
    /\ target_depth = JITTER_TARGET_DEPTH
    /\ stable_playout_ticks = 0
    /\ burst = 0
    /\ sent = 0
    /\ net = {}

-----------------------------------------------------------------------------
(* The sender and the network *)

\* The sender's media engine builds its next frame, and its network task sends
\* it in a request of its own.
BuildNextAudioFrame ==
    /\ sent < MaxFrames
    /\ sent \notin net
    /\ Cardinality(net) < MaxInFlight
    /\ sent' = sent + 1
    /\ net' = net \cup {sent}
    /\ UNCHANGED <<bufferVars, burst>>

\* The request that carries frame k fails.
Lose(k) ==
    /\ net' = net \ {k}
    /\ UNCHANGED <<bufferVars, burst, sent>>

\* The sender drops its runtime for us and numbers its frames from 0 again,
\* while our buffer keeps the clock of the earlier numbering.
SenderRestart ==
    /\ sent > 0
    /\ sent' = 0
    /\ UNCHANGED <<bufferVars, burst, net>>

-----------------------------------------------------------------------------
(* The buffer *)

\* Mutant of Trim: the cut does not stop at the frame the clock waits for.
TrimPastDue(S) ==
    {k \in S : Cardinality({j \in S : j >= k}) <= JITTER_MAX_DEPTH}

\* The frames that stay when S is cut to JITTER_MAX_DEPTH: the oldest go first,
\* and the cut ends at the frame the clock waits for.
Trim(S) ==
    {k \in S : \/ Cardinality({j \in S : j >= k}) <= JITTER_MAX_DEPTH
               \/ next_playout \in S /\ k >= next_playout}

\* Mutant of raise_target_depth: the limit is forgotten.
raise_target_depth_unbounded ==
    /\ target_depth' = target_depth + 1
    /\ stable_playout_ticks' = 0

raise_target_depth ==
    /\ target_depth' = Min({target_depth + 1, JITTER_MAX_TARGET_DEPTH})
    /\ stable_playout_ticks' = 0

\* After a frame was played that leaves the frames `left`, with `stable` such
\* plays in a row before it.
note_stable_tick(left, stable) ==
    LET deep   == Cardinality(left) > target_depth
        shrink == deep /\ stable + 1 >= STABLE_PLAYOUT_TICKS_BEFORE_SHRINK
    IN  /\ stable_playout_ticks' = IF deep /\ ~shrink THEN stable + 1 ELSE 0
        /\ target_depth' = IF shrink THEN Max({target_depth - 1, JITTER_MIN_DEPTH})
                                     ELSE target_depth

\* Mutant of insert: the check for a late frame is dropped.
insert_keeping_late(k) ==
    /\ burst = 0
    /\ net' = net \ {k}
    /\ pending' = Trim(pending \cup {k})
    /\ UNCHANGED <<depthVars, clockVars, burst, sent>>

\* A frame arrives.  One the clock has passed is dropped, and is a reason to
\* wait longer next time.
insert(k) ==
    /\ burst = 0
    /\ net' = net \ {k}
    /\ \/ /\ k < next_playout
          /\ raise_target_depth
          /\ UNCHANGED pending
       \/ /\ k >= next_playout
          /\ pending' = Trim(pending \cup {k})
          /\ UNCHANGED depthVars
    /\ UNCHANGED <<clockVars, burst, sent>>

\* The runtime is removed; the next frame or registration makes a new buffer,
\* which until then decides what an absent one does: nothing.
DisconnectPeer ==
    /\ burst = 0
    /\ pending' = {}
    /\ next_playout' = Unset
    /\ due' = 0
    /\ target_depth' = JITTER_TARGET_DEPTH
    /\ stable_playout_ticks' = 0
    /\ UNCHANGED <<burst, remoteVars>>

\* drive_playout starts, `late` ticks after the last time.
PlayoutTick(late) ==
    /\ burst = 0
    /\ burst' = MAX_PLAYOUT_BURST_FRAMES
    /\ due' = IF next_playout = Unset THEN due ELSE due - late
    /\ UNCHANGED <<pending, next_playout, depthVars, remoteVars>>

-----------------------------------------------------------------------------
(* next_playout_decision, one action per way out *)

\* No audio comes of this decision, which ends the burst.
Hold ==
    /\ burst > 0
    /\ burst' = 0
    /\ UNCHANGED remoteVars

\* Audio comes of it, and the next decision follows; or the decoder fails on
\* both the frame and its replacement, and the burst ends after all.
Play ==
    /\ burst > 0
    /\ burst' \in {burst - 1, 0}
    /\ UNCHANGED remoteVars

advance_playout_clock(deadline, expected) ==
    /\ next_playout' = expected + 1
    /\ due' = deadline + FRAME_TICKS

\* Frame `expected` leaves the buffer to be decoded.
PlayPacket(expected, deadline, stable) ==
    /\ Play
    /\ pending' = pending \ {expected}
    /\ advance_playout_clock(deadline, expected)
    /\ note_stable_tick(pending \ {expected}, stable)

\* Mutant of HoldForDepth: off by one.
HoldUpToDepth ==
    /\ next_playout = Unset
    /\ Cardinality(pending) <= target_depth
    /\ Hold
    /\ UNCHANGED bufferVars

\* Too few frames yet to start the clock.
HoldForDepth ==
    /\ next_playout = Unset
    /\ Cardinality(pending) < target_depth
    /\ Hold
    /\ UNCHANGED bufferVars

\* The clock starts at the earliest frame, with a deadline so far back that the
\* frames collected are all due at once.
PlayFirst ==
    /\ next_playout = Unset
    /\ Cardinality(pending) >= target_depth
    /\ PlayPacket(Min(pending), -((target_depth - 1) * FRAME_TICKS), 0)

HoldForDeadline ==
    /\ next_playout # Unset
    /\ due > 0
    /\ Hold
    /\ UNCHANGED bufferVars

DeadlinePassed == next_playout # Unset /\ due <= 0

\* Mutant of PlayDue: the deadline is not looked at.
PlayEarly ==
    /\ next_playout \in pending
    /\ PlayPacket(next_playout, due, stable_playout_ticks)

PlayDue ==
    /\ DeadlinePassed
    /\ next_playout \in pending
    /\ PlayPacket(next_playout, due, stable_playout_ticks)

\* Every buffered frame is far ahead of the clock.
DriftedApart ==
    /\ pending # {}
    /\ Min(pending) > next_playout + DRIFT_REBASE_THRESHOLD_FRAMES

\* The clock jumps to the earliest frame and plays it.  The deadline the jump
\* sets is overwritten at once, from the deadline before it.
PlayRebased ==
    /\ DeadlinePassed
    /\ DriftedApart
    /\ PlayPacket(Min(pending), due, stable_playout_ticks)

\* The frame that is due is not there, and the clock does not jump.
FrameMissing ==
    /\ DeadlinePassed
    /\ next_playout \notin pending
    /\ ~DriftedApart

HoldInGrace ==
    /\ FrameMissing
    /\ due > -GRACE_TICKS
    /\ Hold
    /\ UNCHANGED bufferVars

\* Mutant of Rebuffer: the clock is not cleared.
RebufferKeepingClock ==
    /\ FrameMissing
    /\ due <= -GRACE_TICKS
    /\ Cardinality(pending) < target_depth
    /\ Hold
    /\ due' = 0
    /\ stable_playout_ticks' = 0
    /\ UNCHANGED <<pending, next_playout, target_depth>>

\* Underrun: stop the clock and collect frames again.
Rebuffer ==
    /\ FrameMissing
    /\ due <= -GRACE_TICKS
    /\ Cardinality(pending) < target_depth
    /\ Hold
    /\ next_playout' = Unset
    /\ due' = 0
    /\ stable_playout_ticks' = 0
    /\ UNCHANGED <<pending, target_depth>>

\* Mutant of ConcealLoss: the deadline moves on and the clock does not.
ConcealInPlace ==
    /\ FrameMissing
    /\ due <= -GRACE_TICKS
    /\ Cardinality(pending) >= target_depth
    /\ Play
    /\ due' = due + FRAME_TICKS
    /\ raise_target_depth
    /\ UNCHANGED <<pending, next_playout>>

\* The missing frame is given up: its audio is recovered from the frame after
\* it, which stays in the buffer (Fec), or made up by the decoder (Conceal).
ConcealLoss ==
    /\ FrameMissing
    /\ due <= -GRACE_TICKS
    /\ Cardinality(pending) >= target_depth
    /\ Play
    /\ advance_playout_clock(due, next_playout)
    /\ raise_target_depth
    /\ UNCHANGED pending

-----------------------------------------------------------------------------

next_playout_decision ==
    \/ HoldForDepth
    \/ PlayFirst
    \/ HoldForDeadline
    \/ PlayDue
    \/ PlayRebased
    \/ HoldInGrace
    \/ Rebuffer
    \/ ConcealLoss

Remote ==
    \/ BuildNextAudioFrame
    \/ SenderRestart
    \/ \E k \in net : Lose(k)

Next ==
    \/ Remote
    \/ \E k \in net : insert(k)
    \/ DisconnectPeer
    \/ \E late \in 1 .. MaxDelay : PlayoutTick(late)
    \/ next_playout_decision

Spec == Init /\ [][Next]_vars

\* tokio's interval fires for as long as the media task runs, and the loop over
\* the decisions of one tick runs to its end.
Fairness ==
    /\ WF_vars(\E late \in 1 .. MaxDelay : PlayoutTick(late))
    /\ WF_vars(next_playout_decision)

FairSpec == Spec /\ Fairness

-----------------------------------------------------------------------------
(* Properties *)

\* No buffered frame lies behind the clock.  A frame there would never be
\* played: it would count towards the depth, hold the earliest place against
\* the jump and be cut only by an overflow.  insert, the jump, priming and
\* concealment all have to keep it.
NothingBehindClock ==
    next_playout # Unset => \A k \in pending : k >= next_playout

\* However late the timer runs and however many frames a burst plays to catch
\* up, the deadline never runs more than one frame ahead of now: a burst does
\* not play audio before its time.
ClockNotAhead == due <= FRAME_TICKS

\* The inductive invariant.
PlayoutInv ==
    /\ TypeOK
    /\ NothingBehindClock
    /\ ClockNotAhead

\* While the clock waits for a frame that has arrived, no arrival costs that
\* frame its place: it stays until it is played (the overflow loop of insert
\* stops at it), unless the peer's runtime is dropped or playout starts over.
DueFrameSurvives ==
    [][ next_playout # Unset /\ next_playout \in pending
            /\ next_playout' = next_playout
        => next_playout \in pending' ]_vars

\* Playout takes buffered frames in order and passes over none: when the clock
\* is at some frame after a step, every frame buffered before the step is
\* played by it, or still ahead.
NothingPassedOver ==
    [][ next_playout' # Unset =>
            \A k \in pending : k < next_playout' => k = next_playout' - 1 ]_vars

\* A sender that numbers its frames from 0 again is not dropped as late for
\* ever: the clock of the old numbering drains what it has and starts over.
RestartIsHeard == next_playout > sent ~> next_playout <= sent

\* Enough frames for any target depth start the clock, unless the peer's runtime
\* is dropped with them.
FullBufferStarts ==
    Cardinality(pending) >= JITTER_MAX_TARGET_DEPTH
        ~> next_playout # Unset \/ pending = {}

-----------------------------------------------------------------------------
(* The abstract specification the buffer implements *)

Ordered == INSTANCE OrderedPlayout WITH waiting <- pending, clock <- next_playout

\* With all its deadlines, depths, bursts and jumps, and for any losses and
\* delays, the buffer does no more than OrderedPlayout allows and moves on when
\* OrderedPlayout must, so that the clock never stays at a frame for good: insert, next_playout_decision and DisconnectPeer implement
\* an ordered playout.
PlaysInOrder == Ordered!OrderedFairSpec

=============================================================================
