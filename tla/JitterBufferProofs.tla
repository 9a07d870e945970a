-------------------------- MODULE JitterBufferProofs --------------------------
(***************************************************************************)
(* What the jitter buffer keeps for every depth, threshold, burst and tick *)
(* length its constants may name: PlayoutInv is inductive, and with it     *)
(* playout takes the buffered frames in order and an overflow spares the   *)
(* frame that is due.                                                      *)
(***************************************************************************)
EXTENDS JitterBuffer, FiniteSetTheorems, WellFoundedInduction, TLAPS

\* A non-empty set of frames has an earliest one, and Min chooses it
\* (pending.first_key_value()).
LEMMA EarliestFrame ==
    ASSUME NEW S, S \subseteq Nat, S # {}
    PROVE  Min(S) \in S /\ \A k \in S : Min(S) <= k
<1> DEFINE below == {ss \in Nat \X Nat : ss[1] < ss[2]}
<1>1. IsWellFoundedOn(below, Nat)
  BY NatLessThanWellFounded, Zenon DEF OpToRel
<1>2. \A j, k \in Nat : j < k => <<j, k>> \in below
  OBVIOUS
<1> HIDE DEF below
<1>3. PICK x \in S : \A y \in S : ~ (<<y, x>> \in below)
  BY <1>1, WFMin, Zenon
<1>4. \A y \in S : ~ (y < x)
  BY <1>2, <1>3, Zenon
<1>5. \A y \in S : x <= y
  BY <1>4
<1> QED
  BY <1>5 DEF Min

\* Enough frames to start the clock are some frames.
LEMMA EnoughIsSome ==
    ASSUME TypeOK, Cardinality(pending) >= target_depth
    PROVE  pending # {}
<1>1. target_depth \in Nat /\ target_depth >= 1
  BY JitterAssumption DEF TypeOK
<1> QED
  BY <1>1, FS_EmptySet

\* The smaller of two integers (usize::min in raise_target_depth).
LEMMA MinOfPair ==
    ASSUME NEW a \in Int, NEW b \in Int
    PROVE  Min({a, b}) = IF a <= b THEN a ELSE b
BY DEF Min

\* The larger of two integers (usize::max in note_stable_tick).
LEMMA MaxOfPair ==
    ASSUME NEW a \in Int, NEW b \in Int
    PROVE  Max({a, b}) = IF a >= b THEN a ELSE b
BY DEF Max

\* What the target depth may become, and the count of stable plays with it.
DepthOK ==
    /\ target_depth \in JITTER_MIN_DEPTH .. JITTER_MAX_TARGET_DEPTH
    /\ stable_playout_ticks \in 0 .. STABLE_PLAYOUT_TICKS_BEFORE_SHRINK - 1

\* A late or lost frame leaves the target depth within its limits.
LEMMA RaiseKeepsDepth ==
    ASSUME DepthOK, raise_target_depth
    PROVE  DepthOK'
<1>1. target_depth \in Int /\ JITTER_MAX_TARGET_DEPTH \in Int
  BY JitterAssumption DEF DepthOK
<1>2. target_depth' = IF target_depth + 1 <= JITTER_MAX_TARGET_DEPTH
                      THEN target_depth + 1 ELSE JITTER_MAX_TARGET_DEPTH
  BY <1>1, MinOfPair DEF raise_target_depth
<1> QED
  BY <1>1, <1>2, JitterAssumption DEF DepthOK, raise_target_depth

\* So does a played frame, whatever it leaves behind.
LEMMA NoteKeepsDepth ==
    ASSUME DepthOK, NEW left,
           NEW stable \in 0 .. STABLE_PLAYOUT_TICKS_BEFORE_SHRINK - 1,
           note_stable_tick(left, stable)
    PROVE  DepthOK'
<1>1. target_depth \in Int /\ JITTER_MIN_DEPTH \in Int
  BY JitterAssumption DEF DepthOK
<1>2. Max({target_depth - 1, JITTER_MIN_DEPTH})
          = IF target_depth - 1 >= JITTER_MIN_DEPTH
            THEN target_depth - 1 ELSE JITTER_MIN_DEPTH
  BY <1>1, MaxOfPair
<1>3. target_depth' \in JITTER_MIN_DEPTH .. JITTER_MAX_TARGET_DEPTH
  BY <1>1, <1>2, JitterAssumption DEF DepthOK, note_stable_tick
<1>4. stable_playout_ticks' \in 0 .. STABLE_PLAYOUT_TICKS_BEFORE_SHRINK - 1
  BY JitterAssumption DEF note_stable_tick
<1> QED
  BY <1>3, <1>4 DEF DepthOK

\* Trimming only removes frames.
LEMMA TrimShrinks ==
    ASSUME NEW S
    PROVE  Trim(S) \subseteq S
BY DEF Trim

\* Playing the earliest buffered frame keeps the invariant, when its deadline
\* has passed.  PlayFirst, PlayDue and PlayRebased are three such plays.
LEMMA PlayEarliestPreserves ==
    ASSUME PlayoutInv,
           NEW expected \in pending,
           \A k \in pending : expected <= k,
           NEW deadline \in Int, deadline <= 0,
           NEW stable \in 0 .. STABLE_PLAYOUT_TICKS_BEFORE_SHRINK - 1,
           PlayPacket(expected, deadline, stable)
    PROVE  PlayoutInv'
<1> USE DEF PlayoutInv
<1>1. expected \in Nat
  BY DEF TypeOK
<1>2. DepthOK'
  BY NoteKeepsDepth DEF TypeOK, DepthOK, PlayPacket
<1>3. burst' \in 0 .. MAX_PLAYOUT_BURST_FRAMES
  BY JitterAssumption DEF TypeOK, PlayPacket, Play
<1>4. next_playout' = expected + 1 /\ due' = deadline + FRAME_TICKS
  BY DEF PlayPacket, advance_playout_clock
<1>5. pending' = pending \ {expected} /\ UNCHANGED remoteVars
  BY DEF PlayPacket, Play
<1>6. TypeOK'
  BY <1>1, <1>2, <1>3, <1>4, <1>5, JitterAssumption
     DEF TypeOK, DepthOK, remoteVars
<1>7. NothingBehindClock'
  BY <1>1, <1>4, <1>5 DEF NothingBehindClock, TypeOK
<1>8. ClockNotAhead'
  BY <1>4, JitterAssumption DEF ClockNotAhead
<1> QED
  BY <1>6, <1>7, <1>8

\* PlayFirst plays the earliest frame of a buffer deep enough.
LEMMA PlayFirstPlaysEarliest ==
    ASSUME PlayoutInv, PlayFirst
    PROVE  /\ Min(pending) \in pending
           /\ \A k \in pending : Min(pending) <= k
BY EnoughIsSome, EarliestFrame DEF PlayoutInv, TypeOK, PlayFirst

\* The frame the clock waits for, when it is buffered, is the earliest.
LEMMA DueIsEarliest ==
    ASSUME PlayoutInv, next_playout # Unset
    PROVE  \A k \in pending : next_playout <= k
BY DEF PlayoutInv, TypeOK, NothingBehindClock

LEMMA PlayFirstPreserves ==
    ASSUME PlayoutInv, PlayFirst
    PROVE  PlayoutInv'
<1> DEFINE lead == (target_depth - 1) * FRAME_TICKS
<1>1. target_depth - 1 \in Nat /\ FRAME_TICKS \in Nat
  BY JitterAssumption DEF PlayoutInv, TypeOK
<1>2. lead \in Nat
  BY <1>1
<1>3. -lead \in Int /\ -lead <= 0
  BY <1>2
<1>4. 0 \in 0 .. STABLE_PLAYOUT_TICKS_BEFORE_SHRINK - 1
  BY JitterAssumption
<1>5. PlayPacket(Min(pending), -lead, 0)
  BY DEF PlayFirst
<1> HIDE DEF lead
<1> QED
  BY <1>3, <1>4, <1>5, PlayFirstPlaysEarliest, PlayEarliestPreserves

LEMMA PlayDuePreserves ==
    ASSUME PlayoutInv, PlayDue
    PROVE  PlayoutInv'
<1>1. due \in Int /\ due <= 0 /\ next_playout # Unset
  BY DEF PlayoutInv, TypeOK, PlayDue, DeadlinePassed
<1>2. stable_playout_ticks \in 0 .. STABLE_PLAYOUT_TICKS_BEFORE_SHRINK - 1
  BY DEF PlayoutInv, TypeOK
<1> QED
  BY <1>1, <1>2, DueIsEarliest, PlayEarliestPreserves DEF PlayDue

LEMMA PlayRebasedPreserves ==
    ASSUME PlayoutInv, PlayRebased
    PROVE  PlayoutInv'
<1>1. due \in Int /\ due <= 0
  BY DEF PlayoutInv, TypeOK, PlayRebased, DeadlinePassed
<1>2. stable_playout_ticks \in 0 .. STABLE_PLAYOUT_TICKS_BEFORE_SHRINK - 1
  BY DEF PlayoutInv, TypeOK
<1>3. Min(pending) \in pending /\ \A k \in pending : Min(pending) <= k
  BY EarliestFrame DEF PlayoutInv, TypeOK, PlayRebased, DriftedApart
<1> QED
  BY <1>1, <1>2, <1>3, PlayEarliestPreserves DEF PlayRebased

\* Giving up the due frame moves the clock over a gap, not over a frame.
LEMMA ConcealLossPreserves ==
    ASSUME PlayoutInv, ConcealLoss
    PROVE  PlayoutInv'
<1> USE DEF PlayoutInv
<1>1. next_playout \in Nat /\ next_playout \notin pending /\ due <= 0 /\ due \in Int
  BY DEF TypeOK, ConcealLoss, FrameMissing, DeadlinePassed
<1>2. next_playout' = next_playout + 1 /\ due' = due + FRAME_TICKS
  BY DEF ConcealLoss, advance_playout_clock
<1>3. DepthOK'
  BY RaiseKeepsDepth DEF TypeOK, DepthOK, ConcealLoss
<1>4. burst' \in 0 .. MAX_PLAYOUT_BURST_FRAMES
  BY JitterAssumption DEF TypeOK, ConcealLoss, Play
<1>5. TypeOK'
  BY <1>1, <1>2, <1>3, <1>4, JitterAssumption
     DEF TypeOK, DepthOK, ConcealLoss, Play, remoteVars
<1>6. NothingBehindClock'
  BY <1>1, <1>2 DEF NothingBehindClock, TypeOK, ConcealLoss, Unset
<1>7. ClockNotAhead'
  BY <1>1, <1>2, JitterAssumption DEF ClockNotAhead
<1> QED
  BY <1>5, <1>6, <1>7

LEMMA insertPreserves ==
    ASSUME PlayoutInv, NEW k \in net, insert(k)
    PROVE  PlayoutInv'
<1> USE DEF PlayoutInv
<1>1. k \in Nat
  BY DEF TypeOK
<1>2. pending' = pending \/ (k >= next_playout /\ pending' \subseteq pending \cup {k})
  BY TrimShrinks DEF insert
<1>3. DepthOK'
  BY RaiseKeepsDepth DEF TypeOK, DepthOK, insert, depthVars
<1>4. UNCHANGED <<next_playout, due, burst, sent>> /\ net' \subseteq net
  BY DEF insert, clockVars
<1>5. TypeOK'
  BY <1>1, <1>2, <1>3, <1>4 DEF TypeOK, DepthOK
<1>6. NothingBehindClock'
  BY <1>1, <1>2, <1>4 DEF NothingBehindClock, TypeOK
<1> QED
  BY <1>4, <1>5, <1>6 DEF ClockNotAhead

\* Every other step leaves the buffer alone, empties it, lets time pass or
\* stops the clock.
LEMMA OtherStepsPreserve ==
    ASSUME PlayoutInv,
           \/ Remote
           \/ DisconnectPeer
           \/ \E late \in 1 .. MaxDelay : PlayoutTick(late)
           \/ HoldForDepth \/ HoldForDeadline \/ HoldInGrace \/ Rebuffer
    PROVE  PlayoutInv'
<1> USE DEF PlayoutInv
<1>1. CASE Remote
  <2>1. UNCHANGED <<bufferVars, burst>>
    BY <1>1 DEF Remote, BuildNextAudioFrame, SenderRestart, Lose
  <2>2. UNCHANGED <<pending, next_playout, due, target_depth, stable_playout_ticks>>
    BY <2>1 DEF bufferVars, clockVars, depthVars
  <2>3. sent' \in Nat /\ net' \subseteq Nat
    <3>1. CASE BuildNextAudioFrame
      BY <3>1 DEF BuildNextAudioFrame, TypeOK
    <3>2. CASE SenderRestart
      BY <3>2 DEF SenderRestart, TypeOK
    <3>3. CASE \E k \in net : Lose(k)
      BY <3>3 DEF Lose, TypeOK
    <3> QED
      BY <1>1, <3>1, <3>2, <3>3 DEF Remote
  <2> QED
    BY <2>1, <2>2, <2>3 DEF TypeOK, NothingBehindClock, ClockNotAhead
<1>2. CASE DisconnectPeer
  BY <1>2, JitterAssumption
     DEF DisconnectPeer, remoteVars, TypeOK, NothingBehindClock, ClockNotAhead
<1>3. ASSUME NEW late \in 1 .. MaxDelay, PlayoutTick(late)
      PROVE  PlayoutInv'
  BY <1>3, JitterAssumption
     DEF PlayoutTick, remoteVars, depthVars, TypeOK, NothingBehindClock, ClockNotAhead
<1>4. CASE HoldForDepth \/ HoldForDeadline \/ HoldInGrace
  <2>1. burst' = 0 /\ UNCHANGED <<bufferVars, remoteVars>>
    BY <1>4 DEF HoldForDepth, HoldForDeadline, HoldInGrace, Hold
  <2>2. UNCHANGED <<pending, next_playout, due, target_depth,
                    stable_playout_ticks, sent, net>>
    BY <2>1 DEF bufferVars, clockVars, depthVars, remoteVars
  <2> QED
    BY <2>1, <2>2, JitterAssumption DEF TypeOK, NothingBehindClock, ClockNotAhead
<1>5. CASE Rebuffer
  BY <1>5, JitterAssumption
     DEF Rebuffer, Hold, remoteVars, TypeOK, NothingBehindClock, ClockNotAhead
<1> QED
  BY <1>1, <1>2, <1>3, <1>4, <1>5

LEMMA StepPreserves ==
    ASSUME PlayoutInv, Next
    PROVE  PlayoutInv'
<1>1. CASE next_playout_decision
  BY <1>1, PlayFirstPreserves, PlayDuePreserves, PlayRebasedPreserves,
     ConcealLossPreserves, OtherStepsPreserve DEF next_playout_decision
<1>2. CASE \E k \in net : insert(k)
  BY <1>2, insertPreserves
<1> QED
  BY <1>1, <1>2, OtherStepsPreserve DEF Next

LEMMA InitOK == Init => PlayoutInv
BY JitterAssumption DEF Init, PlayoutInv, TypeOK, NothingBehindClock, ClockNotAhead

LEMMA StutterPreserves == PlayoutInv /\ UNCHANGED vars => PlayoutInv'
BY DEF PlayoutInv, TypeOK, NothingBehindClock, ClockNotAhead, vars, bufferVars,
       clockVars, depthVars, remoteVars

\* The inductive invariant of the jitter buffer holds, whatever arrives, is lost
\* or comes late, and however the timer is delayed.
THEOREM PlayoutSafe == Spec => []PlayoutInv
<1>1. PlayoutInv /\ [Next]_vars => PlayoutInv'
  BY StepPreserves, StutterPreserves
<1> QED
  BY <1>1, InitOK, PTL DEF Spec

\* The target depth stays within its limits, the count of stable plays below its
\* threshold, and every other variable has its type.
THEOREM TypeCorrect == Spec => []TypeOK
<1>1. PlayoutInv => TypeOK
  BY DEF PlayoutInv
<1> QED
  BY <1>1, PlayoutSafe, PTL

\* No buffered frame is ever behind the playout clock.
THEOREM NeverBehindClock == Spec => []NothingBehindClock
<1>1. PlayoutInv => NothingBehindClock
  BY DEF PlayoutInv
<1> QED
  BY <1>1, PlayoutSafe, PTL

\* The playout deadline is never more than one frame ahead of now.
THEOREM NeverAhead == Spec => []ClockNotAhead
<1>1. PlayoutInv => ClockNotAhead
  BY DEF PlayoutInv
<1> QED
  BY <1>1, PlayoutSafe, PTL

-----------------------------------------------------------------------------
(* Action properties *)

\* The three plays play the earliest buffered frame, and the clock goes to the
\* frame after it.
LEMMA PlayTakesEarliest ==
    ASSUME PlayoutInv, PlayFirst \/ PlayDue \/ PlayRebased
    PROVE  \E e \in pending : /\ \A k \in pending : e <= k
                              /\ next_playout' = e + 1
<1>1. CASE PlayFirst
  BY <1>1, PlayFirstPlaysEarliest DEF PlayFirst, PlayPacket, advance_playout_clock
<1>2. CASE PlayDue
  BY <1>2, DueIsEarliest
     DEF PlayDue, DeadlinePassed, PlayPacket, advance_playout_clock
<1>3. CASE PlayRebased
  <2>1. Min(pending) \in pending /\ \A k \in pending : Min(pending) <= k
    BY <1>3, EarliestFrame DEF PlayoutInv, TypeOK, PlayRebased, DriftedApart
  <2> QED
    BY <1>3, <2>1 DEF PlayRebased, PlayPacket, advance_playout_clock
<1> QED
  BY <1>1, <1>2, <1>3

\* The steps that neither play nor conceal leave the clock or stop it.
LEMMA ClockElsewhere ==
    ASSUME Next, ~PlayFirst, ~PlayDue, ~PlayRebased, ~ConcealLoss
    PROVE  next_playout' = next_playout \/ next_playout' = Unset
<1>1. CASE Remote
  BY <1>1 DEF Remote, BuildNextAudioFrame, SenderRestart, Lose, bufferVars, clockVars
<1>2. CASE \E k \in net : insert(k)
  BY <1>2 DEF insert, clockVars
<1>3. CASE DisconnectPeer \/ \E late \in 1 .. MaxDelay : PlayoutTick(late)
  BY <1>3 DEF DisconnectPeer, PlayoutTick
<1>4. CASE HoldForDepth \/ HoldForDeadline \/ HoldInGrace \/ Rebuffer
  BY <1>4 DEF HoldForDepth, HoldForDeadline, HoldInGrace, Rebuffer, bufferVars, clockVars
<1> QED
  BY <1>1, <1>2, <1>3, <1>4 DEF Next, next_playout_decision

\* Every step plays at most the earliest buffered frame.
LEMMA StepPassesNothing ==
    ASSUME PlayoutInv, Next, next_playout' # Unset,
           NEW k \in pending, k < next_playout'
    PROVE  k = next_playout' - 1
<1>1. k \in Nat
  BY DEF PlayoutInv, TypeOK
<1>2. CASE PlayFirst \/ PlayDue \/ PlayRebased
  <2>1. PICK e \in pending : e <= k /\ next_playout' = e + 1
    BY <1>2, PlayTakesEarliest
  <2>2. e \in Nat
    BY DEF PlayoutInv, TypeOK
  <2> QED
    BY <1>1, <2>1, <2>2
<1>3. CASE ConcealLoss
  <2>1. next_playout \in Nat /\ next_playout # Unset /\ next_playout \notin pending
    BY <1>3 DEF PlayoutInv, TypeOK, ConcealLoss, FrameMissing, DeadlinePassed
  <2>2. next_playout <= k /\ next_playout' = next_playout + 1
    BY <1>3, <2>1, DueIsEarliest DEF ConcealLoss, advance_playout_clock
  <2> QED
    BY <1>1, <2>1, <2>2
<1>4. CASE ~PlayFirst /\ ~PlayDue /\ ~PlayRebased /\ ~ConcealLoss
  <2>1. next_playout' = next_playout /\ next_playout \in Nat /\ next_playout # Unset
    BY <1>4, ClockElsewhere DEF PlayoutInv, TypeOK
  <2> QED
    BY <1>1, <2>1, DueIsEarliest
<1> QED
  BY <1>2, <1>3, <1>4

\* Playout takes the buffered frames in order and passes over none.
THEOREM PlayoutInOrder == Spec => NothingPassedOver
<1>1. PlayoutInv /\ [Next]_vars =>
        [next_playout' # Unset =>
            \A k \in pending : k < next_playout' => k = next_playout' - 1]_vars
  BY StepPassesNothing
<1> QED
  BY <1>1, PlayoutSafe, PTL DEF Spec, NothingPassedOver

\* A step that does not move the clock does not cost the frame it waits for.
LEMMA StepSparesDue ==
    ASSUME PlayoutInv, Next, next_playout # Unset, next_playout \in pending,
           next_playout' = next_playout
    PROVE  next_playout \in pending'
<1>1. next_playout \in Nat
  BY DEF PlayoutInv, TypeOK
<1>2. CASE PlayFirst \/ PlayDue \/ PlayRebased
  <2>1. PICK e \in pending : next_playout' = e + 1
    BY <1>2, PlayTakesEarliest
  <2>2. e \in Nat /\ next_playout <= e
    BY DueIsEarliest DEF PlayoutInv, TypeOK
  <2> QED
    BY <1>1, <2>1, <2>2
<1>3. ~ConcealLoss
  BY DEF ConcealLoss, FrameMissing
<1>4. CASE \E k \in net : insert(k)
  <2>1. PICK k \in net : insert(k)
    BY <1>4
  <2>2. CASE UNCHANGED pending
    BY <2>2
  <2>3. CASE pending' = Trim(pending \cup {k})
    BY <1>1, <2>3 DEF Trim
  <2> QED
    BY <2>1, <2>2, <2>3 DEF insert
<1>5. CASE Remote \/ HoldForDepth \/ HoldForDeadline \/ HoldInGrace
  BY <1>5 DEF Remote, BuildNextAudioFrame, SenderRestart, Lose, HoldForDepth,
              HoldForDeadline, HoldInGrace, bufferVars
<1>6. CASE \E late \in 1 .. MaxDelay : PlayoutTick(late)
  BY <1>6 DEF PlayoutTick
<1>7. ~DisconnectPeer /\ ~Rebuffer
  BY DEF DisconnectPeer, Rebuffer
<1> QED
  BY <1>2, <1>3, <1>4, <1>5, <1>6, <1>7 DEF Next, next_playout_decision

\* An overflow never drops the frame the clock waits for.
THEOREM OverflowSparesDue == Spec => DueFrameSurvives
<1>1. PlayoutInv /\ [Next]_vars =>
        [next_playout # Unset /\ next_playout \in pending
            /\ next_playout' = next_playout
         => next_playout \in pending']_vars
  BY StepSparesDue
<1> QED
  BY <1>1, PlayoutSafe, PTL DEF Spec, DueFrameSurvives

-----------------------------------------------------------------------------
(* Refinement *)

\* The first frame, the due frame and the frame after a jump are all heard as the
\* earliest that waits.
LEMMA PlayIsHear ==
    ASSUME PlayoutInv, PlayFirst \/ PlayDue \/ PlayRebased
    PROVE  Ordered!Hear
<1>1. CASE PlayFirst
  BY <1>1, PlayFirstPlaysEarliest
     DEF PlayFirst, PlayPacket, advance_playout_clock, Ordered!Hear
<1>2. CASE PlayDue
  BY <1>2, DueIsEarliest
     DEF PlayDue, DeadlinePassed, PlayPacket, advance_playout_clock, Ordered!Hear
<1>3. CASE PlayRebased
  <2>1. Min(pending) \in pending /\ \A k \in pending : Min(pending) <= k
    BY <1>3, EarliestFrame DEF PlayoutInv, TypeOK, PlayRebased, DriftedApart
  <2> QED
    BY <1>3, <2>1 DEF PlayRebased, PlayPacket, advance_playout_clock, Ordered!Hear
<1> QED
  BY <1>1, <1>2, <1>3

\* An insertion, with the overflow it may cause, is an arrival or a dropped frame.
LEMMA insertIsArrival ==
    ASSUME PlayoutInv, NEW k \in net, insert(k)
    PROVE  Ordered!Arrive
<1>1. k \in Nat /\ next_playout \in Int /\ next_playout' = next_playout
  BY DEF PlayoutInv, TypeOK, insert, clockVars, Unset
<1>2. CASE UNCHANGED pending
  BY <1>1, <1>2 DEF Ordered!Arrive
<1>3. CASE k >= next_playout /\ pending' = Trim(pending \cup {k})
  <2>1. pending' \subseteq pending \cup {k}
    BY <1>3, TrimShrinks
  <2>2. next_playout \in pending => next_playout \in pending'
    BY <1>1, <1>3 DEF Trim
  <2>3. \A j \in pending' \ pending : j = k /\ pending' \ pending = {j}
    BY <2>1
  <2> QED
    BY <1>1, <1>3, <2>2, <2>3 DEF Ordered!Arrive
<1> QED
  BY <1>2, <1>3 DEF insert

\* Every step of the buffer is a step of the ordered playout, or none that it sees.
LEMMA StepRefines ==
    ASSUME PlayoutInv, Next
    PROVE  Ordered!OrderedNext \/ UNCHANGED <<pending, next_playout>>
<1>1. CASE PlayFirst \/ PlayDue \/ PlayRebased
  BY <1>1, PlayIsHear DEF Ordered!OrderedNext
<1>2. CASE \E k \in net : insert(k)
  BY <1>2, insertIsArrival DEF Ordered!OrderedNext
<1>3. CASE ConcealLoss
  BY <1>3 DEF ConcealLoss, FrameMissing, DeadlinePassed, advance_playout_clock, Unset,
              Ordered!MakeUp, Ordered!Stopped, Ordered!OrderedNext
<1>4. CASE Rebuffer
  BY <1>4 DEF Rebuffer, FrameMissing, DeadlinePassed, Unset,
              Ordered!Stop, Ordered!Stopped, Ordered!OrderedNext
<1>5. CASE DisconnectPeer
  BY <1>5 DEF DisconnectPeer, Unset, Ordered!Forget, Ordered!Stopped, Ordered!OrderedNext
<1>6. CASE Remote \/ HoldForDepth \/ HoldForDeadline \/ HoldInGrace
  BY <1>6 DEF Remote, BuildNextAudioFrame, SenderRestart, Lose, HoldForDepth,
              HoldForDeadline, HoldInGrace, bufferVars, clockVars
<1>7. CASE \E late \in 1 .. MaxDelay : PlayoutTick(late)
  BY <1>7 DEF PlayoutTick
<1> QED
  BY <1>1, <1>2, <1>3, <1>4, <1>5, <1>6, <1>7 DEF Next, next_playout_decision

\* The buffer implements the ordered playout (its safety part: the fairness of
\* PlaysInOrder is checked by TLC): insert, every way out of next_playout_decision and
\* the removal of the runtime do nothing OrderedPlayout does not allow.
THEOREM ImplementsOrderedPlayout == Spec => Ordered!OrderedSpec
<1>1. Init => Ordered!OrderedInit
  BY DEF Init, Unset, Ordered!OrderedInit, Ordered!Stopped
<1>2. PlayoutInv /\ [Next]_vars => [Ordered!OrderedNext]_(Ordered!orderedVars)
  <2> SUFFICES ASSUME PlayoutInv, [Next]_vars
               PROVE  Ordered!OrderedNext \/ UNCHANGED Ordered!orderedVars
    OBVIOUS
  <2>1. CASE Next
    BY <2>1, StepRefines DEF Ordered!orderedVars
  <2>2. CASE UNCHANGED vars
    BY <2>2 DEF vars, bufferVars, clockVars, Ordered!orderedVars
  <2> QED
    BY <2>1, <2>2
<1> QED
  BY <1>1, <1>2, PlayoutSafe, PTL DEF Spec, Ordered!OrderedSpec
=============================================================================
