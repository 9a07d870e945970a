---------------------------- MODULE OrderedPlayout ----------------------------
(* What a jitter buffer promises to the listener, without deadlines,       *)
(* depths or bursts: frames wait, and a clock takes them in order.  It     *)
(* never goes past a frame that waits, never gives up the one it is at     *)
(* while that one waits, and while it runs it always moves on.             *)
EXTENDS Integers

VARIABLES
    waiting,   \* frames that have arrived and can still be heard
    clock      \* the frame to be heard next, Stopped before playout starts

orderedVars == <<waiting, clock>>

Stopped == -1

OrderedInit == waiting = {} /\ clock = Stopped

\* A frame arrives that the clock has not passed.  Others may be dropped to make room,
\* but not the one that is to be heard next.
Arrive ==
    /\ clock' = clock
    /\ \A k \in waiting' \ waiting :
           k \in Nat /\ k >= clock /\ waiting' \ waiting = {k}
    /\ clock \in waiting => clock \in waiting'

\* The earliest frame is heard.
Hear ==
    \E first \in waiting :
        /\ \A k \in waiting : first <= k
        /\ waiting' = waiting \ {first}
        /\ clock' = first + 1

\* The frame that is to be heard is missing, and something is made up in its place.
MakeUp ==
    /\ clock # Stopped /\ clock \notin waiting
    /\ clock' = clock + 1
    /\ waiting' = waiting

\* It is missing, and the clock stops to let frames collect.
Stop ==
    /\ clock # Stopped /\ clock \notin waiting
    /\ clock' = Stopped
    /\ waiting' = waiting

\* The peer has gone.
Forget == waiting' = {} /\ clock' = Stopped

MoveOn == clock # Stopped /\ (Hear \/ MakeUp \/ Stop)

OrderedNext == Arrive \/ Hear \/ MakeUp \/ Stop \/ Forget

OrderedSpec == OrderedInit /\ [][OrderedNext]_orderedVars

OrderedFairSpec == OrderedSpec /\ WF_orderedVars(MoveOn)

===============================================================================
