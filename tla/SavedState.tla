------------------------------ MODULE SavedState ------------------------------
(* What saving a state promises: what was saved follows the current state, *)
(* never ahead of it and never going back, and a crash loses what came     *)
(* after the last save and nothing else.  The promise is given up once two *)
(* saves have overlapped.  No files, snapshots or steps of a save.         *)
EXTENDS Naturals

CONSTANT Parts   \* the parts of a state; each is the number of its last change

VARIABLES
    current,     \* the state in memory
    saved,       \* the state the user was told is saved
    overlap      \* two saves have overlapped

savedVars == <<current, saved, overlap>>

SavedInit ==
    /\ current = [p \in Parts |-> 0]
    /\ saved = current
    /\ overlap = FALSE

Advance ==
    /\ current' \in [Parts -> Nat]
    /\ \A p \in Parts : current[p] <= current'[p]
    /\ saved' = saved

Save ==
    /\ saved' \in [Parts -> Nat]
    /\ \A p \in Parts : saved[p] <= saved'[p] /\ saved'[p] <= current[p]
    /\ current' = current

Crash == current' = saved /\ saved' = saved

\* An overlap is for good, and everything may happen from then on.
SavedNext ==
    /\ overlap => overlap'
    /\ overlap' \/ Advance \/ Save \/ Crash

SavedSpec == SavedInit /\ [][SavedNext]_savedVars

===============================================================================
