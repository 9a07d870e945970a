-------------------------- MODULE PersistenceProofs --------------------------
(***************************************************************************)
(* What the saves keep for any number of client connections, changes and   *)
(* files: a save that runs alone always lands, and until two saves run at  *)
(* the same time what a start would load is exactly what was reported      *)
(* saved, so no acknowledged change is lost by a crash.                    *)
(***************************************************************************)
EXTENDS Persistence, FiniteSetTheorems, FunctionTheorems, TLAPS

\* A save that no other one has run beside: it is the only one, the file it has open is
\* at the temporary path, empty at first, and then holds what the save is to put in place.
Alone(s) ==
    /\ \A other \in Savers \ {s} : ~Saving(other)
    /\ phase[s] = "write"  => fd[s] = tmp_file /\ tmp_file # NoFile /\ content[tmp_file] = {}
    /\ phase[s] = "rename" => tmp_file # NoFile /\ content[tmp_file] = {snap[s]}

SavesAlone == \A s \in Savers \ overlapped : Saving(s) => Alone(s)

\* The inductive invariant behind SoleSaveLands.
SoleInv == TypeOK /\ SavesAlone

\* The state file is whole, and no other name leads to it.
FileWhole == state_file # NoFile =>
                 state_file # tmp_file /\ \E state \in States : content[state_file] = {state}

\* What was acknowledged is what a start would load; memory and every snapshot under way
\* are no older, and the snapshots no newer than memory.
InOrder ==
    /\ acked = load_or_default
    /\ \A h \in Halves : acked[h] <= memory[h] /\ memory[h] <= changes
    /\ \A s \in Savers : Saving(s) =>
           \A h \in Halves : acked[h] <= snap[s][h] /\ snap[s][h] <= memory[h]

\* The network task's snapshot has the rooms half that is acknowledged once it has read it
\* back: nobody else saves in between.
PastLoad(s) == phase[s] \in {"open", "write", "rename"}
RoomsCarried == PastLoad(Network) => snap[Network]["rooms"] = acked["rooms"]

Durable == overlapped = {} /\ FileWhole /\ InOrder /\ RoomsCarried

\* The inductive invariant behind AckedChangesSafe.
DurableInv == SoleInv /\ (~clashed => Durable)

-----------------------------------------------------------------------------
(* Reading and creating files *)

LEMMA OneMore ==
    ASSUME NEW S, NEW x, IsFiniteSet(S)
    PROVE  IsFiniteSet({x} \cup S) /\ Cardinality({x} \cup S) <= Cardinality(S) + 1
<1>1. {x} \cup S = S \cup {x}
  OBVIOUS
<1>2. Cardinality(S) \in Nat
  BY FS_CardinalityType
<1> QED
  BY <1>1, <1>2, FS_AddElement

\* There is an inode for a new temporary file: both names and every open file take one
\* less than there are.
LEMMA NewInodeIsNew ==
    ASSUME TypeOK, tmp_file = NoFile
    PROVE  NewInode \in Inodes /\ NewInode # state_file /\ \A s \in Savers : NewInode # fd[s]
<1> DEFINE open == {fd[s] : s \in Savers}
           used == {state_file} \cup open
<1>1. IsFiniteSet(Savers) /\ Cardinality(Savers) = Cardinality(Clients) + 1
  BY PersistenceAssumption, FS_AddElement DEF Savers
<1>2. fd \in Surjection(Savers, open)
  <2>1. fd \in [Savers -> open]
    BY DEF TypeOK
  <2> QED
    BY <2>1 DEF Surjection
<1>3. IsFiniteSet(open) /\ Cardinality(open) <= Cardinality(Savers)
  BY <1>1, <1>2, FS_Surjection
<1>4. IsFiniteSet(used) /\ Cardinality(used) <= Cardinality(open) + 1
  BY <1>3, OneMore
<1>5. Cardinality(used) < Cardinality(Inodes)
  <2>1. /\ Cardinality(used) \in Nat /\ Cardinality(open) \in Nat
        /\ Cardinality(Clients) \in Nat /\ Cardinality(Inodes) \in Nat
    BY <1>3, <1>4, PersistenceAssumption, FS_CardinalityType
  <2> QED
    BY <1>1, <1>3, <1>4, <2>1, PersistenceAssumption
<1>6. ~(Inodes \subseteq used)
  <2>1. SUFFICES ASSUME Inodes \subseteq used PROVE FALSE
    OBVIOUS
  <2>2. Cardinality(Inodes) <= Cardinality(used)
    BY <1>4, <2>1, FS_Subset
  <2>3. Cardinality(Inodes) \in Nat /\ Cardinality(used) \in Nat
    BY <1>4, PersistenceAssumption, FS_CardinalityType
  <2> QED
    BY <1>5, <2>2, <2>3
<1>7. PICK i \in Inodes : i \notin used
  BY <1>6
<1>8. i \notin {state_file, tmp_file} \cup {fd[s] : s \in Savers}
  BY <1>7, PersistenceAssumption
<1> QED
  BY <1>8 DEF NewInode

\* A start loads the one state of the state file, if there is such a file.
LEMMA LoadsWhole ==
    ASSUME NEW state, state_file # NoFile, content[state_file] = {state}
    PROVE  load_or_default = state
<1>1. Cardinality({state}) = 1
  BY FS_Singleton
<1> QED
  BY <1>1 DEF load_or_default, Decodes

LEMMA LoadsNothing ==
    ASSUME state_file = NoFile
    PROVE  load_or_default = PersistedStateDefault
BY DEF load_or_default, Decodes

\* Whatever is on disk, a start loads some state.
LEMMA LoadsState ==
    ASSUME TypeOK
    PROVE  load_or_default \in States
<1>1. PersistedStateDefault \in States
  BY PersistenceAssumption DEF PersistedStateDefault, States
<1>2. CASE Decodes(state_file)
  <2>1. content[state_file] # {}
    BY <1>2, FS_EmptySet DEF Decodes
  <2>2. content[state_file] \subseteq States
    BY <1>2 DEF TypeOK, Decodes
  <2>3. load_or_default \in content[state_file]
    BY <1>2, <2>1 DEF load_or_default
  <2> QED
    BY <2>2, <2>3
<1>3. CASE ~Decodes(state_file)
  BY <1>1, <1>3 DEF load_or_default
<1> QED
  BY <1>2, <1>3

-----------------------------------------------------------------------------
(* Type correctness *)

LEMMA InitType == Init => TypeOK
<1>1. PersistedStateDefault \in States /\ 0 \in 0 .. MaxChanges
  BY PersistenceAssumption DEF States, PersistedStateDefault
<1>2. {} \in SUBSET States
  OBVIOUS
<1> QED
  BY <1>1, <1>2 DEF Init, TypeOK

\* What the status becomes when a handler changes it.
LEMMA ChangeType ==
    ASSUME TypeOK, NEW halves, Change(halves)
    PROVE  memory' \in States /\ changes' \in 0 .. MaxChanges
BY PersistenceAssumption DEF TypeOK, Change, States

LEMMA BeginSaveType ==
    ASSUME TypeOK, NEW s \in Savers, NEW state \in States, NEW first \in {"load", "open"},
           BeginSave(s, state, first)
    PROVE  /\ snap' \in [Savers -> States]
           /\ phase' \in [Savers -> {"idle", "changed", "load", "open", "write", "rename"}]
           /\ overlapped' \subseteq Savers
           /\ clashed' \in BOOLEAN
BY DEF TypeOK, BeginSave

LEMMA ControlRequestType ==
    ASSUME TypeOK, NEW c \in Clients, ControlRequest(c)
    PROVE  TypeOK'
<1>0. c \in Savers
  BY DEF Savers
<1>1. ASSUME NEW halves \in SUBSET Halves \ {{}}, ChangeState(c, halves) PROVE TypeOK'
  BY <1>0, <1>1, ChangeType DEF TypeOK, ChangeState, diskVars, history
<1>2. CASE set_trusted_contact(c)
  BY <1>0, <1>2, ChangeType DEF TypeOK, set_trusted_contact, diskVars, history
<1>3. CASE TakeSnapshot(c)
  <2>1. memory \in States /\ BeginSave(c, memory, "open")
    BY <1>3 DEF TakeSnapshot, TypeOK
  <2> QED
    BY <1>0, <1>3, <2>1, BeginSaveType DEF TypeOK, TakeSnapshot, diskVars
<1>4. CASE EditPeerBook(c)
  <2>1. memory' \in States /\ changes' \in 0 .. MaxChanges /\ BeginSave(c, memory', "open")
    BY <1>4, ChangeType DEF EditPeerBook
  <2> QED
    BY <1>0, <1>4, <2>1, BeginSaveType DEF TypeOK, EditPeerBook, diskVars
<1>5. CASE seed_invite_hints(c)
  BY <1>5, ChangeType DEF TypeOK, seed_invite_hints, diskVars, saverVars, history
<1> QED
  BY <1>1, <1>2, <1>3, <1>4, <1>5 DEF ControlRequest

LEMMA SaveType ==
    ASSUME TypeOK, NEW s \in Savers, save(s)
    PROVE  TypeOK'
<1>1. CASE CreateTmp(s)
  <2> DEFINE file == IF tmp_file = NoFile THEN NewInode ELSE tmp_file
  <2>1. file \in Inodes
    BY NewInodeIsNew DEF TypeOK
  <2> QED
    BY <1>1, <2>1 DEF TypeOK, CreateTmp, history
<1>2. CASE WriteTmp(s)
  <2>1. PICK text \in Overwritten(content[fd[s]], snap[s]) :
          content' = [content EXCEPT ![fd[s]] = text]
    BY <1>2 DEF WriteTmp
  <2>2. fd[s] \in Inodes => content[fd[s]] \in SUBSET States
    BY DEF TypeOK
  <2>3. snap[s] \in States
    BY DEF TypeOK
  <2>4. fd[s] \in Inodes => text \in SUBSET States
    BY <2>1, <2>2, <2>3 DEF Overwritten
  <2>5. content' \in [Inodes -> SUBSET States]
    BY <2>1, <2>4 DEF TypeOK
  <2> QED
    BY <1>2, <2>5 DEF TypeOK, WriteTmp, history
<1>3. CASE RenameTmp(s)
  <2>1. acked' \in States
    BY <1>3 DEF TypeOK, RenameTmp, EndSave, States
  <2>2. state_file' \in Inodes \cup {NoFile} /\ tmp_file' \in Inodes \cup {NoFile}
    BY <1>3 DEF TypeOK, RenameTmp
  <2> QED
    BY <1>3, <2>1, <2>2 DEF TypeOK, RenameTmp, EndSave
<1> QED
  BY <1>1, <1>2, <1>3 DEF save

LEMMA NextType == TypeOK /\ [Next]_vars => TypeOK'
<1> SUFFICES ASSUME TypeOK, [Next]_vars PROVE TypeOK'
  OBVIOUS
<1>0. Network \in Savers
  BY DEF Savers
<1>1. ASSUME NEW c \in Clients, ControlRequest(c) PROVE TypeOK'
  BY <1>1, ControlRequestType
<1>2. ASSUME NEW halves \in {{"network"}, Halves}, NetworkEvent(halves) PROVE TypeOK'
  BY <1>0, <1>2, ChangeType DEF TypeOK, NetworkEvent, diskVars, history
<1>3. CASE persist_network_snapshot
  <2>1. memory \in States /\ BeginSave(Network, memory, "load")
    BY <1>3 DEF persist_network_snapshot, TypeOK
  <2> QED
    BY <1>0, <1>3, <2>1, BeginSaveType DEF TypeOK, persist_network_snapshot, diskVars
<1>4. CASE save_network
  <2>1. load_or_default \in States
    BY LoadsState
  <2>2. snap' \in [Savers -> States]
    BY <1>0, <1>4, <2>1 DEF TypeOK, save_network, States, Halves
  <2> QED
    BY <1>0, <1>4, <2>2 DEF TypeOK, save_network, diskVars, history
<1>5. ASSUME NEW s \in Savers, save(s) PROVE TypeOK'
  BY <1>5, SaveType
<1>6. CASE Restart
  BY <1>6, LoadsState DEF TypeOK, Restart, diskVars, history
<1>7. CASE UNCHANGED vars
  BY <1>7 DEF TypeOK, vars, diskVars, saverVars, history
<1> QED
  BY <1>1, <1>2, <1>3, <1>4, <1>5, <1>6, <1>7 DEF Next

\* Every variable keeps its type; in particular every save has a whole snapshot, the
\* halves of a state never exceed the changes made, and there is always a free inode
\* for the temporary file.
THEOREM TypeCorrect == Spec => []TypeOK
BY InitType, NextType, PTL DEF Spec

-----------------------------------------------------------------------------
(* A save that runs alone *)

\* A saver that is not in the middle of a save, and does not begin one, disturbs none.
LEMMA IdleKeepsAlone ==
    ASSUME SoleInv, NEW s \in Savers, NEW next \in {"idle", "changed"},
           ~Saving(s), phase' = [phase EXCEPT ![s] = next],
           UNCHANGED <<diskVars, snap, fd, overlapped>>
    PROVE  SavesAlone'
<1>1. \A t \in Savers : Saving(t)' => Saving(t) /\ phase'[t] = phase[t]
  BY DEF SoleInv, TypeOK, Saving
<1> QED
  BY <1>1 DEF SoleInv, SavesAlone, Alone, diskVars

\* A save that begins while no other one is under way is alone; otherwise it and all the
\* others are overlapped from now on.
LEMMA BeginKeepsAlone ==
    ASSUME SoleInv, NEW s \in Savers, NEW state, NEW first \in {"load", "open"},
           BeginSave(s, state, first)
    PROVE  SavesAlone'
<1>1. phase'[s] = first /\ \A t \in Savers \ {s} : phase'[t] = phase[t]
  BY DEF SoleInv, TypeOK, BeginSave
<1>2. \A t \in Savers \ {s} : Saving(t)' <=> Saving(t)
  BY <1>1 DEF Saving
<1> DEFINE others == {other \in Savers \ {s} : Saving(other)}
<1>3. CASE others = {}
  <2>1. \A t \in Savers \ {s} : ~Saving(t)'
    BY <1>2, <1>3
  <2>2. Alone(s)'
    BY <1>1, <2>1 DEF Alone
  <2> QED
    BY <2>1, <2>2 DEF SavesAlone
<1>4. CASE others # {}
  <2>1. overlapped' = overlapped \cup others \cup {s}
    BY <1>4 DEF BeginSave
  <2>2. \A t \in Savers \ overlapped' : ~Saving(t)'
    BY <1>2, <2>1
  <2> QED
    BY <2>2 DEF SavesAlone
<1> QED
  BY <1>3, <1>4

\* A save that goes on from one step to the next: a save that is alone has to keep what
\* Alone says of it, since then there is no other.
LEMMA StepKeepsAlone ==
    ASSUME SoleInv, NEW s \in Savers, NEW next \in {"idle", "open", "write", "rename"},
           Saving(s), phase' = [phase EXCEPT ![s] = next],
           UNCHANGED overlapped,
           next = "write" /\ s \notin overlapped =>
               fd'[s] = tmp_file' /\ tmp_file' # NoFile /\ content'[tmp_file'] = {},
           next = "rename" /\ s \notin overlapped =>
               tmp_file' # NoFile /\ content'[tmp_file'] = {snap'[s]}
    PROVE  SavesAlone'
<1>1. phase'[s] = next /\ \A t \in Savers \ {s} : phase'[t] = phase[t]
  BY DEF SoleInv, TypeOK
<1>2. \A t \in Savers : Saving(t)' => Saving(t)
  BY <1>1 DEF Saving
<1>3. SUFFICES ASSUME NEW t \in Savers \ overlapped, Saving(t)' PROVE Alone(t)'
  BY DEF SavesAlone
<1>4. Alone(t)
  BY <1>2, <1>3 DEF SoleInv, SavesAlone
<1>5. t = s
  BY <1>3, <1>4 DEF Alone
<1>6. \A other \in Savers \ {t} : ~Saving(other)'
  BY <1>2, <1>4 DEF Alone
<1> QED
  BY <1>1, <1>3, <1>5, <1>6 DEF Alone

LEMMA SaveKeepsAlone ==
    ASSUME SoleInv, NEW s \in Savers, save(s)
    PROVE  SavesAlone'
<1>1. CASE CreateTmp(s)
  <2> DEFINE file == IF tmp_file = NoFile THEN NewInode ELSE tmp_file
  <2>1. file \in Inodes
    BY NewInodeIsNew DEF SoleInv, TypeOK
  <2>2. fd'[s] = tmp_file' /\ tmp_file' # NoFile /\ content'[tmp_file'] = {}
    BY <1>1, <2>1, PersistenceAssumption DEF CreateTmp, SoleInv, TypeOK
  <2>3. Saving(s) /\ phase' = [phase EXCEPT ![s] = "write"] /\ UNCHANGED overlapped
    BY <1>1 DEF CreateTmp, Saving, history
  <2> QED
    BY <2>2, <2>3, StepKeepsAlone
<1>2. CASE WriteTmp(s)
  <2>1. Saving(s) /\ phase' = [phase EXCEPT ![s] = "rename"] /\ UNCHANGED <<overlapped, tmp_file, snap>>
    BY <1>2 DEF WriteTmp, Saving, history
  <2>2. ASSUME s \notin overlapped
        PROVE  tmp_file' # NoFile /\ content'[tmp_file'] = {snap'[s]}
    <3>1. fd[s] = tmp_file /\ tmp_file # NoFile /\ content[tmp_file] = {}
      BY <1>2, <2>1, <2>2 DEF SoleInv, SavesAlone, Alone, WriteTmp
    <3>2. content' = [content EXCEPT ![tmp_file] = {snap[s]}]
      BY <1>2, <3>1 DEF WriteTmp, Overwritten
    <3>3. tmp_file \in Inodes
      BY <3>1 DEF SoleInv, TypeOK
    <3> QED
      BY <2>1, <3>1, <3>2, <3>3 DEF SoleInv, TypeOK
  <2> QED
    BY <2>1, <2>2, StepKeepsAlone
<1>3. CASE RenameTmp(s)
  <2>1. Saving(s) /\ phase' = [phase EXCEPT ![s] = "idle"] /\ UNCHANGED overlapped
    BY <1>3 DEF RenameTmp, EndSave, Saving
  <2> QED
    BY <2>1, StepKeepsAlone
<1> QED
  BY <1>1, <1>2, <1>3 DEF save

LEMMA ControlRequestKeepsAlone ==
    ASSUME SoleInv, NEW c \in Clients, ControlRequest(c)
    PROVE  SavesAlone'
<1>0. c \in Savers
  BY DEF Savers
<1>1. ASSUME NEW halves \in SUBSET Halves \ {{}}, ChangeState(c, halves) PROVE SavesAlone'
  BY <1>0, <1>1, IdleKeepsAlone DEF ChangeState, Saving, history
<1>2. CASE set_trusted_contact(c)
  BY <1>0, <1>2, IdleKeepsAlone DEF set_trusted_contact, Saving, history
<1>3. CASE TakeSnapshot(c)
  BY <1>0, <1>3, BeginKeepsAlone DEF TakeSnapshot
<1>4. CASE EditPeerBook(c)
  BY <1>0, <1>4, BeginKeepsAlone DEF EditPeerBook
<1>5. CASE seed_invite_hints(c)
  BY <1>5 DEF seed_invite_hints, diskVars, saverVars, history, SoleInv, SavesAlone, Alone, Saving
<1> QED
  BY <1>1, <1>2, <1>3, <1>4, <1>5 DEF ControlRequest

LEMMA NextSole == SoleInv /\ [Next]_vars => SoleInv'
<1> SUFFICES ASSUME SoleInv, [Next]_vars PROVE SavesAlone'
  BY NextType DEF SoleInv
<1>0. Network \in Savers
  BY DEF Savers
<1>1. ASSUME NEW c \in Clients, ControlRequest(c) PROVE SavesAlone'
  BY <1>1, ControlRequestKeepsAlone
<1>2. ASSUME NEW halves \in {{"network"}, Halves}, NetworkEvent(halves) PROVE SavesAlone'
  BY <1>0, <1>2, IdleKeepsAlone DEF NetworkEvent, Saving, history
<1>3. CASE persist_network_snapshot
  BY <1>0, <1>3, BeginKeepsAlone DEF persist_network_snapshot
<1>4. CASE save_network
  <2>1. Saving(Network) /\ phase' = [phase EXCEPT ![Network] = "open"] /\ UNCHANGED overlapped
    BY <1>4 DEF save_network, Saving, history
  <2> QED
    BY <1>0, <2>1, StepKeepsAlone
<1>5. ASSUME NEW s \in Savers, save(s) PROVE SavesAlone'
  BY <1>5, SaveKeepsAlone
<1>6. CASE Restart
  BY <1>6 DEF Restart, SavesAlone, Saving
<1>7. CASE UNCHANGED vars
  BY <1>7 DEF vars, diskVars, saverVars, history, SoleInv, SavesAlone, Alone, Saving
<1> QED
  BY <1>1, <1>2, <1>3, <1>4, <1>5, <1>6, <1>7 DEF Next

LEMMA InitSole == Init => SoleInv
BY InitType DEF SoleInv, SavesAlone, Saving, Init

LEMMA SoleHolds == Spec => []SoleInv
BY InitSole, NextSole, PTL DEF Spec

\* Whatever earlier clashes and crashes have left on disk, a save that runs alone ends with
\* its own snapshot, whole, in the state file (save in persist.rs).
THEOREM SoleSavesLand == Spec => SoleSaveLands
<1>1. SoleInv /\ [Next]_vars =>
        [\A s \in Savers \ overlapped : RenameTmp(s) => content'[state_file'] = {snap[s]}]_vars
  <2> SUFFICES ASSUME SoleInv, NEW s \in Savers \ overlapped, RenameTmp(s)
               PROVE  content'[state_file'] = {snap[s]}
    OBVIOUS
  <2>1. tmp_file # NoFile /\ content[tmp_file] = {snap[s]}
    BY DEF SoleInv, SavesAlone, Alone, RenameTmp, Saving
  <2> QED
    BY <2>1 DEF RenameTmp
<1> QED
  BY <1>1, SoleHolds, PTL DEF Spec, SoleSaveLands

-----------------------------------------------------------------------------
(* Until two saves overlap *)

\* States are ordered half by half.
NoOlder(new, old) == \A h \in Halves : old[h] <= new[h]

\* The numbers in a state are naturals.
LEMMA StateFacts ==
    ASSUME NEW state \in States
    PROVE  \A h \in Halves : state[h] \in Nat
BY PersistenceAssumption DEF States

\* Changes only make the state newer.
LEMMA ChangeIsNewer ==
    ASSUME TypeOK, InOrder, NEW halves, Change(halves)
    PROVE  NoOlder(memory', memory) /\ \A h \in Halves : memory'[h] <= changes'
<1>1. changes \in Nat /\ changes' = changes + 1
  BY PersistenceAssumption DEF TypeOK, Change
<1>2. \A h \in Halves : memory[h] \in Nat /\ memory[h] <= changes
  BY StateFacts DEF TypeOK, InOrder
<1>3. \A h \in Halves : memory'[h] = changes + 1 \/ memory'[h] = memory[h]
  BY DEF Change
<1> QED
  BY <1>1, <1>2, <1>3 DEF NoOlder

\* What keeps the order: the file loads as before, memory is no older, and every save
\* under way has a snapshot between what is acknowledged and memory.
LEMMA StaysInOrder ==
    ASSUME TypeOK, TypeOK', InOrder, load_or_default' = load_or_default, acked' = acked,
           NoOlder(memory', memory), \A h \in Halves : memory'[h] <= changes',
           \A s \in Savers : Saving(s)' =>
               \/ Saving(s) /\ snap'[s] = snap[s]
               \/ NoOlder(snap'[s], acked) /\ NoOlder(memory', snap'[s])
    PROVE  InOrder'
<1>1. \A h \in Halves : acked[h] \in Nat /\ memory[h] \in Nat /\ memory'[h] \in Nat
  BY StateFacts DEF TypeOK
<1>2. \A s \in Savers, h \in Halves : snap[s][h] \in Nat
  BY StateFacts DEF TypeOK
<1>3. acked' = load_or_default'
  BY DEF InOrder
<1>4. \A h \in Halves : acked'[h] <= memory'[h] /\ memory'[h] <= changes'
  BY <1>1 DEF InOrder, NoOlder
<1>5. ASSUME NEW s \in Savers, Saving(s)', NEW h \in Halves
      PROVE  acked'[h] <= snap'[s][h] /\ snap'[s][h] <= memory'[h]
  <2>1. CASE Saving(s) /\ snap'[s] = snap[s]
    BY <1>1, <1>2, <2>1 DEF InOrder, NoOlder
  <2>2. CASE NoOlder(snap'[s], acked) /\ NoOlder(memory', snap'[s])
    BY <2>2 DEF NoOlder
  <2> QED
    BY <1>5, <2>1, <2>2
<1> QED
  BY <1>3, <1>4, <1>5 DEF InOrder

LEMMA SameDisk ==
    ASSUME UNCHANGED diskVars
    PROVE  load_or_default' = load_or_default /\ (FileWhole <=> FileWhole')
BY DEF diskVars, load_or_default, Decodes, FileWhole

\* The lock and the memory are all that a request changes before its save.
LEMMA ChangeKeepsDurable ==
    ASSUME SoleInv, Durable, TypeOK', NEW halves, Change(halves),
           UNCHANGED <<diskVars, snap, overlapped, acked>>,
           \A s \in Savers : Saving(s)' => phase'[s] = phase[s]
    PROVE  Durable'
<1>1. \A s \in Savers : Saving(s)' => Saving(s)
  BY DEF Saving
<1>2. InOrder'
  BY <1>1, ChangeIsNewer, SameDisk, StaysInOrder DEF SoleInv, Durable
<1>3. RoomsCarried'
  BY DEF Durable, RoomsCarried, PastLoad, Saving, Savers
<1> QED
  BY <1>2, <1>3, SameDisk DEF Durable

\* A save that begins alone has the state of memory to write, changed just before or not.
LEMMA BeginKeepsDurable ==
    ASSUME SoleInv, Durable, TypeOK', NEW s \in Savers, NEW first \in {"load", "open"},
           BeginSave(s, memory', first), ~clashed', s = Network => first = "load",
           NoOlder(memory', memory), \A h \in Halves : memory'[h] <= changes',
           UNCHANGED <<diskVars, acked>>
    PROVE  Durable'
<1>1. {other \in Savers \ {s} : Saving(other)} = {}
  BY DEF BeginSave
<1>2. overlapped' = {}
  BY <1>1 DEF BeginSave
<1>3. snap'[s] = memory'
  BY DEF BeginSave, SoleInv, TypeOK
<1>4. NoOlder(memory', acked) /\ NoOlder(memory', memory')
  <2>1. \A h \in Halves : acked[h] \in Nat /\ memory[h] \in Nat /\ memory'[h] \in Nat
    BY StateFacts DEF SoleInv, TypeOK
  <2> QED
    BY <2>1 DEF NoOlder, Durable, InOrder
<1>5. \A t \in Savers \ {s} : ~Saving(t)'
  BY <1>1 DEF BeginSave, Saving, SoleInv, TypeOK
<1>6. InOrder'
  BY <1>3, <1>4, <1>5, SameDisk, StaysInOrder DEF SoleInv, Durable
<1>7. RoomsCarried'
  <2>1. phase'[s] = first
    BY DEF BeginSave, SoleInv, TypeOK
  <2> QED
    BY <1>5, <2>1 DEF RoomsCarried, PastLoad, Saving, Savers
<1> QED
  BY <1>2, <1>6, <1>7, SameDisk DEF Durable

LEMMA MemoryStays ==
    ASSUME TypeOK, InOrder, UNCHANGED <<memory, changes>>
    PROVE  NoOlder(memory', memory) /\ \A h \in Halves : memory'[h] <= changes'
<1>1. \A h \in Halves : memory[h] \in Nat
  BY StateFacts DEF TypeOK
<1> QED
  BY <1>1 DEF NoOlder, InOrder

\* The rooms half read back from the file is the acknowledged one.
LEMMA LoadKeepsDurable ==
    ASSUME SoleInv, Durable, TypeOK', save_network
    PROVE  Durable'
<1>0. Network \in Savers
  BY DEF Savers
<1>1. Saving(Network)
  BY DEF save_network, Saving
<1>2. \A s \in Savers : Saving(s)' => Saving(s)
  BY <1>1 DEF save_network, Saving, SoleInv, TypeOK
<1>3. \A h \in Halves : acked[h] <= snap[Network][h] /\ snap[Network][h] <= memory[h]
  BY <1>0, <1>1 DEF Durable, InOrder
<1>4. \A h \in Halves : snap'[Network][h] = snap[Network][h] \/ snap'[Network][h] = acked[h]
  BY <1>0 DEF save_network, SoleInv, TypeOK, States, Halves, Durable, InOrder
<1>5. NoOlder(snap'[Network], acked) /\ NoOlder(memory', snap'[Network])
  <2>1. \A h \in Halves : acked[h] \in Nat /\ acked[h] <= memory[h]
    BY StateFacts DEF SoleInv, TypeOK, Durable, InOrder
  <2> QED
    BY <1>3, <1>4, <2>1 DEF NoOlder, save_network
<1>6. \A s \in Savers \ {Network} : snap'[s] = snap[s]
  BY DEF save_network, SoleInv, TypeOK
<1>7. InOrder'
  BY <1>2, <1>5, <1>6, MemoryStays, SameDisk, StaysInOrder
     DEF SoleInv, Durable, save_network, history
<1>8. RoomsCarried'
  BY <1>0 DEF RoomsCarried, save_network, SoleInv, TypeOK, States, Halves, Durable, InOrder,
              history
<1> QED
  BY <1>7, <1>8, SameDisk DEF Durable, save_network, history

\* The temporary file is another file than the state file, so neither creating nor
\* writing it changes what a start would load.
LEMMA TmpKeepsDurable ==
    ASSUME SoleInv, Durable, TypeOK', NEW file \in Inodes, NEW text,
           file # state_file, content' = [content EXCEPT ![file] = text],
           tmp_file' = file \/ tmp_file' = tmp_file,
           UNCHANGED <<memory, changes, state_file, snap, history>>,
           \A s \in Savers : (Saving(s)' => Saving(s)) /\ (PastLoad(s)' => PastLoad(s))
    PROVE  Durable'
<1>1. state_file # NoFile => content'[state_file] = content[state_file]
  BY DEF SoleInv, TypeOK
<1>2. load_or_default' = load_or_default
  <2>1. CASE state_file = NoFile
    BY <2>1 DEF load_or_default, Decodes
  <2>2. CASE state_file # NoFile
    <3>1. PICK state : content[state_file] = {state} /\ content'[state_file'] = {state}
      BY <1>1, <2>2 DEF Durable, FileWhole
    <3>2. Cardinality({state}) = 1
      BY FS_Singleton
    <3> QED
      BY <2>2, <3>1, <3>2 DEF load_or_default, Decodes
  <2> QED
    BY <2>1, <2>2
<1>3. FileWhole'
  BY <1>1 DEF Durable, FileWhole
<1>4. InOrder'
  BY <1>2, MemoryStays, StaysInOrder DEF SoleInv, Durable, history
<1>5. RoomsCarried'
  BY DEF Durable, RoomsCarried, history, Savers
<1> QED
  BY <1>3, <1>4, <1>5 DEF Durable, history

\* The rename puts the snapshot in place and acknowledges it in one step.
LEMMA RenameKeepsDurable ==
    ASSUME SoleInv, Durable, TypeOK', NEW s \in Savers, RenameTmp(s)
    PROVE  Durable' /\ acked' = snap[s]
<1>1. Saving(s)
  BY DEF RenameTmp, Saving
<1>2. Alone(s) /\ phase[s] = "rename"
  BY <1>1 DEF SoleInv, SavesAlone, Durable, RenameTmp
<1>3. tmp_file # NoFile /\ content[tmp_file] = {snap[s]}
  BY <1>2 DEF Alone
<1>4. state_file' = tmp_file /\ tmp_file' = NoFile /\ content' = content
  BY <1>3 DEF RenameTmp
<1>5. load_or_default' = snap[s]
  <2>1. Cardinality(content'[state_file']) = 1
    BY <1>3, <1>4, FS_Singleton
  <2> QED
    BY <1>3, <1>4, <2>1 DEF load_or_default, Decodes
<1>6. snap[s] \in States /\ acked \in States /\ memory \in States
  BY DEF SoleInv, TypeOK
<1>7. \A h \in Halves : acked[h] <= snap[s][h] /\ snap[s][h] <= memory[h]
  BY <1>1 DEF Durable, InOrder
<1>8. s = Network => snap[s]["rooms"] = acked["rooms"]
  BY <1>2 DEF Durable, RoomsCarried, PastLoad
<1>9. acked' = snap[s]
  <2>1. \A h \in Halves : acked[h] \in Nat /\ snap[s][h] \in Nat
    BY <1>6, StateFacts
  <2>2. \A h \in Halves : acked'[h] = snap[s][h]
    BY <1>7, <1>8, <2>1 DEF RenameTmp, EndSave, Halves
  <2> QED
    BY <1>6, <2>2 DEF TypeOK, States
<1>10. \A t \in Savers : ~Saving(t)'
  BY <1>2 DEF RenameTmp, EndSave, Saving, Alone, SoleInv, TypeOK
<1>11. InOrder'
  BY <1>5, <1>7, <1>9, <1>10 DEF InOrder, Durable, RenameTmp
<1>12. FileWhole'
  BY <1>3, <1>4, <1>6 DEF FileWhole
<1>13. RoomsCarried'
  BY <1>10 DEF RoomsCarried, PastLoad, Saving, Savers
<1> QED
  BY <1>9, <1>11, <1>12, <1>13 DEF Durable, RenameTmp

LEMMA SaveKeepsDurable ==
    ASSUME SoleInv, Durable, TypeOK', NEW s \in Savers, save(s)
    PROVE  Durable'
<1>1. CASE CreateTmp(s)
  <2> DEFINE file == IF tmp_file = NoFile THEN NewInode ELSE tmp_file
  <2>1. file \in Inodes /\ file # state_file
    BY NewInodeIsNew DEF SoleInv, TypeOK, Durable, FileWhole
  <2>2. \A t \in Savers : (Saving(t)' => Saving(t)) /\ (PastLoad(t)' => PastLoad(t))
    BY <1>1 DEF CreateTmp, Saving, PastLoad, SoleInv, TypeOK
  <2>3. /\ content' = [content EXCEPT ![file] = {}] /\ tmp_file' = file
        /\ UNCHANGED <<memory, changes, state_file, snap, history>>
    BY <1>1 DEF CreateTmp
  <2> HIDE DEF file
  <2> QED
    BY <2>1, <2>2, <2>3, TmpKeepsDurable
<1>2. CASE WriteTmp(s)
  <2>1. Saving(s) /\ phase[s] = "write"
    BY <1>2 DEF WriteTmp, Saving
  <2>2. fd[s] = tmp_file /\ tmp_file # NoFile
    BY <2>1 DEF SoleInv, SavesAlone, Alone, Durable
  <2>3. tmp_file \in Inodes /\ tmp_file # state_file
    BY <2>2 DEF SoleInv, TypeOK, Durable, FileWhole
  <2>4. PICK text : content' = [content EXCEPT ![tmp_file] = text]
    BY <1>2, <2>2 DEF WriteTmp
  <2>5. \A t \in Savers : (Saving(t)' => Saving(t)) /\ (PastLoad(t)' => PastLoad(t))
    BY <1>2 DEF WriteTmp, Saving, PastLoad, SoleInv, TypeOK
  <2> QED
    BY <1>2, <2>3, <2>4, <2>5, TmpKeepsDurable DEF WriteTmp
<1>3. CASE RenameTmp(s)
  BY <1>3, RenameKeepsDurable
<1> QED
  BY <1>1, <1>2, <1>3 DEF save

LEMMA ControlRequestKeepsDurable ==
    ASSUME SoleInv, Durable, TypeOK', NEW c \in Clients, ControlRequest(c), ~clashed'
    PROVE  Durable'
<1>0. c \in Savers /\ c # Network
  BY PersistenceAssumption DEF Savers
<1>1. ASSUME phase[c] = "idle", phase' = [phase EXCEPT ![c] = "changed"]
      PROVE  \A s \in Savers : Saving(s)' => phase'[s] = phase[s]
  BY <1>0, <1>1 DEF Saving, SoleInv, TypeOK
<1>2. ASSUME NEW halves \in SUBSET Halves \ {{}}, ChangeState(c, halves) PROVE Durable'
  BY <1>1, <1>2, ChangeKeepsDurable DEF ChangeState, history
<1>3. CASE set_trusted_contact(c)
  BY <1>1, <1>3, ChangeKeepsDurable DEF set_trusted_contact, history
<1>4. CASE TakeSnapshot(c)
  <2>1. BeginSave(c, memory', "open") /\ UNCHANGED <<memory, changes, diskVars, acked>>
    BY <1>4 DEF TakeSnapshot
  <2> QED
    BY <1>0, <2>1, MemoryStays, BeginKeepsDurable DEF SoleInv, Durable
<1>5. CASE EditPeerBook(c)
  BY <1>0, <1>5, ChangeIsNewer, BeginKeepsDurable DEF EditPeerBook, SoleInv, Durable
<1>6. CASE seed_invite_hints(c)
  BY <1>6, ChangeKeepsDurable DEF seed_invite_hints, saverVars, history
<1> QED
  BY <1>2, <1>3, <1>4, <1>5, <1>6 DEF ControlRequest

\* A crash brings back what was acknowledged, and ends every save.
LEMMA RestartKeepsDurable ==
    ASSUME SoleInv, Durable, TypeOK', Restart
    PROVE  Durable' /\ memory' = acked
<1>1. memory' = acked /\ UNCHANGED <<changes, diskVars, acked, overlapped>>
  BY DEF Restart, Durable, InOrder, history
<1>2. \A s \in Savers : ~Saving(s)'
  BY DEF Restart, Saving
<1>3. \A h \in Halves : acked[h] <= acked[h] /\ acked[h] <= changes
  <2>1. \A h \in Halves : acked[h] \in Nat /\ memory[h] \in Nat /\ changes \in Nat
    BY StateFacts, PersistenceAssumption DEF SoleInv, TypeOK
  <2> QED
    BY <2>1 DEF Durable, InOrder
<1>4. InOrder'
  BY <1>1, <1>2, <1>3, SameDisk DEF InOrder, Durable
<1>5. RoomsCarried'
  BY <1>2 DEF RoomsCarried, PastLoad, Saving, Savers
<1> QED
  BY <1>1, <1>4, <1>5, SameDisk DEF Durable

\* An overlap is remembered for good.
LEMMA ClashStays ==
    ASSUME [Next]_vars, clashed
    PROVE  clashed'
BY DEF Next, ControlRequest, ChangeState, set_trusted_contact, TakeSnapshot, EditPeerBook,
       seed_invite_hints, NetworkEvent, persist_network_snapshot, save_network, save, CreateTmp,
       WriteTmp, RenameTmp, EndSave, Restart, BeginSave, history, vars

LEMMA NextDurable == DurableInv /\ [Next]_vars => DurableInv'
<1> SUFFICES ASSUME DurableInv, [Next]_vars, ~clashed' PROVE Durable'
  BY NextSole DEF DurableInv
<1>0. /\ SoleInv /\ Durable /\ TypeOK' /\ Network \in Savers
  BY ClashStays, NextSole DEF DurableInv, SoleInv, Savers
<1>1. ASSUME NEW c \in Clients, ControlRequest(c) PROVE Durable'
  BY <1>0, <1>1, ControlRequestKeepsDurable
<1>2. ASSUME NEW halves \in {{"network"}, Halves}, NetworkEvent(halves) PROVE Durable'
  <2>1. \A s \in Savers : Saving(s)' => phase'[s] = phase[s]
    BY <1>0, <1>2 DEF NetworkEvent, Saving, SoleInv, TypeOK
  <2> QED
    BY <1>0, <1>2, <2>1, ChangeKeepsDurable DEF NetworkEvent, history
<1>3. CASE persist_network_snapshot
  <2>1. BeginSave(Network, memory', "load") /\ UNCHANGED <<memory, changes, diskVars, acked>>
    BY <1>3 DEF persist_network_snapshot
  <2> QED
    BY <1>0, <2>1, MemoryStays, BeginKeepsDurable DEF SoleInv, Durable
<1>4. CASE save_network
  BY <1>0, <1>4, LoadKeepsDurable
<1>5. ASSUME NEW s \in Savers, save(s) PROVE Durable'
  BY <1>0, <1>5, SaveKeepsDurable
<1>6. CASE Restart
  BY <1>0, <1>6, RestartKeepsDurable
<1>7. CASE UNCHANGED vars
  BY <1>0, <1>7, SameDisk
     DEF vars, saverVars, history, Durable, InOrder, RoomsCarried, PastLoad, Saving
<1> QED
  BY <1>1, <1>2, <1>3, <1>4, <1>5, <1>6, <1>7 DEF Next

LEMMA InitDurable == Init => DurableInv
<1> SUFFICES ASSUME Init PROVE Durable
  BY InitSole DEF DurableInv
<1>1. \A s \in Savers : ~Saving(s)
  BY DEF Init, Saving
<1>2. InOrder
  BY <1>1, LoadsNothing DEF Init, InOrder, PersistedStateDefault
<1> QED
  BY <1>1, <1>2 DEF Init, Durable, FileWhole, RoomsCarried, PastLoad, Saving, Savers

\* The inductive invariant: until two saves overlap the state file is whole, and holds
\* exactly what was acknowledged, no snapshot under way being older.
THEOREM DurableHolds == Spec => []DurableInv
BY InitDurable, NextDurable, PTL DEF Spec

\* Until two saves overlap, a restart at any step finds every change whose save was
\* reported finished (load after save_full and save_network).
THEOREM AckedSafe == Spec => []AckedChangesSafe
<1>1. DurableInv => AckedChangesSafe
  <2> SUFFICES ASSUME DurableInv, ~clashed, NEW h \in Halves PROVE acked[h] <= load_or_default[h]
    BY DEF AckedChangesSafe
  <2>1. acked[h] \in Nat /\ acked = load_or_default
    BY StateFacts DEF DurableInv, SoleInv, TypeOK, Durable, InOrder
  <2> QED
    BY <2>1
<1> QED
  BY <1>1, DurableHolds, PTL

-----------------------------------------------------------------------------
(* The register that the saves implement *)

\* A step that leaves the acknowledged state alone and makes memory no older.
LEMMA AdvanceStep ==
    ASSUME TypeOK', NoOlder(memory', memory), acked' = acked, ~clashed
    PROVE  Register!SavedNext
<1>1. memory' \in [Halves -> Nat]
  BY PersistenceAssumption DEF TypeOK, States
<1> QED
  BY <1>1 DEF Register!SavedNext, Register!Advance, NoOlder

LEMMA RegisterStep == DurableInv /\ [Next]_vars => [Register!SavedNext]_(Register!savedVars)
<1> SUFFICES ASSUME DurableInv, [Next]_vars
             PROVE  Register!SavedNext \/ UNCHANGED <<memory, acked, clashed>>
  BY DEF Register!savedVars
<1>0. CASE clashed'
  BY <1>0 DEF Register!SavedNext
<1> SUFFICES ASSUME ~clashed' PROVE Register!SavedNext \/ UNCHANGED <<memory, acked, clashed>>
  BY <1>0
<1>1. SoleInv /\ Durable /\ TypeOK /\ TypeOK' /\ InOrder /\ ~clashed
  BY ClashStays, NextSole DEF DurableInv, SoleInv, Durable
<1>2. ASSUME NEW halves, Change(halves), acked' = acked PROVE Register!SavedNext
  BY <1>1, <1>2, ChangeIsNewer, AdvanceStep
<1>3. ASSUME UNCHANGED <<memory, changes, acked>> PROVE Register!SavedNext
  BY <1>1, <1>3, MemoryStays, AdvanceStep
<1>4. ASSUME NEW c \in Clients, ControlRequest(c) PROVE Register!SavedNext
  <2>1. ASSUME NEW halves \in SUBSET Halves \ {{}}, ChangeState(c, halves)
        PROVE  Register!SavedNext
    BY <1>2, <2>1 DEF ChangeState, history
  <2>2. CASE set_trusted_contact(c)
    BY <1>2, <2>2 DEF set_trusted_contact, history
  <2>3. CASE TakeSnapshot(c)
    BY <1>3, <2>3 DEF TakeSnapshot
  <2>4. CASE EditPeerBook(c)
    BY <1>2, <2>4 DEF EditPeerBook
  <2>5. CASE seed_invite_hints(c)
    BY <1>2, <2>5 DEF seed_invite_hints, history
  <2> QED
    BY <1>4, <2>1, <2>2, <2>3, <2>4, <2>5 DEF ControlRequest
<1>5. ASSUME NEW halves \in {{"network"}, Halves}, NetworkEvent(halves)
      PROVE  Register!SavedNext
  BY <1>2, <1>5 DEF NetworkEvent, history
<1>6. CASE persist_network_snapshot \/ save_network
  BY <1>3, <1>6 DEF persist_network_snapshot, save_network, history
<1>7. ASSUME NEW s \in Savers, CreateTmp(s) \/ WriteTmp(s) PROVE Register!SavedNext
  BY <1>3, <1>7 DEF CreateTmp, WriteTmp, history
<1>8. ASSUME NEW s \in Savers, RenameTmp(s) PROVE Register!SavedNext
  <2>1. acked' = snap[s] /\ memory' = memory
    BY <1>1, <1>8, RenameKeepsDurable DEF RenameTmp
  <2>2. \A h \in Halves : acked[h] <= snap[s][h] /\ snap[s][h] <= memory[h]
    BY <1>1, <1>8 DEF InOrder, RenameTmp, Saving
  <2>3. acked' \in [Halves -> Nat]
    BY <1>1, PersistenceAssumption DEF TypeOK, States
  <2> QED
    BY <1>1, <2>1, <2>2, <2>3 DEF Register!SavedNext, Register!Save
<1>9. CASE Restart
  <2>1. memory' = acked /\ acked' = acked
    BY <1>1, <1>9, RestartKeepsDurable DEF Restart, history
  <2> QED
    BY <1>1, <2>1 DEF Register!SavedNext, Register!Crash
<1>10. CASE UNCHANGED vars
  BY <1>10 DEF vars, history
<1> QED
  BY <1>4, <1>5, <1>6, <1>7, <1>8, <1>9, <1>10 DEF Next, save

LEMMA RegisterInit == Init => Register!SavedInit
BY DEF Init, Register!SavedInit, PersistedStateDefault

\* The saves implement a register: until two of them overlap, a restart restores exactly
\* the state that was acknowledged last, which follows memory and never goes back
\* (persist.rs and its callers, seen from outside).
THEOREM ImplementsRegister == Spec => CrashRestoresSaved
BY RegisterInit, RegisterStep, DurableHolds, PTL DEF Spec, CrashRestoresSaved, Register!SavedSpec

=============================================================================
