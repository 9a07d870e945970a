------------------------------ MODULE Persistence ------------------------------
(***************************************************************************)
(* The state file of a daemon and the tasks that write it.                 *)
(*                                                                         *)
(* The network task saves the network half of the status after most swarm  *)
(* events (save_network, which reads the other half back from the file);   *)
(* control tasks save both halves after a request (save_full).  All go     *)
(* through one temporary file beside the state file: create or truncate    *)
(* it, write it, rename it into place.  The calls are synchronous and the  *)
(* runtime has several threads, so the steps of two savers interleave.     *)
(* The process may die between any two steps; the next start loads what    *)
(* the file then holds.                                                    *)
(*                                                                         *)
(* The halves are the network part and the rest (own name and rooms), each *)
(* the number of its last change, 0 for none.  Contents live in inodes,    *)
(* since a saver keeps writing to the file it opened whatever name that    *)
(* has by then.  An inode holds the set of states whose text it has parts  *)
(* of: it is empty, or it decodes when it has just one.                    *)
(***************************************************************************)
EXTENDS Naturals, FiniteSets

CONSTANTS
    Clients,    \* control connections
    Inodes,     \* files on disk, enough for both names and every open file
    MaxChanges  \* bound: changes to the state

Network == "network"
Savers == Clients \cup {Network}
Halves == {"rooms", "network"}
NoFile == 0

ASSUME PersistenceAssumption ==
    /\ Network \notin Clients
    /\ IsFiniteSet(Clients)
    /\ IsFiniteSet(Inodes)
    /\ NoFile \notin Inodes
    /\ Cardinality(Inodes) > Cardinality(Clients) + 2
    /\ MaxChanges \in Nat

VARIABLES
    memory,      \* the DaemonStatus: the last change of each half
    changes,     \* changes so far
    state_file,  \* the inode at path, or NoFile
    tmp_file,    \* the inode at path.tmp, or NoFile
    content,     \* what each inode holds
    phase,       \* where each saver is
    kind,        \* which of the three ways of saving it is in
    snap,        \* the state it is about to write
    fd,          \* the inode it has open
    \* history, read by no action
    acked,       \* last change of each half whose save was reported finished
    overlapped,  \* savers whose current save has run beside another
    clashed      \* two saves have run at the same time

diskVars == <<state_file, tmp_file, content>>
saverVars == <<phase, kind, snap, fd>>
history == <<acked, overlapped, clashed>>
vars == <<memory, changes, diskVars, saverVars, history>>

States == [Halves -> 0 .. MaxChanges]
PersistedStateDefault == [h \in Halves |-> 0]

\* In the middle of a save: it has what it is going to write.
Saving(s) == phase[s] \in {"load", "open", "write", "rename"}

\* persist_state saves with the read lock held, so no task changes the state.
ReadLocked == \E s \in Savers : kind[s] = "state" /\ Saving(s)

\* Type invariant.
TypeOK ==
    /\ memory \in States
    /\ changes \in 0 .. MaxChanges
    /\ state_file \in Inodes \cup {NoFile}
    /\ tmp_file \in Inodes \cup {NoFile}
    /\ content \in [Inodes -> SUBSET States]
    /\ phase \in [Savers -> {"idle", "changed", "load", "open", "write", "rename"}]
    /\ kind \in [Savers -> {"state", "snapshot", "network"}]
    /\ snap \in [Savers -> States]
    /\ fd \in [Savers -> Inodes \cup {NoFile}]
    /\ acked \in States
    /\ overlapped \subseteq Savers
    /\ clashed \in BOOLEAN

\* The daemon has just loaded its file: there was none.
Init ==
    /\ state_file = NoFile
    /\ tmp_file = NoFile
    /\ content = [i \in Inodes |-> {}]
    /\ memory = PersistedStateDefault
    /\ changes = 0
    /\ phase = [s \in Savers |-> "idle"]
    /\ kind = [s \in Savers |-> "network"]
    /\ snap = [s \in Savers |-> PersistedStateDefault]
    /\ fd = [s \in Savers |-> NoFile]
    /\ acked = PersistedStateDefault
    /\ overlapped = {}
    /\ clashed = FALSE

-----------------------------------------------------------------------------
(* Reading the file *)

Decodes(file) == file # NoFile /\ Cardinality(content[file]) = 1

\* load().unwrap_or_default(): a missing, empty or mixed file is an empty state.
load_or_default == IF Decodes(state_file)
                   THEN CHOOSE state \in content[state_file] : TRUE
                   ELSE PersistedStateDefault

-----------------------------------------------------------------------------
(* Changing the state and taking the snapshot to save *)

\* A critical section that changes some halves.
Change(halves) ==
    /\ changes < MaxChanges
    /\ ~ReadLocked
    /\ changes' = changes + 1
    /\ memory' = [h \in Halves |-> IF h \in halves THEN changes + 1 ELSE memory[h]]

\* Saver s has its snapshot and goes on to step `first` of the save.
BeginSave(s, state, first) ==
    /\ snap' = [snap EXCEPT ![s] = state]
    /\ phase' = [phase EXCEPT ![s] = first]
    /\ LET others == {other \in Savers \ {s} : Saving(other)} IN
       /\ overlapped' = IF others = {} THEN {} ELSE overlapped \cup others \cup {s}
       /\ clashed' = (clashed \/ others # {})

\* Creating a room, adopting one, renaming oneself, rotating the invite,
\* whitelisting a peer: persist_state follows the change.
ChangeState(c, halves) ==
    /\ phase[c] = "idle"
    /\ Change(halves)
    /\ phase' = [phase EXCEPT ![c] = "changed"]
    /\ kind' = [kind EXCEPT ![c] = "state"]
    /\ UNCHANGED <<diskVars, snap, fd, history>>

\* Marking a trusted contact: the snapshot is taken in a second critical section.
set_trusted_contact(c) ==
    /\ phase[c] = "idle"
    /\ Change({"network"})
    /\ phase' = [phase EXCEPT ![c] = "changed"]
    /\ kind' = [kind EXCEPT ![c] = "snapshot"]
    /\ UNCHANGED <<diskVars, snap, fd, history>>

\* persist_state, and the snapshot of set_trusted_contact.
TakeSnapshot(c) ==
    /\ phase[c] = "changed"
    /\ kind[c] \in {"state", "snapshot"}
    /\ BeginSave(c, memory, "open")
    /\ UNCHANGED <<memory, changes, diskVars, kind, fd, acked>>

\* Saving, renaming or forgetting a peer: the snapshot is taken with the change,
\* and saved after the lock is dropped.
EditPeerBook(c) ==
    /\ phase[c] = "idle"
    /\ Change({"network"})
    /\ BeginSave(c, memory', "open")
    /\ kind' = [kind EXCEPT ![c] = "snapshot"]
    /\ UNCHANGED <<diskVars, fd, acked>>

\* Joining by an invite leaves hints in the peer book and saves nothing.
seed_invite_hints(c) ==
    /\ phase[c] = "idle"
    /\ Change({"network"})
    /\ UNCHANGED <<diskVars, saverVars, history>>

\* A handler of the network task changes its half, or the invite of the engaged
\* room with it ...
NetworkEvent(halves) ==
    /\ phase[Network] = "idle"
    /\ Change(halves)
    /\ phase' = [phase EXCEPT ![Network] = "changed"]
    /\ UNCHANGED <<diskVars, kind, snap, fd, history>>

\* Mutant of persist_network_snapshot: a state without the rooms is passed on.
persist_network_only ==
    /\ phase[Network] = "changed"
    /\ BeginSave(Network, [network |-> memory.network], "load")
    /\ UNCHANGED <<memory, changes, diskVars, kind, fd, acked>>

\* ... and then saves a copy of it ...
persist_network_snapshot ==
    /\ phase[Network] = "changed"
    /\ BeginSave(Network, memory, "load")
    /\ UNCHANGED <<memory, changes, diskVars, kind, fd, acked>>

\* Mutant of save_network: the rooms are not carried over.
save_network_alone ==
    /\ phase[Network] = "load"
    /\ snap' = [snap EXCEPT ![Network].rooms = 0]
    /\ phase' = [phase EXCEPT ![Network] = "open"]
    /\ UNCHANGED <<memory, changes, diskVars, kind, fd, history>>

\* ... with the rooms half that the file holds.
save_network ==
    /\ phase[Network] = "load"
    /\ snap' = [snap EXCEPT ![Network].rooms = load_or_default.rooms]
    /\ phase' = [phase EXCEPT ![Network] = "open"]
    /\ UNCHANGED <<memory, changes, diskVars, kind, fd, history>>

-----------------------------------------------------------------------------
(* save: create or truncate the temporary file, write it, rename it *)

NewInode == CHOOSE i \in Inodes :
                i \notin {state_file, tmp_file} \cup {fd[s] : s \in Savers}

\* Mutant of CreateTmp: a temporary file that is there is opened as it is.
CreateTmpKeeping(s) ==
    LET file == IF tmp_file = NoFile THEN NewInode ELSE tmp_file IN
    /\ phase[s] = "open"
    /\ tmp_file' = file
    /\ content' = IF tmp_file = NoFile THEN [content EXCEPT ![file] = {}] ELSE content
    /\ fd' = [fd EXCEPT ![s] = file]
    /\ phase' = [phase EXCEPT ![s] = "write"]
    /\ UNCHANGED <<memory, changes, state_file, kind, snap, history>>

\* fs::write opens the temporary file, empty.
CreateTmp(s) ==
    LET file == IF tmp_file = NoFile THEN NewInode ELSE tmp_file IN
    /\ phase[s] = "open"
    /\ tmp_file' = file
    /\ content' = [content EXCEPT ![file] = {}]
    /\ fd' = [fd EXCEPT ![s] = file]
    /\ phase' = [phase EXCEPT ![s] = "write"]
    /\ UNCHANGED <<memory, changes, state_file, kind, snap, history>>

\* The file after new is written at its start: a longer old text shows behind a
\* shorter new one.
Overwritten(old, new) == {{new}, old \cup {new}}

WriteTmp(s) ==
    /\ phase[s] = "write"
    /\ \E text \in Overwritten(content[fd[s]], snap[s]) :
          content' = [content EXCEPT ![fd[s]] = text]
    /\ phase' = [phase EXCEPT ![s] = "rename"]
    /\ UNCHANGED <<memory, changes, state_file, tmp_file, kind, snap, fd, history>>

\* The save is over; a control task's caller is told so.
EndSave(s) ==
    /\ phase' = [phase EXCEPT ![s] = "idle"]
    /\ fd' = [fd EXCEPT ![s] = NoFile]
    /\ acked' = [h \in Halves |->
                    IF (s # Network \/ h = "network") /\ snap[s][h] > acked[h]
                    THEN snap[s][h] ELSE acked[h]]

\* rename moves whatever is at the temporary path by then.  When another saver
\* has moved it already it fails, and the error is dropped.
RenameTmp(s) ==
    /\ phase[s] = "rename"
    /\ IF tmp_file = NoFile
       THEN UNCHANGED <<state_file, tmp_file>>
       ELSE state_file' = tmp_file /\ tmp_file' = NoFile
    /\ EndSave(s)
    /\ UNCHANGED <<memory, changes, content, kind, snap, overlapped, clashed>>

save(s) == CreateTmp(s) \/ WriteTmp(s) \/ RenameTmp(s)

\* Mutant of Restart: a temporary file that is there is taken for the newer one.
RestartFromTmp ==
    /\ memory' = IF Decodes(tmp_file) THEN CHOOSE state \in content[tmp_file] : TRUE
                 ELSE load_or_default
    /\ phase' = [s \in Savers |-> "idle"]
    /\ fd' = [s \in Savers |-> NoFile]
    /\ UNCHANGED <<changes, diskVars, kind, snap, history>>

\* The process dies and the daemon is started again.
Restart ==
    /\ memory' = load_or_default
    /\ phase' = [s \in Savers |-> "idle"]
    /\ fd' = [s \in Savers |-> NoFile]
    /\ UNCHANGED <<changes, diskVars, kind, snap, history>>

-----------------------------------------------------------------------------

ControlRequest(c) ==
    \/ \E halves \in SUBSET Halves \ {{}} : ChangeState(c, halves)
    \/ set_trusted_contact(c)
    \/ TakeSnapshot(c)
    \/ EditPeerBook(c)
    \/ seed_invite_hints(c)

Next ==
    \/ \E c \in Clients : ControlRequest(c)
    \/ \E halves \in {{"network"}, Halves} : NetworkEvent(halves)
    \/ persist_network_snapshot \/ save_network
    \/ \E s \in Savers : save(s)
    \/ Restart

Spec == Init /\ [][Next]_vars

-----------------------------------------------------------------------------
(* Properties *)

\* As long as no two saves have run at the same time, a restart at any moment,
\* in the middle of a save too, finds every change whose save was reported
\* finished: the rename is atomic, save_network carries the rooms over, and a
\* temporary file left by a crash does no harm.
AckedChangesSafe ==
    ~clashed => \A h \in Halves : acked[h] <= load_or_default[h]

\* Whatever earlier clashes and crashes have left on disk, a save that no other
\* one overlaps puts exactly its snapshot in place.
SoleSaveLands ==
    [][ \A s \in Savers \ overlapped :
          RenameTmp(s) => content'[state_file'] = {snap[s]} ]_vars

Register == INSTANCE SavedState
                WITH Parts <- Halves, current <- memory, saved <- acked, overlap <- clashed

\* Until two saves overlap, the snapshots, the shared temporary file, the reading back of
\* the rooms and a death at any step amount to a register: a restart finds exactly the
\* state whose save was reported last (save_full, save_network, load).
CrashRestoresSaved == Register!SavedSpec

\* The daemon's own test says of a trusted contact, marked and acknowledged, that
\* it is there "after restart".
PeerBookSurvivesRestart == acked["network"] <= load_or_default["network"]
=============================================================================
