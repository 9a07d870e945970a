------------------------ MODULE TerminalClientProofs ------------------------
(***************************************************************************)
(* What the terminal client keeps for any statuses, rooms and addresses:   *)
(* each selection is on an entry of its list, and the default room         *)
(* overrides another only where another client was faster.                 *)
(***************************************************************************)
EXTENDS TerminalClient, ListsProofs

-----------------------------------------------------------------------------
(* Numbers and lists *)

LEMMA MinOfTwo ==
    ASSUME NEW m \in Int, NEW n \in Int
    PROVE  Min({m, n}) = IF m <= n THEN m ELSE n
<1>1. \E x \in {m, n} : \A y \in {m, n} : x <= y
  OBVIOUS
<1>2. Min({m, n}) \in {m, n} /\ \A y \in {m, n} : Min({m, n}) <= y
  BY <1>1 DEF Min
<1> QED
  BY <1>2

LEMMA MaxOfTwo ==
    ASSUME NEW m \in Int, NEW n \in Int
    PROVE  Max({m, n}) = IF m >= n THEN m ELSE n
<1>1. \E x \in {m, n} : \A y \in {m, n} : x >= y
  OBVIOUS
<1>2. Max({m, n}) \in {m, n} /\ \A y \in {m, n} : Max({m, n}) >= y
  BY <1>1 DEF Max
<1> QED
  BY <1>2

\* A clamped index is on an entry, or at the top of an empty list.
LEMMA Clamped ==
    ASSUME NEW index \in Nat, NEW n \in Nat
    PROVE  clamp(index, n) \in Nat /\ clamp(index, n) < Max({1, n})
<1>1. n # 0 => Min({index, n - 1}) = IF index <= n - 1 THEN index ELSE n - 1
  BY MinOfTwo
<1>2. Max({1, n}) = IF 1 >= n THEN 1 ELSE n
  BY MaxOfTwo
<1> QED
  BY <1>1, <1>2 DEF clamp

\* A list is a list of its own elements.
LEMMA OwnElements ==
    ASSUME NEW T, NEW s \in Seq(T)
    PROVE  /\ s \in Seq(Range(s)) /\ Range(s) \in SUBSET T
           /\ Len(s) \in Nat /\ DOMAIN s = 1 .. Len(s)
<1>1. Len(s) \in Nat /\ DOMAIN s = 1 .. Len(s) /\ s \in [1 .. Len(s) -> T]
  OBVIOUS
<1>2. Range(s) \in SUBSET T /\ s \in [1 .. Len(s) -> Range(s)]
  BY <1>1 DEF Range
<1> QED
  BY <1>1, <1>2

\* The image of a list, under a function, has finitely many elements.
LEMMA ImageFinite ==
    ASSUME NEW T, NEW s \in Seq(T), NEW f
    PROVE  IsFiniteSet({f[x] : x \in Range(s)})
<1> DEFINE I == {f[x] : x \in Range(s)}
           g == [i \in 1 .. Len(s) |-> f[s[i]]]
<1>1. Len(s) \in Nat /\ DOMAIN s = 1 .. Len(s)
  OBVIOUS
<1>2. Range(s) = {s[i] : i \in 1 .. Len(s)}
  BY <1>1 DEF Range
<1>3. g \in Surjection(1 .. Len(s), I)
  BY <1>2 DEF Surjection
<1>4. IsFiniteSet(1 .. Len(s))
  BY <1>1, FS_Interval
<1> HIDE DEF g, I
<1>5. IsFiniteSet(I)
  BY <1>3, <1>4, FS_Surjection
<1> QED
  BY <1>5 DEF I

LEMMA TabsAre ==
    Tabs = {"Main", "Rooms", "Calls", "KnownPeers", "Peers", "Config", "SeenUsers",
            "DiscoveredPeers"}
  BY DEF Tabs, tab_screens, Range

-----------------------------------------------------------------------------
(* The lists of a status *)

LEMMA StatusTyped ==
    ASSUME NEW st \in Statuses
    PROVE  /\ st # NoStatus /\ RoomOf(st) \in RoomNames
           /\ st.rooms \in Seq(Range(st.rooms)) /\ st.peers \in Seq(Range(st.peers))
           /\ st.pending_peer_approvals \in Seq(Range(st.pending_peer_approvals))
           /\ st.friends \in Seq(Range(st.friends))
           /\ st.seen_users \in Seq(Range(st.seen_users))
           /\ st.discovered_peers \in Seq(Range(st.discovered_peers))
           /\ st.available_capture_devices \in Seq(Range(st.available_capture_devices))
           /\ \A r \in Range(st.rooms) : r.name \in RoomNames
           /\ \A p \in Range(st.peers) \cup Range(st.pending_peer_approvals) :
                 RoomOf(p) \in RoomNames
<1>1. RoomNames \subseteq Nat /\ MAIN \in RoomNames /\ NoRoom = 0
  BY ClientAssumption DEF NoRoom
<1>2. st.room_name \in RoomNames \cup {NoRoom}
  BY StatusesAssumption
<1>3. st # NoStatus
  BY <1>1, <1>2 DEF NoStatus
<1>4. \A p \in Range(st.peers) \cup Range(st.pending_peer_approvals) :
         RoomOf(p) \in RoomNames
  BY <1>1, StatusesAssumption DEF RoomOf
<1>5. RoomOf(st) \in RoomNames
  BY <1>1, <1>2 DEF RoomOf
<1>6. \A f \in {"rooms", "peers", "pending_peer_approvals", "friends", "seen_users",
                "discovered_peers", "available_capture_devices"} : st[f] \in Seq(Range(st[f]))
  BY StatusesAssumption
<1>7. \A r \in Range(st.rooms) : r.name \in RoomNames
  BY StatusesAssumption
<1> QED
  BY <1>3, <1>4, <1>5, <1>6, <1>7

\* The peers shown, the calls among them, the rooms engaged and the peers in a room.
LEMMA PeersTyped ==
    ASSUME NEW st \in Statuses
    PROVE  /\ visible_voice_peers[st] \in Seq(Range(st.peers))
           /\ active_call_peers[st] \in Seq(Range(st.peers))
           /\ engaged_rooms[st] \in Seq(Range(st.rooms))
           /\ \A name \in RoomNames :
                 room_peers[st][name] \in Seq(Range(visible_voice_peers[st]))
<1> DEFINE active == {p \in Range(st.peers) : p.session = "Active"}
           calls == {p \in Range(st.peers) : RoomOf(p) # RoomOf(st)}
           engaged == {r \in Range(st.rooms) : r.engaged}
           inside(name) == {p \in Range(st.peers) : RoomOf(p) = name}
           voice == visible_voice_peers[st]
<1>1. /\ voice = Kept(st.peers, active) /\ active_call_peers[st] = Kept(voice, calls)
      /\ engaged_rooms[st] = Kept(st.rooms, engaged)
  BY DEF visible_voice_peers, active_call_peers, engaged_rooms
<1>2. \A name \in RoomNames : room_peers[st][name] = Kept(voice, inside(name))
  BY DEF room_peers
<1>3. st.peers \in Seq(Range(st.peers)) /\ st.rooms \in Seq(Range(st.rooms))
  BY StatusTyped
<1> HIDE DEF active, calls, engaged, inside, voice
<1>4. voice \in Seq(Range(st.peers) \cap active)
  BY <1>1, <1>3, KeptTyped
<1>5. voice \in Seq(Range(st.peers)) /\ voice \in Seq(Range(voice))
  BY <1>4, OwnElements
<1>6. active_call_peers[st] \in Seq(Range(st.peers) \cap calls)
  BY <1>1, <1>5, KeptTyped
<1>7. engaged_rooms[st] \in Seq(Range(st.rooms) \cap engaged)
  BY <1>1, <1>3, KeptTyped
<1>8. ASSUME NEW name \in RoomNames
      PROVE  room_peers[st][name] \in Seq(Range(voice))
  <2>1. room_peers[st][name] \in Seq(Range(voice) \cap inside(name))
    BY <1>2, <1>5, KeptTyped
  <2> QED
    BY <2>1
<1> QED
  BY <1>5, <1>6, <1>7, <1>8 DEF voice

\* What the activity list can hold.
MainEntries(st) ==
    {Entry("RoomGroup", name) : name \in RoomNames}
    \cup {Entry("RoomPeer", p) : p \in Range(visible_voice_peers[st])}
    \cup {Entry("CallsGroup", NoRoom)}
    \cup {Entry("CallPeer", p) : p \in Range(active_call_peers[st])}

LEMMA EntriesTyped ==
    ASSUME NEW T, NEW s \in Seq(T), NEW kind
    PROVE  Entries(kind, s) \in Seq({Entry(kind, x) : x \in T})
<1>1. Len(s) \in Nat /\ DOMAIN s = 1 .. Len(s) /\ \A i \in DOMAIN s : s[i] \in T
  OBVIOUS
<1>2. Entries(kind, s) \in [1 .. Len(s) -> {Entry(kind, x) : x \in T}]
  BY <1>1 DEF Entries
<1> QED
  BY <1>1, <1>2

LEMMA MainTyped ==
    ASSUME NEW st \in Statuses, NEW rooms, NEW calls
    PROVE  main_activity_items(st, rooms, calls) \in Seq(MainEntries(st))
<1> DEFINE M == MainEntries(st)
           group(r) == <<Entry("RoomGroup", r.name)>>
                       \o (IF r.name \in rooms THEN Entries("RoomPeer", room_peers[st][r.name])
                           ELSE <<>>)
           groups == [i \in DOMAIN engaged_rooms[st] |-> group(engaged_rooms[st][i])]
           last == IF calls THEN Entries("CallPeer", active_call_peers[st]) ELSE <<>>
<1>1. ASSUME NEW r \in Range(st.rooms)
      PROVE  group(r) \in Seq(M)
  <2>1. r.name \in RoomNames
    BY StatusTyped
  <2>2. room_peers[st][r.name] \in Seq(Range(visible_voice_peers[st]))
    BY <2>1, PeersTyped
  <2>3. Entries("RoomPeer", room_peers[st][r.name])
           \in Seq({Entry("RoomPeer", p) : p \in Range(visible_voice_peers[st])})
    BY <2>2, EntriesTyped
  <2>4. Entries("RoomPeer", room_peers[st][r.name]) \in Seq(M)
    BY <2>3 DEF MainEntries
  <2>5. <<Entry("RoomGroup", r.name)>> \in Seq(M)
    BY <2>1 DEF MainEntries
  <2> HIDE DEF M
  <2> QED
    BY <2>4, <2>5
<1>2. groups \in Seq(Seq(M))
  <2> HIDE DEF M, group
  <2>1. engaged_rooms[st] \in Seq(Range(st.rooms))
    BY PeersTyped
  <2> DEFINE e == engaged_rooms[st]
  <2>2. Len(e) \in Nat /\ DOMAIN e = 1 .. Len(e) /\ \A i \in DOMAIN e : e[i] \in Range(st.rooms)
    BY <2>1
  <2>3. groups \in [1 .. Len(e) -> Seq(M)]
    BY <1>1, <2>2
  <2> HIDE DEF groups, e
  <2> QED
    BY <2>2, <2>3
<1>3. last \in Seq(M)
  <2>1. active_call_peers[st] \in Seq(Range(active_call_peers[st]))
    BY PeersTyped, OwnElements
  <2>2. Entries("CallPeer", active_call_peers[st])
           \in Seq({Entry("CallPeer", p) : p \in Range(active_call_peers[st])})
    BY <2>1, EntriesTyped
  <2>3. Entries("CallPeer", active_call_peers[st]) \in Seq(M)
    BY <2>2 DEF MainEntries
  <2> HIDE DEF M
  <2> QED
    BY <2>3
<1>4. <<Entry("CallsGroup", NoRoom)>> \in Seq(M)
  BY DEF MainEntries
<1>5. main_activity_items(st, rooms, calls) =
         FlattenSeq(groups) \o <<Entry("CallsGroup", NoRoom)>> \o last
  BY DEF main_activity_items
<1> HIDE DEF M, groups, last
<1>6. FlattenSeq(groups) \in Seq(M)
  BY <1>2, FlattenTyped
<1>7. main_activity_items(st, rooms, calls) \in Seq(M)
  BY <1>3, <1>4, <1>5, <1>6
<1> QED
  BY <1>7 DEF M

\* The rooms of a status are finitely many rooms.
LEMMA SeenTyped ==
    ASSUME NEW st \in Statuses
    PROVE  RoomsSeen(st) \in SUBSET RoomNames /\ IsFiniteSet(RoomsSeen(st))
<1> DEFINE voice == visible_voice_peers[st]
           pending == st.pending_peer_approvals
           nameOf == [r \in Range(st.rooms) |-> r.name]
           roomOf == [p \in Range(st.peers) \cup Range(pending) |-> RoomOf(p)]
           A == {nameOf[r] : r \in Range(st.rooms)}
           B == {roomOf[p] : p \in Range(voice)}
           C == {roomOf[p] : p \in Range(pending)}
           Own == IF st.rooms = <<>> THEN {RoomOf(st)} ELSE A
<1>1. /\ RoomOf(st) \in RoomNames /\ st.rooms \in Seq(Range(st.rooms))
      /\ pending \in Seq(Range(pending))
      /\ \A r \in Range(st.rooms) : r.name \in RoomNames
      /\ \A p \in Range(st.peers) \cup Range(pending) : RoomOf(p) \in RoomNames
  BY StatusTyped
<1>2. voice \in Seq(Range(st.peers)) /\ Range(voice) \in SUBSET Range(st.peers)
  BY PeersTyped, OwnElements
<1>3. RoomsSeen(st) = Own \cup B \cup C
  <2>1. A = {r.name : r \in Range(st.rooms)}
    OBVIOUS
  <2>2. B = {RoomOf(p) : p \in Range(voice)} /\ C = {RoomOf(p) : p \in Range(pending)}
    BY <1>2
  <2> QED
    BY <2>1, <2>2 DEF RoomsSeen
<1>4. A \in SUBSET RoomNames /\ B \in SUBSET RoomNames /\ C \in SUBSET RoomNames
  BY <1>1, <1>2
<1>5. IsFiniteSet(A) /\ IsFiniteSet(B) /\ IsFiniteSet(C)
  <2> HIDE DEF nameOf, roomOf, voice, pending
  <2> QED
    BY <1>1, <1>2, ImageFinite
<1> HIDE DEF A, B, C
<1>6. Own \in SUBSET RoomNames /\ IsFiniteSet(Own)
  <2>1. IsFiniteSet({RoomOf(st)})
    BY FS_Singleton
  <2> QED
    BY <1>1, <1>4, <1>5, <2>1
<1> HIDE DEF Own
<1>7. IsFiniteSet(Own \cup B)
  BY <1>5, <1>6, FS_Union
<1>8. IsFiniteSet((Own \cup B) \cup C)
  BY <1>5, <1>7, FS_Union
<1> QED
  BY <1>3, <1>4, <1>6, <1>8

\* Rooms differ in their keys, if only by their names.
LEMMA RoomKeys ==
    ASSUME NEW st \in Statuses, NEW r \in RoomNames
    PROVE  room_key(st, r) \in Keys /\ room_key(st, r)[4] = -r
<1> DEFINE pending == st.pending_peer_approvals
           k1 == IF is_current(st, r) THEN 1 ELSE 0
           k2 == Len(room_peers[st][r])
           k3 == Len(pending_in(st, r))
<1>1. k1 \in Int
  OBVIOUS
<1>2. k2 \in Int
  <2>1. room_peers[st][r] \in Seq(Range(visible_voice_peers[st]))
    BY PeersTyped
  <2> QED
    BY <2>1
<1>3. k3 \in Int
  <2> DEFINE here == {p \in Range(pending) : RoomOf(p) = r}
  <2>1. pending \in Seq(Range(pending))
    BY StatusTyped
  <2>2. pending_in(st, r) = Kept(pending, here)
    BY DEF pending_in
  <2> HIDE DEF here, pending
  <2>3. pending_in(st, r) \in Seq(Range(pending) \cap here)
    BY <2>1, <2>2, KeptTyped
  <2> QED
    BY <2>3
<1>4. -r \in Int
  BY ClientAssumption
<1>5. room_key(st, r) = <<k1, k2, k3, -r>>
  BY DEF room_key
<1> HIDE DEF k1, k2, k3
<1> QED
  BY <1>1, <1>2, <1>3, <1>4, <1>5 DEF Keys

\* The list of rooms holds rooms.
LEMMA RoomsTyped ==
    ASSUME NEW st \in Statuses
    PROVE  known_rooms[st] \in Seq(RoomNames)
<1> DEFINE S == RoomsSeen(st)
           R == {rq \in S \X S : Above(room_key(st, rq[1]), room_key(st, rq[2]))}
<1>1. S \in SUBSET RoomNames /\ IsFiniteSet(S)
  BY SeenTyped
<1>2. known_rooms[st] = Sorted(S, R)
  BY DEF known_rooms
<1>3. \A a, b \in S : <<a, b>> \in R <=> Above(room_key(st, a), room_key(st, b))
  OBVIOUS
<1> HIDE DEF S, R
<1>4. \A a \in S : room_key(st, a) \in Keys /\ room_key(st, a)[4] = -a
  BY <1>1, RoomKeys
<1>5. \A a \in S : <<a, a>> \notin R
  BY <1>3, <1>4, AboveIsOrder
<1>6. \A a, b, c \in S : <<a, b>> \in R /\ <<b, c>> \in R => <<a, c>> \in R
  BY <1>3, <1>4, AboveIsOrder
<1>7. ASSUME NEW a \in S, NEW b \in S
      PROVE  a = b \/ <<a, b>> \in R \/ <<b, a>> \in R
  <2>1. \/ room_key(st, a) = room_key(st, b)
        \/ Above(room_key(st, a), room_key(st, b)) \/ Above(room_key(st, b), room_key(st, a))
    BY <1>4, AboveIsOrder
  <2>2. a \in Int /\ b \in Int
    BY <1>1, ClientAssumption
  <2>3. room_key(st, a) = room_key(st, b) => a = b
    BY <1>4, <2>2
  <2> QED
    BY <1>3, <2>1, <2>3
<1>8. Sorted(S, R) \in Seq(S)
  BY <1>1, <1>5, <1>6, <1>7, SortedOnce
<1> QED
  BY <1>1, <1>2, <1>8

\* Every tab has a list, with or without a status.
LEMMA ItemsTyped ==
    ASSUME NEW s \in Tabs, NEW st \in Statuses \cup {NoStatus}, NEW rooms, NEW calls
    PROVE  Len(Items(s, st, rooms, calls)) \in Nat
<1>1. CASE st = NoStatus
  <2>1. Items(s, st, rooms, calls) =
          IF s = "Config" THEN <<Entry("InputGain", NoRoom)>> \o <<>> ELSE <<>>
    BY <1>1 DEF Items, config_items
  <2> QED
    BY <2>1
<1>2. CASE st \in Statuses
  <2>1. st # NoStatus
    BY <1>2, StatusTyped
  <2>2. CASE s = "Config"
    <3> DEFINE D == Entries("CaptureDevice", st.available_capture_devices)
               V == Entries("PeerVolume", visible_voice_peers[st])
               T == {Entry("CaptureDevice", x) : x \in Range(st.available_capture_devices)}
                    \cup {Entry("PeerVolume", x) : x \in Range(st.peers)}
                    \cup {Entry("InputGain", NoRoom)}
    <3>1. D \in Seq({Entry("CaptureDevice", x) : x \in Range(st.available_capture_devices)})
      BY <1>2, StatusTyped, EntriesTyped
    <3>2. V \in Seq({Entry("PeerVolume", x) : x \in Range(st.peers)})
      BY <1>2, PeersTyped, EntriesTyped
    <3>3. Items(s, st, rooms, calls) = <<Entry("InputGain", NoRoom)>> \o (D \o V)
      BY <2>1, <2>2 DEF Items, config_items
    <3> HIDE DEF D, V
    <3>4. D \in Seq(T) /\ V \in Seq(T) /\ <<Entry("InputGain", NoRoom)>> \in Seq(T)
      BY <3>1, <3>2
    <3> HIDE DEF T
    <3>5. Items(s, st, rooms, calls) \in Seq(T)
      BY <3>3, <3>4
    <3> QED
      BY <3>5
  <2>3. CASE s = "Main"
    <3>1. Items(s, st, rooms, calls) = main_activity_items(st, rooms, calls)
      BY <2>1, <2>3 DEF Items
    <3>2. Items(s, st, rooms, calls) \in Seq(MainEntries(st))
      BY <1>2, <3>1, MainTyped
    <3> QED
      BY <3>2
  <2>4. CASE s = "Rooms"
    <3>1. Items(s, st, rooms, calls) = known_rooms[st]
      BY <2>1, <2>4 DEF Items
    <3>2. Items(s, st, rooms, calls) \in Seq(RoomNames)
      BY <1>2, <3>1, RoomsTyped
    <3> QED
      BY <3>2
  <2>5. CASE s \in {"Calls", "Peers"}
    <3>1. Items(s, st, rooms, calls) \in {active_call_peers[st], visible_voice_peers[st]}
      BY <2>1, <2>5 DEF Items
    <3>2. Items(s, st, rooms, calls) \in Seq(Range(st.peers))
      BY <1>2, <3>1, PeersTyped
    <3> QED
      BY <3>2
  <2>6. CASE s \in {"KnownPeers", "SeenUsers", "DiscoveredPeers"}
    <3>1. Items(s, st, rooms, calls) \in {st.friends, st.seen_users, st.discovered_peers}
      BY <2>1, <2>6 DEF Items
    <3> QED
      BY <1>2, <3>1, StatusTyped
  <2> QED
    BY <2>2, <2>3, <2>4, <2>5, <2>6, TabsAre
<1> QED
  BY <1>1, <1>2

-----------------------------------------------------------------------------
(* The invariant *)

\* A daemon that is about to be sent CreateRoom is in no room, or in one that another
\* client chose since the GetStatus.
RaceNoted == pc = "create" /\ room[control_addr] # NoRoom => raced

ListsTyped ==
    /\ status \in Statuses \cup {NoStatus}
    /\ sel \in [Tabs -> Nat]
    /\ expanded_main_rooms \subseteq RoomNames
    /\ expanded_main_calls \in BOOLEAN

LoopTyped ==
    /\ control_addr \in Addrs
    /\ input_mode \in InputModes
    /\ screen \in Tabs
    /\ help \in BOOLEAN
    /\ attempted_auto_start \in BOOLEAN
    /\ default_room_initialized \in BOOLEAN
    /\ pc \in {"ready", "refresh", "create", "reload"}
    /\ after \subseteq Tabs
    /\ up \subseteq Bindable
    /\ starting \subseteq Bindable
    /\ room \in [Addrs -> RoomNames \cup {NoRoom}]
    /\ raced \in BOOLEAN

ListsInv == ListsTyped /\ SelectionOnAnEntry
LoopInv == LoopTyped /\ RaceNoted
ClientInv == ListsInv /\ LoopInv

LEMMA TypesPutTogether == ClientInv => TypeOK
  BY DEF ClientInv, ListsInv, LoopInv, ListsTyped, LoopTyped, TypeOK

-----------------------------------------------------------------------------
(* What keeps the selections on entries *)

LEMMA ListsUnchanged ==
    ASSUME ListsInv, UNCHANGED <<status, listVars>>
    PROVE  ListsInv'
  BY DEF ListsInv, ListsTyped, SelectionOnAnEntry, CurrentItems, listVars

\* Without a status nothing is on an entry.
LEMMA NothingShown ==
    ASSUME status' = NoStatus, sel' \in [Tabs -> Nat], expanded_main_rooms' \subseteq RoomNames,
           expanded_main_calls' \in BOOLEAN
    PROVE  ListsInv'
  BY DEF ListsInv, ListsTyped, SelectionOnAnEntry

LEMMA ListClamped ==
    ASSUME ListsInv, NEW s \in Tabs, NEW st \in Statuses \cup {NoStatus}, NEW rooms, NEW calls
    PROVE  /\ clamp_list(s, st, rooms, calls) \in Nat
           /\ clamp_list(s, st, rooms, calls) < Max({1, Len(Items(s, st, rooms, calls))})
<1>1. sel[s] \in Nat /\ Len(Items(s, st, rooms, calls)) \in Nat
  BY ItemsTyped DEF ListsInv, ListsTyped
<1> QED
  BY <1>1, Clamped DEF clamp_list

\* One selection moves to an entry of its list and the lists of the others are the same.
LEMMA OneMoves ==
    ASSUME ListsInv, NEW s \in Tabs, NEW i \in Nat, sel' = [sel EXCEPT ![s] = i],
           status # NoStatus => i < Max({1, Len(CurrentItems(s)')}),
           expanded_main_rooms' \subseteq RoomNames, expanded_main_calls' \in BOOLEAN,
           UNCHANGED status, \A t \in Tabs \ {s} : CurrentItems(t)' = CurrentItems(t)
    PROVE  ListsInv'
<1>1. sel \in [Tabs -> Nat] /\ status \in Statuses \cup {NoStatus}
  BY DEF ListsInv, ListsTyped
<1>2. sel' \in [Tabs -> Nat] /\ sel'[s] = i /\ \A t \in Tabs \ {s} : sel'[t] = sel[t]
  BY <1>1
<1>3. ListsTyped'
  BY <1>1, <1>2 DEF ListsTyped
<1>4. ASSUME status' # NoStatus, NEW t \in Tabs
      PROVE  sel'[t] < Max({1, Len(CurrentItems(t)')})
  <2>1. CASE t = s
    BY <1>2, <1>4, <2>1
  <2>2. CASE t # s
    <3>1. sel[t] < Max({1, Len(CurrentItems(t))})
      BY <1>4 DEF ListsInv, SelectionOnAnEntry
    <3> QED
      BY <1>2, <2>2, <3>1
  <2> QED
    BY <2>1, <2>2
<1>5. SelectionOnAnEntry'
  BY <1>4 DEF SelectionOnAnEntry
<1> QED
  BY <1>3, <1>5 DEF ListsInv

LEMMA SyncTyped ==
    ASSUME ListsInv, NEW st \in Statuses
    PROVE  sync_main_expansions(st) \subseteq RoomNames
<1>1. \A r \in Range(st.rooms) : r.name \in RoomNames
  BY StatusTyped
<1>2. Range(engaged_rooms[st]) \in SUBSET Range(st.rooms)
  BY PeersTyped, OwnElements
<1> QED
  BY <1>1, <1>2 DEF sync_main_expansions, ListsInv, ListsTyped

LEMMA AdoptKeeps ==
    ASSUME ListsInv, NEW st \in Statuses, AdoptStatus(st)
    PROVE  ListsInv'
<1> DEFINE rooms == sync_main_expansions(st)
<1>1. /\ status' = st /\ expanded_main_rooms' = rooms
      /\ sel' = [s \in Tabs |-> clamp_list(s, st, rooms, expanded_main_calls)]
      /\ UNCHANGED expanded_main_calls
  BY DEF AdoptStatus
<1>2. rooms \subseteq RoomNames
  BY SyncTyped
<1> HIDE DEF rooms
<1>3. \A s \in Tabs : /\ clamp_list(s, st, rooms, expanded_main_calls) \in Nat
                      /\ clamp_list(s, st, rooms, expanded_main_calls)
                            < Max({1, Len(Items(s, st, rooms, expanded_main_calls))})
  BY ListClamped
<1>4. ListsTyped'
  BY <1>1, <1>2, <1>3 DEF ListsInv, ListsTyped
<1>5. SelectionOnAnEntry'
  BY <1>1, <1>3 DEF SelectionOnAnEntry, CurrentItems
<1> QED
  BY <1>4, <1>5 DEF ListsInv

LEMMA ScreenClamped ==
    ASSUME ListsInv, NEW s \in Tabs, sel' = clamp_for_screen(s),
           UNCHANGED <<status, expanded_main_rooms, expanded_main_calls>>
    PROVE  ListsInv'
<1> DEFINE i == clamp_list(s, status, expanded_main_rooms, expanded_main_calls)
<1>1. status \in Statuses \cup {NoStatus} /\ expanded_main_rooms \subseteq RoomNames
      /\ expanded_main_calls \in BOOLEAN
  BY DEF ListsInv, ListsTyped
<1>2. i \in Nat /\ i < Max({1, Len(CurrentItems(s))})
  BY <1>1, ListClamped DEF CurrentItems
<1>3. sel' = [sel EXCEPT ![s] = i]
  BY DEF clamp_for_screen
<1>4. \A t \in Tabs : CurrentItems(t)' = CurrentItems(t)
  BY DEF CurrentItems
<1> HIDE DEF i
<1> QED
  BY <1>1, <1>2, <1>3, <1>4, OneMoves

LEMMA MoveKeeps ==
    ASSUME ListsInv, NEW s \in Tabs, MoveSelection(s)
    PROVE  ListsInv'
<1> DEFINE n == Len(CurrentItems(s))
           down == IF n = 0 THEN sel[s] ELSE Min({sel[s] + 1, n - 1})
           above == Max({sel[s] - 1, 0})
<1>1. /\ UNCHANGED <<status, expanded_main_rooms, expanded_main_calls>>
      /\ sel' \in {[sel EXCEPT ![s] = down], [sel EXCEPT ![s] = above]}
  BY DEF MoveSelection, ViewOnly
<1>2. status \in Statuses \cup {NoStatus} /\ expanded_main_rooms \subseteq RoomNames
      /\ expanded_main_calls \in BOOLEAN /\ sel[s] \in Nat
  BY DEF ListsInv, ListsTyped
<1>3. n \in Nat
  BY <1>2, ItemsTyped DEF CurrentItems
<1>4. \A t \in Tabs : CurrentItems(t)' = CurrentItems(t)
  BY <1>1 DEF CurrentItems
<1>5. status # NoStatus => sel[s] < Max({1, n})
  BY DEF ListsInv, SelectionOnAnEntry
<1> HIDE DEF n
<1>6. /\ n # 0 => Min({sel[s] + 1, n - 1}) = IF sel[s] + 1 <= n - 1 THEN sel[s] + 1 ELSE n - 1
      /\ above = IF sel[s] - 1 >= 0 THEN sel[s] - 1 ELSE 0
      /\ Max({1, n}) = IF 1 >= n THEN 1 ELSE n
  BY <1>2, <1>3, MinOfTwo, MaxOfTwo
<1>7. /\ down \in Nat /\ (status # NoStatus => down < Max({1, n}))
      /\ above \in Nat /\ (status # NoStatus => above < Max({1, n}))
  BY <1>2, <1>3, <1>5, <1>6
<1> HIDE DEF down, above
<1>8. Max({1, n}) = Max({1, Len(CurrentItems(s)')})
  BY <1>4 DEF n
<1> QED
  BY <1>1, <1>2, <1>4, <1>7, <1>8, OneMoves

\* What is selected in the activity list is an entry of it, and in the list of rooms a room.
LEMMA SelectedTyped ==
    ASSUME ListsInv
    PROVE  /\ HasSelected("Main") => /\ status \in Statuses
                                     /\ Selected("Main") \in MainEntries(status)
           /\ HasSelected("Rooms") => Selected("Rooms") \in RoomNames
<1>1. status \in Statuses \cup {NoStatus} /\ sel["Main"] \in Nat /\ sel["Rooms"] \in Nat
  BY TabsAre DEF ListsInv, ListsTyped
<1>2. CASE status = NoStatus
  <2>1. CurrentItems("Main") = <<>> /\ CurrentItems("Rooms") = <<>>
    BY <1>2 DEF CurrentItems, Items
  <2>2. ~HasSelected("Main") /\ ~HasSelected("Rooms")
    BY <1>1, <2>1 DEF HasSelected
  <2> QED
    BY <2>2
<1>3. CASE status \in Statuses
  <2>1. status # NoStatus
    BY <1>3, StatusTyped
  <2>2. /\ CurrentItems("Main") = main_activity_items(status, expanded_main_rooms,
                                                      expanded_main_calls)
        /\ CurrentItems("Rooms") = known_rooms[status]
    BY <2>1 DEF CurrentItems, Items
  <2>3. CurrentItems("Main") \in Seq(MainEntries(status)) /\ CurrentItems("Rooms") \in Seq(RoomNames)
    BY <1>3, <2>2, MainTyped, RoomsTyped
  <2>4. HasSelected("Main") => Selected("Main") \in MainEntries(status)
    BY <1>1, <2>3 DEF HasSelected, Selected
  <2>5. HasSelected("Rooms") => Selected("Rooms") \in RoomNames
    BY <1>1, <2>3 DEF HasSelected, Selected
  <2> QED
    BY <1>3, <2>4, <2>5
<1> QED
  BY <1>1, <1>2, <1>3

\* A group opens or closes: the activity list changes and its selection is clamped.
LEMMA ToggleKeeps ==
    ASSUME ListsInv, NEW rooms \in SUBSET RoomNames, NEW calls \in BOOLEAN,
           ToggleExpansion(rooms, calls), UNCHANGED status
    PROVE  ListsInv'
<1> DEFINE i == clamp_list("Main", status, rooms, calls)
<1>1. /\ expanded_main_rooms' = rooms /\ expanded_main_calls' = calls
      /\ sel' = [sel EXCEPT !["Main"] = i]
  BY DEF ToggleExpansion
<1>2. status \in Statuses \cup {NoStatus} /\ "Main" \in Tabs
  BY TabsAre DEF ListsInv, ListsTyped
<1>3. i \in Nat /\ i < Max({1, Len(Items("Main", status, rooms, calls))})
  BY <1>2, ListClamped
<1>4. CurrentItems("Main")' = Items("Main", status, rooms, calls)
  BY <1>1 DEF CurrentItems
<1>5. \A t \in Tabs \ {"Main"} : CurrentItems(t)' = CurrentItems(t)
  BY DEF CurrentItems, Items
<1> HIDE DEF i
<1> QED
  BY <1>1, <1>2, <1>3, <1>4, <1>5, OneMoves

\* A peer is opened where it is listed.
LEMMA OpenKeeps ==
    ASSUME ListsInv, NEW tab \in Tabs, NEW peer, OpenPeer(tab, peer), UNCHANGED status,
           NEW T, CurrentItems(tab) \in Seq(T), peer \in Range(CurrentItems(tab))
    PROVE  ListsInv'
<1> DEFINE items == CurrentItems(tab)
           k == CHOOSE i \in DOMAIN items : items[i] = peer
<1>1. sel' = [sel EXCEPT ![tab] = k - 1] /\ UNCHANGED <<expanded_main_rooms, expanded_main_calls>>
  BY DEF OpenPeer
<1>2. \E i \in DOMAIN items : items[i] = peer
  BY DEF Range
<1>3. k \in DOMAIN items
  BY <1>2
<1>4. \A t \in Tabs : CurrentItems(t)' = CurrentItems(t)
  BY <1>1 DEF CurrentItems
<1>5. expanded_main_rooms' \subseteq RoomNames /\ expanded_main_calls' \in BOOLEAN
  BY <1>1 DEF ListsInv, ListsTyped
<1> HIDE DEF k
<1>6. Len(items) \in Nat /\ k \in 1 .. Len(items)
  BY <1>3
<1> HIDE DEF items
<1>7. Max({1, Len(items)}) = IF 1 >= Len(items) THEN 1 ELSE Len(items)
  BY <1>6, MaxOfTwo
<1>8. k - 1 \in Nat /\ k - 1 < Max({1, Len(items)})
  BY <1>6, <1>7
<1>9. CurrentItems(tab)' = items
  BY <1>4 DEF items
<1> QED
  BY <1>1, <1>4, <1>5, <1>8, <1>9, OneMoves

LEMMA ActivateKeeps ==
    ASSUME ListsInv, activate_selected_main_item
    PROVE  ListsInv' /\ (screen' = screen \/ screen' \in Tabs)
<1> DEFINE item == Selected("Main")
           toggled == IF item.of \in expanded_main_rooms
                      THEN expanded_main_rooms \ {item.of}
                      ELSE expanded_main_rooms \cup {item.of}
<1>1. /\ HasSelected("Main") /\ UNCHANGED status
      /\ CASE item.kind = "RoomGroup"  -> ToggleExpansion(toggled, expanded_main_calls)
           [] item.kind = "CallsGroup" -> ToggleExpansion(expanded_main_rooms,
                                                          ~expanded_main_calls)
           [] item.kind = "RoomPeer"   -> OpenPeer("Peers", item.of)
           [] item.kind = "CallPeer"   -> OpenPeer("Calls", item.of)
  BY DEF activate_selected_main_item, ViewOnly
<1>2. status \in Statuses /\ item \in MainEntries(status)
  BY <1>1, SelectedTyped
<1>3. status # NoStatus /\ expanded_main_rooms \subseteq RoomNames
      /\ expanded_main_calls \in BOOLEAN /\ "Peers" \in Tabs /\ "Calls" \in Tabs
  BY <1>2, StatusTyped, TabsAre DEF ListsInv, ListsTyped
<1>4. \/ item.kind = "RoomGroup" /\ item.of \in RoomNames
      \/ item.kind = "CallsGroup"
      \/ item.kind = "RoomPeer" /\ item.of \in Range(visible_voice_peers[status])
      \/ item.kind = "CallPeer" /\ item.of \in Range(active_call_peers[status])
  BY <1>2 DEF MainEntries, Entry
<1> HIDE DEF item
<1>5. CASE item.kind = "RoomGroup" /\ item.of \in RoomNames
  <2>1. ToggleExpansion(toggled, expanded_main_calls)
    BY <1>1, <1>5
  <2>2. toggled \in SUBSET RoomNames
    BY <1>3, <1>5
  <2> HIDE DEF toggled
  <2>3. UNCHANGED screen
    BY <2>1 DEF ToggleExpansion
  <2> QED
    BY <1>1, <1>3, <2>1, <2>2, <2>3, ToggleKeeps
<1>6. CASE item.kind = "CallsGroup"
  <2>1. ToggleExpansion(expanded_main_rooms, ~expanded_main_calls)
    BY <1>1, <1>6
  <2>2. (~expanded_main_calls) \in BOOLEAN /\ UNCHANGED screen
    BY <2>1 DEF ToggleExpansion
  <2> QED
    BY <1>1, <1>3, <2>1, <2>2, ToggleKeeps
<1>7. CASE item.kind = "RoomPeer" /\ item.of \in Range(visible_voice_peers[status])
  <2>1. OpenPeer("Peers", item.of)
    BY <1>1, <1>7
  <2>2. CurrentItems("Peers") = visible_voice_peers[status]
    BY <1>3 DEF CurrentItems, Items
  <2>3. CurrentItems("Peers") \in Seq(Range(status.peers))
    BY <1>2, <2>2, PeersTyped
  <2>4. ListsInv'
    BY <1>1, <1>3, <1>7, <2>1, <2>2, <2>3, OpenKeeps
  <2> QED
    BY <1>3, <2>1, <2>4 DEF OpenPeer
<1>8. CASE item.kind = "CallPeer" /\ item.of \in Range(active_call_peers[status])
  <2>1. OpenPeer("Calls", item.of)
    BY <1>1, <1>8
  <2>2. CurrentItems("Calls") = active_call_peers[status]
    BY <1>3 DEF CurrentItems, Items
  <2>3. CurrentItems("Calls") \in Seq(Range(status.peers))
    BY <1>2, <2>2, PeersTyped
  <2>4. ListsInv'
    BY <1>1, <1>3, <1>8, <2>1, <2>2, <2>3, OpenKeeps
  <2> QED
    BY <1>3, <2>1, <2>4 DEF OpenPeer
<1> QED
  BY <1>4, <1>5, <1>6, <1>7, <1>8

-----------------------------------------------------------------------------
(* The poll *)

LEMMA StartHolds ==
    ASSUME Init
    PROVE  ClientInv
<1>1. status = NoStatus /\ sel \in [Tabs -> Nat]
  BY DEF Init
<1>2. ListsInv
  BY <1>1 DEF Init, ListsInv, ListsTyped, SelectionOnAnEntry
<1>3. LoopInv
  BY ClientAssumption, TabsAre DEF Init, LoopInv, LoopTyped, RaceNoted, InputModes
<1> QED
  BY <1>2, <1>3 DEF ClientInv

LEMMA PollDueKeeps ==
    ASSUME ClientInv, PollDue
    PROVE  ClientInv'
<1>1. ListsInv'
  BY ListsUnchanged DEF ClientInv, PollDue
<1>2. LoopInv'
  BY DEF ClientInv, LoopInv, LoopTyped, RaceNoted, PollDue, viewVars, daemonVars
<1> QED
  BY <1>1, <1>2 DEF ClientInv

\* CreateRoom follows only an answer that names no room, which is the daemon's room then.
LEMMA RefreshOkKeeps ==
    ASSUME ClientInv, NEW st \in Statuses, RefreshOk(st)
    PROVE  ClientInv'
<1>1. ListsInv'
  BY AdoptKeeps DEF ClientInv, RefreshOk
<1>2. LoopTyped'
  BY DEF ClientInv, LoopInv, LoopTyped, RefreshOk, ensure_default_room, viewVars, daemonVars
<1>3. RaceNoted'
  BY DEF RaceNoted, RefreshOk, Answers, ensure_default_room, daemonVars
<1> QED
  BY <1>1, <1>2, <1>3 DEF ClientInv, LoopInv

LEMMA LaunchTyped ==
    ASSUME LoopInv, NEW auto \in BOOLEAN, NEW outcome, launch_daemon(auto, outcome)
    PROVE  attempted_auto_start' \in BOOLEAN /\ starting' \subseteq Bindable
  BY DEF LoopInv, LoopTyped, launch_daemon

LEMMA RefreshErrKeeps ==
    ASSUME ClientInv, NEW outcome, RefreshErr(outcome)
    PROVE  ClientInv'
<1>1. sel' \in [Tabs -> Nat]
  BY DEF ClientInv, ListsInv, ListsTyped, RefreshErr
<1>2. ListsInv'
  BY <1>1, NothingShown DEF ClientInv, ListsInv, ListsTyped, RefreshErr
<1>3. attempted_auto_start' \in BOOLEAN /\ starting' \subseteq Bindable
  BY LaunchTyped DEF ClientInv, RefreshErr
<1>4. LoopInv'
  BY <1>3 DEF ClientInv, LoopInv, LoopTyped, RaceNoted, RefreshErr, viewVars
<1> QED
  BY <1>2, <1>4 DEF ClientInv

LEMMA CreateKeeps ==
    ASSUME ClientInv, CreateDefaultRoom
    PROVE  ClientInv'
<1>1. ListsInv'
  BY ListsUnchanged DEF ClientInv, CreateDefaultRoom
<1>2. room' \in [Addrs -> RoomNames \cup {NoRoom}]
  BY ClientAssumption DEF ClientInv, LoopInv, LoopTyped, CreateDefaultRoom
<1>3. pc' \in {"ready", "reload"}
  BY DEF CreateDefaultRoom
<1>4. LoopInv'
  BY <1>2, <1>3
  DEF ClientInv, LoopInv, LoopTyped, RaceNoted, CreateDefaultRoom, viewVars
<1> QED
  BY <1>1, <1>4 DEF ClientInv

LEMMA ReloadKeeps ==
    ASSUME ClientInv, Reload
    PROVE  ClientInv'
<1>1. ListsInv'
  <2>1. CASE control_addr \in up
    BY <2>1, AdoptKeeps DEF ClientInv, Reload
  <2>2. CASE control_addr \notin up
    BY <2>2, ListsUnchanged DEF ClientInv, Reload
  <2> QED
    BY <2>1, <2>2
<1>2. LoopInv'
  BY DEF ClientInv, LoopInv, LoopTyped, RaceNoted, Reload, viewVars, daemonVars
<1> QED
  BY <1>1, <1>2 DEF ClientInv

-----------------------------------------------------------------------------
(* Keys *)

\* A handler that talks to no daemon, and leaves the screen on a tab.
LEMMA ViewKeeps ==
    ASSUME LoopInv, pc = "ready", ViewOnly, screen' \in Tabs, help' \in BOOLEAN,
           input_mode' \in InputModes
    PROVE  LoopInv'
  BY DEF LoopInv, LoopTyped, RaceNoted, ViewOnly, loopVars, daemonVars

LEMMA RequestKeeps ==
    ASSUME ClientInv, Request, room' \in [Addrs -> RoomNames \cup {NoRoom}]
    PROVE  ClientInv'
<1>1. ListsInv'
  BY ListsUnchanged DEF ClientInv, Request
<1>2. LoopInv'
  BY DEF ClientInv, LoopInv, LoopTyped, RaceNoted, Request, viewVars
<1> QED
  BY <1>1, <1>2 DEF ClientInv

LEMMA PlainRequestKeeps ==
    ASSUME ClientInv, PlainRequest
    PROVE  ClientInv'
<1>1. Request /\ room' \in [Addrs -> RoomNames \cup {NoRoom}]
  BY DEF PlainRequest, ClientInv, LoopInv, LoopTyped
<1> QED
  BY <1>1, RequestKeeps

LEMMA RoomRequestKeeps ==
    ASSUME ClientInv, NEW r \in RoomNames, RoomRequest(r)
    PROVE  ClientInv'
<1>1. Request /\ room' \in [Addrs -> RoomNames \cup {NoRoom}]
  BY DEF RoomRequest, ClientInv, LoopInv, LoopTyped
<1> QED
  BY <1>1, RequestKeeps

LEMMA NavigateKeeps ==
    ASSUME ClientInv, NEW to \in Tabs, navigate_to_screen(to)
    PROVE  ClientInv'
<1>1. ListsInv'
  BY ScreenClamped DEF ClientInv, navigate_to_screen, ViewOnly
<1>2. LoopInv'
  <2>1. /\ pc = "ready" /\ ViewOnly /\ screen' \in Tabs /\ help' \in BOOLEAN
        /\ input_mode' \in InputModes
    BY DEF navigate_to_screen, ClientInv, LoopInv, LoopTyped
  <2> QED
    BY <2>1, ViewKeeps DEF ClientInv
<1> QED
  BY <1>1, <1>2 DEF ClientInv

LEMMA CycleKeeps ==
    ASSUME ClientInv, NEW forward \in BOOLEAN, cycle_tab(forward)
    PROVE  ClientInv'
<1> DEFINE index == CHOOSE i \in 1 .. 8 : tab_screens[i] = screen
           to == IF forward THEN tab_screens[(index % 8) + 1]
                 ELSE tab_screens[((index + 8 - 2) % 8) + 1]
<1>1. Len(tab_screens) = 8
  BY DEF tab_screens
<1>2. navigate_to_screen(to)
  BY <1>1 DEF cycle_tab
<1>3. screen \in Tabs /\ DOMAIN tab_screens = 1 .. 8
  BY DEF ClientInv, LoopInv, LoopTyped, tab_screens
<1>4. \A i \in 1 .. 8 : tab_screens[i] \in Tabs
  BY <1>3 DEF Tabs, Range
<1>5. \E i \in 1 .. 8 : tab_screens[i] = screen
  BY <1>3 DEF Tabs, Range
<1>6. index \in 1 .. 8
  BY <1>5
<1> HIDE DEF index
<1>7. (index % 8) + 1 \in 1 .. 8 /\ ((index + 8 - 2) % 8) + 1 \in 1 .. 8
  BY <1>6
<1>8. to \in Tabs
  BY <1>4, <1>7
<1> HIDE DEF to
<1> QED
  BY <1>2, <1>8, NavigateKeeps

LEMMA QuitKeeps ==
    ASSUME ClientInv, pc = "ready", Quit
    PROVE  ClientInv'
<1>1. sel' \in [Tabs -> Nat]
  BY DEF Quit
<1>2. ListsInv'
  BY <1>1, NothingShown DEF Quit
<1>3. LoopInv'
  BY ClientAssumption, TabsAre
  DEF ClientInv, LoopInv, LoopTyped, RaceNoted, Quit, InputModes, loopVars
<1> QED
  BY <1>2, <1>3 DEF ClientInv

LEMMA RefreshNowKeeps ==
    ASSUME ClientInv, NEW tabs \in SUBSET Tabs, RefreshNow(tabs)
    PROVE  ClientInv'
<1>1. ListsInv'
  BY ListsUnchanged DEF ClientInv, RefreshNow
<1>2. LoopInv'
  BY DEF ClientInv, LoopInv, LoopTyped, RaceNoted, RefreshNow, viewVars, daemonVars
<1> QED
  BY <1>1, <1>2 DEF ClientInv

LEMMA LaunchKeeps ==
    ASSUME ClientInv, NEW outcome, LaunchByHand(outcome)
    PROVE  ClientInv'
<1>1. ListsInv'
  BY ListsUnchanged DEF ClientInv, LaunchByHand
<1>2. attempted_auto_start' \in BOOLEAN /\ starting' \subseteq Bindable
  BY LaunchTyped DEF ClientInv, LaunchByHand
<1>3. LoopInv'
  BY <1>2 DEF ClientInv, LoopInv, LoopTyped, RaceNoted, LaunchByHand, viewVars
<1> QED
  BY <1>1, <1>3 DEF ClientInv

LEMMA HelpKeeps ==
    ASSUME ClientInv, pc = "ready", NEW open \in BOOLEAN, SetHelp(open)
    PROVE  ClientInv'
<1>1. ListsInv'
  BY ListsUnchanged DEF ClientInv, SetHelp, ViewOnly
<1>2. ViewOnly /\ screen' \in Tabs /\ help' \in BOOLEAN /\ input_mode' \in InputModes
  BY DEF SetHelp, ClientInv, LoopInv, LoopTyped
<1> QED
  BY <1>1, <1>2, ViewKeeps DEF ClientInv

LEMMA DialogKeeps ==
    ASSUME ClientInv, pc = "ready", NEW mode \in InputModes, OpenInput(mode)
    PROVE  ClientInv'
<1>1. ListsInv'
  BY ListsUnchanged DEF ClientInv, OpenInput, ViewOnly
<1>2. ViewOnly /\ screen' \in Tabs /\ help' \in BOOLEAN /\ input_mode' \in InputModes
  BY DEF OpenInput, ClientInv, LoopInv, LoopTyped
<1> QED
  BY <1>1, <1>2, ViewKeeps DEF ClientInv

LEMMA JumpsTyped ==
    ASSUME NEW s \in Tabs
    PROVE  Jumps[s] \subseteq Tabs
  BY TabsAre DEF Jumps

\* What every tab has.
LEMMA CommonKeep ==
    ASSUME ClientInv, NEW s \in Tabs, pc = "ready", CommonKeys(s)
    PROVE  ClientInv'
<1>1. CASE SetHelp(TRUE)
  BY <1>1, HelpKeeps
<1>2. CASE OpenInput("Dial")
  <2>1. "Dial" \in InputModes
    BY DEF InputModes
  <2> QED
    BY <1>2, <2>1, DialogKeeps
<1>3. CASE MoveSelection(s)
  <2>1. ListsInv'
    BY <1>3, MoveKeeps DEF ClientInv
  <2>2. ViewOnly /\ screen' \in Tabs /\ help' \in BOOLEAN /\ input_mode' \in InputModes
    BY <1>3 DEF MoveSelection, viewVars, ClientInv, LoopInv, LoopTyped
  <2> QED
    BY <2>1, <2>2, ViewKeeps DEF ClientInv
<1>4. CASE RefreshNow({s})
  BY <1>4, RefreshNowKeeps
<1>5. CASE Quit
  BY <1>5, QuitKeeps
<1>6. ASSUME NEW to \in Jumps[s], Jump(to)
      PROVE  ClientInv'
  <2>1. to \in Tabs
    BY <1>6, JumpsTyped
  <2>2. ListsInv'
    BY <1>6, <2>1, ScreenClamped DEF ClientInv, Jump, ViewOnly
  <2>3. ViewOnly /\ screen' \in Tabs /\ help' \in BOOLEAN /\ input_mode' \in InputModes
    BY <1>6, <2>1 DEF Jump, ClientInv, LoopInv, LoopTyped
  <2> QED
    BY <2>2, <2>3, ViewKeeps DEF ClientInv
<1> QED
  BY <1>1, <1>2, <1>3, <1>4, <1>5, <1>6 DEF CommonKeys

LEMMA MainScreenKeeps ==
    ASSUME ClientInv, handle_main_screen
    PROVE  ClientInv'
<1>1. pc = "ready" /\ "Main" \in Tabs
  BY TabsAre DEF handle_main_screen, Key
<1>2. CASE CommonKeys("Main")
  BY <1>1, <1>2, CommonKeep
<1>3. CASE activate_selected_main_item
  <2>1. ListsInv' /\ screen' \in Tabs
    BY <1>3, ActivateKeeps DEF ClientInv, LoopInv, LoopTyped
  <2>2. ViewOnly /\ help' \in BOOLEAN /\ input_mode' \in InputModes
    BY <1>3 DEF activate_selected_main_item, ClientInv, LoopInv, LoopTyped
  <2> QED
    BY <1>1, <2>1, <2>2, ViewKeeps DEF ClientInv
<1> QED
  BY <1>2, <1>3 DEF handle_main_screen

LEMMA RoomsScreenKeeps ==
    ASSUME ClientInv, handle_rooms_screen
    PROVE  ClientInv'
<1>1. pc = "ready" /\ "Rooms" \in Tabs
  BY TabsAre DEF handle_rooms_screen, Key
<1>2. CASE CommonKeys("Rooms")
  BY <1>1, <1>2, CommonKeep
<1>3. ASSUME NEW mode \in {"Room", "RenameSelf"}, OpenInput(mode)
      PROVE  ClientInv'
  <2>1. mode \in InputModes
    BY <1>3 DEF InputModes
  <2> QED
    BY <1>1, <1>3, <2>1, DialogKeeps
<1>4. CASE PlainRequest
  BY <1>4, PlainRequestKeeps
<1>5. CASE HasSelected("Rooms") /\ RoomRequest(Selected("Rooms"))
  <2>1. Selected("Rooms") \in RoomNames
    BY <1>5, SelectedTyped DEF ClientInv
  <2> QED
    BY <1>5, <2>1, RoomRequestKeeps
<1> QED
  BY <1>2, <1>3, <1>4, <1>5 DEF handle_rooms_screen

\* The other tabs have requests, dialogs and a launch beside what every tab has.
LEMMA OtherScreensKeep ==
    ASSUME ClientInv,
           \/ handle_peers_screen \/ handle_calls_screen \/ handle_config_screen
           \/ handle_known_peers_screen \/ handle_seen_users_screen
           \/ handle_discovered_peers_screen
    PROVE  ClientInv'
<1>1. /\ pc = "ready"
      /\ \/ \E s \in Tabs : CommonKeys(s)
         \/ PlainRequest
         \/ \E mode \in InputModes : OpenInput(mode)
         \/ \E outcome \in Outcomes : LaunchByHand(outcome)
  <2>1. {"ControlAddr", "RenameSelf", "RenameKnownPeer"} \subseteq InputModes
    BY DEF InputModes
  <2>2. {"Peers", "Calls", "Config", "KnownPeers", "SeenUsers", "DiscoveredPeers"} \subseteq Tabs
    BY TabsAre
  <2> QED
    BY <2>1, <2>2 DEF handle_peers_screen, handle_calls_screen, handle_config_screen,
       handle_known_peers_screen, handle_seen_users_screen, handle_discovered_peers_screen, Key
<1> QED
  BY <1>1, CommonKeep, PlainRequestKeeps, DialogKeeps, LaunchKeeps

LEMMA HelpScreenKeeps ==
    ASSUME ClientInv, handle_help_screen
    PROVE  ClientInv'
<1>1. pc = "ready" /\ (SetHelp(FALSE) \/ RefreshNow({}) \/ Quit) /\ {} \in SUBSET Tabs
  BY DEF handle_help_screen
<1> QED
  BY <1>1, HelpKeeps, RefreshNowKeeps, QuitKeeps

LEMMA TextInputKeeps ==
    ASSUME ClientInv, handle_text_input
    PROVE  ClientInv'
<1>1. pc = "ready"
  BY DEF handle_text_input
<1>2. CASE TypeText
  <2>1. ListsInv'
    BY <1>2, ListsUnchanged DEF ClientInv, TypeText
  <2>2. LoopInv'
    BY <1>1, <1>2
    DEF ClientInv, LoopInv, LoopTyped, RaceNoted, TypeText, viewVars, loopVars, daemonVars
  <2> QED
    BY <2>1, <2>2 DEF ClientInv
<1>3. CASE CancelInput
  <2>1. ListsInv'
    BY <1>3, ListsUnchanged DEF ClientInv, CancelInput, ViewOnly
  <2>2. ViewOnly /\ screen' \in Tabs /\ help' \in BOOLEAN /\ input_mode' \in InputModes
    BY <1>3 DEF CancelInput, ClientInv, LoopInv, LoopTyped, InputModes
  <2> QED
    BY <1>1, <2>1, <2>2, ViewKeeps DEF ClientInv
<1>4. ASSUME NEW r \in RoomNames \cup {room[control_addr]}, SubmitInput(r), ~CancelInput
      PROVE  ClientInv'
  <2>1. /\ input_mode' = "Normal" /\ pc' = "refresh" /\ after' = {}
        /\ room' = IF input_mode \in {"Room", "Dial"} /\ control_addr \in up
                   THEN [room EXCEPT ![control_addr] = r] ELSE room
        /\ control_addr' \in {control_addr, Trim[control_addr]}
        /\ UNCHANGED <<status, screen, help, listVars, attempted_auto_start,
                       default_room_initialized, up, starting, raced>>
    BY <1>4 DEF SubmitInput
  <2>2. ListsInv'
    BY <2>1, ListsUnchanged DEF ClientInv
  <2>3. room' \in [Addrs -> RoomNames \cup {NoRoom}]
    BY <1>4, <2>1 DEF ClientInv, LoopInv, LoopTyped
  <2>4. LoopInv'
    BY <2>1, <2>3, ClientAssumption DEF ClientInv, LoopInv, LoopTyped, RaceNoted, InputModes
  <2> QED
    BY <2>2, <2>4 DEF ClientInv
<1> QED
  BY <1>2, <1>3, <1>4 DEF handle_text_input

LEMMA KeysKeep ==
    ASSUME ClientInv, handle_key
    PROVE  ClientInv'
<1>1. ASSUME NEW to \in Tabs, navigate_to_screen(to)
      PROVE  ClientInv'
  BY <1>1, NavigateKeeps
<1>2. ASSUME NEW forward \in BOOLEAN, cycle_tab(forward)
      PROVE  ClientInv'
  BY <1>2, CycleKeeps
<1>3. CASE handle_main_screen
  BY <1>3, MainScreenKeeps
<1>4. CASE handle_rooms_screen
  BY <1>4, RoomsScreenKeeps
<1>5. CASE \/ handle_peers_screen \/ handle_calls_screen \/ handle_config_screen
           \/ handle_known_peers_screen \/ handle_seen_users_screen
           \/ handle_discovered_peers_screen
  BY <1>5, OtherScreensKeep
<1>6. CASE handle_help_screen
  BY <1>6, HelpScreenKeeps
<1> QED
  BY <1>1, <1>2, <1>3, <1>4, <1>5, <1>6 DEF handle_key

-----------------------------------------------------------------------------
(* The daemons *)

LEMMA DaemonsKeep ==
    ASSUME ClientInv, NEW a \in Addrs,
           \/ DaemonStarts(a) \/ SpawnFails(a) \/ DaemonStops(a)
           \/ \E r \in RoomNames : OtherClientSetsRoom(a, r)
    PROVE  ClientInv'
<1>1. DaemonUnseen
  BY DEF DaemonStarts, SpawnFails, DaemonStops, OtherClientSetsRoom
<1>2. ListsInv'
  BY <1>1, ListsUnchanged DEF ClientInv, DaemonUnseen
<1>3. /\ control_addr \in Addrs /\ room \in [Addrs -> RoomNames \cup {NoRoom}]
      /\ up \subseteq Bindable /\ starting \subseteq Bindable /\ raced \in BOOLEAN /\ RaceNoted
  BY DEF ClientInv, LoopInv, LoopTyped
<1> DEFINE DaemonsTyped == /\ up' \subseteq Bindable /\ starting' \subseteq Bindable
                           /\ room' \in [Addrs -> RoomNames \cup {NoRoom}]
                           /\ raced' \in BOOLEAN
                           /\ pc = "create" /\ room'[control_addr] # NoRoom => raced'
<1>4. DaemonsTyped
  <2>1. CASE DaemonStarts(a)
    <3>1. /\ a \in Bindable /\ up' = up \cup {a} /\ room' = [room EXCEPT ![a] = NoRoom]
          /\ starting' \in {starting, starting \ {a}} /\ UNCHANGED raced
      BY <2>1 DEF DaemonStarts
    <3> QED
      BY <1>3, <3>1 DEF RaceNoted
  <2>2. CASE SpawnFails(a)
    <3>1. starting' = starting \ {a} /\ UNCHANGED <<up, room, raced>>
      BY <2>2 DEF SpawnFails
    <3> QED
      BY <1>3, <3>1 DEF RaceNoted
  <2>3. CASE DaemonStops(a)
    <3>1. up' = up \ {a} /\ room' = [room EXCEPT ![a] = NoRoom] /\ UNCHANGED <<starting, raced>>
      BY <2>3 DEF DaemonStops
    <3> QED
      BY <1>3, <3>1 DEF RaceNoted
  <2>4. ASSUME NEW r \in RoomNames, OtherClientSetsRoom(a, r)
        PROVE  DaemonsTyped
    <3>1. /\ room' = [room EXCEPT ![a] = r] /\ UNCHANGED <<up, starting>>
          /\ raced' = (pc = "create" /\ (raced \/ a = control_addr))
      BY <2>4 DEF OtherClientSetsRoom
    <3> QED
      BY <1>3, <3>1 DEF RaceNoted
  <2> QED
    BY <2>1, <2>2, <2>3, <2>4
<1>5. LoopInv'
  BY <1>1, <1>4
  DEF ClientInv, LoopInv, LoopTyped, RaceNoted, DaemonUnseen, viewVars, loopVars
<1> QED
  BY <1>2, <1>5 DEF ClientInv

-----------------------------------------------------------------------------
(* Theorems *)

LEMMA StepKeeps ==
    ASSUME ClientInv, [Next]_vars
    PROVE  ClientInv'
<1>1. CASE UNCHANGED vars
  <2>1. ListsInv'
    BY <1>1, ListsUnchanged DEF ClientInv, vars, listVars
  <2>2. LoopInv'
    BY <1>1
    DEF ClientInv, LoopInv, LoopTyped, RaceNoted, vars, viewVars, loopVars, daemonVars
  <2> QED
    BY <2>1, <2>2 DEF ClientInv
<1>2. CASE PollDue
  BY <1>2, PollDueKeeps
<1>3. CASE Poll
  BY <1>3, RefreshOkKeeps, RefreshErrKeeps, CreateKeeps, ReloadKeeps DEF Poll
<1>4. CASE handle_key
  BY <1>4, KeysKeep
<1>5. CASE handle_text_input
  BY <1>5, TextInputKeeps
<1>6. CASE Daemons
  BY <1>6, DaemonsKeep DEF Daemons
<1> QED
  BY <1>1, <1>2, <1>3, <1>4, <1>5, <1>6 DEF Next

\* The inductive invariant of the client: types, selections on entries, and races that
\* are noted.
THEOREM ClientHolds == Spec => []ClientInv
<1>1. Init => ClientInv
  BY StartHolds
<1>2. ClientInv /\ [Next]_vars => ClientInv'
  BY StepKeeps
<1> QED
  BY <1>1, <1>2, PTL DEF Spec

\* Type correctness: what is expanded are rooms, and a daemon is only ever sent to rooms.
THEOREM TypeCorrect == Spec => []TypeOK
<1>1. ClientInv => TypeOK
  BY TypesPutTogether
<1> QED
  BY <1>1, ClientHolds, PTL

\* Whenever a status is shown each tab's selection is on an entry of its list, whatever
\* statuses come, in whatever order, and whichever groups are expanded.
THEOREM SelectionsHold == Spec => []SelectionOnAnEntry
<1>1. ClientInv => SelectionOnAnEntry
  BY DEF ClientInv, ListsInv
<1> QED
  BY <1>1, ClientHolds, PTL

\* CreateRoom for the default room takes the daemon only out of a room that another
\* client chose since the GetStatus before it.
THEOREM OverridesOnlyARace == Spec => DefaultRoomOverridesOnlyARace
<1>1. ClientInv /\ [Next]_vars =>
        [pc = "create" /\ pc' = "reload" /\ room[control_addr] # NoRoom => raced]_vars
  BY DEF ClientInv, LoopInv, RaceNoted
<1> QED
  BY <1>1, ClientHolds, PTL DEF Spec, DefaultRoomOverridesOnlyARace

=============================================================================
