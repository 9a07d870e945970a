---------------------------- MODULE TerminalClient ----------------------------
(***************************************************************************)
(* The event loop of the terminal client and the daemon it polls.          *)
(*                                                                         *)
(* The client draws the last status it fetched, waits for a key, runs the  *)
(* handler of the screen that has the focus, and fetches the status again, *)
(* every 500 ms and after each request.  A request is a connection of its  *)
(* own: the daemon may stop, start or be changed by another client between *)
(* any two of them, and a screen's list may be shorter after each.         *)
(*                                                                         *)
(* A key is what its handler does.  A status is one of the records of      *)
(* Statuses whose room is the daemon's: all else in it is the daemon's to  *)
(* say.  What is typed is left out, except in the control address, which   *)
(* is in use while it is being typed.  previous_screen is read on the help *)
(* screen only, so help is a flag here, over the tab that it returns to.   *)
(***************************************************************************)
EXTENDS Lists

CONSTANTS
    Statuses,  \* the answers to GetStatus
    RoomNames, \* room names, as their places in alphabetical order
    MAIN,      \* DEFAULT_ROOM_NAME
    Addrs,     \* control addresses, half-typed ones included
    Trim,      \* each address without the blanks around it
    Bindable,  \* those a daemon can listen at
    StartAddr  \* --control-addr

\* room_name = None
NoRoom == 0

ASSUME ClientAssumption ==
    /\ RoomNames \subseteq Nat \ {NoRoom}
    /\ MAIN \in RoomNames
    /\ StartAddr \in Addrs
    /\ Bindable \subseteq Addrs
    /\ Trim \in [Addrs -> Addrs]
    /\ \A r \in RoomNames \cup {NoRoom} : \E st \in Statuses : st.room_name = r

\* What a status holds: lists, and rooms by their names.
ASSUME StatusesAssumption ==
    \A st \in Statuses :
        /\ st.room_name \in RoomNames \cup {NoRoom}
        /\ \A f \in {"rooms", "peers", "pending_peer_approvals", "friends", "seen_users",
                     "discovered_peers", "available_capture_devices"} :
              st[f] \in Seq(Range(st[f]))
        /\ \A r \in Range(st.rooms) : r.name \in RoomNames
        /\ \A p \in Range(st.peers) \cup Range(st.pending_peer_approvals) :
              p.room_name \in RoomNames \cup {NoRoom}

\* status = None
NoStatus == [room_name |-> -1]

\* tab_screens, in the order of the tabs
tab_screens == <<"Main", "Rooms", "Calls", "KnownPeers", "Peers", "Config",
                 "SeenUsers", "DiscoveredPeers">>

Tabs == Range(tab_screens)
InputModes == {"Normal", "Dial", "Room", "ControlAddr", "RenameSelf",
               "RenameKnownPeer"}

VARIABLES
    \* UiApp
    control_addr, status, input_mode,
    screen,               \* the tab, the one behind the help if that is open
    help,                 \* the help is open
    sel,                  \* the selected_* index of each tab
    expanded_main_rooms, expanded_main_calls,
    attempted_auto_start,
    default_room_initialized,
    pc,                   \* where the loop is: "ready" for a key, or in a request
    after,                \* tabs to clamp once the refresh is over
    \* the daemons, by control address
    up,                   \* the addresses a daemon answers at
    starting,             \* ... and a spawned process is about to bind
    room,                 \* session.room_name of each
    \* history, read by no action
    raced                 \* another client chose a room while ours was in "create"

viewVars   == <<input_mode, screen, help>>
listVars   == <<sel, expanded_main_rooms, expanded_main_calls>>
loopVars   == <<pc, after>>
daemonVars == <<up, starting, room>>
vars == <<control_addr, status, viewVars, listVars, attempted_auto_start,
          default_room_initialized, loopVars, daemonVars, raced>>

-----------------------------------------------------------------------------
(* The lists, computed from a status *)

\* A peer, a pending approval or the session without a room name counts as main.
RoomOf(x) == IF x.room_name = NoRoom THEN MAIN ELSE x.room_name

visible_voice_peers == [st \in Statuses |->
    Kept(st.peers, {p \in Range(st.peers) : p.session = "Active"})]

active_call_peers == [st \in Statuses |->
    Kept(visible_voice_peers[st], {p \in Range(st.peers) : RoomOf(p) # RoomOf(st)})]

engaged_rooms == [st \in Statuses |->
    Kept(st.rooms, {r \in Range(st.rooms) : r.engaged})]

room_peers == [st \in Statuses |-> [name \in RoomNames |->
    Kept(visible_voice_peers[st], {p \in Range(st.peers) : RoomOf(p) = name})]]

Entry(kind, of) == [kind |-> kind, of |-> of]
Entries(kind, s) == [i \in DOMAIN s |-> Entry(kind, s[i])]

\* Each engaged room with its peers when expanded, then the calls likewise.
main_activity_items(st, rooms, calls) ==
    LET group(r) == <<Entry("RoomGroup", r.name)>>
                    \o (IF r.name \in rooms
                        THEN Entries("RoomPeer", room_peers[st][r.name])
                        ELSE <<>>)
        groups == [i \in DOMAIN engaged_rooms[st] |-> group(engaged_rooms[st][i])]
    IN  FlattenSeq(groups) \o <<Entry("CallsGroup", NoRoom)>>
        \o (IF calls THEN Entries("CallPeer", active_call_peers[st]) ELSE <<>>)

\* The rooms of the status, of its peers and of its pending approvals.
RoomsSeen(st) ==
    (IF st.rooms = <<>> THEN {RoomOf(st)} ELSE {r.name : r \in Range(st.rooms)})
    \cup {RoomOf(p) : p \in Range(visible_voice_peers[st])}
    \cup {RoomOf(p) : p \in Range(st.pending_peer_approvals)}

is_current(st, name) ==
    name = RoomOf(st) \/ \E r \in Range(st.rooms) : r.name = name /\ r.engaged

pending_in(st, name) ==
    Kept(st.pending_peer_approvals,
         {p \in Range(st.pending_peer_approvals) : RoomOf(p) = name})

\* The current room first, then by peers, by pending joins and by name.
room_key(st, name) ==
    <<IF is_current(st, name) THEN 1 ELSE 0, Len(room_peers[st][name]),
      Len(pending_in(st, name)), -name>>

known_rooms == [st \in Statuses |->
    Sorted(RoomsSeen(st), {rq \in RoomsSeen(st) \X RoomsSeen(st) :
                              Above(room_key(st, rq[1]), room_key(st, rq[2]))})]

\* The input gain, the capture devices, and the volume of each peer.
config_items(st) ==
    <<Entry("InputGain", NoRoom)>>
    \o (IF st = NoStatus THEN <<>>
        ELSE Entries("CaptureDevice", st.available_capture_devices)
             \o Entries("PeerVolume", visible_voice_peers[st]))

\* What tab s lists.
Items(s, st, rooms, calls) ==
    IF st = NoStatus /\ s # "Config" THEN <<>>
    ELSE CASE s = "Config"           -> config_items(st)
           [] s = "Main"             -> main_activity_items(st, rooms, calls)
           [] s = "Rooms"            -> known_rooms[st]
           [] s = "Calls"            -> active_call_peers[st]
           [] s = "Peers"            -> visible_voice_peers[st]
           [] s = "KnownPeers"       -> st.friends
           [] s = "SeenUsers"        -> st.seen_users
           [] s = "DiscoveredPeers"  -> st.discovered_peers

CurrentItems(s) == Items(s, status, expanded_main_rooms, expanded_main_calls)

\* Mutant of clamp: the empty list is forgotten.
clamp_unless_empty(index, n) == Min({index, n - 1})

clamp(index, n) == IF n = 0 THEN 0 ELSE Min({index, n - 1})

clamp_list(s, st, rooms, calls) == clamp(sel[s], Len(Items(s, st, rooms, calls)))

clamp_for_screen(s) ==
    [sel EXCEPT ![s] = clamp_list(s, status, expanded_main_rooms, expanded_main_calls)]

\* Something is selected in tab s.
HasSelected(s) == sel[s] < Len(CurrentItems(s))
Selected(s) == CurrentItems(s)[sel[s] + 1]

-----------------------------------------------------------------------------
TypeOK ==
    /\ control_addr \in Addrs
    /\ status \in Statuses \cup {NoStatus}
    /\ input_mode \in InputModes
    /\ screen \in Tabs
    /\ help \in BOOLEAN
    /\ sel \in [Tabs -> Nat]
    /\ expanded_main_rooms \subseteq RoomNames
    /\ expanded_main_calls \in BOOLEAN
    /\ attempted_auto_start \in BOOLEAN
    /\ default_room_initialized \in BOOLEAN
    /\ pc \in {"ready", "refresh", "create", "reload"}
    /\ after \subseteq Tabs
    /\ up \subseteq Bindable
    /\ starting \subseteq Bindable
    /\ room \in [Addrs -> RoomNames \cup {NoRoom}]
    /\ raced \in BOOLEAN

\* The client starts, and launches a daemon without asking whether one runs.
Init ==
    /\ control_addr = StartAddr
    /\ status = NoStatus
    /\ input_mode = "Normal"
    /\ screen = "Main"
    /\ help = FALSE
    /\ sel = [s \in Tabs |-> 0]
    /\ expanded_main_rooms = {}
    /\ expanded_main_calls = TRUE
    /\ attempted_auto_start = TRUE
    /\ default_room_initialized = FALSE
    /\ pc = "ready"
    /\ after = {}
    /\ up \in SUBSET ({StartAddr} \cap Bindable)
    /\ starting \in SUBSET ({StartAddr} \cap Bindable)
    /\ room \in [Addrs -> RoomNames \cup {NoRoom}]
    /\ \A a \in Addrs \ up : room[a] = NoRoom
    /\ raced = FALSE

-----------------------------------------------------------------------------
(* The status poll *)

\* Mutant of PollDue: no poll while a dialog is open.
PollDueOutsideDialogs ==
    /\ pc = "ready"
    /\ input_mode = "Normal"
    /\ pc' = "refresh"
    /\ after' = {}
    /\ UNCHANGED <<control_addr, status, viewVars, listVars, attempted_auto_start,
                   default_room_initialized, daemonVars, raced>>

\* 500 ms have passed since the last poll.
PollDue ==
    /\ pc = "ready"
    /\ pc' = "refresh"
    /\ after' = {}
    /\ UNCHANGED <<control_addr, status, viewVars, listVars, attempted_auto_start,
                   default_room_initialized, daemonVars, raced>>

\* Nothing expanded: expand the engaged rooms.  Otherwise forget rooms that are gone.
sync_main_expansions(st) ==
    IF expanded_main_rooms = {} THEN {r.name : r \in Range(engaged_rooms[st])}
    ELSE expanded_main_rooms \cap {r.name : r \in Range(st.rooms)}

\* Mutant of AdoptStatus: only the tab that is shown is clamped.
AdoptStatusShownTab(st) ==
    LET rooms == sync_main_expansions(st)
    IN  /\ status' = st
        /\ expanded_main_rooms' = rooms
        /\ sel' = [sel EXCEPT ![screen] = clamp_list(screen, st, rooms, expanded_main_calls)]
        /\ UNCHANGED expanded_main_calls

\* A status arrives and every selection is clamped to it.
AdoptStatus(st) ==
    LET rooms == sync_main_expansions(st)
    IN  /\ status' = st
        /\ expanded_main_rooms' = rooms
        /\ sel' = [s \in Tabs |-> clamp_list(s, st, rooms, expanded_main_calls)]
        /\ UNCHANGED expanded_main_calls

\* The daemon at the control address answers with st.
Answers(st) ==
    /\ control_addr \in up
    /\ st.room_name = room[control_addr]

\* Mutant of ensure_default_room: the room of the previous status decides.
ensure_default_room_stale(st) ==
    /\ default_room_initialized' = TRUE
    /\ pc' = IF default_room_initialized \/ status.room_name > NoRoom
             THEN "ready" ELSE "create"

\* A daemon without a room is sent CreateRoom, once in the life of the client.
ensure_default_room(st) ==
    /\ default_room_initialized' = TRUE
    /\ pc' = IF default_room_initialized \/ st.room_name # NoRoom
             THEN "ready" ELSE "create"

RefreshOk(st) ==
    /\ pc = "refresh"
    /\ Answers(st)
    /\ AdoptStatus(st)
    /\ attempted_auto_start' = TRUE
    /\ ensure_default_room(st)
    /\ after' = {}
    /\ UNCHANGED <<control_addr, viewVars, daemonVars, raced>>

\* What comes of an attempt to launch a daemon.
Outcomes == {"spawned", "failed", "too_soon"}

\* launch_daemon.  An automatic launch happens only while none was attempted, and
\* none within 2 s of the last (too_soon); a manual one that fails allows an
\* automatic one again.
launch_daemon(auto, outcome) ==
    IF (auto /\ attempted_auto_start) \/ outcome = "too_soon"
    THEN UNCHANGED <<attempted_auto_start, starting>>
    ELSE /\ attempted_auto_start' =
               IF outcome = "spawned" THEN auto \/ attempted_auto_start ELSE auto
         /\ starting' = IF outcome = "spawned"
                        THEN starting \cup ({control_addr} \cap Bindable) ELSE starting

\* GetStatus fails.  The selections stay as they are, but for the tab whose `g`
\* asked for the refresh.
RefreshErr(outcome) ==
    /\ pc = "refresh"
    /\ control_addr \notin up
    /\ status' = NoStatus
    /\ launch_daemon(TRUE, outcome)
    /\ sel' = [s \in Tabs |-> IF s \in after THEN 0 ELSE sel[s]]
    /\ pc' = "ready"
    /\ after' = {}
    /\ UNCHANGED <<control_addr, viewVars, expanded_main_rooms, expanded_main_calls,
                   default_room_initialized, up, room, raced>>

\* CreateRoom for the default room; an acknowledged one is followed by a GetStatus.
CreateDefaultRoom ==
    /\ pc = "create"
    /\ IF control_addr \in up
       THEN /\ room' = [room EXCEPT ![control_addr] = MAIN]
            /\ pc' = "reload"
       ELSE /\ UNCHANGED room
            /\ pc' = "ready"
    /\ raced' = FALSE
    /\ UNCHANGED <<control_addr, status, viewVars, listVars, attempted_auto_start,
                   default_room_initialized, after, up, starting>>

\* That GetStatus; when it fails the status of before is kept.
Reload ==
    /\ pc = "reload"
    /\ pc' = "ready"
    /\ IF control_addr \in up
       THEN \E st \in Statuses : Answers(st) /\ AdoptStatus(st)
       ELSE UNCHANGED <<status, listVars>>
    /\ UNCHANGED <<control_addr, viewVars, attempted_auto_start, default_room_initialized, after,
                   daemonVars, raced>>

-----------------------------------------------------------------------------
(* What keys do *)

\* The loop reads a key for the focused screen.
Key(s) == pc = "ready" /\ input_mode = "Normal" /\ screen = s /\ ~help

\* The handler changes what is shown and talks to no daemon.
ViewOnly == UNCHANGED <<control_addr, status, attempted_auto_start, default_room_initialized,
                        loopVars, daemonVars, raced>>

\* The handler sends a request, whatever comes of it, and fetches the status.
Request ==
    /\ pc' = "refresh"
    /\ after' = {}
    /\ UNCHANGED <<control_addr, status, viewVars, listVars, attempted_auto_start,
                   default_room_initialized, up, starting, raced>>

\* A request that leaves the room of the daemon alone.
PlainRequest == Request /\ UNCHANGED room

\* A request after which the daemon is in room r, if it gets there.
RoomRequest(r) ==
    /\ Request
    /\ room' = IF control_addr \in up THEN [room EXCEPT ![control_addr] = r] ELSE room

\* A letter of the screen opens another one.
Jump(to) ==
    /\ screen' = to
    /\ sel' = clamp_for_screen(to)
    /\ ViewOnly
    /\ UNCHANGED <<input_mode, help, expanded_main_rooms, expanded_main_calls>>

\* The screens the letters of each screen open.
Jumps ==
    [Main            |-> {"Rooms", "Calls", "Peers", "KnownPeers", "SeenUsers",
                          "DiscoveredPeers", "Config"},
     Peers           |-> {"Main", "KnownPeers", "Rooms", "Calls", "SeenUsers",
                          "DiscoveredPeers", "Config"},
     Rooms           |-> {"Main", "Peers", "Calls", "KnownPeers", "SeenUsers",
                          "DiscoveredPeers"},
     Calls           |-> {"Main", "Peers", "Rooms", "KnownPeers", "SeenUsers",
                          "DiscoveredPeers"},
     Config          |-> {"Main", "Peers", "KnownPeers", "SeenUsers", "DiscoveredPeers"},
     KnownPeers      |-> {"Main", "Peers", "SeenUsers", "Config"},
     SeenUsers       |-> {"Main", "KnownPeers", "Peers", "Config", "DiscoveredPeers"},
     DiscoveredPeers |-> {"Main", "Peers", "KnownPeers", "SeenUsers", "Config"}]

\* A capital letter or Tab, on any screen.
navigate_to_screen(to) ==
    /\ pc = "ready" /\ input_mode = "Normal"
    /\ help \/ to # screen
    /\ screen' = to
    /\ help' = FALSE
    /\ sel' = clamp_for_screen(to)
    /\ ViewOnly
    /\ UNCHANGED <<input_mode, expanded_main_rooms, expanded_main_calls>>

\* Tab and Shift+Tab go round the tabs, from the one behind the help.
cycle_tab(forward) ==
    LET n     == Len(tab_screens)
        index == CHOOSE i \in 1 .. n : tab_screens[i] = screen
    IN  navigate_to_screen(IF forward THEN tab_screens[(index % n) + 1]
                           ELSE tab_screens[((index + n - 2) % n) + 1])

SetHelp(open) ==
    /\ help' = open
    /\ ViewOnly
    /\ UNCHANGED <<input_mode, screen, listVars>>

\* A dialog opens; open_join_dialog for "Dial".
OpenInput(mode) ==
    /\ input_mode' = mode
    /\ ViewOnly
    /\ UNCHANGED <<screen, help, listVars>>

\* j and k.
MoveSelection(s) ==
    /\ sel' \in { [sel EXCEPT ![s] = IF Len(CurrentItems(s)) = 0 THEN @
                                     ELSE Min({@ + 1, Len(CurrentItems(s)) - 1})],
                  [sel EXCEPT ![s] = Max({@ - 1, 0})] }
    /\ ViewOnly
    /\ UNCHANGED <<viewVars, expanded_main_rooms, expanded_main_calls>>

\* g; the tab's own clamp comes after the refresh.
RefreshNow(tabs) ==
    /\ pc' = "refresh"
    /\ after' = tabs
    /\ UNCHANGED <<control_addr, status, viewVars, listVars, attempted_auto_start,
                   default_room_initialized, daemonVars, raced>>

\* q: the client ends, and is started again.
Quit ==
    /\ control_addr' = StartAddr
    /\ status' = NoStatus
    /\ input_mode' = "Normal"
    /\ screen' = "Main"
    /\ help' = FALSE
    /\ sel' = [s \in Tabs |-> 0]
    /\ expanded_main_rooms' = {}
    /\ expanded_main_calls' = TRUE
    /\ attempted_auto_start' = TRUE
    /\ default_room_initialized' = FALSE
    /\ starting' \in {starting, starting \cup ({StartAddr} \cap Bindable)}
    /\ UNCHANGED <<loopVars, up, room, raced>>

\* s: launch a daemon, then refresh.
LaunchByHand(outcome) ==
    /\ launch_daemon(FALSE, outcome)
    /\ pc' = "refresh"
    /\ after' = {}
    /\ UNCHANGED <<control_addr, status, viewVars, listVars, default_room_initialized,
                   up, room, raced>>

\* What every tab has: help, the join dialog, moving, refreshing, leaving.
CommonKeys(s) ==
    \/ SetHelp(TRUE)
    \/ OpenInput("Dial")
    \/ MoveSelection(s)
    \/ RefreshNow({s})
    \/ Quit
    \/ \E to \in Jumps[s] : Jump(to)

-----------------------------------------------------------------------------
(* The handler of each screen *)

\* A group is expanded or collapsed.
ToggleExpansion(rooms, calls) ==
    /\ expanded_main_rooms' = rooms
    /\ expanded_main_calls' = calls
    /\ sel' = [sel EXCEPT !["Main"] = clamp_list("Main", status, rooms, calls)]
    /\ UNCHANGED screen

\* A peer of the activity list is opened on the tab that lists it.
OpenPeer(tab, peer) ==
    /\ screen' = tab
    /\ sel' = [sel EXCEPT ![tab] =
                 (CHOOSE i \in DOMAIN CurrentItems(tab) : CurrentItems(tab)[i] = peer) - 1]
    /\ UNCHANGED <<expanded_main_rooms, expanded_main_calls>>

activate_selected_main_item ==
    LET item == Selected("Main")
        toggled == IF item.of \in expanded_main_rooms
                   THEN expanded_main_rooms \ {item.of} ELSE expanded_main_rooms \cup {item.of}
    IN  /\ HasSelected("Main")
        /\ CASE item.kind = "RoomGroup"  -> ToggleExpansion(toggled, expanded_main_calls)
             [] item.kind = "CallsGroup" -> ToggleExpansion(expanded_main_rooms,
                                                            ~expanded_main_calls)
             [] item.kind = "RoomPeer"   -> OpenPeer("Peers", item.of)
             [] item.kind = "CallPeer"   -> OpenPeer("Calls", item.of)
        /\ ViewOnly
        /\ UNCHANGED <<input_mode, help>>

handle_main_screen ==
    /\ Key("Main")
    /\ CommonKeys("Main") \/ activate_selected_main_item

\* x mutes and a saves the selected peer.
handle_peers_screen ==
    /\ Key("Peers")
    /\ \/ CommonKeys("Peers")
       \/ HasSelected("Peers") /\ PlainRequest

\* m and C need nothing; y, w and n answer the first pending join of the status.
handle_rooms_screen ==
    /\ Key("Rooms")
    /\ \/ CommonKeys("Rooms")
       \/ \E mode \in {"Room", "RenameSelf"} : OpenInput(mode)
       \/ PlainRequest
       \/ HasSelected("Rooms") /\ RoomRequest(Selected("Rooms"))

handle_calls_screen ==
    /\ Key("Calls")
    /\ \/ CommonKeys("Calls")
       \/ HasSelected("Calls") /\ PlainRequest

\* h, l and Enter adjust or activate the selected item; Enter on a slider, and the
\* arrows on a device, do nothing.
handle_config_screen ==
    /\ Key("Config")
    /\ \/ CommonKeys("Config")
       \/ OpenInput("ControlAddr")
       \/ \E outcome \in Outcomes : LaunchByHand(outcome)
       \/ HasSelected("Config") /\ PlainRequest

\* Enter, D and t reconnect to, forget and trust the selected friend; t of the other
\* tabs is no jump here.
handle_known_peers_screen ==
    /\ Key("KnownPeers")
    /\ \/ CommonKeys("KnownPeers")
       \/ OpenInput("RenameSelf")
       \/ \E outcome \in Outcomes : LaunchByHand(outcome)
       \/ HasSelected("KnownPeers") /\ (PlainRequest \/ OpenInput("RenameKnownPeer"))

handle_seen_users_screen ==
    /\ Key("SeenUsers")
    /\ \/ CommonKeys("SeenUsers")
       \/ HasSelected("SeenUsers") /\ PlainRequest

handle_discovered_peers_screen ==
    /\ Key("DiscoveredPeers")
    /\ \/ CommonKeys("DiscoveredPeers")
       \/ HasSelected("DiscoveredPeers") /\ PlainRequest

handle_help_screen ==
    /\ pc = "ready" /\ input_mode = "Normal" /\ help
    /\ SetHelp(FALSE) \/ RefreshNow({}) \/ Quit

\* A key or a paste in a dialog.  Typing changes the control address at once.
TypeText ==
    /\ control_addr' \in IF input_mode = "ControlAddr" THEN Addrs ELSE {control_addr}
    /\ UNCHANGED <<status, viewVars, listVars, attempted_auto_start, default_room_initialized,
                   loopVars, daemonVars, raced>>

\* Esc closes the dialog; what was typed of an address stays.
CancelInput ==
    /\ input_mode' = "Normal"
    /\ ViewOnly
    /\ UNCHANGED <<screen, help, listVars>>

\* Enter.  The control address is trimmed.  A join may put the daemon in the room of the
\* invite.  Without a friend selected a rename ends as Esc does.
SubmitInput(r) ==
    \/ /\ input_mode = "RenameKnownPeer" /\ ~HasSelected("KnownPeers")
       /\ CancelInput
    \/ /\ input_mode = "RenameKnownPeer" => HasSelected("KnownPeers")
       /\ input_mode' = "Normal"
       /\ pc' = "refresh"
       /\ after' = {}
       /\ room' = IF input_mode \in {"Room", "Dial"} /\ control_addr \in up
                  THEN [room EXCEPT ![control_addr] = r] ELSE room
       /\ control_addr' = IF input_mode = "ControlAddr"
                          THEN Trim[control_addr] ELSE control_addr
       /\ UNCHANGED <<status, screen, help, listVars, attempted_auto_start,
                      default_room_initialized, up, starting, raced>>

handle_text_input ==
    /\ pc = "ready"
    /\ input_mode # "Normal"
    /\ \/ TypeText
       \/ CancelInput
       \/ \E r \in RoomNames \cup {room[control_addr]} : SubmitInput(r)

handle_key ==
    \/ \E to \in Tabs : navigate_to_screen(to)
    \/ \E forward \in BOOLEAN : cycle_tab(forward)
    \/ handle_main_screen
    \/ handle_peers_screen
    \/ handle_rooms_screen
    \/ handle_calls_screen
    \/ handle_config_screen
    \/ handle_known_peers_screen
    \/ handle_seen_users_screen
    \/ handle_discovered_peers_screen
    \/ handle_help_screen

-----------------------------------------------------------------------------
(* The daemons *)

DaemonUnseen == UNCHANGED <<control_addr, status, viewVars, listVars,
                            attempted_auto_start, default_room_initialized, loopVars>>

\* A daemon binds an address, in no room: one that the client spawned or any other.
DaemonStarts(a) ==
    /\ a \in Bindable \ up
    /\ up' = up \cup {a}
    /\ room' = [room EXCEPT ![a] = NoRoom]
    /\ starting' \in {starting, starting \ {a}}
    /\ DaemonUnseen
    /\ UNCHANGED raced

\* A spawned process finds a daemon at its address, or fails otherwise, and ends.
SpawnFails(a) ==
    /\ a \in starting
    /\ starting' = starting \ {a}
    /\ DaemonUnseen
    /\ UNCHANGED <<up, room, raced>>

DaemonStops(a) ==
    /\ a \in up
    /\ up' = up \ {a}
    /\ room' = [room EXCEPT ![a] = NoRoom]
    /\ DaemonUnseen
    /\ UNCHANGED <<starting, raced>>

\* Another client creates a room or joins one.
OtherClientSetsRoom(a, r) ==
    /\ a \in up
    /\ room' = [room EXCEPT ![a] = r]
    /\ raced' = (pc = "create" /\ (raced \/ a = control_addr))
    /\ DaemonUnseen
    /\ UNCHANGED <<up, starting>>

Poll ==
    \/ \E st \in Statuses : RefreshOk(st)
    \/ \E outcome \in Outcomes : RefreshErr(outcome)
    \/ CreateDefaultRoom
    \/ Reload

Daemons ==
    \E a \in Addrs : \/ DaemonStarts(a)
                     \/ SpawnFails(a)
                     \/ DaemonStops(a)
                     \/ \E r \in RoomNames : OtherClientSetsRoom(a, r)

Next ==
    \/ PollDue
    \/ Poll
    \/ handle_key
    \/ handle_text_input
    \/ Daemons

Spec == Init /\ [][Next]_vars

\* The loop looks at the poll timer before every frame, whatever keys come, and a
\* request on the local connection is answered or fails.
Fairness == WF_vars(PollDue) /\ WF_vars(Poll)

FairSpec == Spec /\ Fairness

-----------------------------------------------------------------------------
(* Properties *)

\* Whenever a status is shown, each tab's selection is on an entry of its list, or at
\* the top of an empty one: the lists are computed from the status, the expanded
\* groups and each other, and each changes under the selection.
SelectionOnAnEntry ==
    status # NoStatus =>
        \A s \in Tabs : sel[s] < Max({1, Len(CurrentItems(s))})

\* The default room of a starting client never takes the daemon out of a room that
\* was there to be seen: only out of one another client chose between the client's
\* GetStatus and its CreateRoom.
DefaultRoomOverridesOnlyARace ==
    [][ pc = "create" /\ pc' = "reload" /\ room[control_addr] # NoRoom => raced ]_vars

\* Once a daemon stays up at the address the client has, the client gets its status
\* again and again, whatever dialog is open and however often it is left.
StatusRecovers ==
    \A a \in Addrs :
        <>[](a \in up /\ control_addr = a) => []<>(status # NoStatus)

=============================================================================
