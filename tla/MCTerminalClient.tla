------------------------- MODULE MCTerminalClient -------------------------
(* An instance of TerminalClient for TLC: two rooms and a handful of        *)
(* statuses whose lists grow, shrink and change places.                     *)
EXTENDS TerminalClient

Peer(id, session, room_name) ==
    [id |-> id, session |-> session, room_name |-> room_name]

Status(room_name, rooms, peers, pending, friends) ==
    [room_name |-> room_name, rooms |-> rooms, peers |-> peers,
     pending_peer_approvals |-> pending, friends |-> friends,
     seen_users |-> <<>>, discovered_peers |-> <<>>,
     available_capture_devices |-> <<>>]

\* The other address is that of the start with a blank, until Enter trims it.
MCTrim == [a \in Addrs |-> StartAddr]

\* Rooms 1 and 2 as the daemon lists them, with the engaged one.
RoomList(engaged) == [r \in 1 .. 2 |-> [name |-> r, engaged |-> r = engaged]]

MCStatuses ==
    { \* a fresh daemon, and one whose state file kept an engaged room
      Status(NoRoom, <<>>, <<>>, <<>>, <<>>),
      Status(NoRoom, RoomList(2), <<>>, <<>>, <<"f">>),
      \* two peers in the room; then one has left and the other is in a call
      Status(1, <<[name |-> 1, engaged |-> TRUE]>>,
             <<Peer("p", "Active", NoRoom), Peer("q", "Active", 1)>>, <<>>, <<>>),
      Status(2, RoomList(2), <<Peer("p", "Handshaking", NoRoom), Peer("q", "Active", 1)>>,
             <<Peer("n", "Pending", NoRoom)>>, <<"f", "g">>) }

=============================================================================
