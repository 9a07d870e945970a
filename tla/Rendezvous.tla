------------------------------ MODULE Rendezvous ------------------------------
(***************************************************************************)
(* The rooms of a daemon, their invites, and the records that lead to it.  *)
(*                                                                         *)
(* Control requests change the rooms; events of the swarm change the       *)
(* addresses.  Both recompute the invites that are shown, and have the     *)
(* network task put the records of the engaged room in the DHT.  Puts end  *)
(* later and in any order.  The rooms and their invites outlive a restart, *)
(* the peer id they were made for does not: it is new at every start.      *)
(*                                                                         *)
(* A room's members are the peer ids this daemon has had, with whether     *)
(* they are admin: no other daemon is ever entered.  Display names are     *)
(* left out.  Advertised addresses are a set, small enough for an invite.  *)
(***************************************************************************)
EXTENDS Integers, FiniteSets

CONSTANTS
    Names,        \* room names
    MAIN,         \* DEFAULT_ROOM_NAME
    NoRoom,       \* None
    Listenable,   \* shareable addresses that a listener may report
    Outside,      \* shareable addresses that we may be seen at
    DhtPeers,     \* peers that may be in the DHT's routing table
    MaxStarts,    \* bound: starts of the daemon
    MaxRequests,  \* bound: control requests
    MaxPending    \* bound: puts under way

ASSUME RendezvousAssumption ==
    /\ MAIN \in Names /\ NoRoom \notin Names
    /\ MaxStarts \in Nat \ {0} /\ MaxRequests \in Nat /\ MaxPending \in Nat

\* "<starting>"; peer ids are numbered from 1, one per start.
Starting == 0
PeerIds == 1 .. MaxStarts
NoInvite == [code |-> 0]
NoShare == [peer |-> 0, code |-> 0, addrs |-> {}]

VARIABLES
    local_peer_id, starts,
    room_name,          \* session.room_name
    rooms,              \* RoomSummary, by name
    direct_call_invite,
    listen_addrs, external_addrs, observed_addrs,
    requests,           \* requests made so far, which number the invite codes
    connected_peers, dht_routable_peers,
    pending,            \* pending_rendezvous_publications
    published,          \* published_rendezvous_records, by key
    control,            \* where the handler of a request is
    disk,               \* the rooms and the last direct-call invite, as saved
    founded             \* history: the rooms that were created here, not joined by an invite

addrVars == <<listen_addrs, external_addrs, observed_addrs>>
dhtVars  == <<connected_peers, dht_routable_peers>>
putVars  == <<pending, published>>
vars == <<local_peer_id, starts, room_name, rooms, direct_call_invite, addrVars, requests,
          dhtVars, putVars, control, disk, founded>>

-----------------------------------------------------------------------------
(* Rooms *)

\* ensure_admin_role and ensure_local_member: who is a member stays one, with the roles
\* it has; the admin role is added when seed_admin says so.
ensure_local_member(room, id, seed_admin) ==
    [room EXCEPT !.members = [m \in DOMAIN @ \cup {id} |->
        IF m = id THEN seed_admin \/ (id \in DOMAIN @ /\ @[id]) ELSE @[m]]]

\* Mutant of create_or_update_room: the room that was engaged stays so.
create_without_disengaging(rms, name, id) ==
    [r \in DOMAIN rms \cup {name} |->
        IF r # name THEN rms[r]
        ELSE ensure_local_member(
               IF name \in DOMAIN rms THEN [rms[name] EXCEPT !.engaged = TRUE]
               ELSE [engaged |-> TRUE, members |-> <<>>, current_invite |-> NoInvite],
               id, TRUE)]

\* Mutant of create_or_update_room: a room that is there already is taken as it is.
create_without_membership(rms, name, id) ==
    [r \in DOMAIN rms \cup {name} |->
        IF r # name THEN [rms[r] EXCEPT !.engaged = FALSE]
        ELSE IF name \in DOMAIN rms THEN [rms[name] EXCEPT !.engaged = TRUE]
        ELSE ensure_local_member([engaged |-> TRUE, members |-> <<>>,
                                  current_invite |-> NoInvite], id, TRUE)]

create_or_update_room(rms, name, id) ==
    [r \in DOMAIN rms \cup {name} |->
        IF r # name THEN [rms[r] EXCEPT !.engaged = FALSE]
        ELSE ensure_local_member(
               IF name \in DOMAIN rms THEN [rms[name] EXCEPT !.engaged = TRUE]
               ELSE [engaged |-> TRUE, members |-> <<>>, current_invite |-> NoInvite],
               id, TRUE)]

\* A new code, not yet encoded into an invite.
set_room_invite(rms, name, code) ==
    [rms EXCEPT ![name].current_invite = [code |-> code, share |-> NoShare]]

clear_room_invite(rms, name) == [rms EXCEPT ![name].current_invite = NoInvite]

\* Only the admin role has permissions.
room_has_permission(rms, name, id) ==
    name \in DOMAIN rms /\ id \in DOMAIN rms[name].members /\ rms[name].members[id]

\* The engaged room has the local peer, as admin if it is the first.
sync_local_room_memberships(rms, id) ==
    [r \in DOMAIN rms |->
        IF rms[r].engaged \/ id \in DOMAIN rms[r].members
        THEN ensure_local_member(rms[r], id, DOMAIN rms[r].members = {}) ELSE rms[r]]

Engaged(rms) == {r \in DOMAIN rms : rms[r].engaged}

-----------------------------------------------------------------------------
(* Invites and records *)

\* What may be shared: nothing before the peer id is known.
Advertised(id, l, e, o) == IF id = Starting THEN {} ELSE l \cup e \cup o

\* The direct-call invite: that of before does not parse as an address, so it goes when
\* there is none.
best_direct_call_invite(id, adv) ==
    IF adv = {} THEN NoShare ELSE [peer |-> id, code |-> 0, addrs |-> adv]

best_room_invite(id, adv, code) ==
    IF adv = {} THEN NoShare ELSE [peer |-> id, code |-> code, addrs |-> adv]

\* Mutant of ShareRooms: an invite that was encoded once stays.
ShareRoomsOnce(rms, id, adv) ==
    [r \in DOMAIN rms |->
        IF rms[r].engaged /\ rms[r].current_invite # NoInvite
           /\ rms[r].current_invite.share = NoShare
        THEN [rms[r] EXCEPT !.current_invite.share =
                best_room_invite(id, adv, rms[r].current_invite.code)]
        ELSE rms[r]]

\* The engaged room's invite, encoded anew.
ShareRooms(rms, id, adv) ==
    [r \in DOMAIN rms |->
        IF rms[r].engaged /\ rms[r].current_invite # NoInvite
        THEN [rms[r] EXCEPT !.current_invite.share =
                best_room_invite(id, adv, rms[r].current_invite.code)]
        ELSE rms[r]]

update_share_invite(rms, id, adv) ==
    /\ direct_call_invite' = best_direct_call_invite(id, adv)
    /\ rooms' = ShareRooms(rms, id, adv)

Payload(id, adv, room, code) == [peer |-> id, addrs |-> adv, room |-> room, code |-> code]
Record(kind, of, payload) == [key |-> <<kind, of>>, payload |-> payload]

\* The peer's record and, of the engaged room's invite, one under its code and one under
\* the room's name.
current_rendezvous_records(rms, id, adv) ==
    IF adv = {} THEN {}
    ELSE {Record("peer", id, Payload(id, adv, NoRoom, 0))} \cup
         UNION { LET code == rms[r].current_invite.code
                     p    == Payload(id, adv, r, code)
                 IN  {Record("code", code, p)}
                     \cup (IF r # MAIN THEN {Record("name", r, p)} ELSE {})
               : r \in {r \in Engaged(rms) : rms[r].current_invite # NoInvite} }

has_active_dht_peer(c, d) == c \cap d # {}

\* Mutant of NotYetPut: a key that was published is never put again.
NotYetPutByKey(rec) == rec.key \notin DOMAIN published /\ rec \notin pending

\* Neither published as it is nor being put.
NotYetPut(rec) ==
    /\ rec.key \in DOMAIN published => published[rec.key] # rec.payload
    /\ rec \notin pending

\* What is not in the DHT yet is put, unless the store has no room.
maybe_publish_rendezvous_record(rms, id, adv, c, d) ==
    /\ UNCHANGED published
    /\ IF ~has_active_dht_peer(c, d) THEN UNCHANGED pending
       ELSE LET wanted == {rec \in current_rendezvous_records(rms, id, adv) : NotYetPut(rec)}
            IN  pending' = IF Cardinality(pending \cup wanted) > MaxPending THEN pending
                           ELSE pending \cup wanted

-----------------------------------------------------------------------------
TypeOK ==
    /\ local_peer_id \in {Starting} \cup PeerIds
    /\ starts \in PeerIds
    /\ room_name \in Names \cup {NoRoom}
    /\ DOMAIN rooms \subseteq Names
    /\ \A r \in DOMAIN rooms : /\ rooms[r].engaged \in BOOLEAN
                               /\ DOMAIN rooms[r].members \subseteq PeerIds
                               /\ rooms[r].current_invite.code \in 0 .. MaxRequests
    /\ direct_call_invite.peer \in {0} \cup PeerIds
    /\ direct_call_invite.addrs \subseteq Listenable \cup Outside
    /\ listen_addrs \subseteq Listenable
    /\ external_addrs \subseteq Outside
    /\ observed_addrs \subseteq Outside
    /\ requests \in 0 .. MaxRequests
    /\ connected_peers \subseteq DhtPeers
    /\ dht_routable_peers \subseteq DhtPeers
    /\ Cardinality(pending) <= MaxPending
    /\ control \in {"idle", "hello", "persist"}
    /\ DOMAIN disk.rooms \subseteq Names
    /\ founded \subseteq Names

NothingSaved == [rooms |-> <<>>, invite |-> NoShare]

\* What start n leaves on disk: within the bound, nothing reads what the last one saves.
OnDisk(n, saved) == IF n = MaxStarts THEN NothingSaved ELSE saved

Init ==
    /\ local_peer_id = Starting
    /\ starts = 1
    /\ room_name = NoRoom
    /\ rooms = <<>>
    /\ direct_call_invite = NoShare
    /\ listen_addrs = {} /\ external_addrs = {} /\ observed_addrs = {}
    /\ requests = 0
    /\ connected_peers = {} /\ dht_routable_peers = {}
    /\ pending = {} /\ published = <<>>
    /\ control = "idle"
    /\ disk = NothingSaved
    /\ founded = {}

\* Mutant of BootstrapDone: the memberships are brought up to date before the peer id.
BootstrapSyncsEarly ==
    /\ local_peer_id = Starting
    /\ local_peer_id' = starts
    /\ rooms' = sync_local_room_memberships(rooms, local_peer_id)
    /\ UNCHANGED <<starts, room_name, direct_call_invite, addrVars, requests, dhtVars, putVars,
                   control, disk, founded>>

\* The last step of App::bootstrap: the network task has been running since it began.
BootstrapDone ==
    /\ local_peer_id = Starting
    /\ local_peer_id' = starts
    /\ rooms' = sync_local_room_memberships(rooms, starts)
    /\ UNCHANGED <<starts, room_name, direct_call_invite, addrVars, requests, dhtVars, putVars,
                   control, disk, founded>>

\* The process ends, at any point, and is started again.
Restart ==
    /\ starts < MaxStarts
    /\ starts' = starts + 1
    /\ local_peer_id' = Starting
    /\ room_name' = NoRoom
    /\ rooms' = disk.rooms
    /\ direct_call_invite' = disk.invite
    /\ listen_addrs' = {} /\ external_addrs' = {} /\ observed_addrs' = {}
    /\ connected_peers' = {} /\ dht_routable_peers' = {}
    /\ pending' = {} /\ published' = <<>>
    /\ control' = "idle"
    /\ disk' = OnDisk(starts', disk)
    /\ founded' = founded \cap DOMAIN disk.rooms
    /\ UNCHANGED requests

-----------------------------------------------------------------------------
(* Control requests *)

Advertising == Advertised(local_peer_id, listen_addrs, external_addrs, observed_addrs)

Request ==
    /\ local_peer_id # Starting /\ control = "idle"
    /\ requests < MaxRequests
    /\ requests' = requests + 1

fresh_invite_code == requests + 1

\* What follows the change of state: the Hello to be broadcast, then the save.
ThenHello ==
    /\ control' = "hello"
    /\ UNCHANGED <<local_peer_id, starts, addrVars, dhtVars, putVars, disk>>

\* CreateRoom; only main has no invite.
handle_create_room(name) ==
    LET created == create_or_update_room(rooms, name, local_peer_id)
    IN  /\ Request
        /\ room_name' = name
        /\ founded' = founded \cup ({name} \ DOMAIN rooms)
        /\ IF name = MAIN
           THEN update_share_invite(clear_room_invite(created, name), local_peer_id,
                                    Advertising)
           ELSE update_share_invite(set_room_invite(created, name, fresh_invite_code),
                                    local_peer_id, Advertising)
        /\ ThenHello

\* RotateInviteCode, where it is not refused.
handle_rotate_invite_code ==
    /\ Request
    /\ room_name \notin {MAIN, NoRoom}
    /\ room_has_permission(rooms, room_name, local_peer_id)
    /\ update_share_invite(set_room_invite(rooms, room_name, fresh_invite_code),
                           local_peer_id, Advertising)
    /\ UNCHANGED <<room_name, founded>>
    /\ ThenHello

\* SetDisplayName, which brings the memberships up to date.
handle_set_display_name ==
    /\ Request
    /\ rooms' = sync_local_room_memberships(rooms, local_peer_id)
    /\ UNCHANGED <<room_name, direct_call_invite, founded>>
    /\ ThenHello

\* JoinPeer with the invite of a room: the room is entered and saved, and neither its
\* invite nor its records are brought up to date.
adopt_room_invite(name) ==
    /\ Request
    /\ rooms' = create_or_update_room(rooms, name, local_peer_id)
    /\ room_name' = name
    /\ control' = "persist"
    /\ UNCHANGED <<local_peer_id, starts, direct_call_invite, addrVars, dhtVars, putVars,
                   disk, founded>>

\* The network task takes the Hello, and publishes.
BroadcastSessionHello ==
    /\ control = "hello"
    /\ maybe_publish_rendezvous_record(rooms, local_peer_id, Advertising, connected_peers,
                                       dht_routable_peers)
    /\ control' = "persist"
    /\ UNCHANGED <<local_peer_id, starts, room_name, rooms, direct_call_invite, addrVars,
                   requests, dhtVars, disk, founded>>

persist_state ==
    /\ control = "persist"
    /\ disk' = OnDisk(starts, [rooms |-> rooms, invite |-> direct_call_invite])
    /\ control' = "idle"
    /\ UNCHANGED <<local_peer_id, starts, room_name, rooms, direct_call_invite, addrVars,
                   requests, dhtVars, putVars, founded>>

-----------------------------------------------------------------------------
(* Events of the swarm *)

\* The addresses change, the invites with them, and what changed is published; saved or
\* not, the rooms on disk stay.
AddressesBecome(l, e, o, saved) ==
    LET adv == Advertised(local_peer_id, l, e, o)
    IN  /\ listen_addrs' = l /\ external_addrs' = e /\ observed_addrs' = o
        /\ update_share_invite(rooms, local_peer_id, adv)
        /\ maybe_publish_rendezvous_record(rooms, local_peer_id, adv, connected_peers,
                                           dht_routable_peers)
        /\ disk' = IF saved THEN OnDisk(starts, [disk EXCEPT !.invite = direct_call_invite'])
                   ELSE disk
        /\ UNCHANGED <<local_peer_id, starts, room_name, requests, dhtVars, control, founded>>

\* There is no counterpart: the handler has no arm for ExpiredListenAddr, so a listener
\* that is gone changes nothing here, and its address stays until the next start.
NewListenAddr(a) ==
    AddressesBecome(listen_addrs \cup {a}, external_addrs, observed_addrs, TRUE)

NewExternalAddrCandidate(a) ==
    AddressesBecome(listen_addrs, external_addrs, observed_addrs \cup {a}, FALSE)

\* ExternalAddrConfirmed, and the UPnP mapping.
ExternalAddrConfirmed(a) ==
    AddressesBecome(listen_addrs, external_addrs \cup {a}, observed_addrs, TRUE)

ExternalAddrExpired(a) ==
    /\ a \in external_addrs
    /\ AddressesBecome(listen_addrs, external_addrs \ {a}, observed_addrs \ {a}, TRUE)

\* The UPnP mapping expires; we may still have been observed there.
UpnpExpired(a) ==
    /\ a \in external_addrs
    /\ AddressesBecome(listen_addrs, external_addrs \ {a}, observed_addrs, TRUE)

\* A connected peer says where it sees us; seen has that address if it is shareable.
IdentifyReceived(seen) ==
    /\ connected_peers # {}
    /\ AddressesBecome(listen_addrs, external_addrs, observed_addrs \cup seen, TRUE)

Seen == {{}} \cup {{a} : a \in Outside}

DhtUnchanged == UNCHANGED <<local_peer_id, starts, room_name, rooms, direct_call_invite,
                            addrVars, requests, control, disk, founded>>

Publish(c, d) == maybe_publish_rendezvous_record(rooms, local_peer_id, Advertising, c, d)

\* A new peer of the routing table is a reason to publish, a connection is none.
RoutingUpdated(p, is_new_peer) ==
    /\ dht_routable_peers' = dht_routable_peers \cup {p}
    /\ IF is_new_peer THEN Publish(connected_peers, dht_routable_peers') ELSE UNCHANGED putVars
    /\ UNCHANGED connected_peers
    /\ DhtUnchanged

BootstrapProgress ==
    /\ Publish(connected_peers, dht_routable_peers)
    /\ UNCHANGED dhtVars
    /\ DhtUnchanged

ConnectionEstablished(p) ==
    /\ connected_peers' = connected_peers \cup {p}
    /\ UNCHANGED <<dht_routable_peers, putVars>>
    /\ DhtUnchanged

ConnectionClosed(p) ==
    /\ connected_peers' = connected_peers \ {p}
    /\ UNCHANGED <<dht_routable_peers, putVars>>
    /\ DhtUnchanged

PutRecordOk(rec) ==
    /\ pending' = pending \ {rec}
    /\ published' = [k \in DOMAIN published \cup {rec.key} |->
                        IF k = rec.key THEN rec.payload ELSE published[k]]
    /\ UNCHANGED dhtVars
    /\ DhtUnchanged

PutRecordErr(rec) ==
    /\ pending' = pending \ {rec}
    /\ UNCHANGED <<published, dhtVars>>
    /\ DhtUnchanged

Next ==
    \/ BootstrapDone
    \/ Restart
    \/ \E name \in Names : handle_create_room(name) \/ adopt_room_invite(name)
    \/ handle_rotate_invite_code
    \/ handle_set_display_name
    \/ BroadcastSessionHello
    \/ persist_state
    \/ \E a \in Listenable : NewListenAddr(a)
    \/ \E a \in Outside : \/ NewExternalAddrCandidate(a)
                          \/ ExternalAddrConfirmed(a)
                          \/ ExternalAddrExpired(a)
                          \/ UpnpExpired(a)
    \/ \E seen \in Seen : IdentifyReceived(seen)
    \/ \E p \in DhtPeers, new \in BOOLEAN : RoutingUpdated(p, new)
    \/ BootstrapProgress
    \/ \E p \in DhtPeers : ConnectionEstablished(p) \/ ConnectionClosed(p)
    \/ \E rec \in pending : PutRecordOk(rec) \/ PutRecordErr(rec)

Spec == Init /\ [][Next]_vars

Current == current_rendezvous_records(rooms, local_peer_id, Advertising)

CurrentPutOk(kind) == \E rec \in pending \cap Current : rec.key[1] = kind /\ PutRecordOk(rec)

\* Start-up and requests go on, the peers that are connected are identified again every
\* few minutes, every put ends, and one that is tried again and again succeeds.
Fairness ==
    /\ WF_vars(BootstrapDone)
    /\ WF_vars(BroadcastSessionHello)
    /\ WF_vars(persist_state)
    /\ WF_vars(\E seen \in Seen : IdentifyReceived(seen))
    /\ WF_vars(\E rec \in pending : PutRecordOk(rec) \/ PutRecordErr(rec))
    /\ \A kind \in {"peer", "code", "name"} : SF_vars(CurrentPutOk(kind))

FairSpec == Spec /\ Fairness

-----------------------------------------------------------------------------
(* Properties *)

\* The room of the session is the one engaged room, whatever rooms a restart found
\* engaged; before the user enters one at most one is.
EngagedIsSession ==
    /\ Cardinality(Engaged(rooms)) <= 1
    /\ room_name # NoRoom => Engaged(rooms) = {room_name}

\* Who created a room is an admin of it whenever the session is in it: after restarts that
\* gave the daemon other peer ids, and after leaving it and coming back, by CreateRoom or
\* by somebody's invite.
SessionMayInvite ==
    room_name \in founded \ {MAIN} => room_has_permission(rooms, room_name, local_peer_id)

\* docs/rooms-roles-plan.md: the room's creator gets admin, other members start with no
\* roles, and only admins create invites.  Who enters a room by an invite, and has not
\* been a member of it, is no admin of it.
JoinerHasNoRole ==
    [][\A name \in Names \ {MAIN} :
         adopt_room_invite(name) /\ name \notin DOMAIN rooms
            => ~room_has_permission(rooms', name, local_peer_id)]_vars

\* Rooms and addresses no longer change, and a peer of the DHT stays connected.
Calm ==
    /\ <>[][UNCHANGED <<local_peer_id, room_name, addrVars, requests>>]_vars
    /\ <>[]has_active_dht_peer(connected_peers, dht_routable_peers)

Published(rec) == rec.key \in DOMAIN published /\ published[rec.key] = rec.payload

\* Then the DHT has all that leads to this daemon, as it is now: no failed put, no put of
\* an older record that ends late and no event before the start was over stands in the way.
RecordsCatchUp == Calm => <>[](\A rec \in Current : Published(rec))

\* And the invites that are shown are those of now: neither the peer id of an earlier
\* start, nor a rotated code, nor an external address that has expired stays in them.  Of
\* listen addresses it says only that new ones are in: an old one is never taken back.
InvitesCatchUp ==
    Calm => <>[](/\ direct_call_invite = best_direct_call_invite(local_peer_id, Advertising)
                 /\ \A r \in Engaged(rooms) :
                       LET invite == rooms[r].current_invite
                       IN  invite # NoInvite => invite.share =
                             best_room_invite(local_peer_id, Advertising, invite.code))

=============================================================================
