-------------------------- MODULE RendezvousProofs --------------------------
(***************************************************************************)
(* What the rooms of a daemon keep for any rooms, addresses, DHT peers,    *)
(* requests and restarts: the session is in the one engaged room, and who  *)
(* created it may make invites for it under the peer id of this start.     *)
(***************************************************************************)
EXTENDS Rendezvous, FiniteSetTheorems, TLAPS

Addrs == Listenable \cup Outside

IsShare(s) == s.peer \in {0} \cup PeerIds /\ s.addrs \subseteq Addrs

IsInvite(i) ==
    /\ "code" \in DOMAIN i
    /\ i.code \in 0 .. MaxRequests

IsRoom(room) ==
    /\ DOMAIN room = {"engaged", "members", "current_invite"}
    /\ room.engaged \in BOOLEAN
    /\ DOMAIN room.members \subseteq PeerIds
    /\ IsInvite(room.current_invite)

AreRooms(rms) ==
    /\ DOMAIN rms \subseteq Names
    /\ \A r \in DOMAIN rms : IsRoom(rms[r])

\* The same rooms, engaged or not and with the same members, whatever their invites.
SameRooms(new, rms) ==
    /\ AreRooms(new) /\ DOMAIN new = DOMAIN rms
    /\ \A r \in DOMAIN rms : new[r].engaged = rms[r].engaged /\ new[r].members = rms[r].members

AtMostOneEngaged(rms) == \A r, q \in Engaged(rms) : r = q

\* What is neither a room, an invite nor a put has its type; the peer id is that of this start.
PlainOK ==
    /\ starts \in PeerIds /\ local_peer_id \in {Starting, starts}
    /\ room_name \in Names \cup {NoRoom}
    /\ listen_addrs \subseteq Listenable
    /\ external_addrs \subseteq Outside /\ observed_addrs \subseteq Outside
    /\ requests \in 0 .. MaxRequests
    /\ connected_peers \subseteq DhtPeers /\ dht_routable_peers \subseteq DhtPeers
    /\ control \in {"idle", "hello", "persist"}
    /\ founded \subseteq Names

\* The code makes whoever enters a custom room its admin, created here or not.
SessionIsAdmin ==
    room_name \notin {NoRoom, MAIN} => room_has_permission(rooms, room_name, local_peer_id)

\* Before the peer id is known there is no session; later its room is the one engaged room.
SessionInv ==
    /\ AreRooms(rooms) /\ IsShare(direct_call_invite)
    /\ AtMostOneEngaged(rooms)
    /\ room_name # NoRoom => Engaged(rooms) = {room_name}
    /\ SessionIsAdmin
    /\ local_peer_id = Starting => room_name = NoRoom

\* A restart finds rooms of which one at most is engaged.
DiskInv ==
    /\ DOMAIN disk = {"rooms", "invite"}
    /\ AreRooms(disk.rooms) /\ IsShare(disk.invite)
    /\ AtMostOneEngaged(disk.rooms)

PutsFitInv == IsFiniteSet(pending) /\ Cardinality(pending) <= MaxPending

\* The inductive invariant.
RoomsInv == PlainOK /\ SessionInv /\ DiskInv /\ PutsFitInv

-----------------------------------------------------------------------------
(* Operations on the rooms *)

\* A member is added, or made admin: the room stays one, and engaged or not.
LEMMA EnsureMember ==
    ASSUME NEW room, IsRoom(room), NEW id \in PeerIds, NEW admin \in BOOLEAN,
           NEW new, new = ensure_local_member(room, id, admin)
    PROVE  /\ IsRoom(new) /\ new.engaged = room.engaged
           /\ id \in DOMAIN new.members
           /\ admin => new.members[id]
           /\ DOMAIN room.members \subseteq DOMAIN new.members
           /\ \A m \in DOMAIN room.members : room.members[m] => new.members[m]
BY DEF ensure_local_member, IsRoom

\* The room of the session after a request that enters it.
LEMMA CreateRoom ==
    ASSUME NEW rms, AreRooms(rms), NEW name \in Names, NEW id \in PeerIds,
           NEW new, new = create_or_update_room(rms, name, id)
    PROVE  /\ AreRooms(new)
           /\ DOMAIN new = DOMAIN rms \cup {name}
           /\ Engaged(new) = {name}
           /\ room_has_permission(new, name, id)
<1> DEFINE base == IF name \in DOMAIN rms THEN [rms[name] EXCEPT !.engaged = TRUE]
                   ELSE [engaged |-> TRUE, members |-> <<>>, current_invite |-> NoInvite]
<1>1. IsRoom(base) /\ base.engaged
  <2>1. CASE name \in DOMAIN rms
    BY <2>1 DEF AreRooms, IsRoom, IsInvite
  <2>2. CASE name \notin DOMAIN rms
    <3>1. IsInvite(NoInvite)
      BY RendezvousAssumption DEF NoInvite, IsInvite
    <3>2. DOMAIN <<>> \subseteq PeerIds
      OBVIOUS
    <3> QED
      BY <2>2, <3>1, <3>2 DEF IsRoom
  <2> QED
    BY <2>1, <2>2
<1>2. new[name] = ensure_local_member(base, id, TRUE)
  BY DEF create_or_update_room
<1> HIDE DEF base
<1>5. /\ IsRoom(new[name]) /\ new[name].engaged
      /\ id \in DOMAIN new[name].members /\ new[name].members[id]
  <2>1. TRUE \in BOOLEAN
    OBVIOUS
  <2>2. /\ IsRoom(new[name]) /\ new[name].engaged = base.engaged
        /\ id \in DOMAIN new[name].members /\ new[name].members[id]
    BY <1>1, <1>2, <2>1, EnsureMember, Zenon
  <2> QED
    BY <1>1, <2>2, Zenon
<1>3. DOMAIN new = DOMAIN rms \cup {name}
  BY DEF create_or_update_room
<1>4. \A r \in DOMAIN rms \ {name} : IsRoom(new[r]) /\ new[r].engaged = FALSE
  BY DEF create_or_update_room, AreRooms, IsRoom, IsInvite
<1> QED
  BY <1>3, <1>4, <1>5 DEF AreRooms, Engaged, room_has_permission

\* Setting, clearing or encoding an invite changes no room otherwise.
LEMMA SetInvite ==
    ASSUME NEW rms, AreRooms(rms), NEW name \in DOMAIN rms, NEW code \in 0 .. MaxRequests
    PROVE  SameRooms(set_room_invite(rms, name, code), rms)
BY DEF set_room_invite, SameRooms, AreRooms, IsRoom, IsInvite

LEMMA ClearInvite ==
    ASSUME NEW rms, AreRooms(rms), NEW name \in DOMAIN rms
    PROVE  SameRooms(clear_room_invite(rms, name), rms)
BY RendezvousAssumption
   DEF clear_room_invite, NoInvite, SameRooms, AreRooms, IsRoom, IsInvite

LEMMA ShareInvites ==
    ASSUME NEW rms, AreRooms(rms), NEW id, NEW adv, NEW new, new = ShareRooms(rms, id, adv)
    PROVE  SameRooms(new, rms)
<1>1. DOMAIN new = DOMAIN rms
  BY DEF ShareRooms
<1>2. ASSUME NEW r \in DOMAIN rms
      PROVE  IsRoom(new[r]) /\ new[r].engaged = rms[r].engaged
             /\ new[r].members = rms[r].members
  <2>1. IsRoom(rms[r])
    BY DEF AreRooms
  <2>2. new[r] = rms[r] \/ new[r] = [rms[r] EXCEPT !.current_invite.share =
                               best_room_invite(id, adv, rms[r].current_invite.code)]
    BY DEF ShareRooms
  <2> QED
    BY <2>1, <2>2 DEF IsRoom, IsInvite
<1> QED
  BY <1>1, <1>2 DEF SameRooms, AreRooms

\* So the rooms engaged and the permissions in them stay.
LEMMA SameSession ==
    ASSUME NEW rms, NEW new, SameRooms(new, rms)
    PROVE  /\ Engaged(new) = Engaged(rms)
           /\ \A name, id : room_has_permission(rms, name, id)
                            => room_has_permission(new, name, id)
BY DEF SameRooms, Engaged, room_has_permission

LEMMA SameTwice ==
    ASSUME NEW rms, NEW mid, NEW new, SameRooms(mid, rms), SameRooms(new, mid)
    PROVE  SameRooms(new, rms)
BY DEF SameRooms

\* Bringing the memberships up to date takes no role away and disengages no room.
LEMMA SyncMemberships ==
    ASSUME NEW rms, AreRooms(rms), NEW id \in PeerIds,
           NEW new, new = sync_local_room_memberships(rms, id)
    PROVE  /\ AreRooms(new) /\ Engaged(new) = Engaged(rms)
           /\ \A name, i : room_has_permission(rms, name, i)
                           => room_has_permission(new, name, i)
<1>1. DOMAIN new = DOMAIN rms
  BY DEF sync_local_room_memberships
<1>2. ASSUME NEW r \in DOMAIN rms
      PROVE  /\ IsRoom(new[r]) /\ new[r].engaged = rms[r].engaged
             /\ DOMAIN rms[r].members \subseteq DOMAIN new[r].members
             /\ \A m \in DOMAIN rms[r].members : rms[r].members[m] => new[r].members[m]
  <2>1. IsRoom(rms[r])
    BY DEF AreRooms
  <2> DEFINE first == DOMAIN rms[r].members = {}
  <2>2. new[r] = rms[r] \/ new[r] = ensure_local_member(rms[r], id, first)
    BY DEF sync_local_room_memberships
  <2>3. first \in BOOLEAN
    OBVIOUS
  <2> HIDE DEF first
  <2>4. CASE new[r] = rms[r]
    BY <2>1, <2>4
  <2>5. CASE new[r] = ensure_local_member(rms[r], id, first)
    <3>1. id \in PeerIds
      OBVIOUS
    <3> QED
      BY <2>1, <2>3, <2>5, <3>1, EnsureMember
  <2> QED
    BY <2>2, <2>4, <2>5
<1> QED
  BY <1>1, <1>2 DEF AreRooms, Engaged, room_has_permission

-----------------------------------------------------------------------------
(* Puts *)

\* With one room engaged at most, there are three records at most.
LEMMA RecordsFinite ==
    ASSUME NEW rms, AtMostOneEngaged(rms), NEW id, NEW adv
    PROVE  IsFiniteSet(current_rendezvous_records(rms, id, adv))
<1> DEFINE code(r) == rms[r].current_invite.code
           p(r)    == Payload(id, adv, r, code(r))
           of(r)   == {Record("code", code(r), p(r))}
                      \cup (IF r # MAIN THEN {Record("name", r, p(r))} ELSE {})
           shown   == {r \in Engaged(rms) : rms[r].current_invite # NoInvite}
           mine    == {Record("peer", id, Payload(id, adv, NoRoom, 0))}
<1>1. IsFiniteSet(mine)
  BY FS_Singleton
<1>2. ASSUME NEW r
      PROVE  IsFiniteSet(of(r))
  <2>1. IsFiniteSet({Record("code", code(r), p(r))}) /\ IsFiniteSet({Record("name", r, p(r))})
        /\ IsFiniteSet({})
    BY FS_Singleton, FS_EmptySet
  <2> QED
    BY <2>1, FS_Union
<1>3. IsFiniteSet(UNION {of(r) : r \in shown})
  <2>1. CASE shown = {}
    <3>1. UNION {of(r) : r \in shown} = {}
      BY <2>1
    <3> QED
      BY <3>1, FS_EmptySet
  <2>2. CASE shown # {}
    <3>1. PICK r : r \in shown
      BY <2>2
    <3>2. shown = {r}
      BY <3>1 DEF AtMostOneEngaged
    <3>3. UNION {of(q) : q \in shown} = of(r)
      <4> HIDE DEF of, shown
      <4> QED
        BY <3>2
    <3> QED
      BY <1>2, <3>3
  <2> QED
    BY <2>1, <2>2
<1>4. current_rendezvous_records(rms, id, adv) \in {{}, mine \cup UNION {of(r) : r \in shown}}
  BY DEF current_rendezvous_records
<1> QED
  <2> HIDE DEF mine, of, shown
  <2>1. IsFiniteSet(mine \cup UNION {of(r) : r \in shown})
    BY <1>1, <1>3, FS_Union
  <2> QED
    BY <1>4, <2>1, FS_EmptySet

\* Whatever is put, the store has room for it.
LEMMA PutsFit ==
    ASSUME NEW rms, AtMostOneEngaged(rms), NEW id, NEW adv, NEW c, NEW d,
           IsFiniteSet(pending), Cardinality(pending) <= MaxPending,
           maybe_publish_rendezvous_record(rms, id, adv, c, d)
    PROVE  IsFiniteSet(pending') /\ Cardinality(pending') <= MaxPending
<1> DEFINE records == current_rendezvous_records(rms, id, adv)
           wanted  == {rec \in records : NotYetPut(rec)}
<1>1. IsFiniteSet(pending \cup wanted)
  <2>1. IsFiniteSet(records)
    BY RecordsFinite
  <2> HIDE DEF records
  <2>2. IsFiniteSet(wanted)
    BY <2>1, FS_Subset
  <2> QED
    BY <2>2, FS_Union
<1>2. \/ pending' = pending
      \/ pending' = pending \cup wanted /\ ~(Cardinality(pending \cup wanted) > MaxPending)
  BY DEF maybe_publish_rendezvous_record
<1> HIDE DEF wanted
<1>3. Cardinality(pending \cup wanted) \in Nat
  BY <1>1, FS_CardinalityType
<1> QED
  BY <1>1, <1>2, <1>3, RendezvousAssumption

\* A put that ends leaves the store with more room.
LEMMA PutEnds ==
    ASSUME IsFiniteSet(pending), Cardinality(pending) <= MaxPending, NEW rec,
           pending' = pending \ {rec}
    PROVE  IsFiniteSet(pending') /\ Cardinality(pending') <= MaxPending
<1>1. IsFiniteSet(pending') /\ Cardinality(pending') <= Cardinality(pending)
  <2>1. pending' \subseteq pending
    OBVIOUS
  <2> QED
    BY <2>1, FS_Subset
<1>2. Cardinality(pending) \in Nat /\ Cardinality(pending') \in Nat
  BY <1>1, FS_CardinalityType
<1> QED
  BY <1>1, <1>2, RendezvousAssumption

-----------------------------------------------------------------------------
(* The start, the steps of a request, and what is saved *)

LEMMA EmptyRooms == AreRooms(<<>>) /\ Engaged(<<>>) = {} /\ AtMostOneEngaged(<<>>)
<1>1. DOMAIN <<>> = {}
  OBVIOUS
<1> QED
  BY <1>1 DEF AreRooms, Engaged, AtMostOneEngaged

LEMMA NoShareIsShare == IsShare(NoShare)
BY DEF NoShare, IsShare

LEMMA InitRooms == Init => RoomsInv
<1> SUFFICES ASSUME Init
             PROVE  RoomsInv
  OBVIOUS
<1>1. PlainOK
  BY RendezvousAssumption DEF Init, PlainOK, PeerIds
<1>2. SessionInv
  BY EmptyRooms, NoShareIsShare DEF Init, SessionInv, SessionIsAdmin
<1>3. DiskInv
  BY EmptyRooms, NoShareIsShare DEF Init, DiskInv, NothingSaved
<1>4. PutsFitInv
  BY FS_EmptySet, RendezvousAssumption DEF Init, PutsFitInv
<1> QED
  BY <1>1, <1>2, <1>3, <1>4 DEF RoomsInv

\* What is saved is what a restart may find, the last one or nothing.
LEMMA SavedRooms ==
    ASSUME NEW n, NEW saved, DOMAIN saved = {"rooms", "invite"},
           AreRooms(saved.rooms), IsShare(saved.invite), AtMostOneEngaged(saved.rooms),
           disk' = OnDisk(n, saved)
    PROVE  DiskInv'
BY EmptyRooms, NoShareIsShare DEF OnDisk, NothingSaved, DiskInv

LEMMA BootstrapKeeps == RoomsInv /\ BootstrapDone => RoomsInv'
<1> SUFFICES ASSUME RoomsInv, BootstrapDone
             PROVE  RoomsInv'
  OBVIOUS
<1> USE DEF RoomsInv, BootstrapDone
<1>1. PlainOK'
  BY DEF PlainOK, addrVars, dhtVars
<1>2. AreRooms(rooms') /\ Engaged(rooms') = Engaged(rooms)
  BY SyncMemberships DEF SessionInv, PlainOK
<1>3. SessionInv'
  BY <1>2 DEF SessionInv, SessionIsAdmin, AtMostOneEngaged
<1>4. DiskInv' /\ PutsFitInv'
  BY DEF DiskInv, PutsFitInv, putVars
<1> QED
  BY <1>1, <1>3, <1>4

LEMMA RestartKeeps == RoomsInv /\ Restart => RoomsInv'
<1> SUFFICES ASSUME RoomsInv, Restart
             PROVE  RoomsInv'
  OBVIOUS
<1> USE DEF RoomsInv, Restart
<1>1. PlainOK'
  BY RendezvousAssumption DEF PlainOK, PeerIds
<1>2. SessionInv'
  BY DEF SessionInv, SessionIsAdmin, DiskInv, AtMostOneEngaged
<1>3. DiskInv'
  BY SavedRooms DEF DiskInv
<1>4. PutsFitInv'
  BY FS_EmptySet, RendezvousAssumption DEF PutsFitInv
<1> QED
  BY <1>1, <1>2, <1>3, <1>4

LEMMA BroadcastKeeps == RoomsInv /\ BroadcastSessionHello => RoomsInv'
<1> SUFFICES ASSUME RoomsInv, BroadcastSessionHello
             PROVE  RoomsInv'
  OBVIOUS
<1> USE DEF RoomsInv, BroadcastSessionHello
<1>1. PlainOK'
  BY DEF PlainOK, addrVars, dhtVars
<1>2. SessionInv' /\ DiskInv'
  BY DEF SessionInv, SessionIsAdmin, DiskInv
<1>3. PutsFitInv'
  BY PutsFit DEF SessionInv, PutsFitInv
<1> QED
  BY <1>1, <1>2, <1>3

LEMMA PersistKeeps == RoomsInv /\ persist_state => RoomsInv'
<1> SUFFICES ASSUME RoomsInv, persist_state
             PROVE  RoomsInv'
  OBVIOUS
<1> USE DEF RoomsInv, persist_state
<1>1. PlainOK'
  BY DEF PlainOK, addrVars, dhtVars
<1>2. SessionInv' /\ PutsFitInv'
  BY DEF SessionInv, SessionIsAdmin, PutsFitInv, putVars
<1>3. DiskInv'
  <2> DEFINE saved == [rooms |-> rooms, invite |-> direct_call_invite]
  <2>1. /\ DOMAIN saved = {"rooms", "invite"}
        /\ saved.rooms = rooms /\ saved.invite = direct_call_invite
    OBVIOUS
  <2>2. disk' = OnDisk(starts, saved)
    OBVIOUS
  <2> HIDE DEF saved
  <2> QED
    BY <2>1, <2>2, SavedRooms DEF SessionInv
<1> QED
  BY <1>1, <1>2, <1>3

-----------------------------------------------------------------------------
(* Control requests *)

\* The invites that are shown are recomputed, and the rooms are otherwise those given.
LEMMA InvitesUpdated ==
    ASSUME NEW rms, AreRooms(rms), NEW id \in {0} \cup PeerIds, NEW adv \in SUBSET Addrs,
           update_share_invite(rms, id, adv)
    PROVE  SameRooms(rooms', rms) /\ IsShare(direct_call_invite')
<1>1. SameRooms(rooms', rms)
  BY ShareInvites DEF update_share_invite
<1>2. IsShare(direct_call_invite')
  BY NoShareIsShare DEF update_share_invite, best_direct_call_invite, IsShare
<1> QED
  BY <1>1, <1>2

LEMMA AdvertisedAddrs ==
    ASSUME NEW id, NEW l \in SUBSET Listenable, NEW e \in SUBSET Outside,
           NEW o \in SUBSET Outside
    PROVE  Advertised(id, l, e, o) \in SUBSET Addrs
BY DEF Advertised, Addrs

\* A request that has entered a room as admin leaves the session in it.
LEMMA Entered ==
    ASSUME RoomsInv, Request, NEW name \in Names, NEW rms, SameRooms(rooms', rms),
           Engaged(rms) = {name}, room_has_permission(rms, name, local_peer_id),
           room_name' = name, IsShare(direct_call_invite'), UNCHANGED local_peer_id
    PROVE  SessionInv'
<1>1. Engaged(rooms') = {name} /\ room_has_permission(rooms', name, local_peer_id)
  BY SameSession
<1>2. AreRooms(rooms')
  BY DEF SameRooms
<1> QED
  BY <1>1, <1>2 DEF SessionInv, SessionIsAdmin, AtMostOneEngaged, Request

LEMMA CreateRoomKeeps ==
    ASSUME RoomsInv, NEW name \in Names, handle_create_room(name)
    PROVE  RoomsInv'
<1> USE DEF RoomsInv, handle_create_room, ThenHello
<1> DEFINE created == create_or_update_room(rooms, name, local_peer_id)
<1>0. local_peer_id \in PeerIds /\ Advertising \in SUBSET Addrs
      /\ fresh_invite_code \in 0 .. MaxRequests
  <2>1. Advertising \in SUBSET Addrs
    BY AdvertisedAddrs DEF PlainOK, Advertising
  <2> QED
    BY <2>1, RendezvousAssumption DEF PlainOK, Request, fresh_invite_code
<1>1. PlainOK'
  BY RendezvousAssumption DEF PlainOK, Request, addrVars, dhtVars
<1>2. /\ AreRooms(created) /\ name \in DOMAIN created
      /\ Engaged(created) = {name} /\ room_has_permission(created, name, local_peer_id)
  <2>1. AreRooms(rooms)
    BY DEF SessionInv
  <2>2. created = create_or_update_room(rooms, name, local_peer_id)
    OBVIOUS
  <2> HIDE DEF created
  <2>3. name \in DOMAIN rooms \cup {name}
    OBVIOUS
  <2> QED
    BY <1>0, <2>1, <2>2, <2>3, CreateRoom, Zenon
<1>3. SessionInv'
  <2>1. PICK mid : /\ mid \in {clear_room_invite(created, name),
                               set_room_invite(created, name, fresh_invite_code)}
                   /\ update_share_invite(mid, local_peer_id, Advertising)
    OBVIOUS
  <2> HIDE DEF created
  <2>2. SameRooms(mid, created)
    BY <1>0, <1>2, <2>1, SetInvite, ClearInvite
  <2>3. SameRooms(rooms', mid) /\ IsShare(direct_call_invite')
    BY <1>0, <2>1, <2>2, InvitesUpdated DEF SameRooms
  <2>4. SameRooms(rooms', created)
    BY <2>2, <2>3, SameTwice
  <2> QED
    BY <1>2, <2>3, <2>4, Entered
<1>4. DiskInv' /\ PutsFitInv'
  BY DEF DiskInv, PutsFitInv, putVars
<1> QED
  BY <1>1, <1>3, <1>4

LEMMA AdoptKeeps ==
    ASSUME RoomsInv, NEW name \in Names, adopt_room_invite(name)
    PROVE  RoomsInv'
<1> USE DEF RoomsInv, adopt_room_invite
<1>1. PlainOK'
  BY RendezvousAssumption DEF PlainOK, Request, addrVars, dhtVars
<1>2. /\ AreRooms(rooms') /\ Engaged(rooms') = {name}
      /\ room_has_permission(rooms', name, local_peer_id)
  <2>1. local_peer_id \in PeerIds /\ AreRooms(rooms)
    BY DEF SessionInv, PlainOK, Request
  <2>2. rooms' = create_or_update_room(rooms, name, local_peer_id)
    OBVIOUS
  <2> QED
    BY <2>1, <2>2, CreateRoom
<1>3. SessionInv'
  BY <1>2 DEF SessionInv, SessionIsAdmin, AtMostOneEngaged, Request
<1>4. DiskInv' /\ PutsFitInv'
  BY DEF DiskInv, PutsFitInv, putVars
<1> QED
  BY <1>1, <1>3, <1>4

LEMMA RotateKeeps == RoomsInv /\ handle_rotate_invite_code => RoomsInv'
<1> SUFFICES ASSUME RoomsInv, handle_rotate_invite_code
             PROVE  RoomsInv'
  OBVIOUS
<1> USE DEF RoomsInv, handle_rotate_invite_code, ThenHello
<1>0. local_peer_id \in PeerIds /\ Advertising \in SUBSET Addrs
      /\ fresh_invite_code \in 0 .. MaxRequests
  <2>1. Advertising \in SUBSET Addrs
    BY AdvertisedAddrs DEF PlainOK, Advertising
  <2> QED
    BY <2>1, RendezvousAssumption DEF PlainOK, Request, fresh_invite_code
<1>1. PlainOK'
  BY RendezvousAssumption DEF PlainOK, Request, addrVars, dhtVars
<1>2. SessionInv'
  <2> DEFINE mid == set_room_invite(rooms, room_name, fresh_invite_code)
  <2>1. SameRooms(mid, rooms)
    BY <1>0, SetInvite DEF SessionInv, room_has_permission
  <2>2. update_share_invite(mid, local_peer_id, Advertising)
    OBVIOUS
  <2> HIDE DEF mid
  <2>3. SameRooms(rooms', mid) /\ IsShare(direct_call_invite')
    BY <1>0, <2>1, <2>2, InvitesUpdated DEF SameRooms
  <2>4. SameRooms(rooms', rooms)
    BY <2>1, <2>3, SameTwice
  <2> QED
    BY <2>3, <2>4, Entered DEF PlainOK, SessionInv
<1>4. DiskInv' /\ PutsFitInv'
  BY DEF DiskInv, PutsFitInv, putVars
<1> QED
  BY <1>1, <1>2, <1>4

LEMMA DisplayNameKeeps == RoomsInv /\ handle_set_display_name => RoomsInv'
<1> SUFFICES ASSUME RoomsInv, handle_set_display_name
             PROVE  RoomsInv'
  OBVIOUS
<1> USE DEF RoomsInv, handle_set_display_name, ThenHello
<1>1. PlainOK'
  BY RendezvousAssumption DEF PlainOK, Request, addrVars, dhtVars
<1>2. /\ AreRooms(rooms') /\ Engaged(rooms') = Engaged(rooms)
      /\ \A name, i : room_has_permission(rooms, name, i)
                      => room_has_permission(rooms', name, i)
  BY SyncMemberships DEF SessionInv, PlainOK, Request
<1>3. SessionInv'
  BY <1>2 DEF SessionInv, SessionIsAdmin, AtMostOneEngaged
<1>4. DiskInv' /\ PutsFitInv'
  BY DEF DiskInv, PutsFitInv, putVars
<1> QED
  BY <1>1, <1>3, <1>4

-----------------------------------------------------------------------------
(* Events of the swarm *)

\* Whatever the addresses become, the session stays in its room.
LEMMA AddressesKeep ==
    ASSUME RoomsInv, NEW l \in SUBSET Listenable, NEW e \in SUBSET Outside,
           NEW o \in SUBSET Outside, NEW saved \in BOOLEAN, AddressesBecome(l, e, o, saved)
    PROVE  RoomsInv'
<1> DEFINE adv == Advertised(local_peer_id, l, e, o)
<1>1. /\ update_share_invite(rooms, local_peer_id, adv)
      /\ maybe_publish_rendezvous_record(rooms, local_peer_id, adv, connected_peers,
                                         dht_routable_peers)
  BY DEF AddressesBecome
<1>2. adv \in SUBSET Addrs
  BY AdvertisedAddrs
<1> HIDE DEF adv
<1>3. PlainOK'
  BY DEF RoomsInv, PlainOK, AddressesBecome, dhtVars
<1>4. SameRooms(rooms', rooms) /\ IsShare(direct_call_invite')
  <2>1. AreRooms(rooms) /\ local_peer_id \in {0} \cup PeerIds
    BY DEF RoomsInv, SessionInv, PlainOK, Starting
  <2> QED
    BY <1>1, <1>2, <2>1, InvitesUpdated
<1>5. SessionInv'
  <2>1. UNCHANGED <<room_name, local_peer_id>>
    BY DEF AddressesBecome
  <2>2. /\ Engaged(rooms') = Engaged(rooms) /\ AreRooms(rooms')
        /\ \A name, id : room_has_permission(rooms, name, id)
                         => room_has_permission(rooms', name, id)
    BY <1>4, SameSession DEF SameRooms
  <2> QED
    BY <1>4, <2>1, <2>2 DEF RoomsInv, SessionInv, SessionIsAdmin, AtMostOneEngaged
<1>6. DiskInv'
  <2>1. CASE saved
    <3> DEFINE new == [disk EXCEPT !.invite = direct_call_invite']
    <3>1. disk' = OnDisk(starts, new)
      BY <2>1 DEF AddressesBecome
    <3>2. /\ DOMAIN new = {"rooms", "invite"}
          /\ new.rooms = disk.rooms /\ new.invite = direct_call_invite'
      BY DEF RoomsInv, DiskInv
    <3> HIDE DEF new
    <3> QED
      BY <1>4, <3>1, <3>2, SavedRooms DEF RoomsInv, DiskInv
  <2>2. CASE ~saved
    BY <2>2 DEF AddressesBecome, RoomsInv, DiskInv
  <2> QED
    BY <2>1, <2>2
<1>7. PutsFitInv'
  BY <1>1, PutsFit DEF RoomsInv, SessionInv, PutsFitInv
<1> QED
  BY <1>3, <1>5, <1>6, <1>7 DEF RoomsInv

LEMMA AddressEventsKeep ==
    ASSUME RoomsInv,
           \/ \E a \in Listenable : NewListenAddr(a)
           \/ \E a \in Outside : \/ NewExternalAddrCandidate(a)
                                 \/ ExternalAddrConfirmed(a)
                                 \/ ExternalAddrExpired(a)
                                 \/ UpnpExpired(a)
           \/ \E seen \in Seen : IdentifyReceived(seen)
    PROVE  RoomsInv'
<1>1. PICK l \in SUBSET Listenable, e \in SUBSET Outside, o \in SUBSET Outside,
           saved \in BOOLEAN : AddressesBecome(l, e, o, saved)
  <2> USE DEF RoomsInv, PlainOK
  <2>1. CASE \E a \in Listenable : NewListenAddr(a)
    BY <2>1 DEF NewListenAddr
  <2>2. CASE \E a \in Outside : NewExternalAddrCandidate(a)
    BY <2>2 DEF NewExternalAddrCandidate
  <2>3. CASE \E a \in Outside : ExternalAddrConfirmed(a)
    BY <2>3 DEF ExternalAddrConfirmed
  <2>4. CASE \E a \in Outside : ExternalAddrExpired(a)
    BY <2>4 DEF ExternalAddrExpired
  <2>5. CASE \E a \in Outside : UpnpExpired(a)
    BY <2>5 DEF UpnpExpired
  <2>6. CASE \E seen \in Seen : IdentifyReceived(seen)
    BY <2>6 DEF IdentifyReceived, Seen
  <2> QED
    BY <2>1, <2>2, <2>3, <2>4, <2>5, <2>6
<1> QED
  BY <1>1, AddressesKeep

\* The DHT and its peers have no part in the session.
LEMMA DhtKeeps ==
    ASSUME RoomsInv, DhtUnchanged, PutsFitInv',
           connected_peers' \subseteq DhtPeers, dht_routable_peers' \subseteq DhtPeers
    PROVE  RoomsInv'
<1>1. PlainOK'
  BY DEF RoomsInv, PlainOK, DhtUnchanged, addrVars
<1>2. SessionInv' /\ DiskInv'
  BY DEF RoomsInv, SessionInv, SessionIsAdmin, DiskInv, DhtUnchanged
<1> QED
  BY <1>1, <1>2 DEF RoomsInv

LEMMA PublishKeeps ==
    ASSUME RoomsInv, NEW c, NEW d, Publish(c, d)
    PROVE  PutsFitInv'
BY PutsFit DEF Publish, RoomsInv, SessionInv, PutsFitInv

LEMMA DhtEventsKeep ==
    ASSUME RoomsInv,
           \/ \E p \in DhtPeers, new \in BOOLEAN : RoutingUpdated(p, new)
           \/ BootstrapProgress
           \/ \E p \in DhtPeers : ConnectionEstablished(p) \/ ConnectionClosed(p)
           \/ \E rec \in pending : PutRecordOk(rec) \/ PutRecordErr(rec)
    PROVE  RoomsInv'
<1>0. connected_peers \subseteq DhtPeers /\ dht_routable_peers \subseteq DhtPeers /\ PutsFitInv
  BY DEF RoomsInv, PlainOK
<1>1. ASSUME NEW p \in DhtPeers, NEW new \in BOOLEAN, RoutingUpdated(p, new)
      PROVE  RoomsInv'
  <2>1. PutsFitInv'
    BY <1>0, <1>1, PublishKeeps DEF RoutingUpdated, PutsFitInv, putVars
  <2> QED
    BY <1>0, <1>1, <2>1, DhtKeeps DEF RoutingUpdated
<1>2. CASE BootstrapProgress
  <2>1. PutsFitInv'
    BY <1>2, PublishKeeps DEF BootstrapProgress
  <2> QED
    BY <1>0, <1>2, <2>1, DhtKeeps DEF BootstrapProgress, dhtVars
<1>3. ASSUME NEW p \in DhtPeers, ConnectionEstablished(p) \/ ConnectionClosed(p)
      PROVE  RoomsInv'
  <2>1. PutsFitInv'
    BY <1>0, <1>3 DEF ConnectionEstablished, ConnectionClosed, PutsFitInv, putVars
  <2> QED
    BY <1>0, <1>3, <2>1, DhtKeeps DEF ConnectionEstablished, ConnectionClosed
<1>4. ASSUME NEW rec \in pending, PutRecordOk(rec) \/ PutRecordErr(rec)
      PROVE  RoomsInv'
  <2>1. PutsFitInv'
    BY <1>0, <1>4, PutEnds DEF PutRecordOk, PutRecordErr, PutsFitInv
  <2> QED
    BY <1>0, <1>4, <2>1, DhtKeeps DEF PutRecordOk, PutRecordErr, dhtVars
<1> QED
  BY <1>1, <1>2, <1>3, <1>4

-----------------------------------------------------------------------------
(* Theorems *)

LEMMA RoomsInductive == RoomsInv /\ [Next]_vars => RoomsInv'
<1> SUFFICES ASSUME RoomsInv, [Next]_vars
             PROVE  RoomsInv'
  OBVIOUS
<1>1. CASE BootstrapDone \/ Restart
  BY <1>1, BootstrapKeeps, RestartKeeps
<1>2. CASE \E name \in Names : handle_create_room(name) \/ adopt_room_invite(name)
  BY <1>2, CreateRoomKeeps, AdoptKeeps
<1>3. CASE handle_rotate_invite_code \/ handle_set_display_name
  BY <1>3, RotateKeeps, DisplayNameKeeps
<1>4. CASE BroadcastSessionHello \/ persist_state
  BY <1>4, BroadcastKeeps, PersistKeeps
<1>5. CASE \/ \E a \in Listenable : NewListenAddr(a)
           \/ \E a \in Outside : \/ NewExternalAddrCandidate(a)
                                 \/ ExternalAddrConfirmed(a)
                                 \/ ExternalAddrExpired(a)
                                 \/ UpnpExpired(a)
           \/ \E seen \in Seen : IdentifyReceived(seen)
  BY <1>5, AddressEventsKeep
<1>6. CASE \/ \E p \in DhtPeers, new \in BOOLEAN : RoutingUpdated(p, new)
           \/ BootstrapProgress
           \/ \E p \in DhtPeers : ConnectionEstablished(p) \/ ConnectionClosed(p)
           \/ \E rec \in pending : PutRecordOk(rec) \/ PutRecordErr(rec)
  BY <1>6, DhtEventsKeep
<1>7. CASE UNCHANGED vars
  BY <1>7 DEF vars, addrVars, dhtVars, putVars, RoomsInv, PlainOK, SessionInv,
              SessionIsAdmin, DiskInv, PutsFitInv
<1> QED
  BY <1>1, <1>2, <1>3, <1>4, <1>5, <1>6, <1>7 DEF Next

\* Whatever requests, events and restarts there were, the rooms in memory and on disk, the
\* session and the puts are as RoomsInv has them.
THEOREM RoomsHold == Spec => []RoomsInv
<1> QED
  BY InitRooms, RoomsInductive, PTL DEF Spec

\* Rooms, invites, addresses and puts under way keep their types and their bounds.
THEOREM TypeCorrect == Spec => []TypeOK
<1>1. RoomsInv => TypeOK
  BY DEF RoomsInv, PlainOK, SessionInv, DiskInv, PutsFitInv, TypeOK, AreRooms, IsRoom,
         IsInvite, IsShare, Addrs
<1> QED
  BY <1>1, RoomsHold, PTL

\* One room at most is engaged, and it is that of the session when there is one.
THEOREM EngagedSession == Spec => []EngagedIsSession
<1>1. RoomsInv => EngagedIsSession
  <2> SUFFICES ASSUME AtMostOneEngaged(rooms)
               PROVE  Cardinality(Engaged(rooms)) <= 1
    BY DEF RoomsInv, SessionInv, EngagedIsSession
  <2>1. CASE Engaged(rooms) = {}
    BY <2>1, FS_EmptySet
  <2>2. CASE Engaged(rooms) # {}
    <3>1. PICK r : Engaged(rooms) = {r}
      BY <2>2 DEF AtMostOneEngaged
    <3> QED
      BY <3>1, FS_Singleton
  <2> QED
    BY <2>1, <2>2
<1> QED
  BY <1>1, RoomsHold, PTL

\* Who created a room may make an invite for it whenever the session is in it, whatever
\* peer ids the daemon has had since.
THEOREM MayInvite == Spec => []SessionMayInvite
<1>1. RoomsInv => SessionMayInvite
  BY RendezvousAssumption
  DEF RoomsInv, PlainOK, SessionInv, SessionIsAdmin, SessionMayInvite
<1> QED
  BY <1>1, RoomsHold, PTL

=============================================================================
