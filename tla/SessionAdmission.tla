--------------------------- MODULE SessionAdmission ---------------------------
(***************************************************************************)
(* Who is admitted to a daemon's room, and who is sent audio.              *)
(*                                                                         *)
(* One voicersd daemon and the remote peers around it: libp2p connections  *)
(* that come, multiply (a hole punch adds a direct connection beside a     *)
(* relayed one) and go; the session handshake (Hello, HelloAck,            *)
(* JoinDenied); the approval gate, whose state is split between the        *)
(* network task (pending_inbound_approvals, the held response channels)    *)
(* and the shared status (pending_peer_approvals, the prompts a client     *)
(* sees); the control tasks that answer a prompt in two separate writes;   *)
(* the peer book; and the media flows, each kept alive by a chain of 20 ms *)
(* timers that nothing ever cancels.                                       *)
(*                                                                         *)
(* A handler of the network task is one action: the task runs one handler  *)
(* at a time, and what a control task can write between two of its lock    *)
(* acquisitions commutes with what the handler does next (README.md, "Why  *)
(* handlers are atomic").  A control request is several actions, because   *)
(* the network task runs freely between its command and its second write.  *)
(***************************************************************************)
EXTENDS Naturals, FiniteSets

CONSTANTS
    Peers,      \* remote peer ids
    Clients,    \* control connections, each with at most one request in flight
    SavedPeers, \* peers the state file may already list when the daemon starts
    Offers,     \* trusted-contact lists a Hello or a HelloAck may carry
    MaxConns,   \* bound: simultaneous connections to one peer
    MaxTicks    \* bound: outstanding media timers of one peer, enforced by
                \* ConnectionClosed: a close that would leave MaxTicks stale ones
                \* behind waits until one has fired

ASSUME PeersAssumption ==
    /\ SavedPeers \subseteq Peers
    /\ Offers \subseteq SUBSET Peers
    /\ MaxConns \in Nat \ {0}
    /\ MaxTicks \in Nat \ {0}

VARIABLES
    \* the swarm (libp2p)
    conns,                     \* established connections to each peer
    hellos,                    \* peers that still owe an answer to a Hello of ours
    \* private to the network task
    pending_dials,             \* peers with an entry in pending_dials
    pending_inbound_approvals, \* held Hello of each peer: none, or its channel open or closed
    active_media_flows,        \* peers being sent audio
    ticks,                     \* schedule_media_tick timers not yet handled, per peer
    relay_offers,              \* trusted contacts each peer announced
    \* the shared DaemonStatus
    transport,                 \* peers[p].transport, "absent" when p is not in the list
    session,                   \* peers[p].session
    known,                     \* peers with an entry in network.known_peers
    known_connected,           \* ... whose connected flag is set
    whitelisted,               \* ... whose whitelisted flag is set
    trusted_contact,           \* ... whose trusted_contact flag is set
    ignored_peer_ids,          \* peers the user has forgotten
    pending_peer_approvals,    \* the prompts shown to clients
    \* other tasks
    media_peers,               \* peers with a runtime in the media engine
    control,                   \* the request each control task is serving
    \* history, read by no action
    grant,                     \* what the user has decided about each peer
    ungated                    \* peers one of the two unguarded paths was open to

swarmVars  == <<conns, hellos>>
netVars    == <<pending_dials, pending_inbound_approvals, active_media_flows,
                ticks, relay_offers>>
peerVars   == <<transport, session>>
bookVars   == <<known, known_connected, whitelisted, trusted_contact,
                ignored_peer_ids>>
ghostVars  == <<grant, ungated>>
vars == <<swarmVars, netVars, peerVars, bookVars, pending_peer_approvals,
          media_peers, control, ghostVars>>

\* A control task with no request in flight.
Idle == [phase |-> "idle"]

\* The two control requests of the gate; "whitelist" is ApprovePendingPeer with
\* whitelist: true.
Requests == [op : {"approve", "whitelist", "reject"}, peer : Peers,
             phase : {"queued", "answered"}]

\* Type invariant.
TypeOK ==
    /\ conns \in [Peers -> 0..MaxConns]
    /\ hellos \subseteq Peers
    /\ pending_dials \subseteq Peers
    /\ pending_inbound_approvals \in [Peers -> {"none", "open", "closed"}]
    /\ active_media_flows \subseteq Peers
    /\ ticks \in [Peers -> 0..MaxTicks]
    /\ relay_offers \in [Peers -> SUBSET Peers]
    /\ transport \in [Peers -> {"absent", "connected", "disconnected"}]
    /\ session \in [Peers -> {"none", "handshaking", "active"}]
    /\ known \subseteq Peers
    /\ known_connected \subseteq known
    /\ whitelisted \subseteq known
    /\ trusted_contact \subseteq known
    /\ ignored_peer_ids \subseteq known
    /\ pending_peer_approvals \subseteq Peers
    /\ media_peers \subseteq Peers
    /\ control \in [Clients -> Requests \cup {Idle}]
    /\ grant \in [Peers -> {"none", "once", "used", "standing"}]
    /\ ungated \subseteq Peers

-------------------------------------------------------------------------------
(* The daemon starts with the peer book of the state file, whose connected *)
(* flags are those of the last save, and with everything else empty.       *)

Init ==
    /\ known \in SUBSET SavedPeers
    /\ known_connected \in SUBSET known
    /\ whitelisted \in SUBSET known
    /\ trusted_contact \in SUBSET known
    /\ ignored_peer_ids \in SUBSET known
    /\ conns = [p \in Peers |-> 0]
    /\ hellos = {}
    /\ pending_dials = {}
    /\ pending_inbound_approvals = [p \in Peers |-> "none"]
    /\ active_media_flows = {}
    /\ ticks = [p \in Peers |-> 0]
    /\ relay_offers = [p \in Peers |-> {}]
    /\ transport = [p \in Peers |-> "absent"]
    /\ session = [p \in Peers |-> "none"]
    /\ pending_peer_approvals = {}
    /\ media_peers = {}
    /\ control = [c \in Clients |-> Idle]
    /\ grant = [p \in Peers |-> IF p \in known THEN "standing" ELSE "none"]
    /\ ungated = {}

-------------------------------------------------------------------------------
(* Helpers shared by the handlers.                                         *)

\* The network task's connected_peers set follows num_established.
connected_peers == {p \in Peers : conns[p] > 0}

\* update_known_peer with connected = true, as every caller but seed_rendezvous_invite
\* passes it; a forgotten peer is left alone.
update_known_peer(p) ==
    /\ known' = IF p \in ignored_peer_ids THEN known ELSE known \cup {p}
    /\ known_connected' = IF p \in ignored_peer_ids
                          THEN known_connected
                          ELSE known_connected \cup {p}
    /\ UNCHANGED <<whitelisted, trusted_contact, ignored_peer_ids>>

\* seed_rendezvous_invite takes p off the ignored list first, so the false it passes to
\* update_known_peer always lands, on a peer that is connected too.
seed_rendezvous_invite(p) ==
    /\ ignored_peer_ids' = ignored_peer_ids \ {p}
    /\ known' = known \cup {p}
    /\ known_connected' = known_connected \ {p}
    /\ UNCHANGED <<whitelisted, trusted_contact>>

\* Mutant of should_surface_approved_peer: a prompt counts as an approval.
should_surface_prompted_peer(p) ==
    transport[p] # "absent" \/ p \in known \cup pending_peer_approvals

\* A peer row exists, or the peer book has the peer.
should_surface_approved_peer(p) == transport[p] # "absent" \/ p \in known

should_surface_connected_peer(p) ==
    \/ p \in pending_dials
    \/ should_surface_approved_peer(p)
    \/ p \in pending_peer_approvals

upsert_peer(p) ==
    /\ transport' = [transport EXCEPT ![p] = "connected"]
    /\ session' = [session EXCEPT ![p] = IF @ = "none" THEN "handshaking" ELSE @]
    /\ update_known_peer(p)

\* Mutant of apply_session_hello: the peer book is left alone.
apply_session_hello_unrecorded(p) ==
    /\ transport' = [transport EXCEPT ![p] = "connected"]
    /\ session' = [session EXCEPT ![p] = "active"]
    /\ UNCHANGED bookVars

apply_session_hello(p) ==
    /\ transport' = [transport EXCEPT ![p] = "connected"]
    /\ session' = [session EXCEPT ![p] = "active"]
    /\ update_known_peer(p)

\* Mutant of start_media_flow: the flow is entered and no timer is scheduled.
start_media_flow_untimed(p) ==
    /\ active_media_flows' = active_media_flows \cup {p}
    /\ UNCHANGED ticks

\* The tail of both ends of the handshake: a newly inserted flow gets a timer.
start_media_flow(p) ==
    /\ active_media_flows' = active_media_flows \cup {p}
    /\ IF p \in active_media_flows
       THEN UNCHANGED ticks
       ELSE ticks' = [ticks EXCEPT ![p] = @ + 1]

apply_approved_session_hello(p) ==
    /\ apply_session_hello(p)
    /\ media_peers' = media_peers \cup {p}
    /\ start_media_flow(p)
    /\ pending_peer_approvals' = IF p \in active_media_flows
                                 THEN pending_peer_approvals
                                 ELSE pending_peer_approvals \ {p}

queue_pending_peer_approval(p) ==
    /\ pending_inbound_approvals' = [pending_inbound_approvals EXCEPT ![p] = "open"]
    /\ pending_peer_approvals' = pending_peer_approvals \cup {p}

-------------------------------------------------------------------------------
(* Swarm events, handled one at a time by the network task.                *)

\* A connection opens.  Only a peer the status knows about is surfaced; the side that
\* dialled greets, the listening side only when it has whitelisted the peer.
ConnectionEstablished(p, dialer) ==
    /\ conns[p] < MaxConns
    /\ conns' = [conns EXCEPT ![p] = @ + 1]
    /\ pending_dials' = pending_dials \ {p}
    /\ IF should_surface_connected_peer(p)
       THEN /\ upsert_peer(p)
            /\ media_peers' = media_peers \cup {p}
            /\ hellos' = IF dialer \/ p \in whitelisted THEN hellos \cup {p} ELSE hellos
       ELSE UNCHANGED <<peerVars, bookVars, media_peers, hellos>>
    /\ ungated' = IF p \in pending_peer_approvals THEN ungated \cup {p} ELSE ungated
    /\ UNCHANGED <<pending_inbound_approvals, active_media_flows, ticks, relay_offers,
                   pending_peer_approvals, control, grant>>

\* One of the connections to p closes.  The flow and the media runtime go with any
\* of them, the peer row only with the last.  A request carried by the closed
\* connection is lost: ours silently, p's held Hello by its channel going dead.
ConnectionClosed(p) ==
    LET left == conns[p] - 1
        dropRow == /\ left = 0
                   /\ session[p] = "none"
                   /\ p \notin known
                   /\ p \notin pending_peer_approvals
    IN  /\ conns[p] > 0
        /\ ticks[p] < MaxTicks
        /\ conns' = [conns EXCEPT ![p] = left]
        /\ transport' = [transport EXCEPT ![p] =
                            CASE @ = "absent" \/ dropRow -> "absent"
                              [] OTHER -> IF left = 0 THEN "disconnected" ELSE "connected"]
        /\ known_connected' = IF p \in known /\ left > 0
                              THEN known_connected \cup {p}
                              ELSE known_connected \ {p}
        /\ active_media_flows' = active_media_flows \ {p}
        /\ relay_offers' = IF left = 0 THEN [relay_offers EXCEPT ![p] = {}] ELSE relay_offers
        /\ media_peers' = media_peers \ {p}
        /\ \E lost \in IF left = 0 THEN {TRUE} ELSE BOOLEAN :
              hellos' = IF lost THEN hellos \ {p} ELSE hellos
        /\ \E dead \in IF left = 0 THEN {TRUE} ELSE BOOLEAN :
              pending_inbound_approvals' =
                [pending_inbound_approvals EXCEPT
                   ![p] = IF dead /\ @ = "open" THEN "closed" ELSE @]
        /\ grant' = [grant EXCEPT ![p] = IF left = 0 /\ @ = "once" THEN "used" ELSE @]
        /\ UNCHANGED <<pending_dials, ticks, session, known, whitelisted, trusted_contact,
                       ignored_peer_ids, pending_peer_approvals, control, ungated>>

\* Identify::Received: the address book of libp2p learns p; the status only if p is
\* already a person.
IdentifyReceived(p) ==
    /\ conns[p] > 0
    /\ should_surface_approved_peer(p)
    /\ transport' = [transport EXCEPT ![p] = "connected"]
    /\ update_known_peer(p)
    /\ UNCHANGED <<swarmVars, netVars, session, pending_peer_approvals, media_peers,
                   control, ghostVars>>

\* Mutant of PingSuccess: a result delivered after the connection has closed.
PingSuccessLate(p) ==
    /\ transport[p] # "absent"
    /\ transport' = [transport EXCEPT ![p] = "connected"]
    /\ UNCHANGED <<swarmVars, netVars, session, bookVars, pending_peer_approvals,
                   media_peers, control, ghostVars>>

\* A successful Ping marks an existing row connected.
PingSuccess(p) ==
    /\ conns[p] > 0
    /\ transport[p] # "absent"
    /\ transport' = [transport EXCEPT ![p] = "connected"]
    /\ UNCHANGED <<swarmVars, netVars, session, bookVars, pending_peer_approvals,
                   media_peers, control, ghostVars>>

\* should_gate_peer_approval: only the whitelisted flag opens the gate.
should_gate_peer_approval(p) == p \notin whitelisted

\* p asks to join.  A peer whose row is connected counts as already admitted.
HelloRequest(p, offers) ==
    /\ conns[p] > 0
    /\ IF transport[p] = "connected" \/ ~should_gate_peer_approval(p)
       THEN /\ relay_offers' = [relay_offers EXCEPT ![p] = offers]
            /\ apply_approved_session_hello(p)
            /\ UNCHANGED pending_inbound_approvals
       ELSE /\ queue_pending_peer_approval(p)
            /\ UNCHANGED <<peerVars, bookVars, media_peers, active_media_flows, ticks,
                           relay_offers>>
    /\ UNCHANGED <<swarmVars, pending_dials, control, ghostVars>>

\* p accepts a Hello of ours.  Nothing looks at the gate or at the prompts here.
\* One answer may leave others outstanding.
HelloAck(p, offers) ==
    /\ conns[p] > 0
    /\ p \in hellos
    /\ relay_offers' = [relay_offers EXCEPT ![p] = offers]
    /\ apply_session_hello(p)
    /\ media_peers' = media_peers \cup {p}
    /\ start_media_flow(p)
    /\ \E last \in BOOLEAN : hellos' = IF last THEN hellos \ {p} ELSE hellos
    /\ UNCHANGED <<conns, pending_dials, pending_inbound_approvals,
                   pending_peer_approvals, control, ghostVars>>

\* JoinDenied, or the request failed or timed out: a note, and nothing else.
HelloRefused(p) ==
    /\ p \in hellos
    /\ hellos' = hellos \ {p}
    /\ UNCHANGED <<conns, netVars, peerVars, bookVars, pending_peer_approvals,
                   media_peers, control, ghostVars>>

\* Mutant of InboundFailure: the timeout forgets the held join, not its prompt.
InboundFailureForgetsJoin(p) ==
    /\ pending_inbound_approvals[p] = "open"
    /\ pending_inbound_approvals' = [pending_inbound_approvals EXCEPT ![p] = "none"]
    /\ UNCHANGED <<swarmVars, pending_dials, active_media_flows, ticks, relay_offers,
                   peerVars, bookVars, pending_peer_approvals, media_peers, control,
                   ghostVars>>

\* The five-minute request timeout ends p's held Hello; both maps keep their entry.
InboundFailure(p) ==
    /\ pending_inbound_approvals[p] = "open"
    /\ pending_inbound_approvals' = [pending_inbound_approvals EXCEPT ![p] = "closed"]
    /\ UNCHANGED <<swarmVars, pending_dials, active_media_flows, ticks, relay_offers,
                   peerVars, bookVars, pending_peer_approvals, media_peers, control,
                   ghostVars>>

\* GetRecord: a lookup of the user's, by peer id or by room, finds p.  The dial that
\* follows may be refused, or find no address that parses.
FoundRecord(p) ==
    /\ seed_rendezvous_invite(p)
    /\ \E dialled \in BOOLEAN :
          pending_dials' = IF dialled THEN pending_dials \cup {p} ELSE pending_dials
    /\ grant' = [grant EXCEPT ![p] = "standing"]
    /\ UNCHANGED <<swarmVars, pending_inbound_approvals, active_media_flows, ticks,
                   relay_offers, peerVars, pending_peer_approvals, media_peers, control,
                   ungated>>

\* A media frame from p, its own or one it relays to us, reaches the media engine
\* whatever the state of its session.
MediaFrameReceived(p) ==
    /\ conns[p] > 0
    /\ media_peers' = media_peers \cup {p}
    /\ UNCHANGED <<swarmVars, netVars, peerVars, bookVars, pending_peer_approvals,
                   control, ghostVars>>

-------------------------------------------------------------------------------
(* Commands of the network task.                                           *)

\* resolve_route's relays for p: connected trusted contacts that announced p.
relay_candidates(p) == {c \in trusted_contact \cap known_connected : p \in relay_offers[c]}

\* resolve_route is not Unreachable: the peer book's flag decides, not the swarm.
reachable(p) == p \in known_connected \/ relay_candidates(p) # {}

\* Mutants of SendMediaFrame: an unreachable peer is retried for ever; a timer without
\* a flow reschedules itself.
SendMediaFrameRetrying(p) ==
    /\ ticks[p] > 0
    /\ IF p \in active_media_flows
       THEN media_peers' = media_peers \cup {p} /\ UNCHANGED ticks
       ELSE ticks' = [ticks EXCEPT ![p] = @ - 1] /\ UNCHANGED media_peers
    /\ UNCHANGED active_media_flows
    /\ UNCHANGED <<swarmVars, pending_dials, pending_inbound_approvals, relay_offers,
                   peerVars, bookVars, pending_peer_approvals, control, ghostVars>>

SendMediaFrameUndying(p) ==
    /\ ticks[p] > 0
    /\ active_media_flows' = IF reachable(p) THEN active_media_flows ELSE active_media_flows \ {p}
    /\ UNCHANGED <<media_peers, ticks>>
    /\ UNCHANGED <<swarmVars, pending_dials, pending_inbound_approvals, relay_offers,
                   peerVars, bookVars, pending_peer_approvals, control, ghostVars>>

\* SendMediaFrame: a timer of p fires.  It dies with the flow, or reschedules itself.
SendMediaFrame(p) ==
    /\ ticks[p] > 0
    /\ IF p \in active_media_flows /\ reachable(p)
       THEN /\ media_peers' = media_peers \cup {p}
            /\ UNCHANGED <<active_media_flows, ticks>>
       ELSE /\ active_media_flows' = active_media_flows \ {p}
            /\ ticks' = [ticks EXCEPT ![p] = @ - 1]
            /\ UNCHANGED media_peers
    /\ UNCHANGED <<swarmVars, pending_dials, pending_inbound_approvals, relay_offers,
                   peerVars, bookVars, pending_peer_approvals, control, ghostVars>>

\* Dial: the user joins p by its id or an address.
Dial(p) ==
    /\ pending_dials' = pending_dials \cup {p}
    /\ grant' = [grant EXCEPT ![p] = "standing"]
    /\ UNCHANGED <<swarmVars, pending_inbound_approvals, active_media_flows, ticks,
                   relay_offers, peerVars, bookVars, pending_peer_approvals,
                   media_peers, control, ungated>>

\* BroadcastSessionHello goes to every connection, transport-only ones included.
BroadcastSessionHello ==
    /\ hellos' = hellos \cup connected_peers
    /\ ungated' = ungated \cup connected_peers
    /\ UNCHANGED <<conns, netVars, peerVars, bookVars, pending_peer_approvals,
                   media_peers, control, grant>>

\* ApprovePendingPeer: fails when nothing is held; the relay offers of the held Hello
\* are not recorded, and a closed channel only costs the answer.
approve_pending_peer(c) ==
    LET p == control[c].peer IN
    /\ control[c].phase = "queued"
    /\ control[c].op \in {"approve", "whitelist"}
    /\ IF pending_inbound_approvals[p] = "none"
       THEN /\ control' = [control EXCEPT ![c] = Idle]
            /\ UNCHANGED <<pending_inbound_approvals, active_media_flows, ticks, peerVars,
                           bookVars, pending_peer_approvals, media_peers, grant>>
       ELSE /\ control' = [control EXCEPT ![c].phase = "answered"]
            /\ pending_inbound_approvals' = [pending_inbound_approvals EXCEPT ![p] = "none"]
            /\ apply_approved_session_hello(p)
            /\ grant' = [grant EXCEPT ![p] = IF @ = "standing" \/ control[c].op = "whitelist"
                                             THEN "standing" ELSE "once"]
    /\ UNCHANGED <<swarmVars, pending_dials, relay_offers, ungated>>

reject_pending_peer(c) ==
    LET p == control[c].peer IN
    /\ control[c].phase = "queued"
    /\ control[c].op = "reject"
    /\ IF pending_inbound_approvals[p] = "none"
       THEN /\ control' = [control EXCEPT ![c] = Idle]
            /\ UNCHANGED <<pending_inbound_approvals, pending_peer_approvals>>
       ELSE /\ control' = [control EXCEPT ![c].phase = "answered"]
            /\ pending_inbound_approvals' = [pending_inbound_approvals EXCEPT ![p] = "none"]
            /\ pending_peer_approvals' = pending_peer_approvals \ {p}
    /\ UNCHANGED <<swarmVars, pending_dials, active_media_flows, ticks, relay_offers,
                   peerVars, bookVars, media_peers, ghostVars>>

-------------------------------------------------------------------------------
(* Control tasks, one per client connection.                               *)

\* A client answers the prompt of p: the request is queued for the network task.
AnswerPrompt(c, op, p) ==
    /\ control[c] = Idle
    /\ control' = [control EXCEPT ![c] = [op |-> op, peer |-> p, phase |-> "queued"]]
    /\ UNCHANGED <<swarmVars, netVars, peerVars, bookVars, pending_peer_approvals,
                   media_peers, ghostVars>>

\* The control task's own write after the network task has answered.
FinishAnswer(c) ==
    LET p == control[c].peer IN
    /\ control[c].phase = "answered"
    /\ control' = [control EXCEPT ![c] = Idle]
    /\ pending_peer_approvals' = pending_peer_approvals \ {p}
    /\ whitelisted' = IF control[c].op = "whitelist" /\ p \in known
                      THEN whitelisted \cup {p} ELSE whitelisted
    /\ UNCHANGED <<swarmVars, netVars, peerVars, known, known_connected, trusted_contact,
                   ignored_peer_ids, media_peers, ghostVars>>

\* seed_invite_hints: joining by an invite puts its peer in the book.
seed_invite_hints(p) ==
    /\ ignored_peer_ids' = ignored_peer_ids \ {p}
    /\ known' = known \cup {p}
    /\ grant' = [grant EXCEPT ![p] = "standing"]
    /\ UNCHANGED <<swarmVars, netVars, peerVars, known_connected, whitelisted,
                   trusted_contact, pending_peer_approvals, media_peers, control, ungated>>

\* SaveKnownPeer copies the live row's transport into the book.
save_known_peer(p) ==
    /\ ignored_peer_ids' = ignored_peer_ids \ {p}
    /\ known' = IF transport[p] # "absent" THEN known \cup {p} ELSE known
    /\ known_connected' = CASE transport[p] = "connected"    -> known_connected \cup {p}
                             [] transport[p] = "disconnected" -> known_connected \ {p}
                             [] transport[p] = "absent"       -> known_connected
    /\ grant' = [grant EXCEPT ![p] = IF p \in known' THEN "standing" ELSE @]
    /\ UNCHANGED <<swarmVars, netVars, peerVars, whitelisted, trusted_contact,
                   pending_peer_approvals, media_peers, control, ungated>>

\* Mutant of forget_known_peer: the entry goes with its flags, and its id stays on the
\* ignored list, which is kept apart from the entries.
forget_known_peer_entry(p) ==
    /\ p \in known
    /\ known' = known \ {p}
    /\ known_connected' = known_connected \ {p}
    /\ whitelisted' = whitelisted \ {p}
    /\ trusted_contact' = trusted_contact \ {p}
    /\ ignored_peer_ids' = ignored_peer_ids \cup {p}
    /\ UNCHANGED <<swarmVars, netVars, peerVars, pending_peer_approvals, media_peers,
                   control, ghostVars>>

\* ForgetKnownPeer keeps the entry, its flags included, and starts ignoring the peer.
forget_known_peer(p) ==
    /\ p \in known
    /\ ignored_peer_ids' = ignored_peer_ids \cup {p}
    /\ UNCHANGED <<swarmVars, netVars, peerVars, known, known_connected, whitelisted,
                   trusted_contact, pending_peer_approvals, media_peers, control, ghostVars>>

\* SetTrustedContact; the Hello it then broadcasts is BroadcastSessionHello.
set_trusted_contact(p, trusted) ==
    /\ p \in known
    /\ trusted_contact' = IF trusted THEN trusted_contact \cup {p} ELSE trusted_contact \ {p}
    /\ UNCHANGED <<swarmVars, netVars, peerVars, known, known_connected, whitelisted,
                   ignored_peer_ids, pending_peer_approvals, media_peers, control, ghostVars>>

-------------------------------------------------------------------------------
SwarmEvent(p) ==
    \/ \E dialer \in BOOLEAN : ConnectionEstablished(p, dialer)
    \/ ConnectionClosed(p)
    \/ IdentifyReceived(p)
    \/ PingSuccess(p)
    \/ \E offers \in Offers : HelloRequest(p, offers) \/ HelloAck(p, offers)
    \/ HelloRefused(p)
    \/ InboundFailure(p)
    \/ FoundRecord(p)
    \/ MediaFrameReceived(p)

PeerBookRequest(p) ==
    \/ Dial(p)
    \/ seed_invite_hints(p)
    \/ save_known_peer(p)
    \/ forget_known_peer(p)
    \/ \E trusted \in BOOLEAN : set_trusted_contact(p, trusted)

ControlTask(c) ==
    \/ \E op \in {"approve", "whitelist", "reject"}, p \in Peers : AnswerPrompt(c, op, p)
    \/ approve_pending_peer(c)
    \/ reject_pending_peer(c)
    \/ FinishAnswer(c)

Next ==
    \/ \E p \in Peers : SwarmEvent(p) \/ SendMediaFrame(p) \/ PeerBookRequest(p)
    \/ BroadcastSessionHello
    \/ \E c \in Clients : ControlTask(c)

\* Timers fire and are handled, the network task drains its command queue, and a
\* control task that has its answer runs on.  Nothing is assumed of remote peers,
\* of the user or of the network.
Fairness ==
    /\ \A p \in Peers : WF_vars(SendMediaFrame(p))
    /\ \A c \in Clients : /\ WF_vars(approve_pending_peer(c))
                           /\ WF_vars(reject_pending_peer(c))
                           /\ WF_vars(FinishAnswer(c))

Spec == Init /\ [][Next]_vars
FairSpec == Spec /\ Fairness

-------------------------------------------------------------------------------
(* Properties.                                                             *)

\* An active session has a cause: the user approved, dialled or saved the peer, the
\* state file listed it, or one of the two paths that never reach the gate was open
\* to it, a new connection while its prompt was showing (ConnectionEstablished) or
\* a broadcast Hello while it was connected (BroadcastSessionHello).
AdmissionHasCause ==
    \A p \in Peers : session[p] = "active" => grant[p] # "none" \/ p \in ungated

\* Every prompt a client is shown can be answered: the network task still holds the
\* join it stands for, or a control task is about to withdraw it.
PromptAnswerable ==
    \A p \in pending_peer_approvals :
        \/ pending_inbound_approvals[p] # "none"
        \/ \E c \in Clients : control[c].phase = "answered" /\ control[c].peer = p

\* An active flow never runs dry: it has a timer, an active session and a runtime in
\* the media engine, however Hellos, closes and timers interleave.
FlowIsDriven ==
    \A p \in active_media_flows :
        ticks[p] > 0 /\ session[p] = "active" /\ p \in media_peers

\* When a whitelisting approval is about to record the flag, the peer book has the
\* entry to record it in, although update_known_peer skips forgotten peers.
WhitelistLands ==
    \A c \in Clients :
        control[c].phase = "answered" /\ control[c].op = "whitelist"
            => control[c].peer \in known

\* A row without a connection turns connected only by an approval: the one handler
\* that can run for a peer that has left.
OnlyApprovalRevivesDeparted ==
    [][\A p \in Peers :
         conns'[p] = 0 /\ transport[p] # "connected" /\ transport'[p] = "connected"
            => pending_inbound_approvals[p] # "none" /\ pending_inbound_approvals'[p] = "none"]_vars

\* A flow to a peer that stays out of reach, direct or relayed, is stopped.
UnreachableFlowStops ==
    \A p \in Peers : p \in active_media_flows /\ ~reachable(p)
                        ~> p \notin active_media_flows \/ reachable(p)

\* Timers that outlive their flow are never cancelled, but once the flow stays off
\* the last of them dies.
StaleTimersDrain ==
    \A p \in Peers : <>[](p \notin active_media_flows) => <>[](ticks[p] = 0)

-------------------------------------------------------------------------------
(* The inductive strengthening of the safety properties.                   *)

\* The bound of ConnectionClosed leaves room for the timer of the next flow.
TickRoom == \A p \in Peers : p \notin active_media_flows => ticks[p] < MaxTicks

\* AdmissionHasCause, pushed back along everything that can end in an active session:
\* a row, a book entry, a dial, a Hello of ours.
Approachable(p) ==
    \/ transport[p] # "absent"
    \/ session[p] = "active"
    \/ p \in known \cup pending_dials \cup hellos

ApproachHasCause ==
    \A p \in Peers : Approachable(p) => grant[p] # "none" \/ p \in ungated

SafetyInv ==
    /\ TypeOK
    /\ TickRoom
    /\ FlowIsDriven
    /\ ApproachHasCause
    /\ PromptAnswerable
    /\ WhitelistLands

===============================================================================
