------------------------- MODULE MCSessionAdmission -------------------------
(* Instances of SessionAdmission for TLC, a restriction of it in which two *)
(* peers can relay for each other, and what the repository's documents and *)
(* tests say of the gate and of the media flow.                            *)
EXTENDS SessionAdmission

\* Hellos that announce no contact, and Hellos that announce every peer.
MCOffers == {{}, Peers}

-----------------------------------------------------------------------------
(* Relaying needs two peers.  The restriction leaves out the gate (nobody  *)
(* unknown connects) and keeps what changes a route: connections, Hellos   *)
(* with their offers, the trusted and the forgotten flags, and the timers. *)

RelayInit == Init /\ known = Peers /\ whitelisted = {} /\ known_connected = {}

RelayNext ==
    \E p \in Peers :
        \/ ConnectionEstablished(p, TRUE)
        \/ ConnectionClosed(p)
        \/ \E offers \in Offers : HelloAck(p, offers)
        \/ FoundRecord(p)
        \/ forget_known_peer(p)
        \/ save_known_peer(p)
        \/ \E trusted \in BOOLEAN : set_trusted_contact(p, trusted)
        \/ SendMediaFrame(p)

RelaySpec == RelayInit /\ [][RelayNext]_vars /\ Fairness

-----------------------------------------------------------------------------
(* What the documents and the tests say.                                   *)

\* README.md: the first join of an unknown peer is held until the user decides.  While
\* the join of a peer the user has decided nothing about is held, its session is not
\* active.
UnknownJoinIsHeld ==
    \A p \in Peers :
        pending_inbound_approvals[p] = "open" /\ grant[p] = "none" => session[p] # "active"

\* README.md: an inbound join is held until the user approves or rejects it.  A join that
\* is held, and whose peer has not been let in another way, shows its prompt.
HeldJoinIsPrompted ==
    \A p \in Peers :
        pending_inbound_approvals[p] = "open" /\ session[p] # "active"
            => p \in pending_peer_approvals

\* README.md: `y` allows once, only `w` lets the peer join by itself in the future.  A
\* peer that was allowed once and has left since gets no flow by greeting us again.
AllowedOnceAsksAgain ==
    [][\A p \in Peers :
         grant[p] = "used" /\ p \notin ungated \cup hellos \cup active_media_flows
            => p \notin active_media_flows' \/ grant'[p] # "used"]_vars

\* README.md: after a hole punch the connection moves from the relayed to the direct
\* transport.  A flow that has two connections keeps coming back while one is left.
FlowSurvivesUpgrade ==
    \A p \in Peers :
        [](p \in active_media_flows /\ conns[p] > 1
             => <>(conns[p] = 0) \/ []<>(p \in active_media_flows))

=============================================================================
