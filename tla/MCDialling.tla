------------------------------ MODULE MCDialling ------------------------------
(* An instance of Dialling: a peer with a direct address, one through a    *)
(* relay and ones that cannot be dialled, and the relay, a peer as well.   *)
EXTENDS Dialling

MCPeers == {"alice", "relay"}
MCCallers == {"alice"}

At(site, owner) == [site |-> site, owner |-> owner]
Direct  == At(1, "alice")
Circuit == At(2, "alice")
Broken  == At(3, NoPeer)
Relay   == At(4, "relay")
Local   == At(5, NoPeer)

MCAddrs == {Direct, Circuit, Broken, Relay, Local}
MCPlace == [a \in MCAddrs |-> a.site]
MCHop == [s \in 1 .. 5 |-> IF s = Circuit.site THEN Relay ELSE NoAddr]
MCParses == {1, 2, 4, 5}
MCShareable == {1, 2, 4}

NoScore == [successes |-> 0, failures |-> 0, last_peer_id |-> NoPeer]

\* A new daemon; one that knows alice and has dialled her; one that forgot her.
Saved(known, addrs, last, ignored, direct) ==
    [known_peers      |-> known,
     addresses        |-> [p \in MCPeers |-> IF p = "alice" THEN addrs ELSE {}],
     last_dial_addr   |-> [p \in MCPeers |-> IF p = "alice" THEN last ELSE NoAddr],
     ignored_peer_ids |-> ignored,
     path_scores      |-> [path \in Paths |-> IF path = "libp2p-direct" THEN direct ELSE NoScore]]
MCBooks == {Saved({}, {}, NoAddr, {}, NoScore),
            Saved({"alice"}, {Direct, Circuit, Broken}, Direct, {},
                  [successes |-> 0, failures |-> 1, last_peer_id |-> "alice"]),
            Saved({"alice"}, {}, NoAddr, {"alice"}, NoScore)}

MCInvites == {[peer |-> "alice", addrs |-> <<Local, Direct, Circuit>>]}

MCRequests == {[kind |-> "peer", peer |-> "alice"], [kind |-> "addr", addr |-> Direct],
               [kind |-> "addr", addr |-> Circuit], [kind |-> "addr", addr |-> Local],
               [kind |-> "name"]}

-----------------------------------------------------------------------------
\* README.md: Bob dials the relayed address that Alice shares with JoinPeer, and goes on to
\* call her.  A peer dialled in that way is listed when the dial connects.
RelayedPeerIsSurfaced ==
    [][\A a \in Addrs :
          /\ IsCircuit(a) /\ "circuit" \in asked[a.owner]
          /\ dials'[a] < dials[a] /\ conns'[a.owner] > conns[a.owner]
          => a.owner \in peers']_vars

\* README.md: when a dial fails, voicersd retries "the next saved address automatically
\* without another JoinPeer request", and the note of OutgoingConnectionError speaks of
\* "skipping" a fallback that is no address.  So as long as addresses are left a dial of
\* the peer is under way, unless the current one does not name the peer.
FallbacksGoOn ==
    \A p \in DOMAIN pending_dials :
        pending_dials[p].fallback_addresses # <<>> =>
            \/ To(dials, p) # {}
            \/ /\ CanDial(pending_dials[p].current_address)
               /\ pending_dials[p].current_address.owner # p

=============================================================================
