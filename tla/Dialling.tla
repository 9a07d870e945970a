------------------------------- MODULE Dialling -------------------------------
(***************************************************************************)
(* How the network task reaches a peer: the ranking of its saved addresses *)
(* by what past dials taught, the lookup in the DHT when none is saved,    *)
(* the fallback from one address to the next, and what connections and     *)
(* failures leave behind for the next ranking.                             *)
(*                                                                         *)
(* A request returns once the first dial is under way.  Its outcome, the   *)
(* records found in the DHT and connections from the peer itself arrive    *)
(* later, as events of the swarm, in any order and mixed with those of     *)
(* other requests; all that ties an outcome to its request is the entry of *)
(* the peer in pending_dials.                                              *)
(*                                                                         *)
(* An address is a record of a site (the text before the last /p2p) and    *)
(* the peer of its last /p2p.  A circuit address goes through a relay,     *)
(* whose own address is the Hop of the site and whose peer id is the first *)
(* /p2p of the text.                                                       *)
(***************************************************************************)
EXTENDS Lists

CONSTANTS
    Peers,       \* the remote peers
    Callers,     \* those that connect to us by themselves, or that the swarm dials for
                 \*   its own ends: kad, DCUtR, relay reservations
    NoPeer,      \* None
    Addrs,       \* all addresses
    NoAddr,      \* None, or text that is no address
    Place,       \* the place of each address in the order of their texts
    Hop,         \* the address of the relay of each circuit site, else NoAddr
    Parses,      \* sites that are multiaddrs
    Accepts,     \* ... and that the swarm starts to dial
    Shareable,   \* ... and that is_shareable_multiaddr accepts
    Books,       \* the saved NetworkSummary, as a start may find it
    Invites,     \* what invites and rendezvous records hold: a peer and addresses
    Requests,    \* what is asked for with JoinPeer
    MaxRequests, \* bound: how many control requests
    MaxScore,    \* where the scores saturate: u64::MAX
    MaxConns     \* bound: connections with one peer

ASSUME DiallingAssumption ==
    /\ NoPeer \notin Peers /\ Callers \subseteq Peers
    /\ IsFiniteSet(Addrs) /\ NoAddr \notin Addrs
    /\ Place \in [Addrs -> Nat] /\ IsInjective(Place)
    /\ \A a \in Addrs : a.owner \in Peers \cup {NoPeer}
    /\ \A a \in Addrs : Hop[a.site] # NoAddr => Hop[a.site] \in Addrs
                                                /\ Hop[a.site].owner \in Peers
    /\ Shareable \subseteq Accepts /\ Accepts \subseteq Parses
    /\ MaxRequests \in Nat /\ MaxScore \in Nat /\ MaxConns \in Nat \ {0}

Paths == {"libp2p-direct", "libp2p-relay"}
Scores == [successes : 0 .. MaxScore, failures : 0 .. MaxScore,
           last_peer_id : Peers \cup {NoPeer}]
NetworkSummary == [known_peers      : SUBSET Peers,
                   addresses        : [Peers -> SUBSET Addrs],
                   last_dial_addr   : [Peers -> Addrs \cup {NoAddr}],
                   ignored_peer_ids : SUBSET Peers,
                   path_scores      : [Paths -> Scores]]

\* What the inputs speak of.  In a saved book only known peers have addresses or are
\* ignored; the address of a peer is closed under naming the peer in it.
ASSUME InputsAssumption ==
    /\ Books \subseteq NetworkSummary
    /\ \A book \in Books :
         /\ book.ignored_peer_ids \subseteq book.known_peers
         /\ \A p \in Peers \ book.known_peers :
               book.addresses[p] = {} /\ book.last_dial_addr[p] = NoAddr
    /\ \A invite \in Invites : invite.peer \in Peers /\ invite.addrs \in Seq(Addrs)
    /\ \A req \in Requests :
         \/ req.kind = "peer" /\ req.peer \in Peers
         \/ req.kind = "addr" /\ req.addr \in Addrs
         \/ req.kind = "name"
    /\ \A a \in Addrs, p \in Peers :
         a.site \in Shareable /\ a.owner = NoPeer => [a EXCEPT !.owner = p] \in Addrs

VARIABLES
    network,       \* NetworkSummary: known_peers, addresses, last_dial_addr,
                   \*   ignored_peer_ids and path_scores
    peers,         \* the peers with a row in DaemonStatus.peers
    pending_dials, \* PendingDial, by peer
    lookups,       \* pending_rendezvous_lookups, by query
    dials,         \* in the swarm: how many dials of each address are under way
    conns,         \* in the swarm: established connections with each peer
    requests,      \* control requests made, which number the queries as well
    \* history, read by no action
    mixed,         \* peers with a dial under way that is not theirs alone: it overlaps
                   \*   another or was not started from their own entry
    asked          \* how each peer was asked for when a dial began

vars == <<network, peers, pending_dials, lookups, dials, conns, requests, mixed, asked>>

-----------------------------------------------------------------------------
(* Ranking *)

IsCircuit(a) == a.site \in Parses /\ Hop[a.site] # NoAddr

address_path_name(a) == IF IsCircuit(a) THEN "libp2p-relay" ELSE "libp2p-direct"

\* The first /p2p of the address.
multiaddr_peer_id(a) == IF IsCircuit(a) THEN Hop[a.site].owner ELSE a.owner

shareable_address(a, p) ==
    IF a = NoAddr \/ a.site \notin Shareable THEN NoAddr
    ELSE IF a.owner # NoPeer \/ IsCircuit(a) THEN a ELSE [a EXCEPT !.owner = p]

Boost(b) == IF b THEN 1 ELSE 0

dial_candidate_rank(net, p, a, requested) ==
    LET score == net.path_scores[address_path_name(a)]
    IN  <<score.successes - score.failures, Boost(score.last_peer_id = p),
          Boost(net.last_dial_addr[p] = a), Boost(requested = a)>>

\* The higher key, and between equal keys the earlier text.
ranks_above(net, p, requested, a, b) ==
    LET ra == dial_candidate_rank(net, p, a, requested)
        rb == dial_candidate_rank(net, p, b, requested)
    IN  Above(ra, rb) \/ (ra = rb /\ Place[a] < Place[b])

rank_known_peer_addresses(net, p, requested) ==
    LET candidates == (net.addresses[p] \cup {net.last_dial_addr[p], requested}) \ {NoAddr}
    IN  Sorted(candidates, {ab \in candidates \X candidates :
                               ranks_above(net, p, requested, ab[1], ab[2])})

Target(p, primary, fallbacks) ==
    [peer |-> p, primary |-> primary, fallbacks |-> fallbacks]

RankedTarget(net, p, requested) ==
    LET ranked == rank_known_peer_addresses(net, p, requested)
    IN  IF ranked = <<>> THEN Target(p, NoAddr, <<>>)
        ELSE Target(p, Head(ranked), Tail(ranked))

\* A known peer is ranked, asked for by its id or by an address; an unknown one has
\* the address of the request, if that is one.
resolve_ranked_dial_target(net, req) ==
    LET a == IF req.kind = "addr" THEN req.addr ELSE NoAddr
        p == CASE req.kind = "peer" -> req.peer
               [] req.kind = "addr" -> multiaddr_peer_id(req.addr)
               [] req.kind = "name" -> NoPeer
    IN  IF p \in net.known_peers THEN RankedTarget(net, p, a) ELSE Target(p, a, <<>>)

CanParse(a) == a # NoAddr /\ a.site \in Parses
CanDial(a) == CanParse(a) /\ a.site \in Accepts

-----------------------------------------------------------------------------
(* The peer book and the scores *)

\* Mutant of saturating_add.
unchecked_add(n) == n + 1

saturating_add(n) == Min({n + 1, MaxScore})

record_path_score(net, path, p, success) ==
    [net EXCEPT !.path_scores[path] =
        [successes    |-> IF success THEN saturating_add(@.successes) ELSE @.successes,
         failures     |-> IF success THEN @.failures ELSE saturating_add(@.failures),
         last_peer_id |-> p]]

AddAddress(net, p, a) ==
    IF a = NoAddr THEN net
    ELSE [net EXCEPT !.addresses[p] = @ \cup {a}, !.last_dial_addr[p] = a]

update_known_peer(net, p, a) ==
    IF p \in net.ignored_peer_ids THEN net
    ELSE AddAddress([net EXCEPT !.known_peers = @ \cup {p}], p, shareable_address(a, p))

Remember(net, p) ==
    [net EXCEPT !.ignored_peer_ids = @ \ {p}, !.known_peers = @ \cup {p}]

\* The addresses of a record are saved, the last one as the last dialled.
seed_rendezvous_invite(net, invite) ==
    LET p == invite.peer
        normalized(a) == IF shareable_address(a, p) # NoAddr
                         THEN shareable_address(a, p) ELSE a
        seeded == Remember(net, p)
    IN  [seeded EXCEPT !.addresses[p] = @ \cup {normalized(a) : a \in Range(invite.addrs)},
                       !.last_dial_addr[p] =
                           IF invite.addrs # <<>> THEN normalized(invite.addrs[Len(invite.addrs)]) ELSE @]

\* Those of an invite are saved as they are, the first as the last dialled if none was.
InviteHints(net, invite) ==
    LET p == invite.peer
        seeded == Remember(net, p)
    IN  [seeded EXCEPT !.addresses[p] = @ \cup Range(invite.addrs),
                       !.last_dial_addr[p] =
                           IF @ = NoAddr /\ invite.addrs # <<>> THEN Head(invite.addrs) ELSE @]

-----------------------------------------------------------------------------
(* Dials in the swarm *)

To(d, p) == {a \in Addrs : a.owner = p /\ d[a] > 0}
Alone(d, p) == Cardinality(To(d, p)) <= 1 /\ \A a \in To(d, p) : d[a] = 1

\* A circuit dial has the swarm dial the relay first, unless it is connected to it or
\* dialling it.
NeedsHop(d, a) ==
    IsCircuit(a) /\ conns[Hop[a.site].owner] = 0 /\ To(d, Hop[a.site].owner) = {}

Launched(d, a) ==
    LET more == {a} \cup (IF NeedsHop(d, a) THEN {Hop[a.site]} ELSE {})
    IN  [b \in Addrs |-> d[b] + Boost(b \in more)]

Landed(d, a) == [d EXCEPT ![a] = @ - 1]

\* The dials become d, the one of address own being started from the entry of p.
SetDials(d, p, own) ==
    /\ dials' = d
    /\ mixed' = {q \in Peers : \/ ~Alone(d, q)
                               \/ q \in mixed /\ To(d, q) # {}
                               \/ q = p /\ own # NoAddr /\ To(d, q) \ {own} # {}
                               \/ \E a \in To(d, q) : d[a] > dials[a] /\ (q # p \/ a # own)}

Unasked == [p \in Peers |-> {}]

PendingDial == [current_address : Addrs, fallback_addresses : Seq(Addrs)]

TypeOK ==
    /\ network \in NetworkSummary
    /\ peers \subseteq Peers
    /\ DOMAIN pending_dials \subseteq Peers
    /\ \A p \in DOMAIN pending_dials : pending_dials[p] \in PendingDial
    /\ DOMAIN lookups \subseteq 1 .. MaxRequests
    /\ dials \in [Addrs -> Nat]
    /\ conns \in [Peers -> 0 .. MaxConns]
    /\ requests \in 0 .. MaxRequests
    /\ mixed \subseteq Peers
    /\ asked \in [Peers -> SUBSET {"peer", "addr", "circuit"}]

\* The daemon starts with the book and the scores it saved.
Init ==
    /\ network \in Books
    /\ peers = {}
    /\ pending_dials = <<>>
    /\ lookups = <<>>
    /\ dials = [a \in Addrs |-> 0]
    /\ conns = [p \in Peers |-> 0]
    /\ requests = 0
    /\ mixed = {}
    /\ asked = Unasked

-----------------------------------------------------------------------------
(* Requests *)

With(f, k, v) == [x \in DOMAIN f \cup {k} |-> IF x = k THEN v ELSE f[x]]
Without(f, k) == [x \in DOMAIN f \ {k} |-> f[x]]

ControlRequest == requests < MaxRequests /\ requests' = requests + 1

\* The dial begins and the peer has an entry; if the swarm refuses, nothing changes.
dial_ranked_target(target, p, how) ==
    IF ~CanDial(target.primary) THEN UNCHANGED <<pending_dials, dials, mixed, asked>>
    ELSE /\ SetDials(Launched(dials, target.primary), target.peer, target.primary)
         /\ pending_dials' =
              IF target.peer = NoPeer THEN pending_dials
              ELSE With(pending_dials, target.peer,
                        [current_address    |-> target.primary,
                         fallback_addresses |-> target.fallbacks])
         /\ asked' = IF p = NoPeer THEN asked ELSE [asked EXCEPT ![p] = @ \cup {how}]

\* The peer that a request is for, and how it is asked for.
Wanted(req) == CASE req.kind = "peer" -> req.peer
                 [] req.kind = "addr" -> req.addr.owner
                 [] req.kind = "name" -> NoPeer
Manner(req) == IF req.kind = "addr" /\ IsCircuit(req.addr) THEN "circuit" ELSE req.kind

\* Without an address to dial the DHT is asked, for the peer's record or the room's.
dial_peer(req) ==
    LET target == resolve_ranked_dial_target(network, req)
    IN  /\ ControlRequest
        /\ IF CanParse(target.primary)
           THEN /\ dial_ranked_target(target, Wanted(req), Manner(req))
                /\ UNCHANGED lookups
           ELSE /\ lookups' = With(lookups, requests + 1,
                                   [peer |-> target.peer, resolved_peers |-> {}])
                /\ UNCHANGED <<pending_dials, dials, mixed, asked>>
        /\ UNCHANGED <<network, peers, conns>>

\* The hints of an invite are saved before its peer is dialled.
seed_invite_hints(invite) ==
    /\ ControlRequest
    /\ network' = InviteHints(network, invite)
    /\ UNCHANGED <<peers, pending_dials, lookups, dials, conns, mixed, asked>>

\* Removed from the friends, the peer stays in the book and is not updated.
forget_known_peer(p) ==
    /\ ControlRequest
    /\ p \in network.known_peers
    /\ network' = [network EXCEPT !.ignored_peer_ids = @ \cup {p}]
    /\ UNCHANGED <<peers, pending_dials, lookups, dials, conns, mixed, asked>>

-----------------------------------------------------------------------------
(* Events of the swarm *)

\* A lookup for a peer ends at the first record with that peer's addresses; one for a
\* room goes on, and takes the first such record of each peer.
FoundRecord(id, invite) ==
    LET lookup == lookups[id]
        seeded == seed_rendezvous_invite(network, invite)
        target == resolve_ranked_dial_target(seeded, [kind |-> "peer", peer |-> invite.peer])
    IN  /\ invite.addrs # <<>>
        /\ IF lookup.peer # NoPeer
           THEN /\ lookup.peer = invite.peer
                /\ lookups' = Without(lookups, id)
           ELSE /\ invite.peer \notin lookup.resolved_peers
                /\ lookups' = [lookups EXCEPT ![id].resolved_peers = @ \cup {invite.peer}]
        /\ network' = seeded
        /\ dial_ranked_target(target, invite.peer, "peer")
        /\ UNCHANGED <<peers, conns, requests>>

\* The query finds no more, or fails.
LookupEnds(id) ==
    /\ lookups' = Without(lookups, id)
    /\ UNCHANGED <<network, peers, pending_dials, dials, conns, requests, mixed, asked>>

\* Mutant of should_surface_connected_peer: the pending dial is forgotten.
surface_known_only(p) == p \in peers \/ p \in network.known_peers

should_surface_connected_peer(p) ==
    p \in DOMAIN pending_dials \/ p \in peers \/ p \in network.known_peers

\* A connection with p, at address a when we dialled it and NoAddr when p did.
ConnectionEstablished(p, a, relayed) ==
    LET path   == IF relayed THEN "libp2p-relay" ELSE "libp2p-direct"
        scored == record_path_score(network, path, p, TRUE)
    IN  /\ conns[p] < MaxConns
        /\ conns' = [conns EXCEPT ![p] = @ + 1]
        /\ pending_dials' = Without(pending_dials, p)
        /\ IF should_surface_connected_peer(p)
           THEN /\ peers' = peers \cup {p}
                /\ network' = update_known_peer(scored, p, a)
           ELSE /\ network' = scored
                /\ UNCHANGED peers
        /\ UNCHANGED <<lookups, requests, asked>>

\* A dial reaches the peer of its address, or whoever is there if that names none.
DialConnects(p, a) ==
    /\ dials[a] > 0
    /\ a.owner \in {p, NoPeer}
    /\ IsCircuit(a) => conns[Hop[a.site].owner] > 0
    /\ SetDials(Landed(dials, a), NoPeer, NoAddr)
    /\ ConnectionEstablished(p, a, IsCircuit(a))

Inbound(p, relayed) ==
    /\ ConnectionEstablished(p, NoAddr, relayed)
    /\ UNCHANGED <<dials, mixed>>

\* A dial of another part of the swarm reaches p.
OtherDialConnects(p, a) ==
    /\ CanDial(a)
    /\ a.owner \in {p, NoPeer}
    /\ IsCircuit(a) => conns[Hop[a.site].owner] > 0
    /\ ConnectionEstablished(p, a, IsCircuit(a))
    /\ UNCHANGED <<dials, mixed>>

ConnectionClosed(p) ==
    /\ conns[p] > 0
    /\ conns' = [conns EXCEPT ![p] = @ - 1]
    /\ UNCHANGED <<network, peers, pending_dials, lookups, dials, requests, mixed, asked>>

\* Mutants of NextFallback: the address tried stays current; it is tried again last.
NextFallbackStale(entry) ==
    [entry EXCEPT !.fallback_addresses = Tail(@)]
NextFallbackRound(entry) ==
    [current_address    |-> Head(entry.fallback_addresses),
     fallback_addresses |-> Append(Tail(entry.fallback_addresses), entry.current_address)]

NextFallback(entry) ==
    [current_address    |-> Head(entry.fallback_addresses),
     fallback_addresses |-> Tail(entry.fallback_addresses)]

\* Mutant of Retry: the next address is taken but not dialled.
RetryWithoutDial(d, p) ==
    /\ pending_dials' = [pending_dials EXCEPT ![p] = NextFallback(@)]
    /\ SetDials(d, p, NoAddr)

\* The next fallback is dialled.  One that is no address, or that the swarm refuses,
\* ends the retries.
Retry(d, p) ==
    LET next == NextFallback(pending_dials[p])
        a    == Head(pending_dials[p].fallback_addresses)
    IN  /\ pending_dials' = [pending_dials EXCEPT ![p] = next]
        /\ SetDials(IF CanDial(a) THEN Launched(d, a) ELSE d, p, a)

\* A dial of p failed, after which the dials are d.  The event does not say which dial:
\* the failure counts against the path of the address that the entry of p has.
OutgoingConnectionError(p, d) ==
    LET path == IF p \in DOMAIN pending_dials
                THEN address_path_name(pending_dials[p].current_address)
                ELSE "libp2p-direct"
    IN  /\ network' = record_path_score(network, path, p, FALSE)
        /\ IF p \in DOMAIN pending_dials /\ pending_dials[p].fallback_addresses # <<>>
           THEN Retry(d, p)
           ELSE SetDials(d, p, NoAddr) /\ UNCHANGED pending_dials
        /\ UNCHANGED <<peers, lookups, conns, requests, asked>>

\* The peer of the event is that of the address.
DialFails(a) == dials[a] > 0 /\ OutgoingConnectionError(a.owner, Landed(dials, a))

\* A dial of another part of the swarm fails; it too takes a fallback of the peer.
OtherDialFails(p) == OutgoingConnectionError(p, dials)

Next ==
    \/ \E req \in Requests : dial_peer(req)
    \/ \E invite \in Invites : seed_invite_hints(invite)
    \/ \E p \in Peers : forget_known_peer(p)
    \/ \E id \in DOMAIN lookups : LookupEnds(id)
    \/ \E id \in DOMAIN lookups, invite \in Invites : FoundRecord(id, invite)
    \/ \E p \in Peers, a \in Addrs : DialConnects(p, a)
    \/ \E p \in Callers, relayed \in BOOLEAN : Inbound(p, relayed)
    \/ \E p \in Callers, a \in Addrs : OtherDialConnects(p, a)
    \/ \E p \in Peers : ConnectionClosed(p)
    \/ \E a \in Addrs : DialFails(a)
    \/ \E p \in Callers : OtherDialFails(p)

Spec == Init /\ [][Next]_vars

\* The swarm reports an outcome of every dial, and the DHT ends every query.
DialEnds(a) == DialFails(a) \/ \E p \in Peers : DialConnects(p, a)
QueryEnds(id) == id \in DOMAIN lookups /\ LookupEnds(id)
Fairness ==
    /\ \A a \in Addrs : WF_vars(DialEnds(a))
    /\ \A id \in 1 .. MaxRequests : WF_vars(QueryEnds(id))

FairSpec == Spec /\ Fairness

-----------------------------------------------------------------------------
(* Properties *)

\* As long as a peer has addresses left to try, a dial to it is under way, whose failure
\* will try the next.  The retries stop short only at an address that the swarm does not
\* dial or that does not name the peer.
RetriesAreDriven ==
    \A p \in DOMAIN pending_dials :
        LET entry == pending_dials[p]
        IN  entry.fallback_addresses # <<>> =>
                \/ To(dials, p) # {}
                \/ ~CanDial(entry.current_address)
                \/ entry.current_address.owner # p

\* An entry speaks of the dial that is under way, so that a failure counts against the
\* path that failed and no address is tried twice: unless another request, a relay on the
\* way to someone else, or a failed dial of another part of the swarm had the same peer
\* dialled at the same time.
EntryInStep ==
    \A p \in DOMAIN pending_dials \ mixed :
        /\ \A a \in To(dials, p) : a = pending_dials[p].current_address
        /\ To(dials, p) # {} => pending_dials[p].current_address
                                    \notin Range(pending_dials[p].fallback_addresses)

\* A peer that was dialled for its id or its own address is listed from its first
\* connection on, whichever connection that is: the entry of the dial may be gone by
\* then, or be that of a later request.
DialledPeerIsSurfaced ==
    [][\A p \in Peers : asked[p] \cap {"peer", "addr"} # {} /\ conns'[p] > conns[p]
            => p \in peers']_vars

\* Every request comes to an end: no failure is answered with retries that go round the
\* same addresses, although the records that arrive meanwhile add new ones.
Settles == <>[](dials = [a \in Addrs |-> 0] /\ lookups = <<>>)

=============================================================================
