--------------------------- MODULE DiallingProofs ---------------------------
(***************************************************************************)
(* What dialling keeps for any peers, addresses, books, invites and        *)
(* requests: as long as a peer has addresses left a dial drives its        *)
(* retries, its entry speaks of the dial under way, and a peer that was    *)
(* asked for is listed when it connects.                                   *)
(***************************************************************************)
EXTENDS Dialling, ListsProofs

-----------------------------------------------------------------------------
(* Ranking *)

\* The key of a candidate.
LEMMA RankIsKey ==
    ASSUME NEW net \in NetworkSummary, NEW p \in Peers, NEW a, NEW requested
    PROVE  dial_candidate_rank(net, p, a, requested) \in Keys
<1> DEFINE score == net.path_scores[address_path_name(a)]
<1>1. score \in Scores
  BY DEF NetworkSummary, Paths, address_path_name
<1>2. score.successes - score.failures \in Int
  BY <1>1, DiallingAssumption DEF Scores
<1>3. /\ Boost(score.last_peer_id = p) \in Int
      /\ Boost(net.last_dial_addr[p] = a) \in Int
      /\ Boost(requested = a) \in Int
  BY DEF Boost
<1>4. dial_candidate_rank(net, p, a, requested) =
        <<score.successes - score.failures, Boost(score.last_peer_id = p),
          Boost(net.last_dial_addr[p] = a), Boost(requested = a)>>
  BY DEF dial_candidate_rank
<1> DEFINE k1 == score.successes - score.failures
           k2 == Boost(score.last_peer_id = p)
           k3 == Boost(net.last_dial_addr[p] = a)
           k4 == Boost(requested = a)
<1>5. k1 \in Int /\ k2 \in Int /\ k3 \in Int /\ k4 \in Int
  BY <1>2, <1>3
<1>6. dial_candidate_rank(net, p, a, requested) = <<k1, k2, k3, k4>>
  BY <1>4
<1> HIDE DEF k1, k2, k3, k4
<1> QED
  BY <1>5, <1>6 DEF Keys

\* The candidates are in a strict total order.
LEMMA RanksAreOrder ==
    ASSUME NEW net \in NetworkSummary, NEW p \in Peers, NEW requested,
           NEW a \in Addrs, NEW b \in Addrs, NEW c \in Addrs
    PROVE  /\ ~ranks_above(net, p, requested, a, a)
           /\ ranks_above(net, p, requested, a, b) /\ ranks_above(net, p, requested, b, c)
                => ranks_above(net, p, requested, a, c)
           /\ \/ a = b
              \/ ranks_above(net, p, requested, a, b)
              \/ ranks_above(net, p, requested, b, a)
<1> DEFINE key(x) == dial_candidate_rank(net, p, x, requested)
<1>1. \A x, y \in Addrs : ranks_above(net, p, requested, x, y)
                           <=> Above(key(x), key(y)) \/ (key(x) = key(y) /\ Place[x] < Place[y])
  BY DEF ranks_above, Above
<1>2. \A x \in Addrs : key(x) \in Keys
  BY RankIsKey
<1>3. \A x \in Addrs : Place[x] \in Nat
  BY DiallingAssumption
<1>4. Place[a] = Place[b] => a = b
  BY DiallingAssumption DEF IsInjective
<1> HIDE DEF key
<1>5. /\ ~Above(key(a), key(a))
      /\ Above(key(a), key(b)) /\ Above(key(b), key(c)) => Above(key(a), key(c))
      /\ key(a) = key(b) \/ Above(key(a), key(b)) \/ Above(key(b), key(a))
  BY <1>2, AboveIsOrder
<1> QED
  BY <1>1, <1>3, <1>4, <1>5

\* The ranking of a peer's addresses holds each candidate once.
LEMMA RankedOnce ==
    ASSUME NEW net \in NetworkSummary, NEW p \in Peers,
           NEW requested \in Addrs \cup {NoAddr},
           NEW ranked, ranked = rank_known_peer_addresses(net, p, requested)
    PROVE  ranked \in Seq(Addrs) /\ IsInjective(ranked)
<1> DEFINE S == (net.addresses[p] \cup {net.last_dial_addr[p], requested}) \ {NoAddr}
           R == {ab \in S \X S : ranks_above(net, p, requested, ab[1], ab[2])}
<1>1. S \in SUBSET Addrs /\ IsFiniteSet(S)
  <2>1. S \in SUBSET Addrs
    BY DEF NetworkSummary
  <2> QED
    BY <2>1, DiallingAssumption, FS_Subset
<1>2. \A a, b \in S : <<a, b>> \in R <=> ranks_above(net, p, requested, a, b)
  OBVIOUS
<1>3. ranked = Sorted(S, R)
  BY DEF rank_known_peer_addresses
<1> HIDE DEF S, R
<1>4. ranked \in Seq(S) /\ IsInjective(ranked)
  <2>1. \A a \in S : <<a, a>> \notin R
    BY <1>1, <1>2, RanksAreOrder
  <2>2. \A a, b, c \in S : <<a, b>> \in R /\ <<b, c>> \in R => <<a, c>> \in R
    BY <1>1, <1>2, RanksAreOrder
  <2>3. \A a, b \in S : a = b \/ <<a, b>> \in R \/ <<b, a>> \in R
    BY <1>1, <1>2, RanksAreOrder
  <2> QED
    BY <1>1, <1>3, <2>1, <2>2, <2>3, SortedOnce
<1> QED
  BY <1>1, <1>4

-----------------------------------------------------------------------------
(* What a request is resolved to *)

LEMMA HeadAndTail ==
    ASSUME NEW s \in Seq(Addrs), s # <<>>, IsInjective(s)
    PROVE  /\ Head(s) \in Addrs /\ Tail(s) \in Seq(Addrs)
           /\ Head(s) \notin Range(Tail(s)) /\ IsInjective(Tail(s))
<1>1. Head(s) = s[1] /\ Head(s) \in Addrs /\ Tail(s) \in Seq(Addrs) /\ Len(s) \in Nat \ {0}
  OBVIOUS
<1>2. DOMAIN s = 1 .. Len(s) /\ DOMAIN Tail(s) = 1 .. (Len(s) - 1)
  BY <1>1
<1>3. \A i \in DOMAIN Tail(s) : Tail(s)[i] = s[i + 1] /\ i + 1 \in DOMAIN s /\ i + 1 # 1
  BY <1>1, <1>2
<1>4. \A i, j \in DOMAIN s : s[i] = s[j] => i = j
  BY DEF IsInjective
<1>5. \A i \in DOMAIN Tail(s) : Tail(s)[i] # Head(s)
  BY <1>1, <1>2, <1>3, <1>4
<1>6. ASSUME NEW i \in DOMAIN Tail(s), NEW j \in DOMAIN Tail(s), Tail(s)[i] = Tail(s)[j]
      PROVE  i = j
  <2>1. i + 1 = j + 1
    BY <1>3, <1>4, <1>6
  <2> QED
    BY <1>1, <1>2, <2>1
<1>7. Head(s) \notin Range(Tail(s))
  BY <1>5, Zenon DEF Range
<1>8. IsInjective(Tail(s))
  BY <1>6, Zenon DEF IsInjective
<1> QED
  BY <1>1, <1>7, <1>8

\* A target: an address to begin with, or none, and others to go on with, none of them
\* twice.
IsTarget(target) ==
    /\ target.peer \in Peers \cup {NoPeer}
    /\ target.primary \in Addrs \cup {NoAddr}
    /\ target.fallbacks \in Seq(Addrs)
    /\ target.primary \notin Range(target.fallbacks)
    /\ IsInjective(target.fallbacks)

LEMMA NoFallbacks ==
    ASSUME NEW p \in Peers \cup {NoPeer}, NEW a \in Addrs \cup {NoAddr}
    PROVE  IsTarget(Target(p, a, <<>>))
<1>1. Range(<<>>) = {} /\ IsInjective(<<>>) /\ <<>> \in Seq(Addrs)
  BY DEF Range, IsInjective
<1> QED
  BY <1>1 DEF IsTarget, Target

LEMMA RankedIsTarget ==
    ASSUME NEW net \in NetworkSummary, NEW p \in Peers,
           NEW requested \in Addrs \cup {NoAddr}
    PROVE  IsTarget(RankedTarget(net, p, requested))
           /\ RankedTarget(net, p, requested).peer = p
<1> DEFINE ranked == rank_known_peer_addresses(net, p, requested)
<1>1. ranked \in Seq(Addrs) /\ IsInjective(ranked)
  BY RankedOnce
<1>2. RankedTarget(net, p, requested) =
        IF ranked = <<>> THEN Target(p, NoAddr, <<>>) ELSE Target(p, Head(ranked), Tail(ranked))
  BY DEF RankedTarget
<1> HIDE DEF ranked
<1>3. CASE ranked = <<>>
  BY <1>2, <1>3, NoFallbacks DEF Target
<1>4. CASE ranked # <<>>
  <2>1. /\ Head(ranked) \in Addrs /\ Tail(ranked) \in Seq(Addrs)
        /\ Head(ranked) \notin Range(Tail(ranked)) /\ IsInjective(Tail(ranked))
    BY <1>1, <1>4, HeadAndTail
  <2> QED
    BY <1>2, <1>4, <2>1 DEF Target, IsTarget
<1> QED
  BY <1>3, <1>4

\* A request for a peer or for an address.
IsRequest(req) == \/ req.kind = "peer" /\ req.peer \in Peers
                  \/ req.kind = "addr" /\ req.addr \in Addrs
                  \/ req.kind = "name"

LEMMA FirstPeerTyped ==
    ASSUME NEW a \in Addrs
    PROVE  multiaddr_peer_id(a) \in Peers \cup {NoPeer}
  BY DiallingAssumption DEF multiaddr_peer_id, IsCircuit

LEMMA Resolved ==
    ASSUME NEW net \in NetworkSummary, NEW req, IsRequest(req),
           NEW target, target = resolve_ranked_dial_target(net, req)
    PROVE  /\ IsTarget(target)
           /\ req.kind = "peer" => target.peer = req.peer
           /\ req.kind = "addr" => target.peer = multiaddr_peer_id(req.addr)
           /\ req.kind = "name" => target.primary = NoAddr
<1> DEFINE a == IF req.kind = "addr" THEN req.addr ELSE NoAddr
           p == CASE req.kind = "peer" -> req.peer
                  [] req.kind = "addr" -> multiaddr_peer_id(req.addr)
                  [] req.kind = "name" -> NoPeer
<1>1. net.known_peers \subseteq Peers
  BY DEF NetworkSummary
<1>2. a \in Addrs \cup {NoAddr} /\ p \in Peers \cup {NoPeer}
  BY FirstPeerTyped DEF IsRequest
<1>3. /\ req.kind = "peer" => p = req.peer
      /\ req.kind = "addr" => p = multiaddr_peer_id(req.addr)
      /\ req.kind = "name" => p = NoPeer /\ a = NoAddr
  OBVIOUS
<1>4. target = IF p \in net.known_peers THEN RankedTarget(net, p, a) ELSE Target(p, a, <<>>)
  BY DEF resolve_ranked_dial_target
<1> HIDE DEF a, p
<1>5. IsTarget(target) /\ target.peer = p
  BY <1>1, <1>2, <1>4, RankedIsTarget, NoFallbacks DEF Target
<1>6. p = NoPeer => target.primary = a
  BY <1>1, <1>4, DiallingAssumption DEF Target
<1> QED
  BY <1>3, <1>5, <1>6

-----------------------------------------------------------------------------
(* The invariant of the entries *)

\* The address of an entry and the ones it has left are all different.
TriesEachOnce ==
    \A p \in DOMAIN pending_dials :
        /\ pending_dials[p].current_address
               \notin Range(pending_dials[p].fallback_addresses)
        /\ IsInjective(pending_dials[p].fallback_addresses)

\* The part of TypeOK that is about entries and dials.
DialsTyped ==
    /\ DOMAIN pending_dials \subseteq Peers
    /\ \A p \in DOMAIN pending_dials : pending_dials[p] \in PendingDial
    /\ dials \in [Addrs -> Nat]
    /\ mixed \subseteq Peers

\* The inductive invariant behind RetriesAreDriven and EntryInStep.
EntriesInv == DialsTyped /\ RetriesAreDriven /\ TriesEachOnce /\ EntryInStep

\* Entering an address in the swarm's dials, and taking one out.
LEMMA LaunchedFacts ==
    ASSUME NEW d \in [Addrs -> Nat], NEW a \in Addrs
    PROVE  /\ Launched(d, a) \in [Addrs -> Nat]
           /\ \A b \in Addrs : d[b] <= Launched(d, a)[b]
           /\ Launched(d, a)[a] > 0
<1> DEFINE more == {a} \cup (IF NeedsHop(d, a) THEN {Hop[a.site]} ELSE {})
<1>1. Launched(d, a) = [b \in Addrs |-> d[b] + Boost(b \in more)]
  BY DEF Launched
<1>2. a \in more
  OBVIOUS
<1> HIDE DEF more
<1>3. \A b \in Addrs : Launched(d, a)[b] \in {d[b], d[b] + 1}
  BY <1>1 DEF Boost
<1>4. Launched(d, a)[a] = d[a] + 1
  BY <1>1, <1>2 DEF Boost
<1>5. Launched(d, a) \in [Addrs -> Nat]
  BY <1>1, <1>3
<1> QED
  BY <1>3, <1>4, <1>5

LEMMA LandedFacts ==
    ASSUME NEW d \in [Addrs -> Nat], NEW a \in Addrs, d[a] > 0
    PROVE  /\ Landed(d, a) \in [Addrs -> Nat]
           /\ \A b \in Addrs : Landed(d, a)[b] <= d[b]
           /\ \A b \in Addrs \ {a} : Landed(d, a)[b] = d[b]
  BY DEF Landed

\* A peer that is not marked is dialled by its own entry alone, if that started the dial,
\* and otherwise only as it was before.
LEMMA Unmixed ==
    ASSUME dials \in [Addrs -> Nat], NEW d \in [Addrs -> Nat], NEW p,
           NEW own \in Addrs \cup {NoAddr}, SetDials(d, p, own),
           NEW q \in Peers, q \notin mixed'
    PROVE  /\ dials' = d /\ mixed' \subseteq Peers
           /\ q = p /\ own # NoAddr => To(d, q) \subseteq {own}
           /\ q # p \/ own = NoAddr =>
                 \A a \in To(d, q) : a \in To(dials, q) /\ q \notin mixed
<1>1. dials' = d /\ mixed' \subseteq Peers
  BY DEF SetDials
<1>2. /\ ~(q \in mixed /\ To(d, q) # {})
      /\ ~(q = p /\ own # NoAddr /\ To(d, q) \ {own} # {})
      /\ ~(\E a \in To(d, q) : d[a] > dials[a] /\ (q # p \/ a # own))
  BY DEF SetDials
<1>3. ASSUME q # p \/ own = NoAddr, NEW a \in To(d, q)
      PROVE  a \in To(dials, q) /\ q \notin mixed
  <2>1. a \in Addrs /\ a.owner = q /\ d[a] > 0 /\ a # NoAddr
    BY <1>3, DiallingAssumption DEF To
  <2>2. ~(d[a] > dials[a])
    BY <1>2, <1>3, <2>1
  <2>3. dials[a] > 0
    BY <2>1, <2>2
  <2> QED
    BY <1>2, <1>3, <2>1, <2>3 DEF To
<1> QED
  BY <1>1, <1>2, <1>3

\* An entry removed.
LEMMA WithoutFacts ==
    ASSUME NEW f, NEW k
    PROVE  /\ DOMAIN Without(f, k) = DOMAIN f \ {k}
           /\ \A x \in DOMAIN f \ {k} : Without(f, k)[x] = f[x]
  BY DEF Without

-----------------------------------------------------------------------------
(* What keeps the invariant of the entries *)

\* A dial that begins drives the entry it makes, and no other entry loses a dial by it.
LEMMA DialKeepsEntries ==
    ASSUME EntriesInv, NEW target, IsTarget(target), CanDial(target.primary),
           SetDials(Launched(dials, target.primary), target.peer, target.primary),
           pending_dials' =
              IF target.peer = NoPeer THEN pending_dials
              ELSE With(pending_dials, target.peer,
                        [current_address    |-> target.primary,
                         fallback_addresses |-> target.fallbacks])
    PROVE  EntriesInv'
<1> DEFINE P == target.peer
           A == target.primary
           F == target.fallbacks
           d == Launched(dials, A)
           entry == [current_address |-> A, fallback_addresses |-> F]
<1>1. /\ A \in Addrs /\ A # NoAddr /\ F \in Seq(Addrs) /\ P \in Peers \cup {NoPeer}
      /\ A \notin Range(F) /\ IsInjective(F) /\ dials \in [Addrs -> Nat]
  BY DEF IsTarget, CanDial, CanParse, EntriesInv, DialsTyped
<1>2. entry \in PendingDial /\ entry.current_address = A /\ entry.fallback_addresses = F
  BY <1>1 DEF PendingDial
<1>3. /\ d \in [Addrs -> Nat] /\ \A b \in Addrs : dials[b] <= d[b]
      /\ d[A] > 0
  BY <1>1, LaunchedFacts
<1>4. SetDials(d, P, A) /\ dials' = d /\ mixed' \subseteq Peers
  BY DEF SetDials
<1>5. pending_dials' = IF P = NoPeer THEN pending_dials ELSE With(pending_dials, P, entry)
  OBVIOUS
<1>6. DOMAIN pending_dials \subseteq Peers /\ NoPeer \notin Peers
      /\ \A q \in DOMAIN pending_dials : pending_dials[q] \in PendingDial
  BY DiallingAssumption DEF EntriesInv, DialsTyped
<1> HIDE DEF P, A, F, d, entry
<1>7. /\ DOMAIN pending_dials' \subseteq Peers
      /\ \A q \in DOMAIN pending_dials' :
            \/ q = P /\ pending_dials'[q] = entry
            \/ q # P /\ q \in DOMAIN pending_dials /\ pending_dials'[q] = pending_dials[q]
  <2>1. CASE P = NoPeer
    BY <1>5, <1>6, <2>1
  <2>2. CASE P # NoPeer
    <3>1. /\ DOMAIN pending_dials' = DOMAIN pending_dials \cup {P}
          /\ pending_dials'[P] = entry
          /\ \A q \in DOMAIN pending_dials : q # P => pending_dials'[q] = pending_dials[q]
      BY <1>5, <2>2 DEF With
    <3> QED
      BY <1>1, <1>6, <2>2, <3>1
  <2> QED
    BY <2>1, <2>2
<1>8. DialsTyped'
  BY <1>2, <1>3, <1>4, <1>6, <1>7 DEF DialsTyped
<1>9. \A q \in Peers : To(dials, q) \subseteq To(d, q)
  BY <1>1, <1>3 DEF To
<1>10. RetriesAreDriven'
  <2> SUFFICES ASSUME NEW q \in DOMAIN pending_dials',
                      pending_dials'[q].fallback_addresses # <<>>,
                      CanDial(pending_dials'[q].current_address),
                      pending_dials'[q].current_address.owner = q
               PROVE  To(d, q) # {}
    BY <1>4, Zenon DEF RetriesAreDriven, CanDial, CanParse
  <2>1. CASE q = P /\ pending_dials'[q] = entry
    BY <1>1, <1>2, <1>3, <2>1 DEF To
  <2>2. CASE q # P /\ q \in DOMAIN pending_dials /\ pending_dials'[q] = pending_dials[q]
    BY <1>6, <1>9, <2>2 DEF EntriesInv, RetriesAreDriven
  <2> QED
    BY <1>7, <2>1, <2>2
<1>11. TriesEachOnce'
  BY <1>1, <1>2, <1>7 DEF EntriesInv, TriesEachOnce
<1>12. EntryInStep'
  <2> SUFFICES ASSUME NEW q \in DOMAIN pending_dials' \ mixed', NEW b \in To(d, q)
               PROVE  b = pending_dials'[q].current_address
    BY <1>4, <1>11 DEF EntryInStep, TriesEachOnce
  <2>1. q \in Peers
    BY <1>7
  <2>2. /\ q = P /\ A # NoAddr => To(d, q) \subseteq {A}
        /\ q # P \/ A = NoAddr =>
              \A a \in To(d, q) : a \in To(dials, q) /\ q \notin mixed
    BY <1>1, <1>3, <1>4, <2>1, Unmixed
  <2>3. CASE q = P /\ pending_dials'[q] = entry
    BY <1>1, <1>2, <2>2, <2>3
  <2>4. CASE q # P /\ q \in DOMAIN pending_dials /\ pending_dials'[q] = pending_dials[q]
    BY <2>2, <2>4 DEF EntriesInv, EntryInStep
  <2> QED
    BY <1>7, <2>3, <2>4
<1> QED
  BY <1>8, <1>10, <1>11, <1>12 DEF EntriesInv

\* A connection takes the entry of its peer with it, and the dial that made it if there
\* was one; dials of other peers go on.
LEMMA ConnectKeepsEntries ==
    ASSUME EntriesInv, NEW p \in Peers, pending_dials' = Without(pending_dials, p),
           \/ UNCHANGED <<dials, mixed>>
           \/ \E a \in Addrs : /\ dials[a] > 0 /\ a.owner \in {p, NoPeer}
                               /\ SetDials(Landed(dials, a), NoPeer, NoAddr)
    PROVE  EntriesInv'
<1>1. /\ DOMAIN pending_dials' = DOMAIN pending_dials \ {p}
      /\ \A q \in DOMAIN pending_dials' : pending_dials'[q] = pending_dials[q]
  BY WithoutFacts
<1>2. DOMAIN pending_dials \subseteq Peers /\ NoPeer \notin Peers
      /\ dials \in [Addrs -> Nat] /\ mixed \subseteq Peers
      /\ \A q \in DOMAIN pending_dials : pending_dials[q] \in PendingDial
  BY DiallingAssumption DEF EntriesInv, DialsTyped
<1> DEFINE OthersGoOn ==
             /\ dials' \in [Addrs -> Nat] /\ mixed' \subseteq Peers
             /\ \A q \in Peers \ {p} : To(dials, q) \subseteq To(dials', q)
             /\ \A q \in Peers \ mixed' :
                   \A b \in To(dials', q) : b \in To(dials, q) /\ q \notin mixed
<1>3. OthersGoOn
  <2>1. CASE UNCHANGED <<dials, mixed>>
    BY <1>2, <2>1
  <2>2. ASSUME NEW a \in Addrs, dials[a] > 0, a.owner \in {p, NoPeer},
               SetDials(Landed(dials, a), NoPeer, NoAddr)
        PROVE  OthersGoOn
    <3> DEFINE d == Landed(dials, a)
    <3>1. /\ d \in [Addrs -> Nat]
          /\ \A b \in Addrs \ {a} : d[b] = dials[b]
      BY <1>2, <2>2, LandedFacts
    <3>2. dials' = d /\ mixed' \subseteq Peers /\ SetDials(d, NoPeer, NoAddr)
      BY <2>2 DEF SetDials
    <3> HIDE DEF d
    <3>3. \A q \in Peers \ {p} : To(dials, q) \subseteq To(d, q)
      BY <1>2, <2>2, <3>1 DEF To
    <3>4. \A q \in Peers \ mixed' :
            \A b \in To(d, q) : b \in To(dials, q) /\ q \notin mixed
      BY <1>2, <3>1, <3>2, Unmixed
    <3> QED
      BY <3>1, <3>2, <3>3, <3>4
  <2> QED
    BY <2>1, <2>2
<1>4. DialsTyped'
  BY <1>1, <1>2, <1>3 DEF DialsTyped
<1>5. RetriesAreDriven'
  <2> SUFFICES ASSUME NEW q \in DOMAIN pending_dials',
                      pending_dials'[q].fallback_addresses # <<>>,
                      CanDial(pending_dials'[q].current_address),
                      pending_dials'[q].current_address.owner = q
               PROVE  To(dials', q) # {}
    BY Zenon DEF RetriesAreDriven, CanDial, CanParse
  <2> QED
    BY <1>1, <1>2, <1>3 DEF EntriesInv, RetriesAreDriven
<1>6. TriesEachOnce'
  BY <1>1 DEF EntriesInv, TriesEachOnce
<1>7. EntryInStep'
  <2> SUFFICES ASSUME NEW q \in DOMAIN pending_dials' \ mixed', NEW b \in To(dials', q)
               PROVE  b = pending_dials'[q].current_address
    BY <1>6 DEF EntryInStep, TriesEachOnce
  <2> QED
    BY <1>1, <1>2, <1>3 DEF EntriesInv, EntryInStep
<1> QED
  BY <1>4, <1>5, <1>6, <1>7 DEF EntriesInv

\* A failure is answered with a dial of the next address: the entry moves to it, and is
\* dialled alone unless it is marked.
LEMMA RetryKeepsEntries ==
    ASSUME EntriesInv, NEW P \in DOMAIN pending_dials,
           pending_dials[P].fallback_addresses # <<>>,
           NEW d1 \in [Addrs -> Nat],
           \A b \in Addrs : b.owner # P => d1[b] = dials[b],
           Retry(d1, P)
    PROVE  EntriesInv'
<1> DEFINE entry == pending_dials[P]
           A == Head(entry.fallback_addresses)
           F == Tail(entry.fallback_addresses)
           d == IF CanDial(A) THEN Launched(d1, A) ELSE d1
<1>1. /\ DOMAIN pending_dials \subseteq Peers /\ P \in DOMAIN pending_dials
      /\ dials \in [Addrs -> Nat] /\ mixed \subseteq Peers
      /\ \A q \in DOMAIN pending_dials : pending_dials[q] \in PendingDial
  BY DEF EntriesInv, DialsTyped
<1>2. A \in Addrs /\ F \in Seq(Addrs) /\ A \notin Range(F) /\ IsInjective(F) /\ A # NoAddr
  <2>1. entry.fallback_addresses \in Seq(Addrs) /\ entry.fallback_addresses # <<>>
    BY <1>1 DEF PendingDial
  <2>2. IsInjective(entry.fallback_addresses)
    BY <1>1 DEF EntriesInv, TriesEachOnce
  <2>3. A \in Addrs /\ F \in Seq(Addrs) /\ A \notin Range(F) /\ IsInjective(F)
    BY <2>1, <2>2, HeadAndTail
  <2> QED
    BY <2>3, DiallingAssumption
<1>4. /\ d \in [Addrs -> Nat] /\ \A b \in Addrs : d1[b] <= d[b]
      /\ CanDial(A) => d[A] > 0
  <2> HIDE DEF A
  <2>1. CASE CanDial(A)
    BY <1>2, <2>1, LaunchedFacts
  <2>2. CASE ~CanDial(A)
    BY <2>2
  <2> QED
    BY <2>1, <2>2
<1>5. /\ pending_dials' = [pending_dials EXCEPT ![P] = NextFallback(pending_dials[P])]
      /\ SetDials(d, P, A)
  BY DEF Retry
<1>6. NextFallback(pending_dials[P]) = [current_address |-> A, fallback_addresses |-> F]
  BY DEF NextFallback
<1>7. dials' = d /\ mixed' \subseteq Peers
  BY <1>5 DEF SetDials
<1>8. /\ DOMAIN pending_dials' = DOMAIN pending_dials
      /\ pending_dials'[P].current_address = A
      /\ pending_dials'[P].fallback_addresses = F
      /\ pending_dials'[P] \in PendingDial
      /\ \A q \in DOMAIN pending_dials : q # P => pending_dials'[q] = pending_dials[q]
  <2> HIDE DEF A, F, entry
  <2> QED
    BY <1>1, <1>2, <1>5, <1>6 DEF PendingDial
<1>9. \A q \in Peers : q # P => To(dials, q) \subseteq To(d, q)
  <2> HIDE DEF d
  <2> SUFFICES ASSUME NEW q \in Peers, q # P, NEW b \in To(dials, q)
               PROVE  b \in To(d, q)
    OBVIOUS
  <2>1. b \in Addrs /\ b.owner = q /\ dials[b] > 0 /\ d1[b] = dials[b]
    BY DEF To
  <2>2. d[b] > 0
    BY <1>1, <1>4, <2>1
  <2> QED
    BY <2>1, <2>2 DEF To
<1> HIDE DEF A, F, d, entry
<1>10. DialsTyped'
  BY <1>1, <1>4, <1>7, <1>8 DEF DialsTyped
<1>11. RetriesAreDriven'
  <2> SUFFICES ASSUME NEW q \in DOMAIN pending_dials',
                      pending_dials'[q].fallback_addresses # <<>>,
                      CanDial(pending_dials'[q].current_address),
                      pending_dials'[q].current_address.owner = q
               PROVE  To(d, q) # {}
    BY <1>7, Zenon DEF RetriesAreDriven, CanDial, CanParse
  <2>1. CASE q = P
    BY <1>2, <1>4, <1>8, <2>1 DEF To
  <2>2. CASE q # P
    BY <1>1, <1>8, <1>9, <2>2 DEF EntriesInv, RetriesAreDriven
  <2> QED
    BY <2>1, <2>2
<1>12. TriesEachOnce'
  BY <1>2, <1>8 DEF EntriesInv, TriesEachOnce
<1>13. EntryInStep'
  <2> SUFFICES ASSUME NEW q \in DOMAIN pending_dials' \ mixed', NEW b \in To(d, q)
               PROVE  b = pending_dials'[q].current_address
    BY <1>7, <1>12 DEF EntryInStep, TriesEachOnce
  <2>1. q \in Peers
    BY <1>1, <1>8
  <2>2. /\ q = P /\ A # NoAddr => To(d, q) \subseteq {A}
        /\ q # P \/ A = NoAddr =>
              \A x \in To(d, q) : x \in To(dials, q) /\ q \notin mixed
    BY <1>1, <1>2, <1>4, <1>5, <2>1, Unmixed
  <2>3. CASE q = P
    BY <1>2, <1>8, <2>2, <2>3
  <2>4. CASE q # P
    BY <1>8, <2>2, <2>4 DEF EntriesInv, EntryInStep
  <2> QED
    BY <2>3, <2>4
<1> QED
  BY <1>10, <1>11, <1>12, <1>13 DEF EntriesInv

\* A failure that nothing is left to try after.
LEMMA GiveUpKeepsEntries ==
    ASSUME EntriesInv, NEW P, NEW d \in [Addrs -> Nat],
           \A b \in Addrs : b.owner # P => d[b] = dials[b],
           ~(P \in DOMAIN pending_dials /\ pending_dials[P].fallback_addresses # <<>>),
           SetDials(d, P, NoAddr), UNCHANGED pending_dials
    PROVE  EntriesInv'
<1>1. /\ DOMAIN pending_dials \subseteq Peers
      /\ dials \in [Addrs -> Nat] /\ mixed \subseteq Peers
      /\ \A q \in DOMAIN pending_dials : pending_dials[q] \in PendingDial
  BY DEF EntriesInv, DialsTyped
<1>3. SetDials(d, P, NoAddr) /\ dials' = d /\ mixed' \subseteq Peers
  BY DEF SetDials
<1>4. \A q \in Peers : q # P => To(dials, q) \subseteq To(d, q)
  BY DEF To
<1>5. DialsTyped'
  BY <1>1, <1>3 DEF DialsTyped
<1>6. \A q \in DOMAIN pending_dials : pending_dials[q].fallback_addresses # <<>> => q # P
  OBVIOUS
<1>7. RetriesAreDriven'
  <2> SUFFICES ASSUME NEW q \in DOMAIN pending_dials,
                      pending_dials[q].fallback_addresses # <<>>,
                      CanDial(pending_dials[q].current_address),
                      pending_dials[q].current_address.owner = q
               PROVE  To(d, q) # {}
    BY <1>3, Zenon DEF RetriesAreDriven, CanDial, CanParse
  <2> QED
    BY <1>1, <1>4, <1>6 DEF EntriesInv, RetriesAreDriven
<1>8. TriesEachOnce'
  BY DEF EntriesInv, TriesEachOnce
<1>9. EntryInStep'
  <2> SUFFICES ASSUME NEW q \in DOMAIN pending_dials \ mixed', NEW b \in To(d, q)
               PROVE  b = pending_dials[q].current_address
    BY <1>3, <1>8 DEF EntryInStep, TriesEachOnce
  <2>1. q \in Peers
    BY <1>1
  <2>2. \A x \in To(d, q) : x \in To(dials, q) /\ q \notin mixed
    BY <1>1, <1>3, <2>1, Unmixed
  <2> QED
    BY <2>2 DEF EntriesInv, EntryInStep
<1> QED
  BY <1>5, <1>7, <1>8, <1>9 DEF EntriesInv

-----------------------------------------------------------------------------
(* The peer book and the scores *)

\* The book stays a book, and no peer leaves it.
Keeps(net, next) == next \in NetworkSummary /\ net.known_peers \subseteq next.known_peers

LEMMA KeepsTwice ==
    ASSUME NEW net, NEW mid, NEW next, Keeps(net, mid), Keeps(mid, next)
    PROVE  Keeps(net, next)
  BY DEF Keeps

LEMMA ScoreSaturates ==
    ASSUME NEW n \in 0 .. MaxScore
    PROVE  saturating_add(n) \in 0 .. MaxScore
<1>1. MaxScore \in Nat
  BY DiallingAssumption
<1>2. \E x \in {n + 1, MaxScore} : \A y \in {n + 1, MaxScore} : x <= y
  BY <1>1
<1>3. /\ saturating_add(n) \in {n + 1, MaxScore}
      /\ \A y \in {n + 1, MaxScore} : saturating_add(n) <= y
  BY <1>2 DEF saturating_add, Min
<1> QED
  BY <1>1, <1>3

LEMMA ScoreKeeps ==
    ASSUME NEW net \in NetworkSummary, NEW path \in Paths,
           NEW p \in Peers \cup {NoPeer}, NEW success \in BOOLEAN
    PROVE  Keeps(net, record_path_score(net, path, p, success))
<1> DEFINE old == net.path_scores[path]
           score == [successes    |-> IF success THEN saturating_add(old.successes)
                                      ELSE old.successes,
                     failures     |-> IF success THEN old.failures
                                      ELSE saturating_add(old.failures),
                     last_peer_id |-> p]
<1>1. old \in Scores /\ net.path_scores \in [Paths -> Scores]
  BY DEF NetworkSummary
<1>2. old.successes \in 0 .. MaxScore /\ old.failures \in 0 .. MaxScore
  BY <1>1 DEF Scores
<1>3. /\ saturating_add(old.successes) \in 0 .. MaxScore
      /\ saturating_add(old.failures) \in 0 .. MaxScore
  BY <1>2, ScoreSaturates
<1>4. score \in Scores
  BY <1>2, <1>3 DEF Scores
<1>5. record_path_score(net, path, p, success) =
        [net EXCEPT !.path_scores = [net.path_scores EXCEPT ![path] = score]]
  BY DEF record_path_score, NetworkSummary
<1> HIDE DEF score, old
<1>6. [net.path_scores EXCEPT ![path] = score] \in [Paths -> Scores]
  BY <1>1, <1>4
<1> QED
  BY <1>5, <1>6 DEF NetworkSummary, Keeps

\* What is saved for a peer is an address.
LEMMA ShareableTyped ==
    ASSUME NEW a \in Addrs \cup {NoAddr}, NEW p \in Peers
    PROVE  shareable_address(a, p) \in Addrs \cup {NoAddr}
  BY InputsAssumption DEF shareable_address

LEMMA RememberKeeps ==
    ASSUME NEW net \in NetworkSummary, NEW p \in Peers
    PROVE  /\ Keeps(net, Remember(net, p))
           /\ p \in Remember(net, p).known_peers
           /\ Remember(net, p).addresses = net.addresses
           /\ Remember(net, p).last_dial_addr = net.last_dial_addr
  BY DEF NetworkSummary, Keeps, Remember

LEMMA KnownPeerKeeps ==
    ASSUME NEW net \in NetworkSummary, NEW p \in Peers, NEW a \in Addrs \cup {NoAddr}
    PROVE  Keeps(net, update_known_peer(net, p, a))
<1> DEFINE b == shareable_address(a, p)
           mid == [net EXCEPT !.known_peers = @ \cup {p}]
<1>1. b \in Addrs \cup {NoAddr}
  BY ShareableTyped
<1>2. Keeps(net, mid)
  BY DEF NetworkSummary, Keeps
<1>3. CASE p \in net.ignored_peer_ids
  BY <1>3 DEF update_known_peer, Keeps
<1>4. CASE p \notin net.ignored_peer_ids
  <2>1. update_known_peer(net, p, a) = AddAddress(mid, p, b)
    BY <1>4 DEF update_known_peer
  <2>2. mid \in NetworkSummary
    BY <1>2 DEF Keeps
  <2> HIDE DEF mid, b
  <2>3. CASE b = NoAddr
    BY <1>2, <2>1, <2>3 DEF AddAddress
  <2>4. CASE b # NoAddr
    <3>1. Keeps(mid, AddAddress(mid, p, b))
      BY <1>1, <2>2, <2>4 DEF NetworkSummary, Keeps, AddAddress
    <3> QED
      BY <1>2, <2>1, <3>1, KeepsTwice
  <2> QED
    BY <2>3, <2>4
<1> QED
  BY <1>3, <1>4

\* The addresses of an invite are saved, as they are or completed, and one of them or
\* the one of before is the last dialled.
LEMMA SavedKeeps ==
    ASSUME NEW net \in NetworkSummary, NEW p \in Peers, NEW more \in SUBSET Addrs,
           NEW last \in Addrs \cup {NoAddr}
    PROVE  Keeps(net, [net EXCEPT !.addresses[p] = @ \cup more, !.last_dial_addr[p] = last])
  BY DEF NetworkSummary, Keeps

LEMMA IsInvite ==
    ASSUME NEW invite \in Invites
    PROVE  /\ invite.peer \in Peers /\ invite.addrs \in Seq(Addrs)
           /\ Range(invite.addrs) \in SUBSET Addrs
           /\ invite.addrs # <<>> => /\ Head(invite.addrs) \in Addrs
                                     /\ invite.addrs[Len(invite.addrs)] \in Addrs
<1>1. invite.peer \in Peers /\ invite.addrs \in Seq(Addrs)
  BY InputsAssumption
<1>2. Range(invite.addrs) \in SUBSET Addrs
  BY <1>1 DEF Range
<1>3. ASSUME invite.addrs # <<>>
      PROVE  Head(invite.addrs) \in Addrs /\ invite.addrs[Len(invite.addrs)] \in Addrs
  <2>1. Len(invite.addrs) \in Nat /\ Len(invite.addrs) > 0
    BY <1>1, <1>3
  <2> QED
    BY <1>1, <1>3, <2>1
<1> QED
  BY <1>1, <1>2, <1>3

LEMMA SeedKeeps ==
    ASSUME NEW net \in NetworkSummary, NEW invite \in Invites
    PROVE  /\ Keeps(net, seed_rendezvous_invite(net, invite))
           /\ Keeps(net, InviteHints(net, invite))
<1> DEFINE p == invite.peer
           addrs == invite.addrs
           seeded == Remember(net, p)
           normalized(a) == IF shareable_address(a, p) # NoAddr
                            THEN shareable_address(a, p) ELSE a
<1>1. /\ p \in Peers /\ addrs \in Seq(Addrs) /\ Range(addrs) \in SUBSET Addrs
      /\ addrs # <<>> => Head(addrs) \in Addrs /\ addrs[Len(addrs)] \in Addrs
  BY IsInvite
<1>2. Keeps(net, seeded) /\ seeded \in NetworkSummary
  BY <1>1, RememberKeeps DEF Keeps
<1>3. seeded.last_dial_addr[p] \in Addrs \cup {NoAddr}
  BY <1>1, <1>2 DEF NetworkSummary
<1>4. \A a \in Addrs : normalized(a) \in Addrs
  BY <1>1, ShareableTyped
<1>5. Keeps(net, seed_rendezvous_invite(net, invite))
  <2> DEFINE more == {normalized(a) : a \in Range(addrs)}
             last == IF addrs # <<>> THEN normalized(addrs[Len(addrs)])
                     ELSE seeded.last_dial_addr[p]
  <2>1. more \in SUBSET Addrs
    BY <1>1, <1>4
  <2>2. last \in Addrs \cup {NoAddr}
    <3> HIDE DEF seeded, normalized, addrs, p
    <3> QED
      BY <1>1, <1>3, <1>4
  <2>3. seed_rendezvous_invite(net, invite) =
          [seeded EXCEPT !.addresses[p] = @ \cup more, !.last_dial_addr[p] = last]
    BY DEF seed_rendezvous_invite
  <2> HIDE DEF seeded, more, last, p
  <2> QED
    BY <1>1, <1>2, <2>1, <2>2, <2>3, SavedKeeps, KeepsTwice
<1>6. Keeps(net, InviteHints(net, invite))
  <2> DEFINE more == Range(addrs)
             last == IF seeded.last_dial_addr[p] = NoAddr /\ addrs # <<>> THEN Head(addrs)
                     ELSE seeded.last_dial_addr[p]
  <2>1. last \in Addrs \cup {NoAddr}
    <3> HIDE DEF seeded, addrs, p
    <3> QED
      BY <1>1, <1>3
  <2>2. InviteHints(net, invite) =
          [seeded EXCEPT !.addresses[p] = @ \cup more, !.last_dial_addr[p] = last]
    BY DEF InviteHints
  <2> HIDE DEF seeded, last, p
  <2> QED
    BY <1>1, <1>2, <2>1, <2>2, SavedKeeps, KeepsTwice
<1> QED
  BY <1>5, <1>6

-----------------------------------------------------------------------------
(* The invariant *)

\* A peer that was dialled for its id or its own address is one that a connection lists:
\* its entry is there, or it is listed or known since the entry went.
AskedIsKnown ==
    \A p \in Peers : asked[p] \cap {"peer", "addr"} # {} => should_surface_connected_peer(p)

DialInv == TypeOK /\ EntriesInv /\ AskedIsKnown

\* A dial begins, or does not: the entries stay in order, and the peer that is asked for
\* has the entry.
LEMMA DialKeeps ==
    ASSUME DialInv, NEW target, IsTarget(target), NEW p \in Peers \cup {NoPeer},
           NEW how \in {"peer", "addr", "circuit"}, how # "circuit" => target.peer = p,
           dial_ranked_target(target, p, how), UNCHANGED peers, Keeps(network, network')
    PROVE  EntriesInv' /\ AskedIsKnown'
           /\ asked' \in [Peers -> SUBSET {"peer", "addr", "circuit"}]
<1>1. asked \in [Peers -> SUBSET {"peer", "addr", "circuit"}] /\ NoPeer \notin Peers
  BY DiallingAssumption DEF DialInv, TypeOK
<1>2. network.known_peers \subseteq network'.known_peers
  BY DEF Keeps
<1>3. CASE ~CanDial(target.primary)
  <2>1. UNCHANGED <<pending_dials, dials, mixed, asked>>
    BY <1>3 DEF dial_ranked_target
  <2>2. EntriesInv'
    BY <2>1 DEF DialInv, EntriesInv, DialsTyped, RetriesAreDriven, TriesEachOnce, EntryInStep
  <2>3. AskedIsKnown'
    BY <1>2, <2>1 DEF DialInv, AskedIsKnown, should_surface_connected_peer
  <2> QED
    BY <1>1, <2>1, <2>2, <2>3
<1>4. CASE CanDial(target.primary)
  <2> DEFINE entry == [current_address    |-> target.primary,
                       fallback_addresses |-> target.fallbacks]
  <2>1. /\ SetDials(Launched(dials, target.primary), target.peer, target.primary)
        /\ pending_dials' = IF target.peer = NoPeer THEN pending_dials
                            ELSE With(pending_dials, target.peer, entry)
        /\ asked' = IF p = NoPeer THEN asked ELSE [asked EXCEPT ![p] = @ \cup {how}]
    BY <1>4 DEF dial_ranked_target
  <2>2. EntriesInv'
    BY <1>4, <2>1, DialKeepsEntries DEF DialInv
  <2>3. asked' \in [Peers -> SUBSET {"peer", "addr", "circuit"}]
    BY <1>1, <2>1
  <2>4. AskedIsKnown'
    <3> SUFFICES ASSUME NEW q \in Peers, asked'[q] \cap {"peer", "addr"} # {}
                 PROVE  should_surface_connected_peer(q)'
      BY DEF AskedIsKnown
    <3>1. DOMAIN pending_dials \subseteq DOMAIN pending_dials'
          /\ (target.peer # NoPeer => target.peer \in DOMAIN pending_dials')
      BY <2>1 DEF With
    <3>2. CASE q = p /\ how # "circuit"
      BY <1>1, <3>1, <3>2 DEF should_surface_connected_peer
    <3>3. CASE q # p \/ how = "circuit"
      <4>1. asked[q] \cap {"peer", "addr"} # {}
        BY <1>1, <2>1, <3>3
      <4> QED
        BY <1>2, <3>1, <4>1 DEF DialInv, AskedIsKnown, should_surface_connected_peer
    <3> QED
      BY <3>2, <3>3
  <2> QED
    BY <2>2, <2>3, <2>4
<1> QED
  BY <1>3, <1>4

-----------------------------------------------------------------------------
(* The steps *)

LEMMA StartHolds ==
    ASSUME Init
    PROVE  DialInv
<1>3. 0 \in 0 .. MaxConns /\ 0 \in 0 .. MaxRequests
  BY DiallingAssumption
<1>5. network \in NetworkSummary
  BY InputsAssumption DEF Init
<1>6. /\ DOMAIN pending_dials = {} /\ DOMAIN lookups = {} /\ peers = {} /\ mixed = {}
      /\ dials = [a \in Addrs |-> 0] /\ conns = [p \in Peers |-> 0] /\ requests = 0
      /\ asked = [p \in Peers |-> {}]
  BY DEF Init, Unasked
<1>7. TypeOK
  BY <1>3, <1>5, <1>6 DEF TypeOK
<1>8. EntriesInv
  BY <1>6 DEF EntriesInv, DialsTyped, RetriesAreDriven, TriesEachOnce, EntryInStep
<1>9. AskedIsKnown
  BY <1>6 DEF AskedIsKnown
<1> QED
  BY <1>7, <1>8, <1>9 DEF DialInv

\* The entries and the book as they were, nothing lost from either.
LEMMA EntriesUnchanged ==
    ASSUME DialInv, UNCHANGED <<pending_dials, dials, mixed, asked>>,
           peers \subseteq peers', Keeps(network, network')
    PROVE  EntriesInv' /\ AskedIsKnown'
<1>1. network.known_peers \subseteq network'.known_peers
  BY DEF Keeps
<1>2. EntriesInv'
  BY DEF DialInv, EntriesInv, DialsTyped, RetriesAreDriven, TriesEachOnce, EntryInStep
<1>3. AskedIsKnown'
  BY <1>1 DEF DialInv, AskedIsKnown, should_surface_connected_peer
<1> QED
  BY <1>2, <1>3

LEMMA NumberTaken ==
    ASSUME DialInv, ControlRequest
    PROVE  requests + 1 \in 1 .. MaxRequests /\ requests' \in 0 .. MaxRequests
  BY DiallingAssumption DEF DialInv, TypeOK, ControlRequest

LEMMA RequestKeeps ==
    ASSUME DialInv, NEW req \in Requests, dial_peer(req)
    PROVE  DialInv'
<1> DEFINE target == resolve_ranked_dial_target(network, req)
<1>1. /\ network \in NetworkSummary /\ peers \subseteq Peers
      /\ DOMAIN lookups \subseteq 1 .. MaxRequests /\ conns \in [Peers -> 0 .. MaxConns]
      /\ asked \in [Peers -> SUBSET {"peer", "addr", "circuit"}]
  BY DEF DialInv, TypeOK
<1>2. UNCHANGED <<network, peers, conns>> /\ Keeps(network, network')
  BY <1>1 DEF dial_peer, Keeps
<1>3. requests + 1 \in 1 .. MaxRequests /\ requests' \in 0 .. MaxRequests
  BY NumberTaken DEF dial_peer
<1>4. IsRequest(req)
  BY InputsAssumption DEF IsRequest
<1>5. /\ IsTarget(target)
      /\ req.kind = "peer" => target.peer = req.peer
      /\ req.kind = "addr" => target.peer = multiaddr_peer_id(req.addr)
      /\ req.kind = "name" => target.primary = NoAddr
  BY <1>1, <1>4, Resolved
<1>6. /\ EntriesInv' /\ AskedIsKnown' /\ DOMAIN lookups' \subseteq 1 .. MaxRequests
      /\ asked' \in [Peers -> SUBSET {"peer", "addr", "circuit"}]
  <2>1. CASE CanParse(target.primary)
    <3>1. dial_ranked_target(target, Wanted(req), Manner(req)) /\ UNCHANGED lookups
      BY <2>1 DEF dial_peer
    <3> HIDE DEF target
    <3>2. req.kind \in {"peer", "addr"}
      BY <1>4, <1>5, <2>1 DEF IsRequest, CanParse
    <3>3. /\ Wanted(req) \in Peers \cup {NoPeer}
          /\ Manner(req) \in {"peer", "addr", "circuit"}
          /\ Manner(req) # "circuit" => target.peer = Wanted(req)
      <4>1. CASE req.kind = "peer"
        BY <1>4, <1>5, <4>1 DEF IsRequest, Wanted, Manner
      <4>2. CASE req.kind = "addr"
        <5>1. req.addr \in Addrs /\ req.addr.owner \in Peers \cup {NoPeer}
          BY <1>4, <4>2, DiallingAssumption DEF IsRequest
        <5>2. Wanted(req) = req.addr.owner
          BY <4>2 DEF Wanted
        <5> QED
          BY <1>5, <4>2, <5>1, <5>2 DEF Manner, multiaddr_peer_id
      <4> QED
        BY <3>2, <4>1, <4>2
    <3>4. EntriesInv' /\ AskedIsKnown'
          /\ asked' \in [Peers -> SUBSET {"peer", "addr", "circuit"}]
      BY <1>2, <1>5, <3>1, <3>3, DialKeeps
    <3> QED
      BY <1>1, <3>1, <3>4
  <2>2. CASE ~CanParse(target.primary)
    <3>1. /\ UNCHANGED <<pending_dials, dials, mixed, asked>>
          /\ DOMAIN lookups' = DOMAIN lookups \cup {requests + 1}
      BY <2>2 DEF dial_peer, With
    <3> QED
      BY <1>1, <1>2, <1>3, <3>1, EntriesUnchanged
  <2> QED
    BY <2>1, <2>2
<1>7. TypeOK'
  BY <1>1, <1>2, <1>3, <1>6 DEF EntriesInv, DialsTyped, TypeOK
<1> QED
  BY <1>6, <1>7 DEF DialInv

\* A step that changes the book, the lookups or the connections, and no entry or dial.
LEMMA OtherStepsKeep ==
    ASSUME DialInv,
           UNCHANGED <<pending_dials, dials, mixed, asked, peers>>, Keeps(network, network'),
           DOMAIN lookups' \subseteq DOMAIN lookups, conns' \in [Peers -> 0 .. MaxConns],
           requests' \in 0 .. MaxRequests
    PROVE  DialInv'
<1>1. EntriesInv' /\ AskedIsKnown'
  BY EntriesUnchanged
<1>2. TypeOK'
  BY <1>1 DEF DialInv, Keeps, TypeOK
<1> QED
  BY <1>1, <1>2 DEF DialInv

LEMMA HintsKeep ==
    ASSUME DialInv, NEW invite \in Invites, seed_invite_hints(invite)
    PROVE  DialInv'
<1>1. network \in NetworkSummary /\ conns \in [Peers -> 0 .. MaxConns]
  BY DEF DialInv, TypeOK
<1>2. /\ network' = InviteHints(network, invite)
      /\ UNCHANGED <<peers, pending_dials, lookups, dials, conns, mixed, asked>>
      /\ ControlRequest
  BY DEF seed_invite_hints
<1>3. requests' \in 0 .. MaxRequests
  BY <1>2, NumberTaken
<1>4. Keeps(network, network')
  BY <1>1, <1>2, SeedKeeps
<1> QED
  BY <1>1, <1>2, <1>3, <1>4, OtherStepsKeep

LEMMA ForgetKeeps ==
    ASSUME DialInv, NEW p \in Peers, forget_known_peer(p)
    PROVE  DialInv'
<1>1. network \in NetworkSummary /\ conns \in [Peers -> 0 .. MaxConns]
  BY DEF DialInv, TypeOK
<1>2. /\ network' = [network EXCEPT !.ignored_peer_ids = @ \cup {p}]
      /\ UNCHANGED <<peers, pending_dials, lookups, dials, conns, mixed, asked>>
      /\ ControlRequest
  BY DEF forget_known_peer
<1>3. requests' \in 0 .. MaxRequests
  BY <1>2, NumberTaken
<1>4. Keeps(network, network')
  BY <1>1, <1>2 DEF NetworkSummary, Keeps
<1> QED
  BY <1>1, <1>2, <1>3, <1>4, OtherStepsKeep

LEMMA LookupEndsKeeps ==
    ASSUME DialInv, NEW id \in DOMAIN lookups, LookupEnds(id)
    PROVE  DialInv'
<1>1. network \in NetworkSummary /\ conns \in [Peers -> 0 .. MaxConns]
      /\ requests \in 0 .. MaxRequests
  BY DEF DialInv, TypeOK
<1>2. /\ lookups' = Without(lookups, id)
      /\ UNCHANGED <<network, peers, pending_dials, dials, conns, requests, mixed, asked>>
  BY DEF LookupEnds
<1>3. DOMAIN lookups' \subseteq DOMAIN lookups
  BY <1>2, WithoutFacts
<1>4. Keeps(network, network')
  BY <1>1, <1>2 DEF Keeps
<1> QED
  BY <1>1, <1>2, <1>3, <1>4, OtherStepsKeep

LEMMA ClosedKeeps ==
    ASSUME DialInv, NEW p \in Peers, ConnectionClosed(p)
    PROVE  DialInv'
<1>1. network \in NetworkSummary /\ conns \in [Peers -> 0 .. MaxConns]
      /\ requests \in 0 .. MaxRequests
  BY DEF DialInv, TypeOK
<1>2. /\ conns[p] > 0 /\ conns' = [conns EXCEPT ![p] = @ - 1]
      /\ UNCHANGED <<network, peers, pending_dials, lookups, dials, requests, mixed, asked>>
  BY DEF ConnectionClosed
<1>3. conns' \in [Peers -> 0 .. MaxConns]
  BY <1>1, <1>2, DiallingAssumption
<1>4. Keeps(network, network')
  BY <1>1, <1>2 DEF Keeps
<1> QED
  BY <1>1, <1>2, <1>3, <1>4, OtherStepsKeep

\* A record is found: its addresses are saved and its peer is dialled.
LEMMA RecordKeeps ==
    ASSUME DialInv, NEW id \in DOMAIN lookups, NEW invite \in Invites, FoundRecord(id, invite)
    PROVE  DialInv'
<1> DEFINE req == [kind |-> "peer", peer |-> invite.peer]
           seeded == seed_rendezvous_invite(network, invite)
           target == resolve_ranked_dial_target(seeded, req)
<1>1. /\ network \in NetworkSummary /\ peers \subseteq Peers
      /\ DOMAIN lookups \subseteq 1 .. MaxRequests /\ conns \in [Peers -> 0 .. MaxConns]
      /\ requests \in 0 .. MaxRequests
  BY DEF DialInv, TypeOK
<1>2. /\ network' = seeded /\ dial_ranked_target(target, invite.peer, "peer")
      /\ UNCHANGED <<peers, conns, requests>>
  BY DEF FoundRecord
<1>3. DOMAIN lookups' \subseteq DOMAIN lookups
  <2>1. CASE lookups' = Without(lookups, id)
    BY <2>1, WithoutFacts
  <2>2. CASE lookups' = [lookups EXCEPT ![id].resolved_peers = @ \cup {invite.peer}]
    BY <2>2
  <2> QED
    BY <2>1, <2>2 DEF FoundRecord
<1>4. invite.peer \in Peers
  BY IsInvite
<1>5. Keeps(network, seeded) /\ seeded \in NetworkSummary
  BY <1>1, SeedKeeps DEF Keeps
<1>6. IsRequest(req) /\ req.kind = "peer" /\ req.peer = invite.peer
  BY <1>4 DEF IsRequest
<1> HIDE DEF req, seeded
<1>7. IsTarget(target) /\ target.peer = invite.peer
  BY <1>5, <1>6, Resolved
<1> HIDE DEF target
<1>8. EntriesInv' /\ AskedIsKnown'
      /\ asked' \in [Peers -> SUBSET {"peer", "addr", "circuit"}]
  BY <1>2, <1>4, <1>5, <1>7, DialKeeps
<1>9. TypeOK'
  BY <1>1, <1>2, <1>3, <1>5, <1>8 DEF EntriesInv, DialsTyped, TypeOK
<1> QED
  BY <1>8, <1>9 DEF DialInv

\* A connection of p: its entry goes, and if p was asked for it is listed at once.
LEMMA EstablishedKeeps ==
    ASSUME DialInv, NEW p \in Peers, NEW a \in Addrs \cup {NoAddr}, NEW relayed \in BOOLEAN,
           ConnectionEstablished(p, a, relayed), EntriesInv'
    PROVE  /\ DialInv'
           /\ \A q \in Peers : conns'[q] > conns[q] => q = p
           /\ asked[p] \cap {"peer", "addr"} # {} => p \in peers'
<1> DEFINE path   == IF relayed THEN "libp2p-relay" ELSE "libp2p-direct"
           scored == record_path_score(network, path, p, TRUE)
<1>1. /\ network \in NetworkSummary /\ peers \subseteq Peers
      /\ DOMAIN lookups \subseteq 1 .. MaxRequests /\ conns \in [Peers -> 0 .. MaxConns]
      /\ requests \in 0 .. MaxRequests /\ NoPeer \notin Peers /\ MaxConns \in Nat
      /\ asked \in [Peers -> SUBSET {"peer", "addr", "circuit"}]
  BY DiallingAssumption DEF DialInv, TypeOK
<1>2. /\ conns[p] < MaxConns /\ conns' = [conns EXCEPT ![p] = @ + 1]
      /\ pending_dials' = Without(pending_dials, p)
      /\ UNCHANGED <<lookups, requests, asked>>
  BY DEF ConnectionEstablished
<1>3. IF should_surface_connected_peer(p)
      THEN peers' = peers \cup {p} /\ network' = update_known_peer(scored, p, a)
      ELSE network' = scored /\ UNCHANGED peers
  BY DEF ConnectionEstablished
<1>4. path \in Paths
  BY DEF Paths
<1>5. Keeps(network, scored) /\ scored \in NetworkSummary
  BY <1>1, <1>4, ScoreKeeps DEF Keeps
<1> HIDE DEF scored
<1>6. Keeps(scored, update_known_peer(scored, p, a))
  BY <1>5, KnownPeerKeeps
<1>7. Keeps(network, network')
  BY <1>3, <1>5, <1>6, KeepsTwice
<1>8. conns' \in [Peers -> 0 .. MaxConns]
  BY <1>1, <1>2
<1>9. \A q \in Peers : conns'[q] > conns[q] => q = p
  BY <1>1, <1>2
<1>10. asked[p] \cap {"peer", "addr"} # {} => p \in peers'
  BY <1>3 DEF DialInv, AskedIsKnown
<1>11. peers \subseteq peers' /\ peers' \subseteq Peers
  BY <1>1, <1>3
<1>12. AskedIsKnown'
  <2> SUFFICES ASSUME NEW q \in Peers, asked[q] \cap {"peer", "addr"} # {}
               PROVE  should_surface_connected_peer(q)'
    BY <1>2 DEF AskedIsKnown
  <2>1. CASE q = p
    BY <1>10, <2>1 DEF should_surface_connected_peer
  <2>2. CASE q # p
    <3>1. should_surface_connected_peer(q)
      BY DEF DialInv, AskedIsKnown
    <3>2. q \in DOMAIN pending_dials => q \in DOMAIN pending_dials'
      BY <1>2, <2>2, WithoutFacts
    <3> QED
      BY <1>7, <1>11, <3>1, <3>2 DEF Keeps, should_surface_connected_peer
  <2> QED
    BY <2>1, <2>2
<1>13. TypeOK'
  BY <1>1, <1>2, <1>7, <1>8, <1>11 DEF Keeps, EntriesInv, DialsTyped, TypeOK
<1> QED
  BY <1>9, <1>10, <1>12, <1>13 DEF DialInv

LEMMA ConnectsKeep ==
    ASSUME DialInv, NEW p \in Peers, NEW a \in Addrs, DialConnects(p, a)
    PROVE  /\ DialInv'
           /\ \A q \in Peers : conns'[q] > conns[q] => q = p
           /\ asked[p] \cap {"peer", "addr"} # {} => p \in peers'
<1>1. /\ dials[a] > 0 /\ a.owner \in {p, NoPeer}
      /\ SetDials(Landed(dials, a), NoPeer, NoAddr)
      /\ ConnectionEstablished(p, a, IsCircuit(a)) /\ IsCircuit(a) \in BOOLEAN
  BY DEF DialConnects, IsCircuit
<1>2. pending_dials' = Without(pending_dials, p)
  BY <1>1 DEF ConnectionEstablished
<1>3. EntriesInv'
  BY <1>1, <1>2, ConnectKeepsEntries DEF DialInv
<1> QED
  BY <1>1, <1>3, EstablishedKeeps

LEMMA InboundKeeps ==
    ASSUME DialInv, NEW p \in Peers, NEW relayed \in BOOLEAN, Inbound(p, relayed)
    PROVE  /\ DialInv'
           /\ \A q \in Peers : conns'[q] > conns[q] => q = p
           /\ asked[p] \cap {"peer", "addr"} # {} => p \in peers'
<1>1. ConnectionEstablished(p, NoAddr, relayed) /\ UNCHANGED <<dials, mixed>>
  BY DEF Inbound
<1>2. pending_dials' = Without(pending_dials, p)
  BY <1>1 DEF ConnectionEstablished
<1>3. EntriesInv'
  BY <1>1, <1>2, ConnectKeepsEntries DEF DialInv
<1> QED
  BY <1>1, <1>3, EstablishedKeeps

LEMMA OtherConnectsKeep ==
    ASSUME DialInv, NEW p \in Peers, NEW a \in Addrs, OtherDialConnects(p, a)
    PROVE  /\ DialInv'
           /\ \A q \in Peers : conns'[q] > conns[q] => q = p
           /\ asked[p] \cap {"peer", "addr"} # {} => p \in peers'
<1>1. ConnectionEstablished(p, a, IsCircuit(a)) /\ UNCHANGED <<dials, mixed>>
      /\ IsCircuit(a) \in BOOLEAN
  BY DEF OtherDialConnects, IsCircuit
<1>2. pending_dials' = Without(pending_dials, p)
  BY <1>1 DEF ConnectionEstablished
<1>3. EntriesInv'
  BY <1>1, <1>2, ConnectKeepsEntries DEF DialInv
<1> QED
  BY <1>1, <1>3, EstablishedKeeps

\* A dial to p failed, and only dials of p ended by it.
LEMMA FailureKeeps ==
    ASSUME DialInv, NEW p \in Peers \cup {NoPeer}, NEW d \in [Addrs -> Nat],
           \A b \in Addrs : b.owner # p => d[b] = dials[b],
           OutgoingConnectionError(p, d)
    PROVE  DialInv'
<1> DEFINE path == IF p \in DOMAIN pending_dials
                   THEN address_path_name(pending_dials[p].current_address)
                   ELSE "libp2p-direct"
<1>1. /\ network \in NetworkSummary /\ peers \subseteq Peers
      /\ DOMAIN lookups \subseteq 1 .. MaxRequests /\ conns \in [Peers -> 0 .. MaxConns]
      /\ requests \in 0 .. MaxRequests
      /\ asked \in [Peers -> SUBSET {"peer", "addr", "circuit"}]
  BY DEF DialInv, TypeOK
<1>2. /\ network' = record_path_score(network, path, p, FALSE)
      /\ UNCHANGED <<peers, lookups, conns, requests, asked>>
      /\ IF p \in DOMAIN pending_dials /\ pending_dials[p].fallback_addresses # <<>>
         THEN Retry(d, p)
         ELSE SetDials(d, p, NoAddr) /\ UNCHANGED pending_dials
  BY DEF OutgoingConnectionError
<1>3. path \in Paths
  BY DEF Paths, address_path_name
<1>4. Keeps(network, network')
  BY <1>1, <1>2, <1>3, ScoreKeeps
<1>5. EntriesInv' /\ DOMAIN pending_dials' = DOMAIN pending_dials
  <2>1. CASE p \in DOMAIN pending_dials /\ pending_dials[p].fallback_addresses # <<>>
    <3>1. Retry(d, p)
      BY <1>2, <2>1
    <3>2. EntriesInv'
      BY <1>2, <2>1, <3>1, RetryKeepsEntries DEF DialInv
    <3>3. DOMAIN pending_dials' = DOMAIN pending_dials
      BY <3>1 DEF Retry
    <3> QED
      BY <3>2, <3>3
  <2>2. CASE ~(p \in DOMAIN pending_dials /\ pending_dials[p].fallback_addresses # <<>>)
    BY <1>2, <2>2, GiveUpKeepsEntries DEF DialInv
  <2> QED
    BY <2>1, <2>2
<1>6. AskedIsKnown'
  BY <1>2, <1>4, <1>5 DEF DialInv, AskedIsKnown, should_surface_connected_peer, Keeps
<1>7. TypeOK'
  BY <1>1, <1>2, <1>4, <1>5 DEF Keeps, EntriesInv, DialsTyped, TypeOK
<1> QED
  BY <1>5, <1>6, <1>7 DEF DialInv

LEMMA DialFailsKeeps ==
    ASSUME DialInv, NEW a \in Addrs, DialFails(a)
    PROVE  DialInv'
<1>1. dials[a] > 0 /\ OutgoingConnectionError(a.owner, Landed(dials, a))
  BY DEF DialFails
<1>2. dials \in [Addrs -> Nat] /\ a.owner \in Peers \cup {NoPeer}
  BY DiallingAssumption DEF DialInv, TypeOK
<1>3. /\ Landed(dials, a) \in [Addrs -> Nat]
      /\ \A b \in Addrs : b.owner # a.owner => Landed(dials, a)[b] = dials[b]
  BY <1>1, <1>2, LandedFacts
<1> QED
  BY <1>1, <1>2, <1>3, FailureKeeps

\* Another part of the swarm failed to reach p: the dials go on.
LEMMA OtherDialFailsKeeps ==
    ASSUME DialInv, NEW p \in Peers, OtherDialFails(p)
    PROVE  DialInv'
<1>1. dials \in [Addrs -> Nat]
  BY DEF DialInv, TypeOK
<1> QED
  BY <1>1, FailureKeeps DEF OtherDialFails

\* One step, with what it means for a peer that was asked for and gets a connection.
LEMMA StepKeeps ==
    ASSUME DialInv, [Next]_vars
    PROVE  /\ DialInv'
           /\ \A p \in Peers : asked[p] \cap {"peer", "addr"} # {} /\ conns'[p] > conns[p]
                 => p \in peers'
<1> DEFINE Listed == \A p \in Peers :
                        asked[p] \cap {"peer", "addr"} # {} /\ conns'[p] > conns[p]
                           => p \in peers'
<1> SUFFICES DialInv' /\ Listed
  OBVIOUS
<1>1. conns \in [Peers -> Int] /\ Callers \subseteq Peers
  BY DiallingAssumption DEF DialInv, TypeOK
<1>2. UNCHANGED conns => Listed
  BY <1>1
<1>3. CASE UNCHANGED vars
  <2>1. EntriesInv' /\ AskedIsKnown' /\ TypeOK'
    BY <1>3 DEF vars, DialInv, EntriesInv, DialsTyped, RetriesAreDriven, TriesEachOnce,
                EntryInStep, AskedIsKnown, should_surface_connected_peer, TypeOK
  <2> QED
    BY <1>2, <1>3, <2>1 DEF vars, DialInv
<1>4. ASSUME NEW req \in Requests, dial_peer(req)
      PROVE  DialInv' /\ Listed
  BY <1>2, <1>4, RequestKeeps DEF dial_peer
<1>5. ASSUME NEW invite \in Invites, seed_invite_hints(invite)
      PROVE  DialInv' /\ Listed
  BY <1>2, <1>5, HintsKeep DEF seed_invite_hints
<1>6. ASSUME NEW p \in Peers, forget_known_peer(p)
      PROVE  DialInv' /\ Listed
  BY <1>2, <1>6, ForgetKeeps DEF forget_known_peer
<1>7. ASSUME NEW id \in DOMAIN lookups, LookupEnds(id)
      PROVE  DialInv' /\ Listed
  BY <1>2, <1>7, LookupEndsKeeps DEF LookupEnds
<1>8. ASSUME NEW id \in DOMAIN lookups, NEW invite \in Invites, FoundRecord(id, invite)
      PROVE  DialInv' /\ Listed
  <2>1. UNCHANGED conns
    BY <1>8 DEF FoundRecord
  <2> QED
    BY <1>2, <1>8, <2>1, RecordKeeps
<1>9. ASSUME NEW p \in Peers, NEW a \in Addrs, DialConnects(p, a)
      PROVE  DialInv' /\ Listed
  BY <1>9, ConnectsKeep
<1>10. ASSUME NEW p \in Callers, NEW relayed \in BOOLEAN, Inbound(p, relayed)
       PROVE  DialInv' /\ Listed
  BY <1>1, <1>10, InboundKeeps
<1>11. ASSUME NEW p \in Peers, ConnectionClosed(p)
       PROVE  DialInv' /\ Listed
  <2>1. Listed
    BY <1>1, <1>11 DEF ConnectionClosed
  <2> QED
    BY <1>11, <2>1, ClosedKeeps
<1>12. ASSUME NEW a \in Addrs, DialFails(a)
       PROVE  DialInv' /\ Listed
  <2>1. UNCHANGED conns
    BY <1>12 DEF DialFails, OutgoingConnectionError
  <2> QED
    BY <1>2, <1>12, <2>1, DialFailsKeeps
<1>13. ASSUME NEW p \in Callers, OtherDialFails(p)
       PROVE  DialInv' /\ Listed
  <2>1. UNCHANGED conns
    BY <1>13 DEF OtherDialFails, OutgoingConnectionError
  <2> QED
    BY <1>1, <1>2, <1>13, <2>1, OtherDialFailsKeeps
<1>14. ASSUME NEW p \in Callers, NEW a \in Addrs, OtherDialConnects(p, a)
       PROVE  DialInv' /\ Listed
  BY <1>1, <1>14, OtherConnectsKeep
<1> HIDE DEF Listed
<1> QED
  BY <1>3, <1>4, <1>5, <1>6, <1>7, <1>8, <1>9, <1>10, <1>11, <1>12,
     <1>13, <1>14, Zenon DEF Next

-----------------------------------------------------------------------------
(* Theorems *)

\* The inductive invariant of dialling: types, entries that follow their dials and try
\* no address twice, and peers asked for that a connection lists.
THEOREM DialsHold == Spec => []DialInv
<1>1. Init => DialInv
  BY StartHolds
<1>2. DialInv /\ [Next]_vars => DialInv'
  BY StepKeeps
<1> QED
  BY <1>1, <1>2, PTL DEF Spec

\* Type correctness: the scores saturate, and what is dialled or saved is an address.
THEOREM TypeCorrect == Spec => []TypeOK
<1>1. DialInv => TypeOK
  BY DEF DialInv
<1> QED
  BY <1>1, DialsHold, PTL

\* While a peer has addresses left to try, a dial to it is under way whose failure makes
\* OutgoingConnectionError try the next.
THEOREM RetriesDriven == Spec => []RetriesAreDriven
<1>1. DialInv => RetriesAreDriven
  BY DEF DialInv, EntriesInv
<1> QED
  BY <1>1, DialsHold, PTL

\* The entry in pending_dials speaks of the dial under way, so that a failure counts
\* against the path that failed, unless dials of the same peer overlap.
THEOREM EntriesInStep == Spec => []EntryInStep
<1>1. DialInv => EntryInStep
  BY DEF DialInv, EntriesInv
<1> QED
  BY <1>1, DialsHold, PTL

\* A peer dialled for its id or its own address is listed from its first connection on,
\* whichever connection that is.
THEOREM DialledSurfaced == Spec => DialledPeerIsSurfaced
<1>1. DialInv /\ [Next]_vars =>
         [\A p \in Peers : asked[p] \cap {"peer", "addr"} # {} /\ conns'[p] > conns[p]
              => p \in peers']_vars
  BY StepKeeps
<1> QED
  BY <1>1, DialsHold, PTL DEF Spec, DialledPeerIsSurfaced

=============================================================================
