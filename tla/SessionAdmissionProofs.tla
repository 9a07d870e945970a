------------------------ MODULE SessionAdmissionProofs ------------------------
(***************************************************************************)
(* SafetyInv is inductive: one lemma per handler, one step per conjunct    *)
(* the handler can disturb, and the temporal theorems that follow.         *)
(***************************************************************************)
EXTENDS SessionAdmission, TLAPS

\* A control task that is not idle carries a well-formed request.
LEMMA RequestInFlight ==
    ASSUME TypeOK, NEW c \in Clients, control[c].phase # "idle"
    PROVE  control[c] \in Requests /\ control[c].peer \in Peers
  BY DEF TypeOK, Requests, Idle

\* The invariant holds when the daemon has loaded its state file.
LEMMA InitSafety == Init => SafetyInv
  BY PeersAssumption
  DEF Init, SafetyInv, TypeOK, TickRoom, FlowIsDriven, ApproachHasCause, Approachable,
      PromptAnswerable, WhitelistLands, Idle

\* A peer surfaced only by its prompt is recorded in ungated.
LEMMA ConnectionEstablishedPreserves ==
    ASSUME SafetyInv, NEW p \in Peers, NEW dialer \in BOOLEAN, ConnectionEstablished(p, dialer)
    PROVE  SafetyInv'
<1>1. TypeOK'
  BY PeersAssumption
  DEF SafetyInv, TypeOK, ConnectionEstablished, upsert_peer, update_known_peer,
      should_surface_connected_peer, should_surface_approved_peer, peerVars, bookVars
<1>2. ApproachHasCause'
  BY PeersAssumption
  DEF SafetyInv, TypeOK, ApproachHasCause, Approachable, ConnectionEstablished,
      upsert_peer, update_known_peer, should_surface_connected_peer,
      should_surface_approved_peer, peerVars, bookVars
<1>3. WhitelistLands'
  BY PeersAssumption
  DEF SafetyInv, TypeOK, WhitelistLands, ConnectionEstablished, upsert_peer,
      update_known_peer, should_surface_connected_peer, should_surface_approved_peer,
      peerVars, bookVars
<1>4. TickRoom' /\ FlowIsDriven' /\ PromptAnswerable'
  BY PeersAssumption
  DEF SafetyInv, TypeOK, TickRoom, FlowIsDriven, PromptAnswerable, ConnectionEstablished,
      upsert_peer, update_known_peer, should_surface_connected_peer,
      should_surface_approved_peer, peerVars, bookVars
<1>5. QED
  BY <1>1, <1>2, <1>3, <1>4 DEF SafetyInv

\* Closing drops the flow with its runtime, and its bound leaves room for a timer.
LEMMA ConnectionClosedPreserves ==
    ASSUME SafetyInv, NEW p \in Peers, ConnectionClosed(p)
    PROVE  SafetyInv'
<1>1. TypeOK'
  BY PeersAssumption DEF SafetyInv, TypeOK, TickRoom, ConnectionClosed
<1>2. TickRoom'
  BY PeersAssumption DEF SafetyInv, TypeOK, TickRoom, ConnectionClosed
<1>3. FlowIsDriven'
  BY PeersAssumption DEF SafetyInv, TypeOK, FlowIsDriven, ConnectionClosed
<1>4. ApproachHasCause'
  BY PeersAssumption DEF SafetyInv, TypeOK, ApproachHasCause, Approachable, ConnectionClosed
<1>5. PromptAnswerable' /\ WhitelistLands'
  BY PeersAssumption
  DEF SafetyInv, TypeOK, PromptAnswerable, WhitelistLands, ConnectionClosed
<1>6. QED
  BY <1>1, <1>2, <1>3, <1>4, <1>5 DEF SafetyInv

\* Identify only touches peers that are already people.
LEMMA IdentifyReceivedPreserves ==
    ASSUME SafetyInv, NEW p \in Peers, IdentifyReceived(p)
    PROVE  SafetyInv'
<1>1. TypeOK'
  BY PeersAssumption
  DEF SafetyInv, TypeOK, IdentifyReceived, update_known_peer,
      should_surface_approved_peer, swarmVars, netVars, ghostVars
<1>2. ApproachHasCause'
  BY PeersAssumption
  DEF SafetyInv, TypeOK, ApproachHasCause, Approachable, IdentifyReceived,
      update_known_peer, should_surface_approved_peer, swarmVars, netVars, ghostVars
<1>3. WhitelistLands'
  BY PeersAssumption
  DEF SafetyInv, TypeOK, WhitelistLands, IdentifyReceived, update_known_peer,
      should_surface_approved_peer, swarmVars, netVars, ghostVars
<1>4. TickRoom' /\ FlowIsDriven' /\ PromptAnswerable'
  BY PeersAssumption
  DEF SafetyInv, TypeOK, TickRoom, FlowIsDriven, PromptAnswerable, IdentifyReceived,
      update_known_peer, should_surface_approved_peer, swarmVars, netVars, ghostVars
<1>5. QED
  BY <1>1, <1>2, <1>3, <1>4 DEF SafetyInv

\* A Hello either admits an approachable peer or queues both halves of a hold.
LEMMA HelloRequestPreserves ==
    ASSUME SafetyInv, NEW p \in Peers, NEW offers \in Offers, HelloRequest(p, offers)
    PROVE  SafetyInv'
<1>1. TypeOK'
  BY PeersAssumption
  DEF SafetyInv, TypeOK, TickRoom, HelloRequest, apply_approved_session_hello,
      apply_session_hello, update_known_peer, start_media_flow,
      queue_pending_peer_approval, should_gate_peer_approval, swarmVars, peerVars,
      bookVars, ghostVars
<1>2. TickRoom'
  BY PeersAssumption
  DEF SafetyInv, TypeOK, TickRoom, HelloRequest, apply_approved_session_hello,
      apply_session_hello, update_known_peer, start_media_flow,
      queue_pending_peer_approval, should_gate_peer_approval, swarmVars, peerVars,
      bookVars, ghostVars
<1>3. FlowIsDriven'
  BY PeersAssumption
  DEF SafetyInv, TypeOK, FlowIsDriven, HelloRequest, apply_approved_session_hello,
      apply_session_hello, update_known_peer, start_media_flow,
      queue_pending_peer_approval, should_gate_peer_approval, swarmVars, peerVars,
      bookVars, ghostVars
<1>4. ApproachHasCause'
  BY PeersAssumption
  DEF SafetyInv, TypeOK, ApproachHasCause, Approachable, HelloRequest,
      apply_approved_session_hello, apply_session_hello, update_known_peer,
      start_media_flow, queue_pending_peer_approval, should_gate_peer_approval, swarmVars,
      peerVars, bookVars, ghostVars
<1>5. PromptAnswerable'
  BY PeersAssumption
  DEF SafetyInv, TypeOK, PromptAnswerable, HelloRequest, apply_approved_session_hello,
      apply_session_hello, update_known_peer, start_media_flow,
      queue_pending_peer_approval, should_gate_peer_approval, swarmVars, peerVars,
      bookVars, ghostVars
<1>6. WhitelistLands'
  BY PeersAssumption
  DEF SafetyInv, TypeOK, WhitelistLands, HelloRequest, apply_approved_session_hello,
      apply_session_hello, update_known_peer, start_media_flow,
      queue_pending_peer_approval, should_gate_peer_approval, swarmVars, peerVars,
      bookVars, ghostVars
<1>7. QED
  BY <1>1, <1>2, <1>3, <1>4, <1>5, <1>6 DEF SafetyInv

\* An acknowledgement comes from a peer our Hello made approachable.
LEMMA HelloAckPreserves ==
    ASSUME SafetyInv, NEW p \in Peers, NEW offers \in Offers, HelloAck(p, offers)
    PROVE  SafetyInv'
<1>1. TypeOK'
  BY PeersAssumption
  DEF SafetyInv, TypeOK, TickRoom, HelloAck, apply_session_hello, update_known_peer,
      start_media_flow, ghostVars
<1>2. TickRoom'
  BY PeersAssumption
  DEF SafetyInv, TypeOK, TickRoom, HelloAck, apply_session_hello, update_known_peer,
      start_media_flow, ghostVars
<1>3. FlowIsDriven'
  BY PeersAssumption
  DEF SafetyInv, TypeOK, FlowIsDriven, HelloAck, apply_session_hello, update_known_peer,
      start_media_flow, ghostVars
<1>4. ApproachHasCause'
  BY PeersAssumption
  DEF SafetyInv, TypeOK, ApproachHasCause, Approachable, HelloAck, apply_session_hello,
      update_known_peer, start_media_flow, ghostVars
<1>5. WhitelistLands'
  BY PeersAssumption
  DEF SafetyInv, TypeOK, WhitelistLands, HelloAck, apply_session_hello, update_known_peer,
      start_media_flow, ghostVars
<1>6. PromptAnswerable'
  BY PeersAssumption
  DEF SafetyInv, TypeOK, PromptAnswerable, HelloAck, apply_session_hello,
      update_known_peer, start_media_flow, ghostVars
<1>7. QED
  BY <1>1, <1>2, <1>3, <1>4, <1>5, <1>6 DEF SafetyInv

\* A timer reschedules itself, or leaves together with the flow.
LEMMA SendMediaFramePreserves ==
    ASSUME SafetyInv, NEW p \in Peers, SendMediaFrame(p)
    PROVE  SafetyInv'
<1>1. TypeOK'
  BY PeersAssumption
  DEF SafetyInv, TypeOK, TickRoom, SendMediaFrame, swarmVars, peerVars, bookVars,
      ghostVars
<1>2. TickRoom'
  BY PeersAssumption
  DEF SafetyInv, TypeOK, TickRoom, SendMediaFrame, swarmVars, peerVars, bookVars,
      ghostVars
<1>3. FlowIsDriven'
  BY PeersAssumption
  DEF SafetyInv, TypeOK, FlowIsDriven, SendMediaFrame, swarmVars, peerVars, bookVars,
      ghostVars
<1>4. ApproachHasCause' /\ PromptAnswerable' /\ WhitelistLands'
  BY PeersAssumption
  DEF SafetyInv, TypeOK, ApproachHasCause, Approachable, PromptAnswerable, WhitelistLands,
      SendMediaFrame, swarmVars, peerVars, bookVars, ghostVars
<1>5. QED
  BY <1>1, <1>2, <1>3, <1>4 DEF SafetyInv

\* An approval consumes the held join; its prompt is withdrawn now or by FinishAnswer.
LEMMA approve_pending_peerPreserves ==
    ASSUME SafetyInv, NEW c \in Clients, approve_pending_peer(c)
    PROVE  SafetyInv'
<1>c. control[c] \in Requests /\ control[c].peer \in Peers
  BY RequestInFlight DEF SafetyInv, approve_pending_peer
<1>1. TypeOK'
  <2>1. CASE pending_inbound_approvals[control[c].peer] = "none"
    BY <1>c, <2>1
    DEF SafetyInv, TypeOK, approve_pending_peer, swarmVars, peerVars, bookVars
  <2>2. CASE pending_inbound_approvals[control[c].peer] # "none"
    <3>1. control' \in [Clients -> Requests \cup {Idle}]
      BY <1>c, <2>2 DEF SafetyInv, TypeOK, Requests, approve_pending_peer
    <3> QED
      BY <1>c, <2>2, <3>1, PeersAssumption
      DEF SafetyInv, TypeOK, TickRoom, approve_pending_peer,
          apply_approved_session_hello, apply_session_hello, update_known_peer,
          start_media_flow, swarmVars, peerVars, bookVars
  <2> QED
    BY <2>1, <2>2
<1>2. TickRoom'
  BY <1>c, PeersAssumption
  DEF SafetyInv, TypeOK, TickRoom, Requests, Idle, approve_pending_peer,
      apply_approved_session_hello, apply_session_hello, update_known_peer,
      start_media_flow, swarmVars, peerVars, bookVars
<1>3. FlowIsDriven'
  BY <1>c, PeersAssumption
  DEF SafetyInv, TypeOK, FlowIsDriven, Requests, Idle, approve_pending_peer,
      apply_approved_session_hello, apply_session_hello, update_known_peer,
      start_media_flow, swarmVars, peerVars, bookVars
<1>4. ApproachHasCause'
  BY <1>c, PeersAssumption
  DEF SafetyInv, TypeOK, ApproachHasCause, Approachable, Requests, Idle,
      approve_pending_peer, apply_approved_session_hello, apply_session_hello,
      update_known_peer, start_media_flow, swarmVars, peerVars, bookVars
<1>5. PromptAnswerable'
  BY <1>c, PeersAssumption
  DEF SafetyInv, TypeOK, PromptAnswerable, Requests, Idle, approve_pending_peer,
      apply_approved_session_hello, apply_session_hello, update_known_peer,
      start_media_flow, swarmVars, peerVars, bookVars
<1>6. WhitelistLands'
  BY <1>c, PeersAssumption
  DEF SafetyInv, TypeOK, WhitelistLands, Requests, Idle, approve_pending_peer,
      apply_approved_session_hello, apply_session_hello, update_known_peer,
      start_media_flow, swarmVars, peerVars, bookVars
<1>7. QED
  BY <1>1, <1>2, <1>3, <1>4, <1>5, <1>6 DEF SafetyInv

\* A rejection consumes the held join together with its prompt.
LEMMA reject_pending_peerPreserves ==
    ASSUME SafetyInv, NEW c \in Clients, reject_pending_peer(c)
    PROVE  SafetyInv'
<1>c. control[c] \in Requests /\ control[c].peer \in Peers
  BY RequestInFlight DEF SafetyInv, reject_pending_peer
<1>1. TypeOK'
  BY <1>c, PeersAssumption
  DEF SafetyInv, TypeOK, Requests, Idle, reject_pending_peer, swarmVars, peerVars,
      bookVars, ghostVars
<1>2. PromptAnswerable'
  BY <1>c, PeersAssumption
  DEF SafetyInv, TypeOK, PromptAnswerable, Requests, Idle, reject_pending_peer, swarmVars,
      peerVars, bookVars, ghostVars
<1>3. WhitelistLands'
  BY <1>c, PeersAssumption
  DEF SafetyInv, TypeOK, WhitelistLands, Requests, Idle, reject_pending_peer, swarmVars,
      peerVars, bookVars, ghostVars
<1>4. TickRoom' /\ FlowIsDriven' /\ ApproachHasCause'
  BY <1>c, PeersAssumption
  DEF SafetyInv, TypeOK, TickRoom, FlowIsDriven, ApproachHasCause, Approachable, Requests,
      Idle, reject_pending_peer, swarmVars, peerVars, bookVars, ghostVars
<1>5. QED
  BY <1>1, <1>2, <1>3, <1>4 DEF SafetyInv

\* The second write withdraws the prompt it was the witness for.
LEMMA FinishAnswerPreserves ==
    ASSUME SafetyInv, NEW c \in Clients, FinishAnswer(c)
    PROVE  SafetyInv'
<1>c. control[c] \in Requests /\ control[c].peer \in Peers
  BY RequestInFlight DEF SafetyInv, FinishAnswer
<1>1. TypeOK'
  BY <1>c, PeersAssumption
  DEF SafetyInv, TypeOK, Requests, Idle, FinishAnswer, swarmVars, netVars, peerVars,
      ghostVars
<1>2. PromptAnswerable'
  BY <1>c, PeersAssumption
  DEF SafetyInv, TypeOK, PromptAnswerable, Requests, Idle, FinishAnswer, swarmVars,
      netVars, peerVars, ghostVars
<1>3. WhitelistLands'
  BY <1>c, PeersAssumption
  DEF SafetyInv, TypeOK, WhitelistLands, Requests, Idle, FinishAnswer, swarmVars, netVars,
      peerVars, ghostVars
<1>4. TickRoom' /\ FlowIsDriven' /\ ApproachHasCause'
  BY <1>c, PeersAssumption
  DEF SafetyInv, TypeOK, TickRoom, FlowIsDriven, ApproachHasCause, Approachable, Requests,
      Idle, FinishAnswer, swarmVars, netVars, peerVars, ghostVars
<1>5. QED
  BY <1>1, <1>2, <1>3, <1>4 DEF SafetyInv

\* A new request starts queued, so it is witness for no prompt.
LEMMA AnswerPromptPreserves ==
    ASSUME SafetyInv, NEW c \in Clients, NEW p \in Peers,
           NEW op \in {"approve", "whitelist", "reject"}, AnswerPrompt(c, op, p)
    PROVE  SafetyInv'
<1>1. TypeOK'
  BY PeersAssumption
  DEF SafetyInv, TypeOK, Requests, Idle, AnswerPrompt, swarmVars, netVars, peerVars,
      bookVars, ghostVars
<1>2. PromptAnswerable'
  BY PeersAssumption
  DEF SafetyInv, TypeOK, PromptAnswerable, Requests, Idle, AnswerPrompt, swarmVars,
      netVars, peerVars, bookVars, ghostVars
<1>3. WhitelistLands'
  BY PeersAssumption
  DEF SafetyInv, TypeOK, WhitelistLands, Requests, Idle, AnswerPrompt, swarmVars, netVars,
      peerVars, bookVars, ghostVars
<1>4. TickRoom' /\ FlowIsDriven' /\ ApproachHasCause'
  BY PeersAssumption
  DEF SafetyInv, TypeOK, TickRoom, FlowIsDriven, ApproachHasCause, Approachable, Requests,
      Idle, AnswerPrompt, swarmVars, netVars, peerVars, bookVars, ghostVars
<1>5. QED
  BY <1>1, <1>2, <1>3, <1>4 DEF SafetyInv

\* Saving copies a live row, which already has its cause.
LEMMA save_known_peerPreserves ==
    ASSUME SafetyInv, NEW p \in Peers, save_known_peer(p)
    PROVE  SafetyInv'
<1>1. TypeOK'
  BY PeersAssumption DEF SafetyInv, TypeOK, save_known_peer, swarmVars, netVars, peerVars
<1>2. ApproachHasCause'
  BY PeersAssumption
  DEF SafetyInv, TypeOK, ApproachHasCause, Approachable, save_known_peer, swarmVars,
      netVars, peerVars
<1>3. WhitelistLands'
  BY PeersAssumption
  DEF SafetyInv, TypeOK, WhitelistLands, save_known_peer, swarmVars, netVars, peerVars
<1>4. TickRoom' /\ FlowIsDriven' /\ PromptAnswerable'
  BY PeersAssumption
  DEF SafetyInv, TypeOK, TickRoom, FlowIsDriven, PromptAnswerable, save_known_peer,
      swarmVars, netVars, peerVars
<1>5. QED
  BY <1>1, <1>2, <1>3, <1>4 DEF SafetyInv


\* The steps that touch one or two sets and disturb a single conjunct each.
LEMMA MinorStepPreserves ==
    ASSUME SafetyInv, NEW p \in Peers, NEW trusted \in BOOLEAN,
           \/ PingSuccess(p) \/ HelloRefused(p) \/ InboundFailure(p)
           \/ FoundRecord(p) \/ MediaFrameReceived(p) \/ Dial(p) \/ seed_invite_hints(p)
           \/ forget_known_peer(p) \/ set_trusted_contact(p, trusted)
    PROVE  SafetyInv'
<1>1. CASE PingSuccess(p)
  BY <1>1, PeersAssumption
  DEF SafetyInv, TypeOK, TickRoom, FlowIsDriven, ApproachHasCause, Approachable,
         PromptAnswerable, WhitelistLands,
      PingSuccess, swarmVars, netVars, bookVars, ghostVars
<1>2. CASE HelloRefused(p)
  BY <1>2, PeersAssumption
  DEF SafetyInv, TypeOK, TickRoom, FlowIsDriven, ApproachHasCause, Approachable,
         PromptAnswerable, WhitelistLands,
      HelloRefused, netVars, peerVars, bookVars, ghostVars
<1>3. CASE InboundFailure(p)
  BY <1>3, PeersAssumption
  DEF SafetyInv, TypeOK, TickRoom, FlowIsDriven, ApproachHasCause, Approachable,
         PromptAnswerable, WhitelistLands,
      InboundFailure, swarmVars, peerVars, bookVars, ghostVars
<1>4. CASE MediaFrameReceived(p)
  BY <1>4, PeersAssumption
  DEF SafetyInv, TypeOK, TickRoom, FlowIsDriven, ApproachHasCause, Approachable,
         PromptAnswerable, WhitelistLands,
      MediaFrameReceived, swarmVars, netVars, peerVars, bookVars, ghostVars
<1>5. CASE Dial(p)
  BY <1>5, PeersAssumption
  DEF SafetyInv, TypeOK, TickRoom, FlowIsDriven, ApproachHasCause, Approachable,
         PromptAnswerable, WhitelistLands,
      Dial, swarmVars, peerVars, bookVars
<1>6. CASE seed_invite_hints(p)
  BY <1>6, PeersAssumption
  DEF SafetyInv, TypeOK, TickRoom, FlowIsDriven, ApproachHasCause, Approachable,
         PromptAnswerable, WhitelistLands,
      seed_invite_hints, swarmVars, netVars, peerVars
<1>7. CASE forget_known_peer(p)
  BY <1>7, PeersAssumption
  DEF SafetyInv, TypeOK, TickRoom, FlowIsDriven, ApproachHasCause, Approachable,
         PromptAnswerable, WhitelistLands,
      forget_known_peer, swarmVars, netVars, peerVars, ghostVars
<1>8. CASE set_trusted_contact(p, trusted)
  BY <1>8, PeersAssumption
  DEF SafetyInv, TypeOK, TickRoom, FlowIsDriven, ApproachHasCause, Approachable,
         PromptAnswerable, WhitelistLands,
      set_trusted_contact, swarmVars, netVars, peerVars, ghostVars
<1>9. CASE FoundRecord(p)
  BY <1>9, PeersAssumption
  DEF SafetyInv, TypeOK, TickRoom, FlowIsDriven, ApproachHasCause, Approachable,
         PromptAnswerable, WhitelistLands,
      FoundRecord, seed_rendezvous_invite, swarmVars, peerVars
<1>10. QED
  BY <1>1, <1>2, <1>3, <1>4, <1>5, <1>6, <1>7, <1>8, <1>9

\* A broadcast makes every connected peer approachable and records them all.
LEMMA BroadcastSessionHelloPreserves ==
    ASSUME SafetyInv, BroadcastSessionHello
    PROVE  SafetyInv'
  BY DEF SafetyInv, TypeOK, TickRoom, FlowIsDriven, ApproachHasCause, Approachable,
         PromptAnswerable, WhitelistLands, BroadcastSessionHello, connected_peers,
         netVars, peerVars, bookVars

\* Every step of the daemon and of its environment preserves the invariant.
LEMMA NextPreserves == SafetyInv /\ [Next]_vars => SafetyInv'
<1> SUFFICES ASSUME SafetyInv, [Next]_vars PROVE SafetyInv'
  OBVIOUS
<1>1. CASE UNCHANGED vars
  BY <1>1
  DEF SafetyInv, TypeOK, TickRoom, FlowIsDriven, ApproachHasCause, Approachable,
      PromptAnswerable, WhitelistLands, vars, swarmVars, netVars, peerVars, bookVars,
      ghostVars
<1>2. ASSUME NEW p \in Peers, SwarmEvent(p) PROVE SafetyInv'
  BY <1>2, ConnectionEstablishedPreserves, ConnectionClosedPreserves,
     IdentifyReceivedPreserves, HelloRequestPreserves, HelloAckPreserves,
     MinorStepPreserves
  DEF SwarmEvent
<1>3. ASSUME NEW p \in Peers, PeerBookRequest(p) PROVE SafetyInv'
  BY <1>3, save_known_peerPreserves, MinorStepPreserves DEF PeerBookRequest
<1>4. ASSUME NEW p \in Peers, SendMediaFrame(p) PROVE SafetyInv'
  BY <1>4, SendMediaFramePreserves
<1>5. CASE BroadcastSessionHello
  BY <1>5, BroadcastSessionHelloPreserves
<1>6. ASSUME NEW c \in Clients, ControlTask(c) PROVE SafetyInv'
  BY <1>6, approve_pending_peerPreserves, reject_pending_peerPreserves,
     FinishAnswerPreserves, AnswerPromptPreserves
  DEF ControlTask
<1>7. QED
  BY <1>1, <1>2, <1>3, <1>4, <1>5, <1>6 DEF Next

\* The inductive invariant holds in every reachable state, for any set of peers and of
\* clients and any bounds: it says that prompts, held joins, flows, timers and the peer
\* book stay consistent across the network task and the control tasks.
THEOREM SafetyHolds == Spec => []SafetyInv
<1>1. Init => SafetyInv
  BY InitSafety
<1>2. SafetyInv /\ [Next]_vars => SafetyInv'
  BY NextPreserves
<1>3. QED
  BY <1>1, <1>2, PTL DEF Spec

\* Type correctness of the daemon's state, the peer book's flags included.
THEOREM TypeCorrect == Spec => []TypeOK
<1>1. SafetyInv => TypeOK
  BY DEF SafetyInv
<1>2. QED
  BY <1>1, SafetyHolds, PTL

\* No session becomes active without the user's consent except through the two paths
\* named by ungated.
THEOREM AdmissionCaused == Spec => []AdmissionHasCause
<1>1. SafetyInv => AdmissionHasCause
  BY DEF SafetyInv, ApproachHasCause, Approachable, AdmissionHasCause
<1>2. QED
  BY <1>1, SafetyHolds, PTL

\* A prompt shown to a client is always backed by a held join or about to go.
THEOREM PromptsAnswerable == Spec => []PromptAnswerable
<1>1. SafetyInv => PromptAnswerable
  BY DEF SafetyInv
<1>2. QED
  BY <1>1, SafetyHolds, PTL

\* A media flow always has a timer, an active session and a media runtime.
THEOREM FlowsDriven == Spec => []FlowIsDriven
<1>1. SafetyInv => FlowIsDriven
  BY DEF SafetyInv
<1>2. QED
  BY <1>1, SafetyHolds, PTL

\* The whitelisting half of an approval always finds its peer book entry.
THEOREM WhitelistingLands == Spec => []WhitelistLands
<1>1. SafetyInv => WhitelistLands
  BY DEF SafetyInv
<1>2. QED
  BY <1>1, SafetyHolds, PTL


\* One step of the specification marks a departed peer connected only by consuming its
\* held join.
LEMMA RevivalStep ==
    ASSUME SafetyInv, [Next]_vars, NEW p \in Peers,
           conns'[p] = 0, transport[p] # "connected", transport'[p] = "connected"
    PROVE  pending_inbound_approvals[p] # "none" /\ pending_inbound_approvals'[p] = "none"
<1>1. CASE UNCHANGED vars
  BY <1>1 DEF vars, peerVars
<1>2. ASSUME NEW q \in Peers, SwarmEvent(q) PROVE FALSE
  <2>1. CASE \E dialer \in BOOLEAN : ConnectionEstablished(q, dialer)
    BY <2>1 DEF SafetyInv, TypeOK, ConnectionEstablished, upsert_peer, peerVars
  <2>2. CASE ConnectionClosed(q)
    BY <2>2 DEF SafetyInv, TypeOK, ConnectionClosed
  <2>3. CASE IdentifyReceived(q) \/ PingSuccess(q)
    BY <2>3 DEF SafetyInv, TypeOK, IdentifyReceived, PingSuccess, swarmVars
  <2>4. CASE \E offers \in Offers : HelloRequest(q, offers) \/ HelloAck(q, offers)
    BY <2>4 DEF SafetyInv, TypeOK, HelloRequest, HelloAck, apply_approved_session_hello,
                apply_session_hello, peerVars, swarmVars
  <2>5. CASE HelloRefused(q) \/ InboundFailure(q) \/ FoundRecord(q) \/ MediaFrameReceived(q)
    BY <2>5 DEF HelloRefused, InboundFailure, FoundRecord, MediaFrameReceived, peerVars
  <2>6. QED
    BY <1>2, <2>1, <2>2, <2>3, <2>4, <2>5 DEF SwarmEvent
<1>3. ASSUME NEW q \in Peers, SendMediaFrame(q) \/ PeerBookRequest(q) PROVE FALSE
  BY <1>3 DEF SendMediaFrame, PeerBookRequest, Dial, seed_invite_hints, save_known_peer,
              forget_known_peer, set_trusted_contact, peerVars
<1>4. CASE BroadcastSessionHello
  BY <1>4 DEF BroadcastSessionHello, peerVars
<1>5. ASSUME NEW c \in Clients, approve_pending_peer(c)
      PROVE  pending_inbound_approvals[p] # "none" /\ pending_inbound_approvals'[p] = "none"
  <2>1. control[c].peer \in Peers
    BY <1>5, RequestInFlight DEF SafetyInv, approve_pending_peer
  <2>2. QED
    BY <1>5, <2>1 DEF SafetyInv, TypeOK, approve_pending_peer, apply_approved_session_hello,
                      apply_session_hello, peerVars
<1>6. ASSUME NEW c \in Clients, ControlTask(c), ~approve_pending_peer(c) PROVE FALSE
  BY <1>6 DEF ControlTask, AnswerPrompt, reject_pending_peer, FinishAnswer, peerVars
<1>7. QED
  BY <1>1, <1>2, <1>3, <1>4, <1>5, <1>6 DEF Next

\* A row without a connection becomes connected only by an approval.
THEOREM DepartedRevival == Spec => OnlyApprovalRevivesDeparted
<1>1. SafetyInv /\ [Next]_vars
        => [\A p \in Peers :
              conns'[p] = 0 /\ transport[p] # "connected" /\ transport'[p] = "connected"
                => pending_inbound_approvals[p] # "none"
                   /\ pending_inbound_approvals'[p] = "none"]_vars
  BY RevivalStep
<1>2. QED
  BY <1>1, SafetyHolds, PTL DEF Spec, OnlyApprovalRevivesDeparted

===============================================================================
