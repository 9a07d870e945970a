# voicers: a TLA+ verification project

voicers is a peer-to-peer voice chat: a daemon (`voicersd`) that owns the
libp2p network, the audio and the room, and a terminal client (`voicers`) that
talks to it over a control socket. This directory models the daemon and the
client, checks the models with TLC on small instances, and proves their safety
properties with TLAPS for every instance.

## 1. Inventory

| part | source (`crates/voicersd/src/` unless said) | state | operations |
|---|---|---|---|
| network task | `network.rs`, `network/swarm_events.rs` | private maps: `active_media_flows`, `connected_peers`, `pending_dials`, `pending_inbound_approvals`, `relay_offers`, rendezvous maps | one swarm event or one command at a time |
| session and gate | `network/session.rs` | rows in `peers`, prompts in `pending_peer_approvals` | Hello, HelloAck, approve, reject |
| peer book | `app/peer_book.rs` | `known_peers` with `connected`, `whitelisted`, `trusted_contact`; `ignored_peer_ids` | save, rename, forget, trust, seed from an invite |
| control server | `control.rs`, `app.rs` | one task per client connection, one request at a time | the `ControlRequest`s |
| media engine | `media.rs` | per peer: encoder, decoder, send counters, `JitterBuffer`; one capture pipeline and queue | device callback, ingest, register, disconnect, build a frame, switch device, take a frame, playout tick |
| jitter buffer | `media/jitter.rs` | `pending`, clock, deadline, target depth | `insert`, `next_playout_decision` |
| media routing | `network/media_transport.rs` | path scores, selected path, WebRTC state | `resolve_route`, send with fallback, relay for others |
| dialling | `network.rs`, `network/media_transport.rs` | `pending_dials` with fallbacks, path scores | dial, retry, rendezvous lookup |
| rendezvous and invites | `network/invite.rs` | published and pending DHT records | publish, look up, decode |
| rooms and roles | `app/state.rs` | `rooms` with members, roles, invite | create, adopt, rotate, permission check |
| persistence | `persist.rs` | the state file and its `.tmp` | `load`, `save_full`, `save_network` |
| output backend | `audio_backend.rs` | a ring of samples per peer | register, push, remove; PipeWire's realtime callback |
| WebRTC | `webrtc_transport.rs` | a peer connection and a data channel per peer | offer, answer, candidate, send |
| STUN | `network/stun.rs` | none | probe, parse |
| terminal client | `crates/voicers/src/` | control address, last status, input mode, screen, a selection per tab | keys, dialogs, poll, launch of a daemon |

How they interact. Tasks share one `DaemonStatus` behind an `RwLock`; the
network task and the media engine take commands from bounded channels; a control
task sends a command, waits for its answer and then often writes the status
itself. Media timers are spawned tasks that sleep 20 ms and send a command back.
Every save goes to one file through one temporary path.

What is hard here: the gate is decided from shared state that several events
write; a prompt is removed by two tasks; timers outlive what they serve; a peer
may have several connections and lose one; frames are lost, reordered and
renumbered; savers overlap; a failed dial is matched to its request by peer only;
DHT puts end late and in any order; the peer id changes at every start; a device
callback, the engine, the backend and a realtime thread share bounded queues; the
client acts on a status that is already old. `PROJECT.json` lists each under
`hazards`, at its line.

What correctness means, part by part:

- gate: nobody is admitted without a cause, every prompt can be answered;
- flows: a flow is driven as long as it is entered, and ends when the peer is gone;
- jitter buffer: audio is played in order, never early, and never stops for good;
- persistence: a saved change survives a restart;
- dialling: a retry has a dial that drives it, a failure counts against the path
  that failed, a peer that was asked for is listed, and retries end;
- rooms: the session's room is the one engaged room, and who created it may invite;
- rendezvous: records and invites catch up with rooms, addresses and the peer id;
- capture: no frame mixes devices, no peer hears time go back, the resampler stays
  inside its samples as long as the device is not too fast;
- output: a playing node does not run dry, no node outlives its peer;
- terminal client: every selection is on an entry, the default room never takes
  the daemon out of a room that could be seen, a running daemon is found again.

## 2. Modules

| module | what it is |
|---|---|
| `SessionAdmission` | connections, handshake, gate, peer book, flows and timers of one daemon |
| `MCSessionAdmission` | its TLC instances, the relay restriction, and what documents and tests claim |
| `SessionAdmissionProofs` | theorems about `SessionAdmission` |
| `JitterBuffer` | playout of one remote peer's frames, with its sender and a lossy network |
| `OrderedPlayout` | what a jitter buffer promises, without deadlines and depths |
| `JitterBufferProofs` | theorems about `JitterBuffer`, and that it implements `OrderedPlayout` |
| `CapturePipeline` | microphone callback, resampling, framing, the shared queue |
| `OutputBackend` | commands, nodes and rings of the PipeWire backend, its realtime callback |
| `MediaEngine`, `MCMediaEngine` | the two composed as `run_media_engine` does, and the TLC instance |
| `MediaEngineProofs` | theorems about `MediaEngine`: its rings and nodes, the resampler, the order of what is captured and the device it is from |
| `Lists` | sorting and filtering, as the ranking of addresses and the client's lists do it |
| `ListsProofs` | lemmas about them: what is sorted has every element once, what is filtered is a sequence of the same elements |
| `Dialling`, `MCDialling` | ranked dialling, fallback and lookup, and the TLC instance |
| `DiallingProofs` | theorems about `Dialling`, and that the ranking tries each address once |
| `Rendezvous` | rooms, invites and the records published for them |
| `RendezvousProofs` | theorems about its rooms and session |
| `TerminalClient`, `MCTerminalClient` | the client's loop, keys and lists, and the TLC instance |
| `TerminalClientProofs` | theorems about `TerminalClient`, and the types of the lists it computes |
| `Persistence` | the state file, the tasks that save to it, crash and restart |
| `SavedState` | what saving promises: a register that a crash sets back to the last save |
| `PersistenceProofs` | theorems about `Persistence`, and that it implements `SavedState` |

Definitions whose comment begins "Mutant of" are plausible bugs. No
specification uses them; each shows that some property notices that bug.

### SessionAdmission

Variables carry the names of the code. `conns` is libp2p's count of established
connections; `hellos` are our Hellos without an answer; `ticks[p]` counts the
timers `schedule_media_tick` has spawned for `p` and that have not been handled;
`transport` and `session` are the two fields of a peer row ("absent": no row);
`known` and its subsets are the peer book. `control[c]` is the request client
connection `c` is in the middle of. Two history variables are read by no action:
`grant[p]` is what the user decided about `p` ("once" turns to "used" when the
peer leaves), and `ungated` marks peers that one of the two paths around the gate
was open to.

One action is one handler: ten swarm events, five commands, and the peer-book
requests. Approve and reject are three actions, because the control task writes
again after the network task's answer: `AnswerPrompt`, `approve_pending_peer` or
`reject_pending_peer`, `FinishAnswer`.

*Why handlers are atomic.* The network task runs one handler to its end before
the next event or command. Its maps are its own. A handler takes the status lock
several times, and a control task may write in between; what control tasks write
is the prompts (removing one), the `whitelisted` and `trusted_contact` flags and
entries of the peer book. Each of these commutes with what the same handler
does after the lock it follows, so the state after both is reached by one order
or the other. A control request that is one critical section is one action.

*libp2p.* Modelled from use: a connection to a peer may be one of several (a hole
punch adds a direct one beside a relayed one); requests travel on one of them, so
a close may or may not take a held Hello or an unanswered one with it, and the
last close takes both; events about a connection are delivered before its close.

`FoundRecord` is a record of the DHT that answers a lookup of the user's. It takes its
peer off the ignored list and passes `connected = false` to `update_known_peer`, so that
it clears the flag of a peer that is connected; the next timer then finds no route and
ends the flow.

Left out, since no property depends on it: addresses, path scores, notes, display
names, media statistics, saving (the initial state already is any peer book a
file may hold, stale `connected` flags included).

### JitterBuffer

A frame is its index (timestamp / 960; the sender's timestamps are multiples of
it). Time is in playout ticks (5 ms), and `due` is the deadline relative to
`now`. The constants keep their names; `FRAME_TICKS` and `GRACE_TICKS` are the
20 ms frame and the 5 ms grace in ticks (4 and 1 in the code). A tick opens a
burst of up to `MAX_PLAYOUT_BURST_FRAMES` decisions; each way out of
`next_playout_decision` is an action. Fec and Conceal change the buffer in the
same way and are one action, `ConcealLoss`. Priming and the drift jump always end
in a packet, in the code too: the frame they move the clock to is buffered and
its deadline has passed. The deadline the jump sets is dead code: the old one is
what `advance_playout_clock` adds to. The decoder may fail on a frame and on its
replacement, which ends the burst. The fallback of `checked_sub` before the
epoch of the clock is left out.

A removed runtime is modelled as a new buffer: until it is created again nothing
is decided, and an empty buffer decides nothing either.

`OrderedPlayout` says what all this is for: frames wait, and a clock takes them in
order, never past a frame that waits, never giving up the one it is at while that
one waits, always moving on. Deadlines, depths, bursts, jumps, sender and network
are not in it. The refinement mapping is `waiting <- pending`,
`clock <- next_playout`; `PlaysInOrder` is the abstract specification with its
fairness.

### CapturePipeline, OutputBackend, MediaEngine

`CapturePipeline` carries samples as the number of the callback that delivered
them, so "older" and "another device" can be told. Interpolation between two
samples is represented by the left one; positions are exact fractions of
`SAMPLE_RATE` where the code has an `f32`. `ingest` is a whole chunk: resampling,
draining, framing, the queue's overflow. A drain past the end is a panic of the
task (`running`), with which the input stream ends. Rates are any positive numbers,
since `preferred_input_config` falls back to the device's own: one that offers only rates
above 96 kHz, twice `SAMPLE_RATE`, does cause that panic, and `EngineSurvives` says that
nothing else does. A flow takes a frame from the one queue, or repeats the last frame.

`OutputBackend` counts samples. The engine sends register, push and remove over one
bounded channel; the backend's task handles them one at a time; a node may fail to
start, and is replaced when the peer's name has changed. `fill_output_buffer` fills
the whole buffer that PipeWire hands it, of any length in `Buffers`, which may be
longer than the ring.

`MediaEngine` composes them: the engine's task takes one step of either side at a
time, device callback, backend and realtime thread run beside it. Filters, gain and
Opus change sample values only; the cpal and no-op backends are left out.

### Dialling

An address is a record of a site and the peer its text ends in. `Hop` gives the
relay of a circuit site, `Parses`, `Accepts` and `Shareable` what the code can do
with a site. `network` is the `NetworkSummary` (book, scores, last addresses),
`pending_dials` and `lookups` the network task's maps. `dials` and `conns` are the
swarm's and external: a circuit dial has the swarm dial the relay first, and the swarm
dials peers for kad, DCUtR and relay reservations too, whose outcomes reach the same
handlers (`OtherDialConnects`, `OtherDialFails`) and take the entry or a fallback of a
request. The start has any saved book of `Books`: addresses, the last dialled one,
ignored peers and scores. Ranking is
by the code's key and, between equal keys, by the order of the texts, which `Place`
stands for; `Sorted` (of `Lists`) puts at place *i* the address that *i* - 1 others come before. The
key's cast of the `u64` counters to `i64` is taken as exact, as it is below 2^63. A
failure carries only the peer of the address, as the event does. History: `mixed` marks
peers with a dial under way that their entry did not start alone; `asked` is how each peer was asked for.

### Rendezvous

Rooms, invites and records are one module: a change of room decides what is
published, an address change what the invites say. Peer ids are numbered by start.
The network task runs before the id is set (`BootstrapDone` is the last step of
start-up), `Restart` may happen at any point and reads the `disk` that the last save
left. A control request is its change, the Hello it has broadcast, and its save,
with events in between. `pending` and `published` are the code's maps; puts end
in any order, well or not. `founded` is history: the rooms this daemon ever created.
`listen_addrs` only grows: the code has no arm for expired listen addresses, so neither
has the model, and what catches up is the addresses the daemon lists.

### TerminalClient

`pc` is where the loop is: ready for a key, in the refresh, in the creation of the
default room, in the reload after it. The lists of the eight tabs are computed from
the status as `ui/model.rs` does, and the clamps run where the code runs them. What a
list holds depends on the status alone, so each is a function over `Statuses`, filtered
with `Kept` and sorted with `Sorted` of `Lists`. A key
is what its handler does; keys whose handlers do the same are one action. Daemons at
each address start, spawned by the client or not, stop and are changed by other clients
at any time; Enter trims the control address (`Trim`). `q` ends the
client and starts another. History: `raced`, another client chose a room while ours
was about to create its default one. Rendering, clipboard, messages and typed text
are left out, except the control address, which is in use while it is being typed.

### Persistence

The savers are the network task and the client connections. `memory` is the part
of the status that is saved, in two halves that the savers treat differently:
the network summary, and what `save_network` carries over from the file (own name
and rooms). A half is the number of its last change, so that "older" means
something. Disk contents are inodes with two names, since `fs::write` keeps
writing to the file it opened after another saver renamed it; an inode holds the
set of states whose text it has parts of, and decodes when that is one state.
Three ways to save are told apart by `kind`: "state" is `persist_state`, which
keeps the read lock, so nothing changes meanwhile; "snapshot" saves a copy after
the lock is dropped; "network" is `persist_network_snapshot`. Open, write and
rename are separate steps, because nothing serialises the savers: the calls
block their thread, and the runtime has several. `Restart` may happen at any
moment. `acked`, `overlapped` and `clashed` are history: the newest change of
each half a finished save covered, the savers whose current save has run beside
another, and whether any ever did. Errors other than a rename that finds no file
are left out; the code drops them all.

`SavedState` is the register a user takes this for: a current state that moves on, a
saved state that follows it and never goes back, and a crash that sets the one to
the other. Its promise ends where two saves overlap. The mapping is
`current <- memory`, `saved <- acked`, `overlap <- clashed`: no file and no step of a
save is in it, and `CrashRestoresSaved` is the whole specification. It says more than
`AckedChangesSafe`: a restart finds nothing that was not acknowledged either, so the
temporary file that a crash leaves is never read.

## 3. Runs

| run | instance | what it shows |
|---|---|---|
| `admission` | 1 peer, 2 connections, 2 clients, 3 timers; any saved book; fair | admission has a cause, prompts can be answered, flows are driven, whitelisting lands, only an approval revives a departed peer, unreachable flows stop, stale timers drain |
| `relay` | 2 peers that may relay for each other, gate left out; fair | unreachable flows stop, for flows whose route is another peer |
| `dialling` | a peer with direct, circuit, local and broken addresses, and its relay; 3 saved books; 2 requests; dials of other parts of the swarm; fair | retries are driven, the entry is in step with the dial, a dialled peer is listed, every request comes to an end |
| `rendezvous` | 2 rooms, 2 starts, 2 requests, 3 puts at a time; fair | the session's room is the engaged one, and one created here may be invited to; records and invites catch up |
| `terminal` | 2 addresses, one of them bindable, 2 rooms, 4 statuses; fair | selections are on entries, the default room overrides only a race, the status recovers |
| `playout` | 6 frames, 2 in flight, depths 1-3, burst 2, timer up to 3 ticks late; fair | order, overflow, deadline; a restarted sender is heard, a full buffer starts; `OrderedPlayout` is implemented with its fairness |
| `engine` | 2 flows, 1 speaker, rates 1, 3, 4 and 5 for frames at 2, frame 2, queue 2, ring and preroll 4, buffers 1-3 | only a device too fast for the resampler stops the engine, frames are of one device, nobody hears time go back, rings have no gap, nodes follow runtimes |
| `saving` | 2 clients and the network task, 3 changes, 5 inodes, restart at any step | without overlapping saves no acknowledged change is lost; a save alone always lands, whatever overlaps and crashes left; `SavedState` is implemented |

Four runs expect a violation; each checks one sentence of a document or a test
against the code and is a finding in `PROJECT.json`:

| run | sentence | what the code does |
|---|---|---|
| `unknown_join_is_held` | README: an unknown peer's join is held until you decide | a broadcast Hello that is acknowledged, or a reconnect, activates the session |
| `flow_survives_upgrade` | README: the connection moves to the direct transport | closing the relayed connection ends the flow for good |
| `relayed_peer_is_surfaced` | README: Bob dials the relayed address with `JoinPeer` and starts the call | `multiaddr_peer_id` takes the first `/p2p`, the relay's: the dial is entered under the relay, and the peer behind it is not listed when it connects |
| `peer_book_survives_restart` | test: an acknowledged peer-book change is there after a restart | a saver renames the temporary file that another has just truncated |

Four more sentences of the documents do not hold of the code either. Their properties
are stated beside the others, each with a configuration under which TLC refutes it:

| property | module, configuration | sentence | what the code does |
|---|---|---|---|
| `HeldJoinIsPrompted` | `MCSessionAdmission`, `MCHeldJoinIsPrompted.cfg` | README.md:123-124: a join is held until you approve or reject it | the second write of an approve or reject (app.rs:660) withdraws the prompt of a join that came in between, which stays held |
| `AllowedOnceAsksAgain` | `MCSessionAdmission`, `MCAllowedOnceAsksAgain.cfg` | README.md:124-125: `y` allows once, `w` whitelists for future automatic joins | after `y` the peer is in the book, is surfaced when it returns (session.rs:356), and its Hello is admitted (swarm_events.rs:800) |
| `FallbacksGoOn` | `MCDialling`, `MCFallbacksGoOn.cfg` | README.md:373-375: the next saved address is retried automatically | a fallback that does not parse, which the note calls skipped, ends the retries (swarm_events.rs:298-304) |
| `JoinerHasNoRole` | `Rendezvous`, `MCJoinerHasNoRole.cfg` | docs/rooms-roles-plan.md:136, 148-149: only admins create invites, the creator gets `admin`, others start with no roles | `adopt_room_invite` enters a room as `CreateRoom` does and makes the joiner its admin (app.rs:409-416) |

Some behaviours that one may not want are in the models and contradict no document, so
no run is about them; `PROJECT.json` has a note at each: `save_network` may write back
rooms it read before a newer room was saved; an approval revives the row of a peer that
has left; a found record ends the flow of its peer; the failure of one dial takes the
fallbacks of another.

*Bounds: admission.* `MaxConns` = 2 is the least at which a close can leave a
connection. `MaxTicks` = 3 lets a flow be closed and entered again while two older
timers are still out; a close that would leave no room waits, so no timer is lost.
Two clients are the least that can answer one prompt twice. One peer is enough for
the gate: peers interact only through relay routes, which `relay` instantiates with
two (all actions with two peers exceed seven million states), and the theorems hold
for any number.

*Bounds: audio.* In `JitterBuffer`, `MaxFrames` bounds the numbering before the
sender restarts, `MaxInFlight` the reordering, `MaxDelay` how late a timer may be.
The depths are scaled down, keeping the order minimum < target < maximum target, the
burst below the largest target, the grace below a frame, and a jump threshold that
gaps both exceed and miss. In `MediaEngine`, the rates are below `SAMPLE_RATE`, between
it and its double, at the double, where the drain just fits, and above, where the engine
panics, so that positions fall between samples; `MaxStamp`
= 4 callbacks of up to `MaxChunk` = 3 samples overrun both the channel and the
queue; `COMMAND_DEPTH` = 3 holds a removal with a registration and audio behind it;
buffers of 3 are longer than half of the preroll. Two flows are the least that
compete for the queue. The two sides share only the engine's task, and what the
instance leaves small the theorems of section 4 cover.

*Bounds: the rest.* `Dialling`: two requests let a dial, a lookup and the dial of
what it finds overlap; `MaxScore` = 1 is where the counters saturate; `MaxConns` = 1;
the books are an empty one, one with addresses (one of them broken), a last address and a
failure, and one that has the peer ignored and without addresses.
`Rendezvous`: two starts give one change of the peer id, two requests a room and its
rotation or its successor; three pending puts are all records of one moment, and a
publication that would exceed them waits, as it does when the store is full.
`TerminalClient`: the four statuses have lists that grow, shrink and change places;
the second address is the first with a blank, which no daemon listens at and Enter trims. In
`Persistence`, `MaxChanges` = 3 lets each of three savers have a state of its own, and
`Inodes` are one more than the names and open files can take, so a new file is always
there.

*Fairness.* `admission`, `relay`: a timer that was spawned fires and its command is
handled (tokio sleeps end, the command loop runs for ever), a queued approve or
reject is handled, a control task with its answer runs on. Nothing is assumed of
users, peers or the network. `playout`: the playout interval fires and the loop over a
tick's decisions ends; nothing is assumed of sender or network. `dialling`: the swarm
reports an outcome of every dial and the DHT ends every query (both have timeouts).
`rendezvous`: start-up and requests go on, connected peers are identified again
(libp2p does every few minutes), every put ends, and one that is tried again and
again succeeds (strong fairness); the two liveness properties speak of behaviours
in which rooms and addresses stop changing and a peer of the DHT stays
connected (`Calm`). `terminal`: the loop checks its poll timer before every frame,
whatever keys come, and a request is answered or fails. `engine` and `saving` assume
none.

*Deadlock* is checked in every run but `engine`, where a panicked engine does stop.

Definitions that a `PROJECT.json` mutant names are the bugs the properties were tried
against: each property is violated under at least one.

## 4. Proofs

`SessionAdmissionProofs` proves, for any sets of peers and clients and any
bounds, `SafetyHolds`: `Spec => []SafetyInv`, and from it `TypeOK`,
`AdmissionHasCause`, `PromptAnswerable`, `FlowIsDriven`, `WhitelistLands` and, as
an action property, `OnlyApprovalRevivesDeparted`. `SafetyInv` strengthens them
in two ways. `ApproachHasCause` asks for a cause not of an active session only but
of everything that leads to one (a row, a book entry, a dial, a Hello of ours):
`AdmissionHasCause` alone is not preserved by a HelloAck. `TickRoom` says a
peer without a flow has room for one more timer, so that the bound never
truncates a step that enters a flow. The proof has one lemma per action that
can disturb the invariant. Assumption: `PeersAssumption` (saved peers are peers,
offers are sets of peers, bounds are positive).

`JitterBufferProofs` proves, for any constants that satisfy `JitterAssumption`
(the minimum depth is positive and not above the target, nor that above its
maximum; frames last at least a tick), `PlayoutSafe`: `Spec => []PlayoutInv`
with `PlayoutInv` the type invariant, `NothingBehindClock` and `ClockNotAhead`,
and the action properties `NothingPassedOver` and `DueFrameSurvives`. The three
plays are one lemma about playing the earliest buffered frame; that there is an
earliest one comes from the well-foundedness of the naturals.
`ImplementsOrderedPlayout` is the safety half of the refinement,
`Spec => Ordered!OrderedSpec`: every action maps to one abstract action or leaves
the mapped state alone. It rests on `PlayoutInv`; without `NothingBehindClock` the
earliest frame might lie behind the clock. The fairness half is TLC's (`PlaysInOrder`).

`MediaEngineProofs` proves, for any sets and sizes that satisfy `CaptureAssumption` and
`OutputAssumption`, first:

- `RingsSafe` and from it `PlaysWithoutGap` (`NoGapWhilePrimed`). The invariant
  `RingInv` is the type of the output side and `PrimedIsHalfFull`: a primed ring
  holds at least half a preroll, which is the threshold the callback keeps and the
  same for all lengths of buffers; overflow keeps it since the cap is not below
  the preroll.
- `NodesFollow` (`NodesFollowRuntimes`). The proof takes one peer at a time
  (`Followed`), which a command for another peer leaves alone.
- `EngineNeverPanics` (`EngineSurvives`). `ResamplerInv` keeps the cursor below one
  sample before every chunk; `DrainsWithinSamples` is the arithmetic, that the
  position after the loop is at most the number of samples as long as a step is at
  most two of them. Rates are unbounded: an engine that has stopped has a device faster
  than twice `SAMPLE_RATE`.

Its second half is about the audio that is recorded and sent. `CaptureSafe` is
`Spec => []CaptureInv`, for any rates, chunks, frame sizes and queue lengths. From it follow `TypeOK` of the whole engine,
`OnlyCurrentDevice` and, as an action property, `NoFlowGoesBack`. Neither is inductive
by itself, since the audio they speak of passes through a channel, the resampler's
input, a half-built frame and the queue. `CaptureInv` says of all four at once that
what waits was recorded after the device was opened (`RecordedSince`), that each is
ordered and none has anything older than what is ahead of it (`WaitsInOrder`), and
that the frame sent last, to anybody and to each peer, is not newer than what waits
(`SentInOrder`). The lemma that carries it is `ReadsForward`: the positions the
resampler reads are inside its input and go left to right, which needs
`ResamplerInv`; framing and the queue's overflow only cut such a sequence.

`PersistenceProofs` rests on `PersistenceAssumption` (finitely many clients, and more
inodes than names and open files, so that a new file exists).

- `SoleSavesLand` (`SoleSaveLands`). The property speaks of one step; its invariant
  follows a save that has run alone from its opening: no other saver is at an open,
  write or rename (`SavesAlone`), and from its open on the temporary name is the file
  it has open, and that file holds nothing or exactly its snapshot.
- `DurableHolds`, and from it `AckedSafe` (`AckedChangesSafe`). While no two saves have
  overlapped, the state file is whole (`FileWhole`), it holds exactly what was
  acknowledged, the snapshot under way is no older than that and the memory no older
  than the snapshot (`InOrder`), and the network task's snapshot has the rooms of the
  file (`RoomsCarried`). `AckedChangesSafe` is not inductive without the order of the
  snapshot: a stale one could be renamed over a newer file.
- `ImplementsRegister` (`CrashRestoresSaved`): every action is a step of `SavedState` or
  leaves it alone. `Restart` is its crash, since `InOrder` has the file hold what was
  acknowledged, no more and no less.

`RendezvousProofs` proves `RoomsHold`: `Spec => []RoomsInv`, and from it `TypeOK`,
`EngagedIsSession` and `SessionMayInvite`, from `RendezvousAssumption`. `RoomsInv` adds
that at most one room is engaged, and that none is the session's during start-up; the
same of the rooms on disk, since `Restart` loads them; and that the pending puts fit
their number. `EngagedIsSession` and `SessionMayInvite` are not inductive apart from
each other: a rotation and an adoption keep the second because the room they touch is
the engaged one. The code grants more than `SessionMayInvite` asks (`SessionIsAdmin`: the
user is an admin of the session's room whoever made it), and that is what is inductive.

`ListsProofs` holds what the next two modules need of lists. `SortedOnce`: sorting a
finite set by a strict total order gives a sequence of its elements, each once. It goes
by counting: what comes before an element is a smaller set than what comes before a
later one, so the places are all different, and there are as many as elements
(`PlacesTaken`). `AboveIsOrder`: keys of four numbers, compared from the first, are
ordered so. `KeptTyped`: filtering a sequence gives a sequence of its elements.
Filtering flattens a sequence of sequences, which the library defines by recursion; an
induction principle with an operator for its parameter is of no use to the provers, so
`Upward` states it with a set (a set of naturals with 0 and with every successor is
all of them), and `FlattenTyped` applies it to the set of lengths for which the result
has its type.

`DiallingProofs` proves `DialsHold`: `Spec => []DialInv`, and from it `TypeOK`,
`RetriesAreDriven`, `EntryInStep` and, as an action property, `DialledPeerIsSurfaced`,
for any peers, books, invites and requests and any finite set of addresses. It rests on
`DiallingAssumption` (no two addresses have the same text, the relay of a circuit is
named by an address, the swarm dials only what parses) and `InputsAssumption` (what is
saved, invited or asked for are addresses, naming the peer in one gives another, and in a
saved book only known peers are ignored or have addresses).

- `EntryInStep` needs `TriesEachOnce`: the address of an entry and those it has left are
  all different, or a failure would move the entry to an address whose earlier dial is
  still counted. That holds because the ranking returns no address twice, which is
  `RankedOnce`: the four keys and the text are a strict total order (`RanksAreOrder`),
  and what is sorted by such an order has each element of the set once (`SortedOnce`).
- `DialledPeerIsSurfaced` speaks of one step; its invariant is `AskedIsKnown`: since a
  peer was asked for, its entry is there, or it is listed or in the book. Only its own
  connection removes the entry, and that lists it; the book never loses a peer
  (`Keeps`). A circuit address is left out, because its dial is entered under the relay
  (the finding `relayed_peer_is_surfaced`).
- Entries change in four ways, each a lemma: a dial begins, a connection takes the entry
  with it, a failure is answered with the next address, or nothing is left to try. The
  last two are stated for any failure that ends no dial of another peer, so they cover
  the failures of kad, DCUtR and relay reservations, which end none of ours.

`TerminalClientProofs` proves `ClientHolds`: `Spec => []ClientInv`, and from it `TypeOK`,
`SelectionOnAnEntry` and, as an action property, `DefaultRoomOverridesOnlyARace`, for
any addresses, room names and statuses. It rests on `ClientAssumption` and
`StatusesAssumption` (the lists of a status are sequences, and the rooms they name are
room names).

- `SelectionOnAnEntry` needs of each of the eight lists that it is a sequence: its length
  is then a natural number, and a clamp puts the selection on an entry. Filtered lists
  have `KeptTyped`, the sorted rooms `SortedOnce`, the activity list `FlattenTyped`. A
  step leaves lists and selections alone, loses the status, adopts a new one and clamps
  every list, or changes one selection: by a move within the list, the peer that is
  opened, a clamp, or opening or closing a group, which clamps the changed list.
- `DefaultRoomOverridesOnlyARace` speaks of one step; its invariant is `RaceNoted`: when
  the client is about to send CreateRoom to a daemon in a room, `raced` is set. The
  client goes there only from a status without a room, and only another client gives
  the daemon one after that.

Only model-checked:

- the liveness properties (`UnreachableFlowStops`, `StaleTimersDrain`, `Settles`,
  `RecordsCatchUp`, `InvitesCatchUp`, `StatusRecovers`, `RestartIsHeard`,
  `FullBufferStarts`, the fairness of `PlaysInOrder`): fairness is out of the prover's
  reach;
- the eight claims that do not hold, of the two tables above.

## 5. Plan

Done: admission, playout with its abstract specification, persistence with its own,
dialling, rendezvous and rooms, the media engine, the terminal client, and theorems for
the safety properties of each. Left: two composed daemons, `SessionAdmission` at both
ends of one connection.

## 6. Not modelled

- WebRTC: off in the default build (feature `webrtc-transport`); the negotiation is
  in the `webrtc` crate. The daemon's own part is a table of peer connections and
  one connection state for all of them, which decides the path of every peer's
  frames. Two peers that offer at once are not resolved by it.
- The choice among several relays, and the relayed frame in the relay's daemon.
  `ConnectionClosed` removes the flow with the connection, so a relayed route carries
  frames only for a peer that was forgotten while connected.
- STUN probes: one stateless request whose answer is only shown.
- Signal processing (filters, gain, Opus) and the cpal and no-op backends; PipeWire
  itself.
- Line framing, JSON, rendering, clipboard, argument parsing: input and output
  without protocol state.
- I/O errors of a save other than a rename that finds no file. The code drops them
  all and acknowledges the request.
- The archived prototype and the vendored Opus.
