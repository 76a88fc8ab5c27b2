# A verification project for eUPF

eUPF is a 5G User Plane Function: a Go control plane that speaks PFCP with session
management functions (SMFs, the *peers*), and an XDP program that forwards GTP-U packets by
tables (eBPF maps) the control plane writes. This directory holds TLA+ models of its control
plane and of the packet path, TLC configurations that check them on small instances, and
TLAPS proofs that hold for every instance. All paths are relative to `src/cmd/`.

## 1. Inventory

| Component | State it keeps | Operations | Hard because |
|---|---|---|---|
| Run loop, associations (`core/pfcp_connection.go`, `pfcp_handlers.go`) | `NodeAssociations`, the UDP socket, `heartbeatFailedC` | `Run`, setup request and response, `RefreshAssociations`, `DeleteAssociation` | one goroutine serves ticker, channel and socket; it may block in a handler |
| Heartbeats (`core/node_association.go`, `pfcp_hearbeat.go`) | per association: sequence counter, failed count, unbuffered channel | `ScheduleHeartbeat`, `HandleHeartbeat` | one goroutine per association, timers, late, lost and duplicated answers |
| Session handlers (`core/pfcp_session_handlers.go`, `session.go`, `pdr.go`) | sessions with PDR, FAR, QER, URR tables; next SEID | establishment, modification, deletion | many map writes per request, no rollback, the datapath reads in between |
| PDR creation context (`core/pdr_creation_context.go`) | `TEIDCache` of one request | `extractPDR`, `deletePDR` | ids resolved by zero values, truncated cache key |
| Forwarding tables (`ebpf/pdr.go`, `ebpf/objects.go`, `ebpf/xdp/pdr.h`) | id trackers, `far_map`, `qer_map`, `urr_map`, three PDR maps | New/Update/Delete of FAR, QER, URR; Put/Delete of PDRs; SDF combination | full maps, empty trackers, rows shared by two PDRs |
| Resource manager (`core/service/resource_manager.go`) | free and busy TEIDs and UE addresses | allocate and release of both | keys chosen by callers, reuse, exhaustion |
| XDP datapath (`ebpf/xdp/*.c`, `utils/*.h`) | reads the maps, per packet | PDR, SDF, FAR, QER lookup, forwarding | concurrent with all writers |
| QER limiter, URR counters (`ebpf/xdp/qer.h`, `urr.h`) | sliding windows, volumes, in map rows | per packet, on every CPU | unlocked read-modify-write |
| SDF filter (`core/sdf_filter_parser.go`, `ebpf/xdp/sdf_filter.h`) | none | parse, match | boundary cases of masks and port ranges |
| GTP path manager (`core/gtp_path_manager.go`) | known peers, sequence | echo request loop | late answers, blocking reads |
| REST API (`api/rest`) | none of its own | reads of sessions and maps; writes of maps | runs on other goroutines without locks |
| Metrics, configuration, logging, start-up | counters, settings | | pure I/O |

Interaction: `Run` receives a message and calls its handler; session handlers change
the session tables and, through `ForwardingPlaneController`, trackers and eBPF maps; a
setup starts a heartbeat goroutine, which talks back to `Run` through
`heartbeatFailedC`, while `Run` talks to it through `HeartbeatChannel`; a failed
heartbeat makes `Run` delete the association with all its sessions. The datapath
shares nothing with the control plane but the maps.

What makes each part correct: no two subscribers share forwarding state (trackers,
sessions); the maps show the datapath what the sessions say, at every moment
(handlers); a request is answered and leaves nothing behind when it is undone
(deletion, pruning); each association is watched by one scheduler, is deleted when and
only when its peer is silent, and `Run` never stops (heartbeats); an id has one
holder (resource manager). `PROJECT.json` lists the hazards behind these statements
line by line.

## 2. Modules

**`UpfSession`** - session handlers, session tables, trackers and maps. All handlers
run on the goroutine of `Run`, so one request is applied at a time; it is applied in
steps, one per IE and map operation, because the datapath reads the maps in between.
`cur` is the request in progress: `stage` is its position in the handler's order of
IE lists, so a step of a later list skips the earlier ones as an empty list does.

| State | Code |
|---|---|
| `assoc`, `nextSeid` | keys of `NodeAssociations`, `NextSessionID` |
| `stored`, `rules`, `pdrs` | `NodeAssociation.Sessions`, and the tables of the sessions as sets of rows (`rules` holds FARs, QERs and URRs by `kind`) |
| `free`, `slot` | bitmaps of the id trackers; contents of `far_map`, `qer_map`, `urr_map` as the handlers set them |
| `pdrMap` | the three PDR maps as rows; `owner` is a history field |
| `cur`, `reply` | locals of the running handler; how the last request was answered |

Actions: `AssociationSetup`, `RejectRequest`; `EstablishmentRequest` /
`ModificationRequest`, then `CreateRule`, `UpdateRule`, `RemoveRule` (one per FAR, QER
or URR IE), `PutPdr` (Create and Update PDR, with the map-full error path),
`RemovePdr`, and `RequestDone` or `RequestFails`; `DeletionRequest`, `DeletionPdr`,
`DeletionRule`, `DeletionDone`; `PruneAssociation`, `PruneSession`, `PruneRule`,
`PrunePdr`, `PruneDone`. Contents of a FAR or QER are abstract values; what
`extractPDR`, `applyPDR`, `deletePDR` and `CombinePdrWithSdf` do with addresses, ids
and the SDF part is kept. The features `ftup` and `ueip` are off (the default);
`SessionResources` has them on.

The code trusts its peer in many ways. `Stress` is the set of ways in which a peer
uses that freedom; the comment at its declaration lists them (an unusable IE, an
unknown rule, reused ids, shared, moved or missing addresses, SDF pairs, updates of
SDF PDRs, PDRs left without their rule). `PeerAllows` and `NoDangling` are the only
guards that do not come from the code: they are what a peer outside of `Stress`
refrains from.

**`PfcpAssociation`** - the goroutine of `Run`, the schedulers, the unbuffered channels (a
send is a state, `deliver` or `failing`, that ends when the receiver is in its select), the
peers and UDP. An association object is one of the `Copies` of its peer. `run` is the
position of `Run` (`panic` is the nil dereference of `DeleteAssociation`), `assoc` maps a
peer to its association object, `sched` holds the scheduler's position, sequence counter and
failed count, `net` the messages under way. `alive`, `missed` and `dups` describe peers and
network. `CounterMod` and `WireMod` are the widths of the counter (2^32) and of the sequence
on the wire (2^24, external: the message library); all runs have a counter wider than the
wire, and the history field `cut` of a scheduler tells that an answer came back with less
than the sequence it answers. `Late` tells whether an answer may be handed to a scheduler
later than the heartbeat timeout: it covers the network, the peer, and the time the answer
waits in the socket until `Run` reads it.

**`ResourceManager`** - both pools; free lists are sequences in FIFO order as in the
code, the order in which a Go map is walked through is any order. Callers may give any
key.

**`IdPool`** - the abstract specification: where each id is (in the pool, with a holder, or
lost). An id has one place (`OnePlace`), passes through the pool between two holders, and a
lost one stays lost (`Handover`). `Spec` loses an id only when its holder takes another,
`LossySpec` also when holders go without giving back. `ResourceManager` implements the first
(`PoolsKeepPromise`, with `TeidPlaces` and `IpPlaces` as refinement mapping), the trackers
and rule tables of `UpfSession` the second (`SlotsAreAPool`, with `SlotPlaces`).

**`SessionResources`** - the session handlers with `ftup` and `ueip` on, composed with
`ResourceManager` (it extends it): which SEID a TEID or address is booked under and which
it is released under. State: `assoc`, `nextSeid`, `stored`, `pdrs`, `rows` as in
`UpfSession` but without rules, `remoteSeid` (`Session.RemoteSEID`), and `cur` with the
`TEIDCache` of the request, which maps CHOOSE IDs to TEIDs in `extractPDR` and low bytes of
TEIDs to 0 in `deletePDR`. A PDR is put in one of four ways: `PutGivenTeid`,
`PutCachedTeid`, `PutChosenTeid`, `PutChosenIp`. `ReleaseOf` is what `deletePDR` gives
back; `DeletionDone` and `DeletionTeids` are `ReleaseResources`, which takes one lock after
the other. `Stress` and `PeerChooses` say what peers refrain from, as in `UpfSession`;
the kind `shared` is two PDRs on one TEID of the peer's own.

**`UrrAccounting`** - the volumes of `urr_map` in one direction: `Receive`, `ReadVolume`,
`WriteVolume` are the two calls of `update_urr` a packet makes on its CPU; a request
(`BeginRequest`) walks its lists of URRs with `NewUrr`, `UpdateUrr`, and `LookupUrr` and
`ReleaseUrr`, the two halves of `DeleteUrr`. Usage reports wait in `request` until the answer:
`RequestDone` sends them, `RequestFails` answers with a bare cause and drops them. An id the
session does not have means slot 0, as the zero `SUrrInfo` does. History variables:
`carried` counts the bytes of each packet once, `doubled` what the second `update_urr` of the
packet adds, `reported` the usage reports, `lost` and `again` bound what each named race,
overwriting or failure may cost.

**`GtpPath`** - the goroutine of the GTP path manager with its ticker, its lookup of the peer's
name (`Resolve`), its blocking read and its context; peers that die, come back, and answer
late. Time is in seconds and passes only while the goroutine is blocked. The code sets no
limit to a lookup; `ResolveTime` is when the resolver of the machine answers or gives up.
A datagram is not duplicated by the network.

**`SdfFilter`** - a flow description from its text to the verdict on a packet: the parser
(`ParseSdfFilter` and what it calls, with `Refused` for its errors), the copy into the map
value (`Copy16Ip`), the matchers for both families. Addresses are sequences of octets and
octets are sets of bits, so that masks, prefixes inside an octet and byte order are exact at
a smaller size. A packet has a direction: `Handled` are the protocols the entry points let
through to a PDR, `L4Parsed` the headers they parse, and without a parsed header the matcher
sees port 0 (`PortOf`). `Permits` is the reference: it has no masks, words or byte order, and
the ports the packet really has. Go's `net` functions are external.

**`Datapath`** - the XDP program, composed with `UpfSession` (it extends it): `pkt`
holds the packet of each CPU, `Handler` is any step of any session handler, and the
other actions are the steps of a packet: `Receive` (classification by `PathOf`, PDR
lookup, `SdfChoice`), `CheckFar`, `CheckQer`, then `Send`, `Abort` (`XDP_ABORTED`) or
`AnswerPing` (a ping to the UPF turned round into the downlink path). `far_map` and
`qer_map` are arrays whose values change under the program's pointer, so every read is
of the present value; rows of the hash maps are replaced as a whole, so the row found
is kept (the kernel's reuse of a deleted hash element within a grace period is not
modelled). FAR and QER contents are values that have the forwarding bit (`Forw`), the
GTP-U header (`Gtp`), a closed gate (`Closed`) or not. The verdict of the limiter is left
open, and what a packet matches is an input. History fields of a packet: its session,
the rules that had its FAR slot at lookup and at sending, whether its own session was
`touched` and whether any request began (`late`) while it was in flight.

**`QerLimiter`** - `limit_rate_sliding_window` for one QER and direction, on several
CPUs, in three steps (clock, start, write), with the writers of the row (`updateQer`, the
REST handler, deletion). A measurement may begin at any time when no packet is in hand;
`since`, `bits`, `fastest`, `raced` and `credit` are its history: the bits let through, the
highest rate in force, whether two CPUs had packets in hand at once, and one burst for each
write of the row. `Second`, `Kilo`, `RateMod` stand for 10^9, 1000 and 2^32; `Burst` bounds
the transmission time of a packet (at less than 2.4 Mbit/s a full-size packet takes longer
than the window of 5 ms, and is then the burst).

**`UpfSessionProofs`**, **`DatapathProofs`**, **`PfcpAssociationProofs`**,
**`SessionResourcesProofs`** (with those of `ResourceManager`), **`SdfFilterProofs`**,
**`QerLimiterProofs`**, **`UrrAccountingProofs`** and **`GtpPathProofs`** hold the inductive
invariants, lemmas and theorems of section 4.

**`MCUpfSession`**, **`MCDatapath`** and **`MCSdfFilter`** give values to function-valued
constants (`MCDatapath` also has the symmetry and the view of section 3). The other modules are
run directly.

## 3. Runs

| Run | Shows | Bounds |
|---|---|---|
| `session_faults` | `TypeOK`, `NoSharedRule`, `SlotsMirrorSessions`, `LeaksOnlyWhereKnown`, `SlotsAreAPool` with failing, repeated, colliding requests | 1 peer, 2 SEIDs per association life, FAR pool 2, URR pool 1, PDR map of 1 row: every pool and map runs full; all of `Stress` but `unknown` (`shared` includes `sdfPair`); every PDR has an SDF filter, so that rows are combined |
| `session_clean` | `IsolatedForwarding`, `MapsMatchSessions`, `DeletionAnswered` for a peer that does nothing of what `StressKinds` lists; one of these, a default and an SDF PDR on one address, is ordinary use (section 5) | 2 sessions, 2 PDRs each, uplink and downlink keys, with and without SDF; pools and maps large enough for both |
| `hb_timely` | `PrunedOnlyUnanswered`, `HeartbeatsPaced`, `RunNotHeldUp` when answers come in time; `SilentPeerPruned`, `ConfiguredPeersJoin` under `Fairness` | 2 peers with one object each, 2 retries, 2 losses in a row, restarts of peers; a counter of 3 values on a wire of 2, so that every third heartbeat does not fit |
| `hb_udp` | `TypeOK`, `OneScheduler` with late, lost and duplicated messages | 2 peers, 2 objects each (an old and a new association), 1 duplicate, 2 messages under way before a heartbeat waits, counter 3 on wire 2 |
| `hb_deadlock` (violation) | a late answer at the last timeout blocks `Run` and the scheduler on each other | 1 peer, counter 4 on wire 3 |
| `session_resources` | `ResourcesExclusive`, `OrphanedOnlyWhereKnown`, `NoDoubleHandout`, `PoolsKeepPromise`, `ResTypeOK` with failing requests, changed remote SEIDs and replaced ids | 1 peer, 2 sessions per association life, 2 TEIDs and 1 address: both pools run empty; remote SEIDs 2 and 7, of which 2 is also a local one; 2 uplink PDRs and 1 downlink PDR, 1 CHOOSE ID, 1 TEID of the peer's own |
| `datapath_sessions` | `UndisturbedForwarding`: a packet gets what its session's tables order unless its own session is being changed; `DpTypeOK` | 1 CPU (packets share nothing but the maps), 2 sessions, 2 UE addresses (symmetric), 2 FAR and 2 QER slots, 2 contents (two tunnels; a closed and an open gate); about 2 minutes |
| `datapath_recycle` | `NoRecycledRule` with and without SDF filter, uplink and downlink | 1 session at a time with 2 FAR ids and a QER |
| `qer_limiter` | `RateIsLimited`, `TypeOK` | 2 CPUs, a second of 4 units, rates 0 to 7 (dividing a second, not dividing it, above a bit per unit, wrapped by 32-bit multiplication), window 2, packets of 1 and 2 bits, 6 units, 8 bits and 1 reset in a measurement; about 2 minutes |
| `urr_accounting` | `NothingOverreported`, `NothingUnreported`, `TypeOK` | 2 CPUs (a lost addition needs two), 2 URRs (one that is counted in, one that is not), packets of 1 byte, 4 bytes counted in all |
| `gtp_path` | `ProbeGap`, `StopReturns`, `DeadPeerNoticed`, `AlivePeerSeen`, `TypeOK` under `Fairness` | 2 peers, interval 2, read deadline 1 and lookups of up to 1, so that a round of silent or slowly resolved peers outlasts the ticker; about 2 minutes |
| `sdf_filter` | `MatchesAsDescribed`, `TypeOK` | octets of 2 bits, addresses of 2 and 4 octets, ports 0 to 2, both directions; all texts on one side against a few on the other |

Why the bounds are enough: what can go wrong between sessions needs two of them, and
two that follow each other under the same ids (a SEID counter starts anew with every
association, so `MaxSeid = 3` gives two sessions per life and any number of lives);
within a session it needs two PDRs. Exhaustion needs a pool smaller than what two
sessions ask for. For heartbeats, two peers suffice for every interaction through the
one `Run` goroutine; sequences of two values on the wire tell the awaited answer from any
other when answers are prompt, and a counter of one value more runs through every way in
which a sequence is cut.

`SYMMETRY Addresses` is sound because nothing in `Datapath` compares UE addresses but for
equality. `VIEW SessionsView` leaves out of the state what neither a step nor the two
invariants of `datapath_sessions` can tell apart: how the last request was answered, the
history of slots (`rule`, `sentBy`, `late`, which only `NoRecycledRule` reads), the ids of a
packet that has left, and whose a packet is that `touched` exempts.

`LeaksOnlyWhereKnown`, `OrphanedOnlyWhereKnown`, the terms `doubled`, `lost` and `again` of
`UrrAccounting` and the exceptions that the comments of `RateIsLimited`,
`PrunedOnlyUnanswered`, `MatchesAsDescribed` and `UndisturbedForwarding` name are statements
of what the code does, not of what it should do:
the three leaks the first names (failed establishments, URRs of pruned sessions, re-created
ids) are real, the first acknowledged by the code's "Implement rollback on error"; the
others are in section 5.

`UndisturbedForwarding` compares the datapath with the session tables, not with the
maps: `Ordered` is the specification of forwarding, written without slots and rows of
maps, in which only a QER of the packet's session stops it. `StoppedByStranger` is the one
exception: a PDR without a QER has QER id 0, and is subject to the QER in that slot.
`NoRecycledRule` is why the handlers' order (create, update, remove) matters: with
removals first, an id released by a request could be given out by the same request
while packets still hold it. Across requests it can; `late` packets are exempt.
`IsolatedForwarding` and the datapath properties are for peers outside of `Stress`. With
unusable IEs, a modification that fails between Remove FAR and Remove PDR leaves a PDR
with a free FAR id, which may then go to another session: the missing rollback again.

Deadlock is checked except in `hb_udp` and `hb_deadlock`, where the deadlock that
`hb_deadlock` reports is reachable, and in `gtp_path`, whose goroutine may return.

### Fairness

`FairSpec` assumes: a goroutine that can step does (Go's scheduler); timers fire; the ticker
is served although `Run` may be elsewhere at the moment it fires (strong fairness:
`time.Ticker` keeps one tick in its channel until a select takes it, and a select chooses
among ready cases at random); each message in the socket is read in its turn (strong
fairness for setups and for heartbeat responses of each peer: the socket is a queue, and
`Run` returns to it); a peer's request is answered or ignored some day. Nothing is assumed
about peers failing or recovering, about losses, or about who sends setups.

`Fairness` of `GtpPath` assumes: the goroutine runs, time passes and the read deadline
fires (weak fairness); a select with two ready cases takes each of them some day, since Go
chooses at random (strong fairness of `SelectDone`); a peer that is sent requests for ever
is reached, and answers, some day (strong fairness of `SendEcho` and `ReadResponse`:
resolving, dialling and the network do not fail every time); a lookup ends (weak fairness of
`Resolve`: the resolver answers or gives up). The fairness of `SendEcho` and `ReadResponse`
is needed by `AlivePeerSeen` only. Nothing is assumed about peers going down or coming up.

## 4. Proofs

Each proof module extends its component (`DatapathProofs` also `UpfSessionProofs`) and
proves the properties of the runs for arbitrary constants: any number of peers, sessions,
CPUs, rules, any pool and map size, octets and addresses of any length. The larger inductive
invariants were tried with TLC on the runs' instances before they were proved.

**Sessions** (`UpfSessionProofs`)

* `TypeCorrect` (`TypeOK`), for every `Stress`. The inductive invariant is
  `TypeOK /\ CurOK`; `CurOK` says that the request record fits the handler that runs. The
  delicate conjunct is that every global id is the id of a slot: `GlobalId` yields 0 for
  unknown rules, which is a slot because pools are not empty.
* `RulesAreExclusive` (`NoSharedRule`) and `SlotsAlwaysMirror` (`SlotsMirrorSessions`), from
  `"unknown" \notin Stress`. Neither is inductive alone, together they are: releasing a slot
  keeps mirrors right only if nobody else has it, which is exclusiveness, and the rows a
  deletion has released but not yet dropped must be excluded (`Live`). The assumption is
  needed: an update of an unknown rule writes slot 0, whoever has it.
* `LeaksAreKnown` (`LeaksOnlyWhereKnown`), for every `Stress`. An action property: it needs
  an invariant, `Kept`, about the rows a step drops. A session has one row for a rule id, the
  rows a deletion is through with are free already, rules belong to a stored session or the
  one being established, and `DeleteAssociation` passes over no FAR and no QER.
* `SlotsImplementPool` (`SlotsAreAPool`), the refinement of `IdPool!LossySpec`, from
  `"unknown" \notin Stress`: each handler step moves slots as `LossyNext` allows, by
  exclusiveness and `Kept`. `SlotsChangeHandsFree` says what follows for a slot: it is in one
  place, is free between two rules, and never comes back when it is lost.
* `MapsFollowSessions` (`MapsMatchSessions`) and `DeletionsAnswered` (`DeletionAnswered`), from
  `Stress \subseteq {"dangle"}`, `TeidsApart` and `[]MapsRoomy`. The invariant `Mapped` holds in
  the middle of requests: the maps mirror the PDRs the running request is not through with
  (`InMaps`), none of these is taken for deleted by the `TEIDCache`, SEIDs to come are
  unused, and no two PDRs have one key.
* `ForwardingIsIsolated` (`IsolatedForwarding`), from `Stress = {}`, `TeidsApart` and
  `[]Roomy`. The invariant `Named` says that sessions at rest have the rules their PDRs name,
  and that no live rule of another session has a slot a PDR names; the second is what a
  create can only keep if no named slot is free, hence the first.

**Packets** (`DatapathProofs`), for any number of CPUs

* `DatapathTypes` (`DpTypeOK`), for every `Stress`: packets carry ids of slots because PDRs
  and map rows do (`IdsFit`).
* `SlotsAreNotRecycled` (`NoRecycledRule`), as for isolation. Once a packet has looked up its
  FAR slot, the slot is not free while the running request can still create FARs
  (`Unrecycled`); this rests on the order of the handlers, through `EarlyNamed`: until a
  modification gets to its updates and removals, the FARs its PDRs name are there.
* `ForwardingIsUndisturbed` (`UndisturbedForwarding`), as for isolation: `Stress = {}`,
  `TeidsApart` and `[]Roomy`. `Ordered` looks only at the tables of the packet's session; the
  exception for PDRs without a QER is `StoppedByStranger`. The invariant
  `Undisturbed` says of a packet in flight whose session is untouched that it has the ids of
  its PDR and that the verdicts it has got from FAR and QER still stand (`Fits`): slots
  change only under requests of their own session, by exclusiveness, mirrors and isolation.

**TEIDs and addresses** (`SessionResourcesProofs`)

* `HandedOutOnce` (`NoDoubleHandout`), from lemmas on sequences of distinct ids (tail,
  append, concatenation, any order of a finite set), and `PoolsImplemented`
  (`PoolsKeepPromise`), the refinement of `IdPool!Spec`: each of the four operations maps to
  `Take` or `Release` of one pool and a stutter of the other. It needs "one address per
  key", because a key with two addresses would forget both when it takes a third.
* `ResourceTypes` (`ResTypeOK`), `HandlersHandOutOnce` and `HandlersUsePools`, for every
  `Stress`: each step of the handlers is an operation of the resource manager, so `ResSpec`
  implements its `Spec` and inherits both theorems. The invariant is `Fits`.
  `IdsChangeHandsFree` says what the refinement means for a TEID or address, as above.
* `ResourcesAreExclusive` (`ResourcesExclusive`) and `OrphansAreKnown`
  (`OrphanedOnlyWhereKnown`), from `Careful`: peers may replace ids, change remote SEIDs and
  send unusable IEs, but their SEIDs do not meet and PDRs are not removed one by one. The
  invariant `Apart` follows a TEID or address from the booking, under whichever SEID it was
  made, to the release: no other session answers to that SEID, and a deletion that is through
  with a PDR has released what it names.

**Associations** (`PfcpAssociationProofs`)

* `AssociationTypes` (`TypeOK`) and `AssociationsAreWatched` (`OneScheduler`), for any retries,
  counter widths, losses, duplicates and delays. The invariant adds that running schedulers
  have a peer; `Links` states it as a relation so that one lemma (`MoveKeepsLinks`) serves all
  steps of a scheduler.
* `PrunedWhenSilent` (`PrunedOnlyUnanswered`) and `PaceIsKept` (`HeartbeatsPaced`), from
  `TimelyNetwork`: no duplicates, and answers handed over before the timeout or never. The
  widths of counter and wire are arbitrary; the properties exempt by name what follows from
  a sequence the wire cannot carry. The invariant `Timely` says that a scheduler has at most
  one heartbeat under way, which is the one it waits for, and that, unless an answer came
  back `cut`, its failed count is at most the number of heartbeats the peer left unanswered
  in a row. Section 5 shows what happens without each of these assumptions.
* `RunIsNotHeldUp` (`RunNotHeldUp`), from `TimelyNetwork` and `Timely`: whenever `Run` is in
  `HandleHeartbeat`, the scheduler it sends to is in its select.
* `MutualWaitNeedsLateAnswer`, from `~Late` alone: with any losses, duplicates and counter
  widths, `Run` never sends to a scheduler that is itself sending to `Run`. The invariant
  `FailingAlone` says that a scheduler that reports its failure has no heartbeat under way.
  Together with `hb_deadlock` this settles when the two goroutines block each other: it takes
  an answer later than `heartbeat_timeout`, and one is enough.

**SDF filters** (`SdfFilterProofs`), for octets, addresses and ports of any size

* `FilterTypes` (`TypeOK`): what `ParseSdfFilter` accepts is a well-formed map value.
* `FiltersMatchTheirText` (`MatchesAsDescribed`). The invariant `Filtered` ties the stored
  filter to the text it came from and the last verdict to both. Below it: `HtonlUndoesCopy`
  (the reversal by `Copy16Ip` and the swap in the matcher undo each other) and `MaskedEqual`
  (two addresses agree under a mask of `n` bits if and only if their first `n` bits agree).
  Four cases are exempt by name: IPv6 literals and too long prefixes (`Carried`), port texts
  for downlink IPv6 UDP packets, ranges from port 0 for packets without ports (`PortsSeen`),
  and protocol 58.
  The second needs no induction over octets: bits are numbered through the address, and
  `BitPosition` and `PositionBit` translate between a number and its place in an octet.

**Accounting, limiter, paths**

* `UrrAccountingProofs`: `AccountingTypes` (`TypeOK`), `OverreportingIsKnown`
  (`NothingOverreported`), `UsageAccounted` (`NothingUnreported`). The invariant says that both
  bounds hold not only for the row but for every copy of it somebody will still use (`Fits`):
  the value a packet has read and the value a deletion has looked up, either of which may
  become the row or a report; and that two packets that add at the same time both know of it
  (`raced`). What is already reported and what waits for the answer are counted together, so
  that a failing request only moves a sum from the one side to `lost`.
* `QerLimiterProofs`: `LimiterTypes` (`TypeOK`) and `RateLimitHolds` (`RateIsLimited`), for
  any number of CPUs. The bound is in bits of the PFCP rate, not in the program's own
  `TxTime`: a lemma on the integer division gives the factor of `Rounding`. The invariant
  `Charged` says that, as long as no two CPUs had packets in hand at once, what was let
  through is at most the window start the packet in hand will charge (`ChargedStart`) plus a
  window, or the clock it was measured with (`LastClock`), less the beginning of the
  measurement; that the start is at most a burst less a window ahead of that clock; and that a
  reset buys at most one burst. It must speak of the packet's own copies of start and clock,
  because a reset or a tick may come between its steps.
* `GtpPathProofs`: `PathTypes` (`TypeOK`) and `PeersAreProbed` (`ProbeGap`), for any finite
  set of peers, as long as every lookup is over within `ResolveTime`, which is a constant of
  the module because the code has no such limit. The invariant names the time since the last
  round began (`Began`): it is bounded by the attempts of the round that are over (`Spent`,
  lookup plus deadline times a cardinality), the peers the round has come to were tried since,
  the others in the round before.

Assumptions on constants are `ConstantsAssumption`, `ContentsAssumption`,
`SessionAssumption`, `HeartbeatAssumption`, `LimiterAssumption`, `PoolAssumption`,
`UrrAssumption`, `GtpAssumption`, `SizesAssumption`, `TextsAssumption` and
`PacketsAssumption`: finite widths and sizes, a finite set of GTP peers,
non-empty rule pools, no TEID 0 from peers, no TEID of a peer's own in the UPF's range, texts as
the parser's regular expression and `net.ParseIP` let through, packets of one family. TLC
evaluates them on every instance. Assumptions on the environment are part of the theorems:

| Assumption | Says | Without it |
|---|---|---|
| `"unknown" \notin Stress` | peers update and remove rules they created | slot 0 of another session is written |
| `Stress \subseteq {"dangle"}` or `{}` | no reused, shared or moved ids and addresses, no unusable IEs; with `{}` also no PDR left without its rule | section 5 and the comment at `Stress` |
| `TeidsApart` | TEIDs differ in their low byte | the `TEIDCache` takes one TEID for another |
| `MapsRoomy` | a PDR map has room for the next row | session and map disagree after the failed write |
| `Roomy` | and the trackers have an id for the next create | "Empty trackers" in section 5 |
| `Careful` | SEIDs do not meet, no partial removal | section 5 |
| `TimelyNetwork` | nothing is duplicated, and `~Late` | "Heartbeat pace" in section 5; the deadlock |
| `~Late` | an answer is handed to the scheduler before `heartbeat_timeout` or never | the deadlock of `hb_deadlock` |

`MapsRoomy` and `Roomy` are conditions on behaviours, not on constants: a theorem of the form
`Spec /\ []Roomy => []P` speaks of every behaviour that never runs out of room, and says
nothing of one that does.

Only model-checked: the liveness properties (`SilentPeerPruned`, `ConfiguredPeersJoin`,
`StopReturns`, `DeadPeerNoticed`, `AlivePeerSeen`), because fairness and `ENABLED` are out of
the prover's reach.

## 5. Observations

The run that ends in a violation is described in `PROJECT.json`. Modelling showed more
of the same kind; most are a change of one constant away from a passing run:

* TEID cache (`core/pdr_creation_context.go:175`). `deletePDR` remembers deleted uplink TEIDs
  under `uint8(Teid)`. With `Teid = {1, 257}`, no UE address and 3 map rows in
  `UpfSessionClean.cfg`, `MapsMatchSessions` fails (with TEIDs 1 and 2 it holds): the second
  TEID is taken for deleted and its row stays when the session goes.
* Deletion with SDF PDRs (`core/pfcp_session_handlers.go:171`). With `Stress = {"sdfPair"}` in
  `UpfSessionClean.cfg`, `DeletionAnswered` fails: a default and an SDF PDR on one UE address
  share one map row, the second delete fails, the handler returns its response together with
  the error, and `pfcp_handlers.go:30` then sends nothing. The session stays, and every retry
  ends alike.
* Empty trackers (`core/pfcp_session_handlers.go:363`). With `RuleId <- FarUrr`,
  `PoolSize <- SmallPool` and one PDR id in `UpfSessionClean.cfg`, `IsolatedForwarding` fails:
  a modification removes a FAR, then finds no URR id and returns before its Remove PDR; the
  PDR stays and points to a free FAR slot, which another session is then given. It takes no
  mistake of the peer, only a full pool, and the pool of URRs fills by itself because pruned
  associations never give theirs back. This is why isolation is proved from `Roomy`.
* PDRs without QER (`core/pdr_creation_context.go:73`). They keep QER id 0, which is also the
  first id handed out: their packets pass the gate and limit of whichever session has slot 0,
  although `README.md:138` promises "per-session rate limiting". Without `StoppedByStranger`,
  `UndisturbedForwarding` fails in `datapath_sessions`.
* Partial removal (`core/pdr_creation_context.go:183`). With `Stress = {"partial"}` in
  `SessionResources.cfg`, `ResourcesExclusive` fails: Remove PDR gives back all TEIDs of the
  session, also those of the PDRs it keeps, and the next session is given them.
* Local and remote SEIDs (`core/pfcp_session_handlers.go:212`). TEIDs and addresses are booked
  under the remote SEID and released at deletion under the local one. With `"crossed"`,
  `ResourcesExclusive` fails: the deletion of a session takes those of the session whose
  remote SEID is that number. An address of a session whose two SEIDs differ never returns
  to the pool (`OrphanedOnlyWhereKnown` allows it). With `"sameSeid"`, two peers with the same
  number, or one retransmitted establishment, take each other's ids away.
* URR ids (`ebpf/pdr.go:309`). `Urr1Id` and `Urr2Id` are not copied into the PDR row: every
  packet is counted twice in slot 0 (`doubled`) and every other URR reports 0 (`RowUrr`).
* Unknown URR ids (`core/session.go:114`). An Update or Remove URR for an id the session does
  not have is carried out on slot 0, and its volume is reported to whoever asked.
* Update URR (`core/pfcp_session_handlers.go:376`) overwrites the volume counted so far with
  the zeros of `UrrInfo`; it is reported to nobody.
* Reports of failed modifications (`core/pfcp_session_handlers.go:465`). A modification that
  removes a URR and then fails in its PDRs answers with a cause only; the row is zeroed and
  its volume is reported to nobody.
* Name lookups (`core/gtp_path_manager.go:84`). Peers may be host names, and the echo loop
  resolves them one after the other without a limit: as long as a lookup hangs, no peer is
  probed. `ProbeGap` is relative to `ResolveTime`.
* Echo answers (`core/gtp_path_manager.go:119`). The comparison of sequence numbers is
  commented out: a late answer counts as the answer to a later request. The number is not
  increased after a timeout, so a retry and its original are alike.
* IPv6 SDF literals (`ebpf/xdp/sdf_filter.h:128`). `match_sdf_filter_ipv6` swaps only the low
  32 bits of the address and no mask: an address does not match itself, and a prefix is
  compared with the wrong end of the packet's address. The `type` of a filter is not looked at
  either, so an IPv4 filter is compared with the first octets of an IPv6 packet.
* Ports of downlink IPv6 UDP (`ebpf/xdp/n3n6_entrypoint.c:438`). `handle_ip6` parses TCP but
  not UDP, so the matcher sees port 0 in every such packet: a filter with a port matches none
  of them.
* Port ranges from 0 match packets without ports as well, because these also have port 0.
* SDF protocol 58 (`core/sdf_filter_parser.go:62`) is stored as 4, which `get_sdf_protocol`
  never returns: such a filter matches nothing.
* Long prefixes (`core/sdf_filter_parser.go:92`). A mask beyond the address (`/33`) is accepted,
  becomes nil and then zero, and the filter matches every address.
* Heartbeat pace (`core/node_association.go:67`). With `MaxDup = 1`, `HeartbeatsPaced`
  fails: an answer with another sequence than the awaited one ends the select and the
  next request leaves at once. After one duplicate every answer is one behind, and
  requests follow each other without a pause.
* Sequence width (`core/node_association.go:68`). The counter has 32 bits, the wire 24: after
  2^24 heartbeats no answer equals the sequence sent. The select then ends as for a stale
  answer, the next request leaves at once, the failed count is never cleared, and timeouts
  far apart delete an association. Without the exemption of cut sequences,
  `PrunedOnlyUnanswered` and `HeartbeatsPaced` fail in `hb_timely`.
* QER on several CPUs (`ebpf/xdp/qer.h:87`). Without `~raced`, `RateIsLimited` fails in
  `qer_limiter`: both CPUs read the same start, and one charge is lost. The more CPUs have
  packets of one QER in hand, the more pass for the price of one.
* Fast QERs (`ebpf/xdp/qer.h:75`). `NSEC_PER_SEC / rate` is 0 for a rate above 10^9
  bit/s; then `tx_time` is 0 and nothing is limited, although `qer.h:71` reserves that for
  rate 0. Below, the integer division lets through up to twice the rate when the rate does
  not divide 10^9 (`Rounding`).
* Updated SDF PDRs (`ebpf/pdr.go:286`). `CombinePdrWithSdf` takes the row it finds for
  the default PDR, also the row the same PDR wrote before: the updated row is in mode 2,
  with a default part (FAR 0) nobody configured.
* Torn FARs (`ebpf/xdp/n3n6_entrypoint.c:128`). The downlink path checks the FAR and reads
  its tunnel only after QER and URRs; an Update or Remove FAR in between sends the
  packet into a tunnel with the zeros of a FAR that has none. `UndisturbedForwarding`
  is about packets whose own session is not `touched`, so it does not exclude this.

## 6. Not modelled

The REST writers of FARs and uplink PDRs (`setFarValue`, `setUplinkPdrValue`): they
overwrite map rows behind the sessions by design, and every statement about maps and
sessions excludes them. Left out for good: header rewriting and checksums (bit-level code
over packets), the route lookup and its cache (kernel state), values of
`outer_header_removal` other than the zero value that stands for GTP-U/UDP/IPv4, fragments
(their later parts have no ports), metrics and statistics (nothing depends on them),
configuration, logging and start-up (I/O), the stub entry points. Data races between REST
readers and `Run` on Go maps are undefined behaviour including a crash; they are listed as a
hazard and not modelled.

## 7. Plan

1. Done: all modules above with their runs; proofs of every invariant and action property the
   passing runs check, and of all refinements.
2. Open: `Ordered` as an abstract specification of forwarding, implemented by `Datapath` for
   sessions at rest; the REST writers of maps as an environment of `UpfSession`, with what
   still holds beside them.
