# xk6-bgp in TLA+

A TLA+ model of xk6-bgp, the k6 extension that opens BGP sessions from load
tests, with the TLC configurations that check it and TLAPS proofs of its safety
properties. Paths are relative to the repository root.

- [The system](#the-system)
- [Modules and the code](#modules-and-the-code)
- [Runs](#runs)
- [Fairness](#fairness)
- [What is proved](#what-is-proved)
- [What the code does otherwise than its text says](#what-the-code-does-otherwise-than-its-text-says)
- [What is not modelled](#what-is-not-modelled)
- [Plan](#plan)

How to run: `tlc -config <X>.cfg <Module>` with the module and configuration of
a row below; `tlapm <M>Proofs.tla` checks the proofs.

## The system

A k6 process runs virtual users (VUs), each a JavaScript runtime on a goroutine
of its own. A script creates a `bgp.Peer`, opens it, sends routes, waits for
routes, measures, closes. The API is synchronous: one Peer is used by one VU,
one call at a time. What is concurrent are the goroutines *behind* a Peer, the
peer at the other end of the connection, the VU's context, the timers, and the
VUs among each other where they share something (barriers, the profiler).

| Component | Source | State | Operations |
|---|---|---|---|
| Session FSM | `internal/peer/fsm.go`, `peer.go` | atomic `state`, `conn`, `writeMu`, `loopCtx`, `hsDone`, negotiated values | `open`, `handshake`, the cancellation watcher, `readLoop`, `keepaliveLoop`, `fail`, `close` |
| Observed set | `internal/peer/recv.go`, `message.go` | under `mu`: `firstSeen`, `withdrawn`, counters, `lastEoRR`, `failedErr`, the lists of waiters | `applyUpdate`, `applyRouteRefresh`, `fail`, `WaitForPrefixes`, `WaitForRouteRefreshEnd`, `Stats` |
| Send path | `internal/peer/send.go`, `internal/packet/path.go` | local to a call; `writeMu` and `conn` of the session | `Advertise`, `Withdraw`, `RouteRefresh`, `ChunkRoutes`, `writeUpdates` |
| Configuration and negotiation | `bgp.go` (`parsePeerConfig`), `internal/peer/peer.go` (`Config.Validate`), `defaults.go`, `message.go` (`BuildOpen`), `fsm.go` (`acceptPeerOpen`), `internal/packet/caps.go` | hold time, keepalive interval, ADD-PATH modes, flags | one evaluation per session |
| Barriers | `internal/coord/barrier.go`, `barrier.go` | registry by name; `arrived`, `done` | `bgp.barrier(name, count)`, `arrive(timeout)` |
| fakebgpd | `cmd/fakebgpd/main.go` | hub under `mu`: sessions and cached UPDATEs; a write lock per session | one `handleConn` per connection, its ticker, `broadcast`, `replay` |
| Wire encoders | `internal/packet/*.go` | none | constructors of routes and attributes, their checks, the key of a route |
| JavaScript facade | `bgp.go` | one `peer.Peer` | reading routes, attributes and descriptors of wanted routes; delegation; metric samples |
| CPU profile | `internal/debug/pprof.go`, `profile.go` | process-wide `active.on` under `active.mu`; the runtime's profiler; files; `stopOnce` per profile | `startCPUProfile`, the stop function, the automatic stop |
| Metrics, module | `internal/metrics`, `module.go` | registered metrics | registration, samples |

**How they interact.** The FSM's `readLoop` calls into the observed set for each
UPDATE and ROUTE-REFRESH; a failure of either loop calls `observed.fail`, which
releases the waits. The send path checks the FSM's state, then writes to its
connection under `writeMu`, which the keepaliveLoop, the hold-timer notification
and Close take too. The observed set and the send path use what the negotiation
decided. The facade turns what a script writes into routes on the sending side
and into keys of the observed set on the receiving side; the two meet only over
the wire. Barriers and the CPU profile are shared by all VUs of a process.
fakebgpd is the peer of the repository's own end-to-end tests.

**What is hard.** Lost wake-ups of the two wait functions, against UPDATEs,
withdrawals, EoRRs and failures in any order; `fail` and `Close` racing for the
end of a session, statement by statement; a peer that stops reading while a
writer holds `writeMu`; a context that ends during or after the handshake; the
rendezvous of VUs that time out; the order of publication, KEEPALIVE and
reflected UPDATEs in fakebgpd; lengths at the limit of a BGP message; the same
route read in two ways by two VUs; a script, a timer and other VUs at the one CPU
profile of the process.

**What makes each part correct.**

- Session: Established only by a complete handshake; every way to the end
  releases the connection, stops both loops, and records the first cause; Open,
  Close and a failure always come to an end.
- Observed set: no wake-up is lost and none is spurious; the incremental
  bookkeeping of pending prefixes is what a scan of the table gives; measured
  intervals are those of the wanted prefixes; a refresh wait ends only with an
  EoRR of its own cycle; no waiter leaks.
- Send path: routes go out once, in order, in the largest messages that fit, in
  the form the peer expects; timestamps are those of the first write; a slow
  drip does not starve keepalives.
- Configuration and negotiation: whatever a script may configure, both ends of a
  session come to the same result.
- Facade and encoders: what can be advertised can be awaited, and a wait finds it
  exactly while it stands, as long as its descriptor has no bits that an NLRI does
  not carry; the counters are those of the routes on the wire.
- CPU profile: one at a time, its files its own while it is active, and every
  start and stop returns.
- Barriers: nobody passes early, everybody is released, `done` is closed once,
  one name is one barrier.
- fakebgpd: reflected to all, complete refresh answers, split horizon.

## Modules and the code

### ObservedSet (`internal/peer/recv.go`, `message.go`)

The receive side of one Peer. **State:** `firstSeen`, `withdrawn`, `lastEoRR`,
`failedErr`, `firstUpdate`, `lastUpdateAt` and `counts` are the fields of
`observedSet`; `waiters` and `refreshWaiters` its two lists; `waiter[w]` and
`refreshWaiter[r]` the waiter struct together with the local variables of the
call that owns it (`want`, `pending`, `onlyAfter`, result, program counter).
`now` is the monotonic clock, `inHand` the critical sections the readLoop still
owes for the message it has read: one UPDATE takes the lock up to three times
(MP_REACH and MP_UNREACH in the order of its attributes, then the legacy fields).

**Actions:** one per critical section of `observedSet.mu`, one per blocking step.
`ReadMessage` stamps and parses a message; `ApplyUpdate` is `applyUpdate` with
its `notifyReach`/`notifyWithdraw` of every listed waiter (`Notified`);
`ApplyRouteRefresh`; `FailBegins`, `Fail`, `LoopReturns`; `Close`, `CloseReturns`.
WaitForPrefixes is `RegisterWaiter` (scan and append in one section), `Select` or
`TimerFires`, `Collect` (the second critical section), `DeregisterWaiter` (the
deferred removal). WaitForRouteRefreshEnd has the same steps and `CheckRefresh`
in front, the state check made before the lock is taken.

A prefix is a key, the string that `NLRI.String()` gives. Two timestamps may be
equal: the clock may stand still between readings.

### PeerSession (`internal/peer/fsm.go`, `peer.go`)

The four goroutines of a session: the VU's own (`open`, `handshake`, operations,
`close`), the watcher that closes the connection when the context ends during
the handshake, `readLoop`, `keepaliveLoop`. `pc[g]` is where each one is; `fail`
and `close` are modelled statement by statement (`FailCancel`, `FailClose`,
`FailIdle`, `FailRecord`; `CloseSwaps`, `CloseSetsDeadline`, the Cease,
`CloseCancels`, `CloseClosesConn`, `CloseJoins`), because their order is what
the others depend on. Every write is `LockWriteMu(g)` followed by `WriteOk(g)`
or `WriteError(g)`, and blocks while the peer does not read (`stalled`), unless
a write deadline has been set or the connection closed. The peer may send any
message at any moment, close, or stop reading. `wire` leaves repetitions of one
message out, so that it stays short. Of the OPEN it is kept whether it is
acceptable and whether there is a hold time.

### Negotiation and SendPath (`acceptPeerOpen`; `send.go`, `packet/path.go`)

`Negotiation` goes from the configuration of a Peer (`CapabilityDefaults`,
`AddPathParses`, `Validate`, `Usable`) over its OPEN (`BuildOpen`, with the default
and the 16 bits of the hold time, `OfferedHold`) to `AcceptPeerOpen(local, peer)`,
the session one side makes of the two OPENs. `SendPath` starts with the OPEN of
any usable configuration, applies `AcceptPeerOpen` to our side, and for its
properties to the peer's side with the roles exchanged; `FakeBgpdOpen` is among
the peers' OPENs. Then a VU makes calls of Advertise,
Withdraw or RouteRefresh: `CallRefused` or `SendUpdates` (the checks and
`shellOverhead`), `ChunkRoute` (one turn of the loop of `ChunkRoutes`) and
`LastChunk`, then per chunk `Build`, `LockWriteMu`, `Stamp`, `WriteUpdate` or
`WriteFails`, and `Wake` after the sleep of an update rate. The keepaliveLoop
competes for `writeMu`; the connection may break at any moment. Routes are
positions in the call with a length; messages are the interval of positions
they carry, their length and whether their routes have path identifiers.
Lengths have the structure of the code (header, attributes, the attribute's
own length field of one or two octets) and small values.

PeerSession and SendPath overlap on purpose. The first is about how a session
begins and ends and has writes without content; the second is about content and
has the end of the session as a single step.

### Rendezvous and Barrier (`internal/coord/barrier.go`, `barrier.go`)

`Rendezvous` is what a barrier of one name promises: a goal that never changes,
a count that only grows, and nobody passes before the count has reached the
goal. `Barrier` is the code: `Find` and `Create` are the two ways through
`Registry.Barrier`; `Arrive` is the atomic add; `CloseDone` the close of the
channel by the arrival that reached the target; `Done` and `TimerFires` the two
branches of the select. `KeepsPromise` states that Barrier implements
`Rendezvous` for every name, with `goal`, `count` and `party` as functions of
the registry, the objects and the program counters.

### FakeBgpd (`cmd/fakebgpd/main.go`)

One `handleConn` goroutine per connection with its ticker, the hub's session
list and cache, and the peers: xk6-bgp sessions of which the handshake is kept,
as `fsm.handshake` does it. `HandshakeOrder` is the order OPEN, `h.add`,
KEEPALIVE; `Record`, `Reflect` (the snapshot of the other sessions under the
lock) and `Broadcast` (one write each, outside of it) serve an UPDATE; `Refresh`
(snapshot) and `Replay` (one write each) a ROUTE-REFRESH.

### Routes and Delivery (`bgp.go`, the route types of `internal/packet`)

`Routes` has no state: it is what the facade and the constructors make of an
element that a script gives. A route is read twice: by the family of the call
when it is advertised (`ParseRoute` and the parsers and constructors it calls),
by its own fields when it is awaited (`Awaitable`, `descriptorKey`). `ReceivedKey`
is the key under which the observed set records what arrives, `AwaitedKey` the one
a wait looks for; both are `Identity`, the fields that `NLRI.String()` shows, with
a path identifier or not. The received one has been on the wire, which `Masked`
models: the prefix of an IP, L3VPN, ISD or T1ST route and the TEID of a T2ST route
arrive without the bits below their length (`CutFields`), the length of a TEID being
what `endpointAddressLength` has beyond the endpoint (`mup.go:95-99`, `110-119`; the
TEID's first bits count, `mup_test.go:200`). An EVPN IP prefix arrives as it was
given (`evpn.go:112-128`). The awaited key is made of a route that was never sent, so
nothing is cut from it. Attributes are kept as far as they can make a call fail.

`Delivery` composes it into a measurement: VU `tx` opens, advertises, withdraws,
closes; VU `rx` opens, waits, closes; between them a speaker that reflects. `Begin`
is the parsing and the checks of a call, `Write` one UPDATE (the facade's
`recordSent` with the last), `WriteFails` the error in the middle, of the connection
or of a chunk that cannot be serialized; `Deliver` is
dispatch and the record of one UPDATE, `BeginWait` and `EndWait` the two ends of
`waitForPrefixes` with its counter. What happens inside these calls is in SendPath
and ObservedSet and is taken at its result here; ObservedSet keeps a prefix as
one key, which is what this module shows to be justified.

### CpuProfile (`internal/debug/pprof.go`, `profile.go`)

Each `startCPUProfile` is a call `c` with its path and whether it has seconds.
`Stat`, `Lock`, `Check`, `Create`, `Start`, `Return` are the steps of
`StartCPUProfile`: the existence test is outside `active.mu`, the rest inside. `Stop`
enters `stopOnce.Do`, for the script or the timer; `StopProfile`, `CloseFile`,
`WriteHeap` and `Release` are its steps, of which only the last takes `active.mu`.
`file[p]` and `heap[p]` are who created the two files last. Every step that touches
the file system or the profiler may fail.

### Proof modules

`ObservedSetProofs`, `PeerSessionProofs`, `BarrierProofs`, `SendPathProofs` (also of
Negotiation), `CpuProfileProofs`, `FakeBgpdProofs` and `DeliveryProofs` (also of
Routes) extend the module they are about and add no assumption to it.
`NaturalSets` has the lemmas on least and greatest elements that three of them
need.

### MC modules

`ObservedSetMC`, `PeerSessionMC`, `BarrierMC`, `FakeBgpdMC`, `SendPathMC` and
`DeliveryMC` add the symmetry sets and the values of constants that a configuration cannot
write. Symmetry is used in runs of safety properties only. The operators marked
"Mutant" next to a definition are ways a bug could have changed it; no
specification uses them.

## Runs

States are distinct states; the times are those of two workers.

| Run | Module, configuration | Question | States |
|---|---|---|---|
| `observed_waits` | ObservedSetMC, ObservedSetWaits | WaitForPrefixes, two prefixes, against all orders of UPDATEs, withdrawals, failures, Close, timers | 10.5 M |
| `observed_fair` | ObservedSetMC, ObservedSetFair | both waits next to each other, two families: is no EoRR missed and none of an earlier cycle taken, and does a failure or the awaited EoRR end a wait with no timer firing? | 0.50 M |
| `session` | PeerSessionMC, PeerSession | all interleavings of the four goroutines, the peer and the context; do Open, Close, a failure and a blocked operation end? | 0.65 M |
| `sendpath` | SendPathMC, SendPath | every configuration and negotiation, then two calls at message lengths around the limit | 0.9 M |
| `barrier` | BarrierMC, Barrier | does the barrier implement the rendezvous, and is everybody released? | 0.12 M |
| `fakebgpd` | FakeBgpdMC, FakeBgpd | reflection, refresh answers, split horizon, two peers | 3.8 M |
| `delivery` | DeliveryMC, Delivery | does a wait see exactly the routes that stand, however the two sides write them (elements with bits that no NLRI carries excepted), and do the counters follow the wire? | 3.7 M |
| `cpu_profile` | CpuProfile, CpuProfile | three starts with one path: one profile at a time, and does every call return? | 45 K |
| `cutoff_rematch` | ObservedSetMC, Rematch | violated: see below | |
| `early_timeout` | ObservedSetMC, EarlyTimeout | violated: see below | |
| `missequenced` | FakeBgpdMC, MisSequenced | violated: see below | |
| `chunk_overflow` | SendPathMC, ChunkOverflow | violated: see below | |

**The bounds, and why they are enough.**

- ObservedSet: `MaxTime = 2` readings of the clock, because every comparison is of
  two timestamps and both orders and equality occur; two messages, of which each
  is several critical sections, enough to announce and withdraw around a
  registration, and for an EoRR of an earlier cycle next to the awaited one; two
  prefixes, so that one may come back while the other is missing. `MaxRoutes = 3`
  routes in an UPDATE, so that all of its three critical sections may have one; 2
  where there is one prefix and the question is about EoRRs. One caller of
  each wait, for waiters never read each other; where both kinds are there
  `OneWait` lets them wait one after the other, as the script of one Peer does. The
  proofs are for waits at the same time too, and for any number of callers.
- PeerSession: `MaxReads = 4` lets the peer complete the handshake and then send
  two more messages; one keepalive tick and one operation let a failure of either
  loop meet a blocked writer and a Close.
- SendPath: two calls, for the second starts in the state the first one left;
  batches of up to three routes of two lengths, which gives one chunk, several
  chunks, a chunk that fills its budget exactly and one that is one unit short;
  limits 10 and 13 stand for 4096 and 65535, `ShortAttr = 5` for 255. The
  configurations have hold times that are missing, below zero, below a second, at
  2999 ms, at both sides of the longest one and one that would wrap to 1 s.
- Barrier: three VUs and the counts 0 (refused), 2 and 3, so that there are
  rendezvous with late arrivals, with two arrivals between add and close, and
  with a count that contradicts an earlier one; four arrivals per barrier.
- FakeBgpd: two peers and two UPDATEs, so that a peer is both origin and target
  and an answer to a refresh runs against a broadcast.
- Delivery: a script per group of families, as an instance of its own: IP with
  strings, objects, host bits, both forms of UPDATE, with and without ADD-PATH;
  the same route announced, withdrawn and announced again; calls that must fail;
  L3VPN, EVPN and MUP routes that differ in one field, of the key or not; T2ST
  routes with the whole of their TEID (length 160) and with part of it (136 and 40),
  advertised with bits below and awaited with and without them, likewise an ISD
  prefix; an EVPN prefix with host bits, which only a descriptor with the same host
  bits finds. Two or
  three calls and one wait, at any moments; a wait looks at what is recorded and
  does not change it, so that a second one would see nothing a first cannot.
- CpuProfile: three calls of one path, so that one may start, one stop and one try
  in between.

`CHECK_DEADLOCK FALSE` where the bounds or a script that does nothing more may
stop the system; `session` and `observed_waits` check for deadlock, the end of the
session being a stuttering step in PeerSession.

## Fairness

Only what the Go scheduler gives: weak fairness for each step a goroutine can
take, never for what depends on somebody's will.

- ObservedSet: the readLoop applies what it has read, a failing loop records its
  failure, a waiter that is released proceeds. No timer has to fire and no
  message has to come, so `FailureReleases` and `EoRRReleases` do not lean on the
  timeout they are meant to make unnecessary. The clock need not advance.
- PeerSession: goroutines run, deadlines and the hold timer are reached, a
  write that can end does end. `WF` of `LockWriteMu` is what `sync.Mutex` gives a
  waiter whose competitors release and have finitely many writes. The script,
  the peer and the context are not fair.
- Barrier: the steps inside `arrive` except the timer.
- SendPath: the steps of a call except the sleep between chunks, whose length is
  not bounded, and the keepaliveLoop's lock and write.
- CpuProfile: the steps inside a start and inside a stop, and the timer of an
  automatic stop, a sleep of given length; no script has to start or stop.

## What is proved

TLAPS proves every type invariant, safety invariant and action property that a
passing run checks, and that Barrier implements Rendezvous, for every value of the
constants that the assumptions named below allow. In each module the properties
follow from an inductive invariant, proved action by action.

**Observed set.** Any set of callers, families, any finite set of prefixes, any
bound on time and messages. Assumptions: `BoundsAssumption` (the bounds are
numbers, there is a first clock reading), `FiniteAssumption` (finitely many
prefixes, for the minimum over a set of wanted ones to exist) and
`FamilyAssumption` (who waits for refreshes has a family to wait for). The
properties are not inductive; `ObservedInv` is, together with `TypeOK`:

- `ClockInv`: times in the tables are not ahead of the message in hand, nor the
  message ahead of the clock. Without it a new sighting could be older than the
  last UPDATE, and an interval could end before it starts.
- `WaitInv`: a blocked caller whose `done` is open is listed, and what it lacks is
  in its pending set, which is what the tables say.
- `IntervalInv`: the interval accumulated so far spans the prefixes no longer
  pending. A re-armed prefix leaves the interval untouched, which is why the
  statement is about `want \ pending`.
- `RefreshInv`: a blocked refresh caller has seen neither its EoRR nor a failure.
- `StatsInv`: the counters bound the sizes of the tables. Each of the up to three
  critical sections of an UPDATE adds as many to a counter as it has keys, and a
  union grows by no more than that.

It gives `TypeCorrect`, `PendingIsTheTable`, `WakeupsArrive`,
`WakeupsHaveAReason`, `IntervalIsMeasured`, `WaitersAreReleased`,
`RefreshHonoursCutoff`, `RefreshWakeupsArrive`, `StatsAreOfTheTables`.

**Session.** `SessionInv` is the conjunction of `HandshakeInv` (what has been heard
and written at each point of the handshake), `StateInv` (the FSM state at each
point of the VU's goroutine), `LoopsInv` (the loops run only after Open),
`OrderInv` (who has closed the connection or stored Idle has cancelled the loops
before) and `CauseInv` (a failing loop has a cause; a read error has an outer
one; the cause is missing from an Idle session for one step of `fail` only, and is
never replaced). `OrderInv` is the heart: `fail` and `close` keep the same order of cancel
and close, and that alone makes it true that nobody takes our own close for the
peer's. Proved from it: `TypeCorrect`, `HandshakePrecedesEstablished`,
`MessagesInOrder`, `ConnectionsReleased`, `EndsAreExplained`,
`ReadErrorsAreForeign` and the action property `StatesFollowThePath`.

**Barriers.** Any set of VUs, names and counts; assumptions `CountAssumption`
(counts are integers) and `VuAssumption` (no VU is called "none").
`BarrierInv` adds to the properties that a name has at most the barrier its
creator made (`RegistryInv`) and that the indexes handed out are at most the
count (`ArrivalInv`). Proved: `TypeCorrect`, `NeverSplit`, `DoneClosedOnce`, and
`PromiseKept`: every step of `Barrier` is a step or a stutter of `Rendezvous` for
every name.

**Negotiation.** Any families, any configurations, any OPENs of the peer; assumptions
`ConfigAssumption` (a hold time is an integer, a switch is a boolean) and
`OfferAssumption`. `AgreedInv` says that after the handshake the session is
`AcceptPeerOpen` of the two OPENs; with lemmas about its parts (the hold time is
symmetric and one of the two offered, a keepalive comes in time for it, ADD-PATH
modes mirror each other) it gives `SidesAlwaysAgree`. That our own hold time is
not 1 or 2 seconds, without which the keepalive interval of one second would not
be shorter than a hold time of one, is no assumption: `HoldFits` derives it from
`Validate` and the 16 bits of the field, and `OpenIsOffer` that the OPEN of any
usable configuration is an offer.

**Send path.** Any batches of routes of any lengths, any number of calls and
keepalives, any lengths of header, attributes and limits (`LengthAssumption`: they
are numbers, a bare header fits into a message, and the extended limit is not the
lower one; `BatchAssumption`: `ends` adds up lengths that are not zero). No recursion
is needed: a chunk's length is a difference of two values of `ends`. `SendInv` is
`AgreedInv`, the types, and:

- `MutexInv`: who holds `writeMu` is known from where the call and the keepaliveLoop are.
- `ChunkInv`: the chunks made so far are a partition of the routes up to the one in
  hand (`Partition`), none is over the budget, and none could have taken the route
  after it (`Filled`); `used` is the length of the open chunk.
- `AllowedInv`: a call under way was allowed by the session as it is now, and the
  length of what is about to be written has been checked.
- `ProgressInv`, `OrderInv`: `sent` is where the chunks written so far end, and the
  UPDATEs of a call on the wire join without gap or overlap.
- `StampInv`: while `writeMu` is held for a write, the timestamp is the present length
  of the wire.

Proved from it: `PeerAlwaysUnderstands`, `ChunksAreAlwaysLargest`,
`RoutesAreAlwaysInOrder`, `TimestampsAreAlwaysOfFirstWrite`. The first is not a
property of one side: it needs `AgreedInv`, that what we may send is what the
peer's own evaluation of the two OPENs expects.

**fakebgpd.** Any connections (`ConnAssumption`: none is called "none", the origin of
a message that is not an UPDATE), any number of UPDATEs and keepalives.
`ReflectorInv` is the types and:

- `StageInv`: a session is in the hub's list exactly from `h.add` to `h.remove`, and no
  peer is Established before its session has passed `h.add`. The order of `h.add` and
  the KEEPALIVE is used here and nowhere else.
- `OriginInv`: wherever an UPDATE is (inbox, hand, snapshot, answer, wire), whose it is.
- `DueInv`: a cached UPDATE that a session was due is on its wire or in the snapshot
  of a broadcast that goes on.
- `IdInv`, `OrderInv`: the UPDATEs of an origin are numbered along their way from
  wires over the hand to the inbox, so that each wire has them in order.
- `RefreshInv`: an answer is divided between the wire and the queue. In front of an
  EoRR still queued, what is not behind the BoRR on the wire is queued before it
  (`Divided`).

Proved from it: `NoUpdateComesBack`, `UpdatesReachAll`, `AnswersAreComplete`. The loop
of `hub.replay` is a recursive function; that it collects exactly the UPDATEs of
others (`ReplayedIsOthers`) is shown by a least counterexample.

**Delivery.** Any scripts over all families, any number of calls and waits.
Assumptions: `ScriptAssumption`, `BoundsAssumption`, `CallAssumption` (a call has an
array of routes), `ListAssumption` (`parsePrefixList` refuses an empty list,
`bgp.go:510-514`; lists are finite, and a prefix, like a TEID, is a record of family,
network and the bits below). Three lemmas about Routes carry it: `AwaitedIsMasked`, an
element without such bits in a field that is cut has the identity that its NLRI has
on the wire; with it `DescribedByKey`, such an element describes a route exactly when
`AwaitedKey` of the one is `ReceivedKey` of the other; and `AdvertisableIsAwaitable`. `DeliveryInv` is the types and:

- `CountInv`: how far the counter of sent routes is behind the wire, call in progress
  included.
- `RecordInv`: the tables are what the sequence of received records says: times rise,
  `firstSeen` is the first announcement of a key (`SeenFirst`), `withdrawn` the keys
  whose last record is a withdrawal (`GoneLast`). With the lemmas it gives
  `StandingByKey`: a route stands exactly if its key counts.
- `StampInv`: no first sighting has the time of a write, for a route is received
  after it was sent. Without it a duration could be zero and its sample lost.
- `WaitInv`: a wait under way has the time of all that counts already; one that has
  ended gave a true answer.

Proved from it: `WaitsSeeWhatStands`, `MetricsAreExact`.

**CPU profile.** Any set of calls, any files; `CallAssumption` (no call is called
"nobody"). `OneProfile` is strengthened by `LockInv` (`active.mu` is held exactly
from the check of `active.on` to the return), `StartInv` (its holder has seen the
guard down, and its file is its own) and `StopInv` (only a started call has a stop
function running, and what each of its steps has undone already). The existence
test before the lock plays no part in it: the guard alone keeps files apart while
a profile is active.

**Only model-checked.** Liveness (`FailureReleases`, `EoRRReleases`, `OpenReturns`,
`CloseReturns`, `FailureCompletes`, `HoldTimerFreesWriter`, `EverybodyReleased`,
`DripLetsKeepalivesThrough`, `EveryCallReturns`): TLAPS has no ENABLED, by which
weak fairness is defined.

## What the code does otherwise than its text says

With a run that shows it:

- `cutoff_rematch`: `docs/route_refresh.md` says a prefix observed before the
  cutoff re-matches when it is advertised again after a withdraw. `firstSeen` is
  set once and never again (`recv.go:213`), so it never matches.
- `early_timeout`: WaitForPrefixes can return "timed out" without its timer having
  fired: its last prefix closes `done`, a withdrawal arrives before it takes the
  lock again, and it reports what is then missing as a timeout.
- `missequenced`: a reflected UPDATE can be written to a session between `h.add`
  and its KEEPALIVE; the peer, in OpenConfirm, gives up. The comment at `h.add`
  excludes this.
- `chunk_overflow`: `ChunkRoutes` measures the MP attribute with a single route,
  when its length takes one octet. A chunk above 255 octets needs two. A chunk
  that fills its budget to the last byte is then one byte too long and the call
  fails in SerializeMessage. IPv6 /128 routes with an overhead of 48 octets do it:
  the budget is 4029 = 237 * 17, and the message is 4097 octets long.

Without a run, because the text is vague or nothing depends on it:

- `fsm.go:436-437` says Close closes the connection and joins the loops; when a
  loop has already failed it returns at once and the loops finish on their own
  (`FailureCompletes` and `ConnReleased` say what holds instead).
- `recv.go:24-26` says `failedErr` is set when the session dies; when the VU's
  context has ended, `readLoop` returns without recording anything
  (`fsm.go:406-409`), also if the peer has gone.
- `failureCause` is documented as the most recent failure; the first is kept.
- `fail` stores Idle before it records the cause; an operation in between reports
  ErrSessionNotReady without one (`EndIsExplained` says that this is the only time).
- A configured hold time below one second ('500ms') passes Validate as if it were
  not set, but is not defaulted: the OPEN has 0, and there are neither keepalives
  nor a hold timer (`peer.go:52-57`, `defaults.go:19`, `message.go:36`).
- `bgp.go:494` and `README.md:211` give wanted prefixes the shape of advertise's
  routes; an IP route as an object `{prefix}` can be advertised but is refused in
  waitForPrefixes (`bgp.go:589`). `WaitSeesStanding` excepts it by name.
- `bgp.go:490-492` says that each entry is canonicalized to the form of the
  observed set; a string with host bits ('10.0.0.1/24') keeps them and never
  matches, while the same string can be advertised. `HostBits` excepts it, and with
  it an L3VPN, ISD or T1ST descriptor with such a prefix.
- `mup.go:131-133` calls `Key` the canonical receive-side key, so that the lookup
  matches. A T2ST descriptor whose TEID has bits that its `endpointAddressLength`
  leaves out (`endpointAddressLength: 40`, `teid: '0.0.0.100'`) is advertised without
  them and awaited with them: it is missed though it stands. `HostBits` excepts it;
  the same route awaited with those bits zero is found, which the run has.
- An L3VPN route with an additional `type` is advertised as L3VPN (the field is not
  looked at) and awaited as what the type says.
- `README.md:247-248` calls the counters cumulative NLRIs sent and received: routes
  of a call that fails half-way are on the wire and not counted, withdrawn ones
  never are, and what two waits match is counted twice. `MetricsExact` says what
  holds.
- `ArriveTimeout` may return ErrBarrierTimeout though the barrier is complete,
  when both channels of its select are ready; `Rendezvous` allows a caller to
  give up at any time.
- fakebgpd advertises extended messages and reads at most 4096 octets.
- fakebgpd's replay can send a route after its withdrawal was reflected.
- `StartCPUProfile` looks whether the file exists before it takes the lock: of two
  starts with one path the second may overwrite the profile that the first has
  finished, never one that is active (`OneProfile`). The file of a start that
  fails stays behind, empty, and refuses the path from then on; `<path>.heap` is
  overwritten without a look.

## What is not modelled

- The bytes of routes, attributes and capabilities: functions without state, one
  case per field, covered by table tests. What depends on lengths is in SendPath;
  what is refused, and what identifies a route, is in Routes. Of `AS_PATH` and
  `AS4_PATH` for peers with two-octet AS numbers nothing is kept.
- The graceful restart capability (`parseGracefulRestart`), which is sent and never
  read again.
- Of the facade: `stats`, and the arguments of `routeRefresh` and
  `waitForRouteRefreshEnd` (a family that must be configured, a timeout, a cutoff),
  whose calls are in SendPath and ObservedSet.
- Fields that do not parse at all (a malformed address, route distinguisher or
  TEID), and IPv4-mapped spellings of addresses, prefixes and TEIDs.
- Of the octet in which the prefix of an ISD or T1ST route, or a TEID, ends: whether
  gobgp clears its last bits. The repository does not show it. The bits below a
  length are those of later octets here, which have no place in the NLRI.
- Metrics: registration, tags, `bgp_session_up` and `bgp_route_refresh_duration`.
  Samples are pushed once, synchronously, and nothing reads them back.
- gobgp's parser and serializer: external. A message the parser rejects is the
  input GARBAGE of PeerSession.
- TCP options, dialer, logging, command-line flags. Wall-clock readings: nothing
  is ordered by them.
- Memory exhaustion and panics.

## Plan

1. Done: every module of [Modules and the code](#modules-and-the-code) with its
   runs, and a theorem for every safety property they check.
2. Next, proofs about how the modules fit together: that a wait of ObservedSet
   answers as `EndWait` of Delivery takes it to, so that `WaitsSeeWhatStands` rests on
   `PendingIsTheTable` and not on its result alone; and that ObservedSet implements
   an abstract wait on a table, as Barrier does Rendezvous.
3. Left of the model: fakebgpd's reader of 4096 octets next to a sender that has
   negotiated extended messages, and the two-octet AS_PATH.
