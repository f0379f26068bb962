# Formal models of peernet-core

TLA+ models of the concurrent parts of peernet-core. They cover the keep-alive loop, the peer list, command dispatch, the network-change monitor and the listener lists. There are TLC configurations that model-check them on small instances, and TLAPS proofs of the peer-connection model: type correctness, its main invariant, the safety of the purge, and its refinement of an abstract specification (`PeerPaths`).

## The system and its parts

| Part | Code | State it keeps | Operations |
|---|---|---|---|
| Peer registry | `src/unnamed/part_002` (Peer ID.go) | `peerList` (key → `*PeerInfo`) under `peerlistMutex` | `PeerlistAdd`, `PeerlistRemove`, `PeerlistGet`, `PeerlistLookup`, `PeerlistCount` |
| Peer connections | `PeerInfo` (part_002:67-77); connection code outside `src/` | per peer: `connectionActive`, `connectionInactive`, and per connection `Status`, `LastPacketIn`, `LastPingOut`, `Expires`, under the peer's `RWMutex` | `registerConnection`, `invalidateActiveConnection`, `removeInactiveConnection` (outside `src/`) |
| Command dispatch | `src/Commands.go:40-90` | none of its own | `cmdAnouncement`, `cmdResponse`, `cmdPing`, `cmdPong`, `cmdChat` |
| Keep-alive scheduler | `src/Commands.go:102-157` | none; it reads and changes the peers' connections | `autoPingAll` (one loop, 1-s tick), `sendPing` |
| Packet workers | `packetWorker`, outside `src/` | the worker's current packet | look up the sender, register the connection, dispatch |
| Interface monitor | `src/unnamed/part_000:97-250` | `ifacesExist` (the last adapter snapshot) | `networkChangeMonitor`, `networkChangeInterfaceNew/Remove`, `networkChangeIPNew/Remove` |
| Listener lists | `src/unnamed/part_001:38-161` | `networks4`, `networks6` (`[]*Network`), `ipsListen` | `initNetwork`, `networkPrepareListen`, `addListenAddress`, `IsAddressSelf` |
| Identity | part_002:22-64 | the key pair, the config | `initPeerID` |

**How they interact.** Several goroutines share the peer list and the peers' connection lists: the packet workers and the keep-alive scheduler. Each worker looks up the sender of a packet, then registers the packet's connection with that peer: a fresh `LastPacketIn`, and the connection moves back to the active list. It then runs the command handler. An unknown sender of an Announcement or a Response is added to the peer list. Each second, the scheduler takes a snapshot of the peer list. For each peer it takes a snapshot of the active connections, then of the inactive ones. It checks each connection *without* the peer's lock (`connection.LastPacketIn.Before(...)`, `len(peer.connectionInactive) > 2`). It then calls a locked operation: invalidate, ping or remove. Workers may run between the check and the act.

Each listener opened on an adapter address is recorded in `ipsListen`; `IsAddressSelf` drops inbound datagrams from a recorded address as echoes of this node. The monitor goroutine alone rewrites `networks4` and `networks6` after start-up. Each cycle it opens listeners for new addresses and adapters. For vanished ones, it terminates the matching listeners and splices them out of the lists.

**What is hard here.** It is hard to test:
- check-then-act across an unlocked read;
- a purge guard at an off-by-one boundary;
- snapshots that go stale;
- an in-place slice splice inside a `range` loop;
- the order in which one monitor cycle handles several adapters.

The `hazards` of `PROJECT.json` list each one at its line.

## Modules

### `PeerConnections.tla`: peer list, connections, dispatch, keep-alive loop

**Constants.**
- `Keys`: sender identities.
- `PeerObjs`: `*PeerInfo` objects, as model values.
- `Paths`: connections of a peer.
- `Workers`.
- `InCommands`: the command codes the workers may receive.
- Time constants: `PingTime`, `ConnectionInvalidate`, `ConnectionRemove`, `RedundantFactor` (4 in the code).
- `FatalErrors`: whether a send may report a fatal error.

**State.**
- `registry`: `peerList`.
- `active`, `inactive`: each peer's two connection lists.
- `status`: the connection status.
- Three saturating ages, in ticks:
  - `ageIn`: time since `LastPacketIn`;
  - `agePing`: time since `LastPingOut`;
  - `ageInv`: time since invalidation, for `Expires`.
- `workers`: each worker's current packet.
- `sched`: the scheduler's program counter, peer snapshot, current peer, phase, connection snapshot, and pending decision.

**Time.** `X.Before(now - T)` is `age > T`. Time advances only at `Tick`, the `time.Sleep` at the top of the loop. Ages saturate one past the largest threshold that reads them, so the state space stays finite without changing any comparison.

**Objects.** A `PeerObj` is reused only when nothing references it (the registry, a worker, the scheduler's snapshot or current peer). This mirrors Go's garbage collector.

**Actions.** Each action models a whole handler or one step of the loop:
- Workers: `Receive` (the lookup), `DispatchKnown`, `DispatchNew`, `DispatchIgnored`.
- Scheduler: `Tick`, `ListPeers`, `NextPeer`, `Check` (the unlocked check, whose decision comes from `ActiveDecision`/`InactiveDecision`), `ActInvalidate`, `ActPing`, `ActRemove`, `EndActive`, `EndPeer`, `EndRound`.
- Environment: `PeerlistRemove` and `SetRedundant`, the administrative operations.

**Type invariant.** `TypeOK` gives the types of the variables and the shape of a peer's two lists: a connection is in one list at most, and its `Status` says which (`Active`/`Redundant` in `connectionActive`, `Inactive` in `connectionInactive`). That shape is what `registerConnection`, `invalidateActiveConnection` and `removeInactiveConnection` maintain between them, whichever worker or keep-alive step runs last.

**Refinement.** At the end of the module, `ListedKeys` (the keys `peerList` maps to a `PeerInfo`) and `KnownPaths` (for each key, the connections in either list of its `PeerInfo`) map the state onto `PeerPaths`. `PeerPathsRefined == Abstract!Spec` is the abstract specification as a property.

The connection operations are not under `src/`, so they are modelled from the spec: `invalidateActiveConnection`, `removeInactiveConnection`, `registerConnection`. The status values and `packetWorker` also come from the spec.

### `PeerPaths.tla`: what the peer list promises

The abstract specification of the registry and the connection lists together. Its state is `listed`, the identities in the peer list, and `known[k]`, the paths known for `k`. It has four actions:
- `Join`: an unlisted identity enters with exactly one path.
- `Learn`: a listed identity gains a path.
- `Forget`: a listed identity loses one path, but never its last.
- `Leave`: an identity leaves the list, with all its paths.

Which list a path is in, its status and its ages are invisible here. `listed` is kept apart from `known` so that an identity left in the list with no path is not mistaken for a `Leave`.

### `Networks.tla`: interface monitor and listener lists

**Constants.**
- `Ifaces`, `IPs`, `IPv4`.
- `Listeners`: `*Network` objects.
- `BindFailures`.
- `MaxChanges`: the bound on adapter changes.

**State.**
- `osUp`, `osAddrs`: what `net.Interfaces`/`Addrs` report.
- `existUp`, `existAddrs`: `ifacesExist`.
- `nets`: `networks4`, `networks6`, as sequences.
- `lIface`, `lIP`: the adapter and address of each listener (`"none"` for an object never opened).
- `term`: the `Terminate()` calls per listener, capped at 2.
- `mon`: the monitor's position in its cycle.
- `listenCfg`: `config.Listen`, any subset of the addresses (`{}` when unset).
- `ipsListen`: the listen-address set of the self filter. It is keyed by the IP alone, because the port comes from `AutoAssignPort`, which is outside `src/`.

**Actions.**
- `initNetwork` with `config.Listen`: `ManualOpen` opens one configured address (nothing is recorded in `ipsListen`), and `ManualDone` ends start-up. `networkChangeMonitor` then returns at once, and `MonitorOff` is the stutter of a node whose monitor has returned.
- `initNetwork` over the adapters: `BootIface`, `BootOpen`, `BootDone`. `BootOpen` records the address in `ipsListen` (`RecordIfOpened`, `addListenAddress`) when the listener was opened.
- One monitor cycle: `Scan`, `VisitIface`, `OpenAddr`, `OpensDone`, `RemoveAddr`, `RemovesDone`, `NoIfaces`, `RemoveIface`, `EndCycle`.
- One iteration of a removal loop of `networkChangeIPRemove` / `networkChangeInterfaceRemove`: `LoopSkip` (element does not match), `LoopRemove` (`Terminate`, then the splice), `LoopV4` (the `networks6` loop is done, the `networks4` loop starts), `LoopEnd` (both loops done). `RemoveAddr` and `RemoveIface` start the loops; `mon.by`, `mon.rm`, `mon.fam`, `mon.arr` and `mon.n` hold which test, which address or adapter, which list, the backing array the range reads and the index.
- The machine's adapters change: `OsChange`.
- `IsAddressSelf(ip)` is the filter's query.

`OpenAddr` models `networkStart`, which is outside `src/`. Following spec 4.2, it records every address it opens, as the adapter branch of `initNetwork` does.

`networkPrepareListen` may fail for either of two reasons:
- `FindInterfaceByIP` finds no adapter, because the address vanished after the snapshot;
- the bind fails.

**The removal loops.** `SpliceStep` models one splice with Go's slice semantics:
- `range` evaluates the slice once and reads the shared backing array on each iteration;
- `networks6[:n]` keeps the capacity, so it can reach past a shrunk length;
- `append` of the tail writes in place.

Each iteration is a step of its own, so the model has no recursion and the provers can reason about it. `ToSet` is written out in the module rather than taken from `SequencesExt`, which reaches `RECURSIVE` operators.

**Assumptions.**
- An address is on at most one adapter at a time.
- Nothing under `src/` assigns `ifacesExist` before the first cycle, so the monitor starts from the nil map. The first cycle therefore reopens every address.
- The monitor goroutine (and `initNetwork` before it) is the only writer of the lists. Between two iterations of a removal loop only the machine's adapters change (`OsChange`), which the loop does not read.

### `PeerConnectionsProofs.tla`, `NetworksProofs.tla`

The TLAPS proofs, listed under "Proofs" below.

### `MC_PeerConnections.tla`, `MC_Networks.tla`

The symmetry sets and the VIEWs for TLC. A VIEW hides values no step reads:
- the fields of connections that are not listed;
- `ageIn` of inactive connections;
- `Expires` where nothing will read it again;
- the leftover attributes of listener objects that are not open.

## Runs

| Run | cfg | Expect | Properties | What it shows |
|---|---|---|---|---|
| peer_connections | MC_PeerConnections.cfg | pass | TypeOK, PeerHasPath, PurgeSafe, PeerPathsRefined | The loop's check-then-act steps, racing a worker and peer removals, never strip a listed peer of its last connection. A purge happens only for an expired connection under the code's guard. The registry and the lists implement `PeerPaths`. |
| silent_invalidated | MC_SilentInvalidated.cfg | pass | SilentInvalidated | A connection that gets no more packets leaves the active list for good. |
| eviction_guard_spec | MC_EvictionGuardSpec.cfg | violation | EvictionGuardSpec | The code purges when only two *other* inactive connections remain. The spec requires more than two. |
| no_fresh_invalidation | MC_NoFreshInvalidation.cfg | violation | NoFreshInvalidation | Trace: `Check` decides to invalidate; a worker registers a packet (ageIn 0, Active); `ActInvalidate` then invalidates the fresh connection. |
| networks | MC_Networks.cfg | pass | TypeOK, NoLeak | No listener is unlisted without being terminated, through start-up (manual or over the adapters), the first cycle and three adapter changes. |
| listed_are_live | MC_ListedAreLive.cfg | violation | ListedAreLive | Two IPv6 listeners on `e1`; `e1` vanishes. The loop terminates `n1`, shifts `n2` into slot 0, reads `n2` again in slot 1 and terminates it, then `networks6[:1]` keeps it: `networks6 = <<n2>>` with `n2` terminated. |
| first_packet_race | MC_FirstPacketRace.cfg | pass | PeerPathsRefined | Two workers hold first packets from the unknown `k1` on `a1` and `a2`, and both see `k1` missing. The registry and lists still implement `PeerPaths`: the second `PeerlistAdd` repeats the lookup under the lock, finds `k1` and leaves the first `PeerInfo` and its path in place. As `PeerlistAdd`'s comment and spec 4.4/4.6 say, the second call does nothing, so its path is not registered. |
| manual_listen_unrecorded | MC_SelfRecorded.cfg | violation | SelfRecorded | With `config.Listen = {i1}`, `ManualOpen` opens a listener on `i1` and `ipsListen` stays empty: the node's own echoes on `i1` pass the self filter. |
| stale_self_filter | MC_SelfFilterCurrent.cfg | violation | SelfFilterCurrent | `i1` is opened and recorded at start-up; its adapter vanishes, and `RemoveIface` terminates and unlists the listener. `i1` stays in `ipsListen`, so packets from a peer that later holds `i1` are dropped. |
| first_cycle_duplicates | MC_UniqueListener.cfg | violation | UniqueListener | `initNetwork` opens `n1` on `i1`. The first monitor cycle finds `ifacesExist` empty, takes `e1` as new, and opens `n2` on `i1` too. |
| address_move | MC_Covered.cfg | violation | Covered | Address `i1` moves from `e2` to `e1`. The cycle visits `e1` first and opens a listener for `i1`; the removal of `i1` from `e2` then terminates both. `ifacesExist` records `i1` on `e1`, so no listener is ever opened for it again. |

**Bounds.**
- peer_connections uses 1 key, 1 peer object, 3 paths, 1 worker, and commands {Announcement, Ping}.
  - Three paths make the purge guard's boundary reachable: three inactive connections, and one purged while two remain.
  - One worker is enough for every check/act race, because one worker step between `Check` and the act is all it takes.
  - The time constants are scaled down with their order kept: PingTime 1 < ConnectionInvalidate 2 < RedundantFactor·PingTime 3 < RedundantFactor·ConnectionInvalidate 6, and ConnectionRemove 1. Every branch of the loop is therefore reachable.
  - The run takes about 2 minutes (4.7 M distinct states).
- silent_invalidated uses two paths and no symmetry, as the property names paths.
- networks uses 2 adapters, 3 addresses (one IPv4), 4 listener objects, bind failures, and 3 adapter changes.
  - Two listeners on one adapter in one list is the smallest case the splice gets wrong, and it is reached.
  - Every `config.Listen` is tried, so both start-up branches are covered.
  - The run takes about 90 s (4.5 M distinct states).
- The three self-filter and duplicate runs use 1 adapter, 2 addresses and 2 listener objects; stale_self_filter allows one adapter change. Each violation is found in at most 14 steps.
- first_packet_race uses two workers, two paths and two `PeerInfo` objects, the smallest case for two first packets from one identity with a free object for the second `PeerlistAdd` to allocate. Only Announcements arrive, sends never fail fatally, and the thresholds are all 1: the race is between the workers, and the keep-alive loop only needs to be able to invalidate and purge. The run takes about 2 minutes (3.4 M distinct states).
- address_move has no bind failures, because a failed bind is never retried and would break `Covered` trivially. It uses five objects, so opening never runs out of objects.

**Mutants.** Every property of a passing run is broken by a plausible bug in the mapped code (`mutants` in `PROJECT.json`):
- the purge guard dropped;
- the guard `> 1`;
- `registerConnection` appending to the active list without taking the connection off the inactive one;
- `PeerlistAdd` without the lookup under the lock, so a racing first packet replaces the `PeerInfo`;
- `sendPing` stamping `LastPacketIn`;
- `networkPrepareListen` without the `iface == nil` check;
- the splice appending from `n+2`.

The guard dropped also breaks `PeerPathsRefined`. The purge then takes the last path of a listed identity, and `PeerPaths` has no step for that.

## Fairness

`Spec` of PeerConnections assumes `WF_vars(SchedStep)`: `autoPingAll` is an endless loop that never blocks except in `time.Sleep`.

Workers and administrative calls get no fairness, because packets may stop arriving. `SilentInvalidated` is stated under the hypothesis that no packet arrives on the connection from some point on, and that the peer stays listed.

`Networks`' `Spec` assumes `WF_vars(MonStep)` for the same reason. No liveness property of it is checked yet. `MonitorOff` is outside `MonStep`, because it stands for nothing happening.

## Proofs (`PeerConnectionsProofs.tla`, `NetworksProofs.tla`, checked by `tlapm`)

All `PeerConnections` proofs use `ConstAssumption` from PeerConnections: `Paths` is finite, `None` is not a peer object, the time constants are positive naturals, and `FatalErrors` is Boolean.

**`TypeCorrect`: `Spec => []TypeOK`.**
- `TypeInit` proves `Init => TypeOK`.
- `TypeOK` is `VarTypes /\ ListShape`: the types of the variables, and the shape of a PeerInfo's two lists (a connection is in one list at most, and its `Status` names the list).
- `TypeStep` proves `TypeOK /\ [Next]_vars => TypeOK'` in two steps, `VarTypes'` and `ListShape'`, each with one case per action.
- The cases rest on lemmas for the shared operators: the type lemmas `InvalidateType`, `SendPingType`, `RegisterType`, `PeerlistAddType`, `IdleWorkerType`, `OlderType`, `CapsType`, and the shape lemmas `InvalidateShape`, `SendPingShape`, `RegisterShape`, `PeerlistAddShape`.
- `ListShape` is inductive relative to `VarTypes`: only the operators under the peer's lock move a connection, and each moves it together with its `Status`.

**`PeerHasPathInvariant`: `Spec => []PeerHasPath`.** Every peer in the peer list has a connection.
- `PeerHasPath` alone is not inductive. Between `Check` and `ActRemove` the lists may change, and a purge is safe only if the guard still holds when it is carried out.
- The strengthening `RemoveGuarded` says: while a purge is pending, the current peer still has an active connection or more than two inactive ones.
- `IInv == TypeOK /\ PeerHasPath /\ RemoveGuarded` was first checked by TLC as an invariant of the peer_connections instance.
- `IInvInit` proves `Init => IInv`.
- `IInvStep` proves the step, with one case per action:
  - `Check` sets a "remove" decision only from `InactiveDecision`, whose guard is `RemoveGuarded`.
  - Workers only add to a peer's active list.
  - A new peer object is unreferenced, so it is neither listed nor the scheduler's current peer.
  - `ActRemove` leaves an active connection, or (lemma `MoreThanTwoLeft`) one of more than two inactive ones.
  - The invalidation actions only move a connection from one list to the other.

**`PurgeSafeHolds`: `Spec => PurgeSafe`.** A purge removes only a connection invalid for longer than `ConnectionRemove`, and leaves the peer an active connection or two inactive ones.
- `IInv2` strengthens `IInv` with two conjuncts:
  - `RegistryInjective`: no `PeerInfo` is listed under two keys.
  - `RemoveExpired`: a pending "remove" decision is for an expired connection. Ages only grow until the connection is re-registered, and re-registration moves it out of the inactive list.
- `IInv2Init` and `IInv2Step` prove the invariant (lemmas `RegistryKept`, `InjectiveStep`, `ExpiredStep`).
- `PurgeStepHolds` proves the one-step form `PurgeStep` from `IInv2` on both states (lemmas `NoPurgeWhenKept`, `TwoLeft`). The theorem then follows by PTL.

**`Refinement`: `Spec => PeerPathsRefined`.**
- `Init` maps to `Abstract!Init`.
- `RefineStep` proves that, under `IInv2` and `IInv2'`, each step is a `PeerPaths` step or a stutter on `<<ListedKeys, KnownPaths>>`:
  - `DispatchNew` of an unknown key is `Join`. The object it hands out is unreferenced, so no key lists it.
  - `DispatchKnown` is `Learn`. By `RegistryInjective` only one key sees the change.
  - `ActRemove` is `Forget` or a stutter. By `PeerHasPath'` the key keeps a path.
  - `PeerlistRemove` is `Leave`.
  - Invalidation and ping only move a path between the lists, so they are stutters.

### `NetworksProofs.tla`

The proofs use `NetAssumption` from Networks. They hold for any sets of adapters, addresses and listener objects, any `MaxChanges`, and with or without bind failures.

**`TypeCorrect`: `Spec => []TypeOK`.**
- `TypeOK` alone is not inductive. `LoopRemove` reads `mon.arr[mon.n + 1]` and splices `nets[mon.fam]`. That stays within the array only because the list is a prefix of the array the range reads and the index has not passed it.
- `LoopShape` states this: while a loop runs, `mon.n <= Len(mon.arr)`, `Len(nets[mon.fam]) <= Len(mon.arr)`, and the list agrees with the array on its length.
- `TInv == TypeOK /\ LoopShape`. `TInvInit` and `TInvStep` prove it, with one case per action.
- `SpliceStepType` proves that a splice keeps the array's length and element type, and that the new list is again a prefix of it.
- The monitor's state is a record of 14 fields. A lemma per shape of update (`MonPc`, `MonOpens`, `MonScan`, ...) proves that the update keeps it a `MonState` and gives the fields the `LoopShape` argument needs. `MonDomain` gives the field types.

**`NoLeakInvariant`: `Spec => []NoLeak`.** Every opened, unterminated listener is in the list of its family.
- `IInv == TInv /\ NoLeak`. It was first checked by TLC as an invariant of the `networks` instance (5.5M states).
- `IInvInit` and `NoLeakStep` prove it:
  - An open appends its listener and moves no other one (lemma `ToSetAppend`).
  - `LoopRemove` terminates element `n+1` of the array. By `LoopShape`, every other element of the list is in the array at the same place. By `SpliceStepKeeps` it is still in the new list.
  - Every other action leaves `nets`, `used`, `term` and `lIP` alone.

**Only model-checked.**
- Liveness (`SilentInvalidated`): the provers do not reason about fairness or ENABLED.

## Not modelled

- Identity (`initPeerID`): start-up I/O.
- `SendChatAll`: sends only.
- The port of a listen address: it comes from `AutoAssignPort`, outside `src/`, so `ipsListen` is keyed by IP. A port given in `config.Listen` and the parsing of "host:port" are left out, and an unparsable entry is the same as an address no adapter carries.
- The listeners' receive loops and the inbound queue of 1000.
- Reply packets (Response, Pong) and statistics: they change no state the properties read.

## Plan for further work

1. Prove the self-filter properties of `Networks` that hold (none do at present: `SelfRecorded` and `SelfFilterCurrent` are violated), and a refinement of the listener lists by an abstract set of open listeners.
2. Add a liveness property of the monitor: an address that stays on an up adapter eventually gets a listener. This needs fairness on the bind retries, which the code does not have.
3. Model the Response and Pong replies, so that the first-packet race can be stated about the reply the sender never gets.
