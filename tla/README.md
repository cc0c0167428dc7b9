# Flowscape in TLA+

Flowscape reads network flows from Hubble Relay, folds them into a graph of workloads
and conversations, and streams the graph to browsers that draw it in 3D. This directory
holds TLA+ models of that program, the TLC configurations that check them and TLAPS
proofs of their safety properties, all but one (`SparksAge`, see section 5). Paths below are relative to the repository.

Run from this directory: `tlc -config GraphFeed.cfg MCFlowGraphFeed.tla` checks a run,
`tlapm FlowGraphProofs.tla` (and each other `...Proofs` module) the proofs. `PROJECT.json` lists the runs, what source lines
each definition stands for, the hazards the properties are aimed at, and the
disagreements between code and documentation the runs show.

## 1. The system

```
 Hubble Relay ──gRPC──> relay.Client ─┐                       ┌─> WSClient ──> GraphState ──┐
 capture file ────────> replay.Source ├─> Hub.Flow ─> Graph ──┤      (one per page)         │ consume()
 random flows ────────> fake.Source  ─┘   Hub.Nodes     │tick │                             v
                              │           Hub.NodeStatus└ Hub ┴─> WSClient ──> ...   applyChanges: nodes, edges,
                              └─ hubble.Status ──────────^                           particles, chips; refreshRates
```

| Component | State | Operations | Talks to |
| --- | --- | --- | --- |
| graph (`internal/graph`) | nodes, edges, per-edge counters and ring, the lists that wait for the next tick, machine addresses; one mutex | `Ingest`, `LearnMachines`, `Tick`, `Snapshot` | called by the hub from the source's goroutines, the ticker and every handler |
| hub (`internal/hub`) | registered clients, their queues and refusal counts, spark backlog; one mutex | `Flow`, `Nodes`, `NodeStatus`, `tick`, `Run`, `ServeHTTP` | graph, status, one goroutine per browser |
| relay client (`internal/hubble/relay`) | `since`, back-off, field mask; per stream a watchdog, a peer-list ticker | `Run`, `stream`, `syncNodes` | Relay by gRPC, the hub as `Sink` |
| source status (`internal/hubble`) | connected, unavailable machines | `SetConnected`, `Apply`, `SetNodes` | written by the stream and by the peer-list ticker, read by the hub |
| replay, demo (`internal/hubble/...`) | position in the capture; random generator | `Run` | the hub as `Sink` |
| process (`cmd/flowscape`) | an error group of four goroutines | start, signal, shutdown | all of the above |
| websocket client (`web/src/ws-client.ts`) | socket, back-off timer, pause buffer | `connect`, `setPaused`, the socket's callbacks | hub, page |
| demo transport (`demo-transport.ts`, `cmd/flowscape-demo-wasm`) | pause buffer; the Go graph in the page | `start`, `setPaused` | page |
| page store (`graph-state.ts`) | nodes, edges, rings, change lists | `applySnapshot`, `applyTick`, `consume`, `rate`, `series` | messages in, frames out |
| page frame (`main.ts`) | filters' grouping, what is due, the selection | `applyChanges`, `refreshRates`, `select`, `onChange` | page store, pools, controls, panel |
| node, edge and spark pools (`nodes.ts`, `edges.ts`, `particles.ts`) | slots, free indexes, instances, control points, sparks | `add`, `remove`, `setRate`, `update`, `spawn` | page frame |
| layout, platforms (`layout.ts`, `platforms.ts`) | grouping, targets; the platforms drawn | `rebuild`, `sync` | page frame |
| picking, panel (`picking.ts`, `panel.ts`) | what is under the pointer; what the panel shows | `update`, `pick`; `show`, `refresh` | pools, page frame, page store |
| controls (`filters.ts`) | filters, a chip per namespace and machine | clicks, `syncNamespaces`, `syncMachines` | page store's membership, tick status |
| scene, theme | camera, colours | | |
| config, metrics, HTTP endpoints | none that anything else depends on | | |

What is hard here:

* **Concurrency.** Source goroutines, the ticker and a handler per browser share the
  graph and the hub under two mutexes; every operation is atomic by itself, and what goes
  wrong goes wrong *between* two of them: between a snapshot and a registration, between
  taking a delta and fanning it out, between asking Relay for its peers and storing the answer.
* **Deltas.** The protocol sends increments. A browser's graph is right only if it gets
  every delta exactly once on top of the right snapshot.
* **Identity that changes.** A machine is first known by an address and later by a name;
  naming it retires the old node with all its conversations, in the middle of an `Ingest`.
* **Failure.** Relay ends, refuses or silently loses streams; browsers stall, pause,
  disconnect; queues, buffers and pools are full.
* **Two clocks of change in the page.** Messages come at the server's pace, frames at the
  browser's; a hidden tab has no frames at all.

## 2. The modules

| Module | Models | Order of writing |
| --- | --- | --- |
| `EndpointKey` | `key.go`: node and edge keys, reserved labels, learning of machine addresses | 1 |
| `FlowGraph` | `graph.go`: the graph under `Ingest`, `LearnMachines`, `Tick` and the clock | 1 |
| `Feed`, `FlowGraphFeed` | abstract feed (a store equal to the graph after every delta); graph plus the store of a client | 2 |
| `FlowGraphProofs` | theorems about `FlowGraph` and `FlowGraphFeed`, the refinement among them | 1, 2 |
| `Hub` | `hub.go`: ticker, registration, queues, resync, handlers, shutdown | 3 |
| `GraphState` | `graph-state.ts`: the store and its change lists | 4 |
| `Layout` | `layout.ts`: groups, ranks and places as pure operators | 4 |
| `Browser` | messages and frames: `applyChanges`, the membership pass, platforms, the width batches, which lights and arcs the filters hide | 4 |
| `Page` | `Browser` with a user: pointing, selecting, the panel, emphasis and what stays painted of it, and the node pool's indexes | 4 |
| `Controls` | `filters.ts`: chips, filters that outlive them, red marks | 4 |
| `Transport` | the page's messages: a socket that reconnects, or the demo; the pause buffer | 5 |
| `RelayClient`, `PeerStatus` | resuming a stream; the unavailable set and its three writers | 6 |
| `EdgeSlots` | `edges.ts` and `particles.ts`: slot pools, width batches, sparks | 7 |
| `Ring` | per-second counters on both sides | 7 |
| `Lifecycle` | `main.go`'s error group, `replay.go` | 8 |
| `PageProofs` | theorems about `Browser` and `Page` | 4 |
| `EdgeProofs` | theorems about `EdgeSlots` and `Ring` | 7 |
| `HubProofs`, `ControlsProofs`, `TransportProofs`, `RelayClientProofs`, `LifecycleProofs` | theorems about the module of that name | with it |
| `MCFlows` and the `MC...` modules | the small inputs of the runs | |

**Composition.** `FlowGraph` EXTENDS `EndpointKey`; `FlowGraphFeed` EXTENDS `FlowGraph` and
shows with `INSTANCE Feed` that graph and ticks implement the abstract feed; `GraphState`, `Layout`,
`Browser` and `Page` each EXTEND the one before. In `Browser` the server is any graph that `FlowGraph`
can hold, so that store, slots and places are checked against it. `Hub` and `Transport` do not repeat the graph: there it is the number
of changes made to it, a snapshot is a prefix of the changes and a delta an interval,
which is what `FlowGraphFeed` justifies. What a browser has is how often it has applied
each change: 0, 1 or 2 times.

**Correspondence.** In `FlowGraph` the record `graph` has the fields of the Go struct
(`nodes`, `edges`, `newNodes`, `dirtyNode`, `dirty`, `goneNodes`, `goneEdges`, `nodeIPs`),
and the three actions `Ingest`, `Peers`, `Tick` are the three methods that hold its mutex;
what they do inside is written as operators from graph to graph in the order of the code
(learn, retire, touch, place, connect, count). In `Hub` an action is a critical section of
`h.mu` or a channel operation; `g.Tick` and the fan-out are two actions because the lock is
taken between them (hub.go:192, :197), and so are the snapshot and the registration of a
new client (:305, :309). In `RelayClient` and `PeerStatus` an action is a step of a goroutine
between two blocking calls. In the page everything runs to completion on one thread, so an
action is a callback: a message, a timer, a click, a frame. `EdgeSlots` splits a frame into
the steps of its loops, which nothing else interleaves with (`phase`).

## 3. What the runs check

Every passing run is exhaustive within its bounds. "Shows" names the properties.

| Run | Bounds | Shows |
| --- | --- | --- |
| `GraphFeed` | 2 pods, 2 machines (one first known by address, named by its own flow or by the peer list), 7 kinds of flow, 3 flows, late by up to 1, time 0..3, retention 1 | types (`TypeOK`); an edge counter is the number of conversations (`EdgeCountersExact`); a workload is on the machine seen most (`MachineIsMostSeen`); no dangling endpoint (`EndpointsExist`); what waits for the next tick is consistent (`DeltaWellFormed`); a named address has no anchor left (`NamedAddressHasNoAnchor`); a client from the start lacks only what waits for the next tick (`NothingLost`), and holds the graph after it (refinement `FeedImplementsFeed`); the graph empties when flows stop (`EventuallyForgotten`) |
| `HubServes` | 1 browser, queue 2, resync after 2, 3 changes | no send on a closed channel (`NoSendOnClosed`); resync bookkeeping (`ResyncIsDueExactly`); changes are lacking only by refusal or in the gap of joining (`LossOnlyByRefusalOrJoining`), and are never counted three times (`CountedAtMostTwice`); resyncs happen, changes arrive, handlers end |
| `BrowserAnyPace` | 2 pods (one whose machine may become known, in a namespace or not that is called like the machine), the machine's anchor, which is always there, 2 edges, at least one when both pods are there, a pool of 2, 2 width batches of 1 | the store follows the server (`StoreFollowsServer`), no node is undrawn while a slot is free, and no edge but one that found its batch full (`NothingUndrawn`), places, platforms and low arcs are those of the grouping (`ArrangedAsGrouped`), no shown arc ends on a hidden light (`ArcsEndOnLights`) |
| `SelectionKept` | nothing, the ingress alone, or it and a pod with an arc between them, a pool of 2 | the panel shows the selection unless that was gone (`PanelFollowsSelection`), only the arcs of what is selected or pointed at are lit, and none stays so (`EmphasisOwned`), whoever hits a light gets what is drawn there (`LightsAreOwn`) |
| `ControlsClicked` | 2 namespaces, 2 machines, symmetric | a chip tells what is hidden, but for chips that came back (`ChipsTellFilters`), red marks are true (`RedFollowsStatus`) |
| `WSPauses` | live or demo, buffer 2, 6 ticks, 3 breaks | nothing missed (`NothingMissed`), repeated only across connections (`TwiceOnlyAcrossConnections`), a resumed page catches up (`CatchesUp`), a demo lacks just what its buffer dropped (`LacksOnlyDropped`) |
| `RelayResumes` | 4 flows, two of equal time, 3 failures | nothing skipped (`NothingSkipped`), only the last time repeated (`RepeatsOnlyTheLast`), everything delivered (`AllDelivered`) |
| `PeersSettle` | 2 peers, 3 changes, 2 streams | the unavailable set settles on the truth (`SettlesOnTruth`) |
| `EdgeSlotsReused` | 3 edges, 2 batches of 2, 2 sparks of up to 2 frames | slots neither leak nor have two owners (`PoolExact`), no arc of a former owner (`ArcsAreOwn`), the swap-remove loop ages each spark once (`SparksAge`) |
| `RingCounts` | 3 slots, 4 seconds, flows early and late by one | each second shows its count (`SnapshotExact`, `PageExact`) |
| `ProcessEnds` | captures of up to 2 lines, with and without flows, 1 request | exit code (`ExitCodeTells`), the process ends unless a looped replay spins (`Ends`) |

Why the bounds are enough: the interesting cases are collisions of two or three things.
A retention of one unit with a clock of three lets nodes expire, return and expire again;
two flows of one conversation distinguish a total from an increment, three of one workload the most seen machine from the last one; queues and buffers of
two are empty, partly full and full; a ring of three slots is turned more than once; three
edges over batches of two slots fill a batch; a spark of two frames survives one, and may then take the place of another;
`ResyncAfter` is 2 instead of 8, so that one
refusal and the limit differ. In `Browser` three nodes over two slots fill the pool, a machine called like a
namespace tells a platform's kind from its name, and two edges over batches of one find each other's batch full when they
are new and when they move. `Placeable` and `Shapes` only say which nodes
may get a machine and which graphs the server may have; `MaxWorld` is reached by no node of the runs. In `Page` two nodes of the two
meshes exchange their slots when both leave and come back. That an arc is passed over because an end found the pool full
needs a third node there and is left to the proof; that it is because its edge is gone, the run has. `ControlsClicked` and `EdgeSlotsReused` use symmetry, under invariants and action
properties only. One browser is enough for the hub: the fan-out treats each client
by that client's own queue and counter, and shares nothing between two but the snapshot's text. Every property has a mutant of the code that the run finds,
listed in `PROJECT.json`, and every action is taken in some passing run.

`CHECK_DEADLOCK FALSE` stands in `RingCounts` (the clock stops at its bound with all flows
counted) and in the runs of `Lifecycle` (the process has exited).

### Disagreements

A run with `expect: violation` checks one sentence of the documentation, and TLC finds a
behaviour of the code that breaks it: in `FeedJoinCounts`, increments that wait for the next
tick are in a snapshot too, although protocol.go:50 says that a snapshot's counters are totals and a tick's the
increments since the previous tick; a client that joins counts them twice. 

The other disagreements are in the properties, as their stated exceptions:

* `LossOnlyByRefusalOrJoining`: a delta between the snapshot and the registration of a new client is
  lost to it (hub.go:305, :309), and one accepted tick forgives up to seven refused ones (hub.go:262).
* `Ends`: a looped replay of a capture without flows never looks at its context (replay.go:65-76),
  where source.go:24 says that a source streams until ctx ends.
* `TwiceOnlyAcrossConnections`: a page paused across a reconnect replays old ticks onto the new
  connection's snapshot (ws-client.ts:72). `Transport` counts these applications and does not see their order: that what such a
  tick lists as gone may be in the newer snapshot, and is then missing from the page until the next one, no property would catch.
* `LacksOnlyDropped`: README.md:112 promises a fresh snapshot after a long pause, the demo has none to offer.
* `ArrangedAsGrouped`, `ArcsEndOnLights`: what is removed, added and removed between two frames is told to no
  one (graph-state.ts:222, :228), nor is a new machine of a node whose slot outlived it (main.ts:95).
* `NothingUndrawn`: an edge that finds its width batch full, when it is added (edges.ts:116) or moved (edges.ts:167), is not
  drawn and never asked again, while a node that found its pool full is.
* `EmphasisOwned`: an arc that is passed over while the others are painted anew, as its edge or an end is missing (edges.ts:213,
  :216), keeps the colours of an emphasis that has ended.
* `ChipsTellFilters`: a chip made for a name that is hidden already says "on" (filters.ts:201, :240).
* `RedFollowsStatus`: when all machines are back, dots stay until the next membership pass (main.ts:67).
* `PanelFollowsSelection`: the selection outlives a panel that closed because its node was gone;
  the next click on that node deselects it (main.ts:257).

## 4. Fairness

* `FlowGraphFeed!FairFeedSpec`: the ticker calls `Tick` and time passes. Flows and peer lists are not promised.
* `Hub!FairSpec`: the ticker's goroutine runs and a handler serves its queue; a write ends
  within its ten-second timeout, well or badly. Visits, flows, leaving and the shutdown are free.
* `Transport!FairSpec`: the socket opens, closes and delivers unless the network breaks it
  (a bounded number of times), and the reconnect timer fires. Resuming is the user's choice.
* `RelayClient!FairSpec`: `Run` goes on, its timers fire, a Relay that serves a stream delivers.
* `PeerStatus!FairSpec`: calls are answered or fail, events of an open stream are received.
  The stream's ticker needs strong fairness (`SF`): it asks again every minute, and its call
  may be cut off by the end of a stream as often as there are streams.
* `Lifecycle!FairSpec`: each goroutine that can run does, a flow falls due, `Shutdown` ends
  by itself or by its timeout. Nothing forces a signal or a failure. A request's end is not promised.

## 5. Proofs

Every theorem is of the form `Spec => []Property` (or a refinement) and holds for every
value of the constants that satisfies the named assumptions of the modules.

**The graph** (`FlowGraphProofs`), for every set of flows, peer lists,
retention, lag and skew:

* `TypeCorrect`; `EndpointsAlwaysExist`: both ends of every edge are live nodes;
  `CountersAlwaysExact`: a node's edge counter is the number of edges at it.
* `NamedAddressNeverAnchor`: an address with a name is no anchor; `DeltaAlwaysWellFormed`: what
  waits to be announced is live, what waits to be reported as gone is not;
  `MachineAlwaysMostSeen`: a node is on a machine it was seen on most.

`GraphInv` has five conjuncts that need each other: expiry drops a node whose counter is
zero, so that endpoints survive only because the counter is exact, and the counter
is exact after expiry only because both ends of a dropped edge exist; the edges must be finitely many to be
counted at all, and the types are what arithmetic needs. Each operator from graph to graph has a
lemma that it preserves `GraphInv`; `IngestedInv` chains them as `Ingest` does, and `NextIInv` has one
step per action. The lemmas on `Degree` (out-edges plus in-edges) are the arithmetic of a counter.
`AnchorInv` says more: between two ticks only anchors of named addresses are on the lists of what is gone
(expiry adds others, but in the same critical section that hands the lists out). It is preserved because
an endpoint is never keyed by such an anchor (`KeysUnnamed`): each side of a flow may teach a name while the other is keyed,
which is safe because a flow has two addresses (`FlowsAssumption`), and because no workload kind and no
address is spelled "remote-node" (`SpellingAssumption`). `AllMostSeen` adds to the property that a node without a machine has no sightings.

**The feed** (`FlowGraphProofs`, last part): `DeltasImplementFeed`, the refinement of `Feed`, and `NothingEverLost`.
The invariant `MirrorInv` relates graph and client: a node is new exactly if the client lacks it, on its machine
unless it is dirty; what the client shows of an edge and what is owed make its totals; an edge the client lacks is
announced. `Ingest` breaks the last part between creating an edge and counting it, which `Announced` has a parameter for. A node or
edge that is created must not be on its way out, or the tick would take it from the client; that is `AnchorInv` again.
`TickMirrors` then shows that applying the delta gives the snapshot, field by field.

**The hub** (`HubProofs`), for any browsers, queue and `ResyncAfter`:

* `NeverSendsOnClosed` and `ResyncDueExactly`, from `HubInv`: a registered client is one whose handler has yet to take it
  out, and a greeted one has no history.
* `LossOnlyByTheseTwo` and `NeverThreeTimes`, from `FlightInv`. What is in flight to a browser (the message its handler is
  writing, then its queue) is a `Flight`: ticks are intervals of changes that follow each other and reach no further than what has been fanned out,
  a snapshot is a prefix, and a change the browser has twice is older than every tick in flight. The lemmas on flights say how one behaves when a
  message is added, arrives, or is lost with the connection; each action of the hub is one of these for one browser and
  nothing for the others. A browser is `Complete` from its greeting on, before it is registered, until a tick is refused or
  passes it by; that is why the gap of joining has to be part of the invariant.

**The page's store, slots and places** (`PageProofs`, on `Browser`), for any graphs of the server, filters and size of the pool:

* `StoreIsServers`: one lemma per method of the store, the messages compose them; `Mirrors` includes each node's own
  list of edges, without which removing a node would leave its edges.
* `NothingIsUndrawn`, `AlwaysArranged`, `ArcsAlwaysEndOnLights`, from `SlotInv`, which holds between frames too: a node that is
  not drawn is reported as added, unless the pool is used up, and so is an edge, unless its batch was full (`refused`); a slot that shows another machine than the store was
  passed by or its node is among the touched ones; and there is a map of nodes f that the last
  membership pass saw (`PassSaw`): targets, platforms and low arcs are those of f, and f and the store differ only in
  what is reported. No variable holds f, so the invariant quantifies over it; the steps name the witness, the store's own nodes
  after a pass and the old f otherwise. What `passedBy` excepts are the two cases of the properties and no more.
* `LightsAlwaysOwn` (on `Page`), from `PoolInv` and `SlotInv`: `GiveBack` says that the stack, after the slots of the nodes that go
  were pushed, has every slot but those of the nodes that stay; `TakeSlots` that the nodes that come get distinct ones of
  these. That the stack suffices is counting: `SlotInv` bounds the drawn nodes by the capacity.

**Selection and controls**: `PanelAlwaysFollows` and `EmphasisAlwaysOwned` (`PageProofs`; `EmphasisFollows` and
`MissedTells` say what is lit and what was missed while panel and selection differ, `ShadesDue` that without an emphasis an arc that
was last painted with one is of a batch that the next frame paints, or was passed over: each of select, hover and frame either keeps an emphasis or
marks all batches, and nothing but a frame takes the mark away); `ChipsAlwaysTell` and `RedAlwaysFollows` (`ControlsProofs`;
the machines of the last pass are the chips there are; `ControlsAssumption`: names of namespaces and of machines are told apart).

**Edges** (`EdgeProofs`):

* `PoolAlwaysExact` and `ArcsAlwaysOwn`, for any edges, batches, capacity and sparks: `Clear` and `Place` are operators
  on a pool, with one lemma each, and every step of a frame's loops is one of them, both, or none. The loops'
  work lists have an invariant of their own (`WorkInv`).
* `SnapshotAlwaysExact` and `PageAlwaysExact`, for any retention, lag and skew with `Lag + Skew < Retention` (`RingAssumption`), the second for windows of up to `Retention - Skew`.
  The arithmetic is `SlotsApart`: two seconds that share a slot are a turn apart. So a slot has
  the last of its seconds that had a flow (`SlotCounts`), as no late flow finds its slot taken; and a tick takes only
  slots of seconds that have left the window (`ToldRight`, which also speaks of the seconds to come, so that the clock may go on).

**The wire** (`TransportProofs`), for any buffer, ticks and breaks: `PausingMissesNothing`, `NeverTwiceOnOneConnection`,
`DemoLacksOnlyDropped`. The wire of an open connection has no gap and ends with the last tick made, so that its length
says what the connection has brought (`Received`); the buffer is rising, and what it has is not in the view, unless
the page was paused across a reconnect.

**Resuming** (`RelayClientProofs`), for any failures and back-off, and flows in the order of their times, as Relay sorts them (`RelayAssumption`):
`NoFlowSkipped`, `OnlyTheLastRepeated`. `since` divides the flows: older ones were received, received ones are not
younger. A flow received twice is of the time a stream was resumed from, which is where the second invariant looks.

**The process** (`LifecycleProofs`): `ExitCodeAlwaysTells`, from `CauseTells`: nobody is stopped unless a signal came or a failure is on record.

The assumptions say of the constants what the code guarantees: capacities are positive, sets of ids are finite where slots are
counted, an edge's id is no node's (key.go:33 joins the ends with bars), a machine's anchor is a machine. The bounds
(`MaxFlows`, `MaxTicks`, ...) are any naturals, so that the theorems hold of behaviours of any length.

Left to TLC: liveness (`EventuallyForgotten`, `ResyncHappens`, `ChangesArrive`, `HandlersEnd`, `CatchesUp`, `AllDelivered`, `SettlesOnTruth`, `Ends`) and
anything about `ENABLED`; and `SparksAge`, since what the recursive function `EdgeSlots!Aged` computes for every number of sparks needs
induction over data, which the provers at hand cannot instantiate. Every other property of a run is a theorem.

## 6. Not modelled

L7 summaries, drop reasons and latency of an edge are one counter of observations
(`details`); labels are left out. Of the hub, the spark backlog and its sampling are left
out: a lost spark is a lost flash. Configuration is parsed once; metrics are written and never
read; the demo's generator is one source of the flows that `FlowGraph` accepts in general. Of the
page, colours (but for whether they are those of an emphasis), sizes, the camera, labels, the status pill, the help line and the panel's text are left out, and of
`layout.ts` the sines and radii that turn a place into coordinates. `Browser` hides by namespaces, machines
and reserved entities; verdicts, protocols and silence hide further arcs and no light. Whether a browser
sends pointerleave for a chip that is removed under the pointer is not ours to model; if it does not, the machine
stays emphasised. A browser
that registers after the hub's shutdown (possible in `Hub` as in the code) is served until it leaves
or the process exits; nothing closes its channel.

What reading the code for the models showed, and no property states: after a reconnect every
node that stayed is reported as added (graph-state.ts:83); a slot freed and taken in one frame hands its sparks to another arc
(particles.ts:94); an answer to the ticker's GetNodes may overwrite a newer event
(client.go:173) until the next one; an alt-click counts hidden namespaces that have left (filters.ts:208), so that it may show
everything instead of one; a new anchor of an unavailable machine is red only from the next tick on (nodes.ts:138); layout.ts:34
says that a new flow never moves what is already there, but a new node moves the ranks behind it.

## 7. Plan

Further modules:

1. `System`: `Hub` with `Transport` behind it, one change history from flow to screen, to show
   which of the losses above a reconnect repairs.
2. `Sparks`: the hub's backlog and sampling by verdict.
3. `Summaries` (`l7.go`'s top-N counters against an exact count).

Further theorems:

1. `EdgeSlots`: the safety half of `SparksAge`, that the swap-remove loop keeps each spark at most once, as an invariant of the loop's steps.
2. `PeerStatus`: the invariant behind `SettlesOnTruth`: what the status has wrong is on its way to be corrected.
3. `Hub` as an implementation of an abstract feed with losses, which `Transport` then extends to the screen (with `System`).
