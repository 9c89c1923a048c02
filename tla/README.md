# RouteFlow for NOX 1.3: specifications and proofs

RouteFlow runs a routing control plane in virtual machines and makes OpenFlow
switches forward as those machines would. This directory specifies the part
of it that this repository holds, in TLA+: the modules are model-checked with
TLC on small instances and the theorems are checked with TLAPS for every
instance.

## The system

Four kinds of process take part, and MongoDB carries everything between them.

| Part | Where | State | Operations |
|---|---|---|---|
| rfserver | `rfserver/rfserver.py` | the collections below, `configured_rfvs` | `register_vm_port`, `register_dp_port` (with `config_dp`), `set_dp_down`, `map_port`, `register_route_mod`, one per message type (`process`) |
| rfserver's tables | `rfserver/rftable.py` | `RFTable` (VM port, datapath port, virtual switch port per document), `RFConfig` (the configuration file), `RFISLTable`, `RFISLConf` | `get_entries` and its variants, `set_entry`; `RFEntry` and its computed status |
| rfproxy | `rfproxy/rfproxy.cc`, `rfproxy.hh` | `Table`: `dp_to_vs` and `vs_to_dp` | `process` for the messages of rfserver; `on_datapath_up`, `on_datapath_down`, `on_port_status_in`, `on_port_description_in`, `on_packet_in` for the controller's events; `create_flow_mod` |
| IPC | `rfproxy/MongoIPC.cc` (the Python side is in rflib, not here) | one capped collection per channel | `send` inserts an envelope, `listenWorker` polls for unread ones, processes each and marks it read |
| protocol | `rfproxy/RFProtocol*.cc`, `TLV`, `Match`, `Action`, `Option`, `IPAddress`, `MACAddress` | none | BSON conversion of the messages |
| rfclient | not in this repository | | registers each port at start, answers a PortConfig 0 with a mapping packet |
| virtual switch, datapaths | Open vSwitch, not in this repository | flow tables | OpenFlow 1.3 |
| test bench | `rftest/` | | starts all of the above in a fixed order |

How a datapath port gets its VM port:

1. rfclient sends PortRegister; rfserver's **client thread** runs
   `register_vm_port`.
2. A datapath joins, rfproxy asks it for its ports and sends a
   DatapathPortRegister for each; rfserver's **proxy thread** runs
   `register_dp_port`.
3. Whichever comes second finds the other's idle entry, associates the two and
   asks the VM, by a PortConfig, to map its port.
4. rfclient sends a mapping packet, which the virtual switch hands to rfproxy,
   which sends a VirtualPlaneMap; the proxy thread runs `map_port`: the entry
   becomes active and a DataPlaneMap goes to rfproxy.
5. rfproxy's **listener thread** writes the pair into `Table`; from then on its
   **controller thread** redirects packets between the two ports.

A datapath that leaves makes rfproxy forget its ports and rfserver put its
entries down and reset the VM ports. A port that leaves the virtual switch (a
VM that stops) makes rfproxy forget the pair and rfserver reconfigure the
datapath.

What is hard here: rfserver's two threads share a collection whose operations
are read, decide, overwrite a whole document, with no lock or transaction;
rfproxy's two threads share two maps with no lock; five channels and two
connections deliver independently, so downs, registrations and mappings
overtake each other; processing is at-least-once; and no message is ever
repeated by its sender, so what is lost or ignored stays so.

`PROJECT.json` lists each hazard at its line, with the properties that watch it.

A route takes another way: rfclient sends a RouteMod, the client thread
translates it into one message per other active port of the datapath
(`register_route_mod`), and rfproxy turns each into an OpenFlow modification
(`create_flow_mod`). The default flows of a datapath (`config_dp`) travel on
the same channel, from the proxy thread. When rfserver knows inter-switch links,
a route is also sent to the neighbours of its datapath, so that their external
ports reach it across the link.

## Modules

| Module | Models |
|---|---|
| `RFServer` | rfserver's association core: both threads and the collection |
| `PortAssociation` | what that core promises, without tables or threads |
| `RFProxy` | rfproxy's table, its two threads and the messages it sends |
| `RFProxyTurns` | `RFProxy` with a table whose operations are whole |
| `RouteFlow` | `RFServer` and `RFProxy` with their channels, the VMs, the virtual switch and the datapaths |
| `FlowMod` | RouteMods and `create_flow_mod`, as operators |
| `FlowTable` | `RFServer` with `register_route_mod` and `config_dp`'s messages, rfproxy's conversion and one datapath's flow table |
| `Channel` | MongoIPC's capped collection and its listeners |
| `Mailbox` | what a channel promises a receiver |
| `IPAddress`, `TLV`, `RFProtocol` | addresses and byte orders; matches, actions and options; the classes of messages: each as an object and as a document, as operators |
| `MessageChannel` | `Channel` with what its messages say |
| `ISLTable` | the inter-switch link entries, with crashes |
| `ISLRoutes` | `ISLTable` with the routes that `register_route_mod` sends across links |
| `RFServerProofs`, `SerialProofs`, `AssociationProofs`, `RFProxyProofs`, `FlowProofs`, `ChannelProofs`, `ISLProofs`, `RouteFlowProofs` | the theorems |
| `MCRFServer`, `MCRFProxy`, `MCRouteFlow`, `MCFlowTable`, `MCMessageChannel`, `MCISLTable` | values of the constants for TLC |

An operator named `Something_Suffix` is a variant of `Something` with a
plausible bug. No specification uses it; the list of mutants in `PROJECT.json`
says which property it breaks.

### RFServer

`rftable` maps each document of the collection to an `RFEntry` or to `NULL`,
`cthread` and `pthread` hold the handler each thread is in: its place (`pc`) and
its locals. Identifiers are single values: a VM port stands for
(vm_id, vm_port), and so on; `DpOf` gives a port's datapath. The ISL tables are
empty, as they are when rfserver is started without `-i`.

A handler is cut at its accesses to the collection and at its sends, which are
the points where the other thread can be noticed: `register_vm_port` is
`RegisterVmPort` (look up the VM's entry), `VmLookupDp` (look up the datapath's
entry and decide), then `VmInsert`, or `VmSave` and `VmAskMap`. `set_dp_down`
is `SetDpDown` (list the entries) and for each of them `DownLookup`,
`DownSave`, `DownReset`. `cthread.entry` and `pthread.entry` are the copies the
code saves later, whatever has become of the document.

A lookup takes the first match in the collection's natural order. Saving a
document that grows moves it, so the model takes any match.

`asked`, `mapped` and `configured` record what was sent: the newest PortConfig
per VM port, the newest DataPlaneMap per datapath port, the datapaths that have
been sent their default flows since they last went down.

`Spec` lets the threads interleave freely, delivers any message at any time and
any number of times, and lets the process restart (`Restart`). `SerialSpec` is
the same without overlap of the two threads and without restarts.

The branch of `config_dp` for the virtual switch itself is not reached:
rfproxy does not ask the virtual switch for its ports.

### RFProxy

The table is two functions with `NULL` for an absent key. Each operation of
`Table` is a step per map it touches. `ipc` is the listener's thread and `nox`
the controller's. `ProxySpec` lets them interleave at every step. `TurnsSpec`
(`RFProxyTurns`) is the table with a lock of its own: while one thread is inside
`update_dp_port`, `delete_dp` or `delete_vs_port` the other starts no operation.
Nothing else is serialised. The listener may run between the end of `delete_dp`
(`rfproxy.cc:670`) and the sending of DatapathDown (674), or between the lookup of
a deleted port of the virtual switch (611) and `delete_vs_port` (618). The history
variable `forgotten` holds the datapath ports that `delete_dp` removed and
`update_dp_port` has not mapped since. Redirecting a packet is a
lookup that changes nothing: it is the operator `Redirect`, of which `RoundTrip`
speaks, and `on_packet_in` is an action only for mapping packets. What
simultaneous access does to the memory of a `std::map` is not modelled.

### RouteFlow

The composition: `ClientThreadReads` and `ProxyThreadReads` hand `RFServer`'s
handlers the head of a channel, `RFProxy`'s handlers are driven by the virtual
switch's connection (`vsQueue`), by the datapaths and by DataPlaneMaps (`s2p`).
Channels are first-in first-out and lose nothing, nothing crashes, and
`RFProxy`'s table operations are whole, in the sense of `RFProxyTurns` and with the
same `ListenerInside` and `ControllerInside`: the races inside the table
are `RFProxy`'s subject. The VMs, their clients, the virtual switch and the
datapaths are external and do what the handlers expect of them. A VM that
starts attaches to any free port of the virtual switch.

Three constants pick the circumstances. `SwitchesLast`: datapaths come up only
after every VM has registered, the order in which `rftest/rftest1` starts
things (VMs at line 89, the sample network last, line 140). `OneAtATime`:
rfserver's threads do not overlap. `StopsMapped`: a machine stops only when its
port is mapped and no message is on its way.

### FlowTable

It starts where every VM port has registered and follows one datapath, each of
whose ports is configured; its ports register whenever it joins. The proxy
thread runs `RFServer`'s handlers; where `RFServer` has the single step
`ConfigDp`, `SendConfig` here sends the messages of `config_dp` one by one and
takes that step with the last. `rthread` is the client thread in
`register_route_mod`, cut at its two lookups and at each send. Matches, actions
and options are lists of TLVs with opaque values, so a prefix is a value and
`Covers` says which lies within which. `rm`, the message object, is reused for
every port in the code; the matches added for one port are removed before the
next, and the model adds them to a copy.

rfproxy's side is `FlowMod` followed by the datapath's table, which is
external: adding replaces the flow with the same match and priority, deleting
removes every flow within the match. `create_flow_mod` fails on a TLV it does
not know unless the TLV is optional, and `process` then passes NULL on; what
follows is undefined, so rfproxy dies or goes on (`alive`). A datapath that
leaves may keep its flows or lose them. NOX's `Flow` is external too: a field
that was never set is taken to read 0xffff, as the code expects at its one use
in `add_match`.

A datapath with a single port is never configured, as in the code: `config_dp`
looks whether the datapath already has an entry before the entry of this port is
written. `process` drops a RouteMod for a datapath whose identifier is 0
(`rfproxy.cc:867`); the datapath of the model has another identifier.

### Channel and Mailbox

`data` is the collection in natural order, `listener` where each receiver's
`listenWorker` is: it fetches a batch of at most `PENDINGLIMIT` unread
documents, and for each processes it and then marks it. A full collection drops
its oldest document, read or not (MongoDB, external). A receiver may crash
anywhere and starts again with a query. `SendLost` is an insertion that fails:
`send` does not ask for an acknowledgement and returns true all the same.
`Mailbox` is one receiver's view: in order, at least once unless lost, only the
last one ever again.

### IPAddress, TLV, RFProtocol and MessageChannel

`MessageChannel` runs `Channel` with contents: `Post` is `send` with
`putInEnvelope`, `Take` the processing of a message with `takeFromEnvelope`.
`said` is what the senders meant, `posted` what the envelopes held, `got` the
object each receiver built. The two hosts have byte orders of their own, so
`NetworkOrder` looks at the documents and `ReadAsSent` at both ends. `Meaning` is the
set of all that a message can say: the fields of its class as natural numbers, a MAC
address of six bytes, and lists of TLVs that have as many bytes as their type, or an
address and a prefix length. `Outbox` is any choice of such messages.

What the conversions do is modelled at the grain at which a value can change:
numbers and addresses are sequences of bytes, `Memory` and `Htonll` turn them as
the host does, a TLV is converted by its length if its type says so
(`MatchOrder` and its kin), masks are bits and prefix lengths are counted from
them, numbers of a message travel as decimal digits and the command of a
RouteMod is read back as a character, which is why `defs.h` counts from 48. A
MAC address as text keeps its bytes and the colons between them. At
rfserver's end the program is Python and its conversions are rflib's, which is
not in the repository; the model runs the C++ code at both ends.

### ISLTable

`RFISLTable`'s entries with the writes of `_register_islconf` and
`set_dp_down`, one step each. Only the proxy thread writes this table, so lookups
need no steps of their own; but the process may die between two writes, after
which its channel delivers the message again (`Channel` shows why) and the
configuration file is stored once more: `LinksOf` repeats every row once per
restart. Links lead from one datapath to another (the code tells the ends of a
link apart by their datapaths). Several links may share a port.

### ISLRoutes

`register_route_mod` on the client thread while the proxy thread writes the
table: `ListPorts`, `SendOwn` (the entries of the datapath's own links join its
ports, one message each), `ListRemotes`, `SendRemote` for each neighbour. The
messages of one step are a set, since nothing can change between them that they
depend on. `sent` keeps what the last RouteMod led to. An external port stands for
its VM port and MAC address, and is active while its datapath is joined;
how associations come about is `RFServer`'s subject.

## Runs

| Run | Shows |
|---|---|
| `server_serial` | With no overlap, `RFServer` implements `PortAssociation`; no association is missed, VM ports are told the truth, a datapath with two ports is configured, registered VM ports stay, documents follow their life strictly |
| `server_interleaved` | Under every interleaving, repetition and restart: types, no association against the configuration, and no write outside a document's life but the two racing ones |
| `server_forgotten` | violated: a down saved over a fresh association loses the VM port |
| `proxy_turns` | Whole operations, the threads interleaving between them: what is redirected one way is redirected back, what `delete_dp` removed is back only if it was mapped again, and nothing leads to a deleted port |
| `system_flaps` | rftest's start order, threads interleaving, a datapath down and back, a mapped machine stopped and started elsewhere: rfserver and rfproxy agree, and a configured pair that does not end up mapped has a VM port with two documents |
| `system_any_order` | any start order and a datapath down and back, threads not overlapping: every configured pair ends up mapped, rfserver and rfproxy agree, one document per port |
| `system_vm_stop` | violated: a VM stops while it is being mapped, the mapping outlives it |
| `flows_interleaved` | RouteMods against registrations, downs and configurations in the other thread: every flow follows the configuration, the default flows are there in the end |
| `flows_routes_last` | Routes with disjoint prefixes, announced once three ports are mapped, are installed for every other port, now and in the end, and gone when withdrawn |
| `flows_nested` | violated: withdrawing a route takes a more specific one along |
| `channel` | Order, at-least-once and which message may be repeated, against `Mailbox`, with crashes and failing insertions; nothing but what the collection dropped or never had is skipped, the rest is processed in the end; every class of message and every type of TLV is in network order on its way and read as it was sent, between hosts of different byte orders |
| `isl` | Three switches in a row: entries follow the ISL configuration and lead only to ends that are up, whatever crashes; until the first crash every link that is up is active both ways, with one entry per end; a route crosses only configured links, and its halves at the two ends of a link meet |

Three runs are violations: the code does not do what a comment or a
declaration of the repository says. `findings` in `PROJECT.json` quotes each.
`server_forgotten` needs rfserver's two threads, `system_vm_stop` the delay of a
message, `flows_nested` neither.

### Where the passing runs stop

Some properties hold only under the circumstances of their run. What goes wrong
outside of them, found with the same modules:

- `NoMissedAssociation` fails under `Spec`: both sides look for the other's
  entry, find none and insert an idle one (`rfserver.py:97` and `:236`).
- `NoWithdrawnFlows` fails when RouteMods are handled while the datapath leaves
  and comes back (`RoutesLast = FALSE`, threads interleaving): a message on its way is
  installed after the clear, and the withdrawal that comes while no port is
  active is sent to none.
- `RoundTrip` and `StaysForgotten` fail under `ProxySpec`: the table has no lock,
  and two operations that overlap leave its maps in disagreement.
- With whole operations too the table may hold entries of a datapath
  that is down: a DataPlaneMap that was on its way is processed after
  `delete_dp`, even before DatapathDown is sent. `StaysForgotten` says that this is
  the only way; a lock inside `Table` would not change it.
- `EventuallyMapped` fails with rfserver's threads interleaving, in the order of
  `system_flaps`. A mapped machine restarts and its registration reads its entry,
  which is active (`rfserver.py:92`). The datapath goes down: `set_dp_down` makes
  the entry an idle one of the VM port, without the datapath port. The
  registration finds no datapath port (`rfserver.py:97`) and stores a second idle
  document of the VM port (`rfserver.py:101` to `:112`). When the datapath port is
  back it is associated with one of the two; `map_port` (`rfserver.py:463`) may
  find the other, which is idle, and the pair is never mapped.
  `MappedUnlessDuplicated`, which the run checks instead, says that a VM port with
  two documents is the only thing that keeps a pair unmapped.
- `EventuallyMapped` fails when a machine stops after it was asked to map
  itself and before it is mapped (`StopsMapped = FALSE`): its next registration
  finds an associated entry and does nothing (`rfserver.py:106`).
- `LinkedBothWays` fails after a crash between the two writes of
  `_register_islconf`: the message is handled again, finds the first entry
  active and never writes the second.
- `HalvesMeet` fails without `~disturbed`: the links of the datapath and those of
  its neighbours are two queries (`rfserver.py:180` and `:185`), and a link that
  is registered or put down in between gets a route at one end only.
- An idle datapath port that goes down leaves a document without any port.
- No timeout of a route reaches its flow: `create_flow_mod` overwrites both.

### Bounds

Two VM ports and two ports of one datapath are the least with which a query can
return the wrong row, a datapath has more than one entry to put down, and one
port can be active while another registers. `Doc` bounds the insertions: four
documents let each port have its own entry and leave room for a duplicate or an
empty one; there are three when the threads interleave. `RoomForVm` and `RoomForDp` keep a message that
would insert from being taken up when the collection is full. In `system_flaps`
(three documents, as datapath ports never need one of their own and one machine
restarts) and `system_any_order` (four) that never happens: the model
checker finds no reachable state in which an insertion or a registration is held back
for want of room. `InOrder`, an action constraint of `system_flaps`, takes free
documents in one order. Documents are interchangeable and are never removed, so it
leaves out only renamed copies of other behaviours, and it holds no fair action
back: where any document can be taken, the first free one can.
`RFProxy` has two datapaths so that forgetting one must spare the other.
`MaxQueue` bounds rfproxy's channel (never reached in `RouteFlow`),
`MaxVmStops` and `MaxDpDowns` the failures: one is enough for each message of a
round to be overtaken by the failure. A third port of the virtual switch in
`system_flaps` lets a machine come back where no other was.

In `FlowTable`, `MaxQueue` holds the sender back at two or three messages, as
many as a route or most of a configuration needs, and `MaxLeaves` is one.
`flows_interleaved` has a route of each kind: one that can be installed, one
that cannot be converted, one without an output. `flows_routes_last` has three
ports because a route then takes two messages.

`Channel` holds three documents for two receivers and five messages, so that it
overflows with read and unread ones, and batches of two; two crashes hit the same
message twice and one insertion fails. `Outbox` gives the n-th message to each
receiver a content of its own, ten in all: every class and every TLV type that the
code knows, prefix lengths at a byte's boundary, inside a byte and of a whole
address, numbers whose bytes differ. The contents depend on the position alone, so
they cost no states. `ISLTable` has a chain whose middle switch carries both links on
one port: four joins, one of which a crash may take the place of, let a switch
come back while the others are up, and twenty-two documents are more than the
insertions of a run. One RouteMod is handled, for the external port of the middle
switch, which has a neighbour on each side; it comes after three joins
(`FirstJoins`) and before the crash, so that links come up and go down, and
rfserver dies, while it is handled.

### Fairness

`RouteFlow` assumes weak fairness of every thread's steps, of reading each
channel and of the environment's recovery: listeners poll for ever
(`MongoIPC.cc:90`), the controller's event loop runs on, machines and
datapaths that are down are started again. Failures are not fair and are
bounded, so "in the end" means after the last failure. `FlowTable` assumes
the same of its threads, of rfproxy and of a datapath that is away; nothing is
assumed of rfclient, and `EventuallyInstalled` speaks of routes that stay
announced. `Channel` assumes weak fairness of each step of a listener's loop.

## Proofs

`RFServerProofs` proves of `Spec`, for all sets of ports, documents and any
configuration:

- `TypeCorrect`: `Spec => []TypeOK`
- `FollowsConfiguration`: `Spec => []AssociationsFollowConfig`
- `LivesOnlyAsDescribed`: `Spec => Lifecycle`

None of these is inductive by itself: a stale copy saved later can break them.
The inductive invariant adds what each handler's locals promise about the
document they will be saved over: a copy to be associated was idle and paired
by the configuration, a copy to be put down still holds its VM port or none,
and the document meanwhile can only have moved in the ways the other thread
can move it. `Inductive` proves it; the theorems follow.

`SerialProofs` proves of `SerialSpec`, for every configuration that pairs a port
with one port at most and every finite set of documents:

- `SerialMissesNone`: `SerialSpec => []NoMissedAssociation`
- `SerialStrict`: `SerialSpec => StrictLifecycle`
- `SerialKeepsVms`: `SerialSpec => RegisteredVmKept`

The configuration file may pair a VM port twice; then `get_config_for_vm_port`
answers with one of the pairs and the other is missed even without overlap, hence
the assumption. `SerialInv` adds to the invariant above that what a handler looked up is still
so when it acts on it, and, while a datapath is put down, that each of its ports
has at most as many entries left as there are look-ups of that port to come
(`set_dp_down` lists entries but looks each up again by its port, which may find
another one of the same port). So the last look-up leaves no entry of the
datapath behind, and an idle VM port that its going down produces has no idle
partner. TLC refutes each of the three under the interleaved `Spec`.

`AssociationProofs` proves of the same specification, under the same assumptions,
the rest of what the run `server_serial` checks:

- `SerialAskedAgrees`: `SerialSpec => []AskedAgrees`
- `SerialTwoPortsConfigured`: `SerialSpec => []TwoPortsConfigured`
- `SerialImplements`: `SerialSpec => ImplementsPortAssociation`

`AskedAgrees` and `TwoPortsConfigured` speak of states in which no handler runs.
`AgreeInv` says how they fare in between: an associated VM port was asked to map
itself, or the handler that associated it is about to ask, or its datapath is
being put down; a port that was asked is associated, or the handler that took its
partner away is about to reset it. `config_dp` counts the ports of a datapath
before the registering one is stored, so the second half is that a datapath is
configured or all its entries are of one port (`OnePortOf`), and that a
registration which found the datapath unknown still finds no entry of it. For the
refinement, each write is accounted for: the insertion or the write that
associates is the registration of the abstract specification, the listing of a
datapath's entries is its `DatapathDown` (from then on its ports count as down),
and every other step of the handlers leaves the three abstract variables alone. The
writes that follow the listing do so because the datapath is already down;
that it is also rid of all its entries when the handler ends is what the counting of
`SerialInv` shows.

`RFProxyProofs` proves `ProxyTypeCorrect` of `ProxySpec`, so under every
interleaving inside the table, and of `TurnsSpec` the properties that need the
operations whole: `TableRoundTrip` (`RoundTrip`), `ForgottenUntilMapped`
(`StaysForgotten`) and `DeletedIsUnused` (`DeletedVsPortUnused`). Their invariant
says how far each operation has come: which keys may differ between the two maps
at each place of an operation, that never both threads are inside one, and which
of the two maps a forgotten port is gone from.

`ChannelProofs` proves of `MessageSpec`, for any receivers, sizes and numbers of
crashes and losses, `MarkedIsProcessed` (`ReadIsProcessed`) and `NoneSkipped`
(`NothingSkipped`). Neither is inductive: `ChannelInv` adds that the head of a
batch is in `processed` before it is marked, and that a message that was
inserted, not dropped and not processed is still in the collection, unread (a
batch is a copy, so a crash loses nothing). `ChannelTypeCorrect` (`ChannelTypeOK`)
and the refinement `ChannelIsMailbox` (`ImplementsMailbox`) need the order of the
messages: `OrderInv` adds that the numbers of the messages increase in the
collection and in every batch, that what a receiver has unread in the collection is
in its batch or newer than all of it, and that the message being marked is
the head of the batch. That the query finds the unread messages, all of
them and in order (`UnreadFinds`), is an induction on the length of the collection.

The contents are proved too, for every message of `Meaning` and any byte orders:
`SentIsRead` (`ReadAsSent`) and `WireIsNetworkOrder` (`NetworkOrder`). The larger part
is about the conversions alone and ends in `MessagesReadAsSent`: what a sender writes with
`to_BSON`, a receiver reads with `from_BSON` as it was meant. Its pieces are

- `NumbersReadAsSent`: for numbers of 2, 4 and 8 bytes, the document holds the bytes in
  network order and the receiver reads the number;
- `NumbersReadFromText`: the decimal digits of a number read back are the number
  (`converter.h`), for every natural number;
- `PrefixOfMask`: the leading ones of the mask that is made of a prefix length are
  as many as the length, for 4 and for 16 bytes, from what a single byte of a mask sums up
  to (`MaskByte`);
- one lemma for a match, an action and an option, whose types differ in which are
  converted, and that no TLV of a list is left out as unusable (`AllUsable`).

`SayInv` then adds to `OrderInv` that the n-th envelope holds what the n-th message
says as some host writes it (`Envelopes`), which with the numbers of the batches being those
of messages sent is enough for a receiver that processes one to have read it. `Digits`,
`NumberIn`, the bits of a mask and the lists are defined by recursion or by folds; the
proofs show first that the recursive function exists, then its steps, by an
induction over the natural numbers that is stated of a set (`SetInduction`) and rests on
the library's theorem on well-founded sets.

`FlowProofs` proves `FlowsFollow` of `FlowSpec` (`FlowsFollowConfig`), for any
configuration, any routes and queues of any length, with rfserver's threads
overlapping or not and the datapath leaving or not. The flows say nothing of how
they came about, so `FlowInv` adds the whole way: the invariant of rfserver's table (every
step of `FlowSpec` is a step of `RFServer` or leaves it alone, so `NextIInv`
carries over); that the RouteMod handler's message leads out of a configured port
and the ports it listed are others, each paired by the configuration when it was
read; and that every message on its way to rfproxy is one of `config_dp`'s or was
made so. The other half is what `create_flow_mod` returns for such messages: it
folds the matches, actions and options, and that folding the options never
touches the match or the actions is an induction on the number of options. It is
stated of a set of numbers (`Induction`), from the library's theorem on
well-founded sets.

`DefaultsStay` (`DefaultsInstalled`) follows the default flows through the queue to
the datapath. `DefaultInv` adds to `FlowInv` three parts. `DefaultsSafe`: while the
datapath is up and no report that it went down waits to be read, each default flow of the
operations that `config_dp` has sent is installed, or its message is in the queue with
no clear message behind it (`Held`). `RoundSafe`: how many operations those are
(`Sent`), which is all of them once the datapath counts as configured and no round is
running. `AwaySafe`: while the datapath is away, rfserver has yet to read so, or is putting its
documents down, or has none of it left (`Away`); as `set_dp_down` looks each entry up again
by its port, the part "is putting down" says that there are at least as many look-ups to
come as documents (`Accounted`). So when the datapath is back and nothing is left to
be done, a registration since then has had it configured again. That no route takes a default
flow along is a fact about `create_flow_mod`: a route's flow is for a MAC address
(`RouteHasMac`) and a default flow for none (`DefaultFlowIs`), so neither an ADD
replaces it nor does a DELETE cover it. `ProtocolsAssumption` is what this needs of
the operations, as `send_datapath_config_message` has them (`rfserver.py:315`): none of
them is the clear or the drop-all operation, none matches on a MAC address, and
`create_flow_mod` can convert them.

`RoutesAreInstalled` (`RoutesInstalled`) and `WithdrawnAreGone` (`NoWithdrawnFlows`)
hold for what `OrderlyRoutes` says, which is what the run `flows_routes_last` sets up: routes are announced once all
ports are mapped (`RoutesLast`), no destination lies within another, rfproxy can
convert the routes' messages, the configuration is one to one, and there is one document
for each VM port. The first two are needed: `RoutesLast` because rfserver drops a route whose ports are
not associated yet and lists only active ports, and disjointness because a delete that is not strict
takes along what lies within (the run `flows_nested` refutes `RoutesInstalled`). `RoutesInv` adds to
`FlowInv` that rfserver's writes keep the VM port of a document (`Registered`), and
two phases: before the first route there are only default flows (`Before`); from then on the table stays
mapped and the queue holds nothing but the newest message of a route (`Mapped`), and for every
route and every other port the flow is there exactly if the route is announced
(`Right`), or the message that makes it so is in the queue or yet to be sent by the
handler (`Coming`). Processing the newest message of a route for one port puts that flow right
and leaves every other as it was (`Applying`): the matches of two routes' flows
differ in the destination or the MAC address, and neither covers the other.

`ISLProofs` proves of `RoutesSpec`, for any topology and ISL configuration with
links between different datapaths: `TableFollowsConfig` (`IslFollowsConfig`),
`ActiveEntriesUp` (`ActiveIsUp`) and `RoutesCrossLinks`
(`CrossesConfiguredLinks`). `IslInv` adds what a handler's locals promise: the
link it is about to write is configured and both its ends are up, and while a
datapath is put down the entries that still name its ends are all in the
lists that remain to be done. A crash between two writes leaves them so because
the message is handled again. `RouteInv` adds that the neighbours listed by the
RouteMod handler were active entries, hence links of the configuration.

Until rfserver dies, and for ISL configurations that have an end in one row at
most (`OneLinkEach`: `get_config_for_dp_port` answers with the first row it finds), it
also proves `EndsHaveOneEntry` (`OneEntryEach`), `LinksBothWays`
(`LinkedBothWays`) and `RouteHalvesMeet` (`HalvesMeet`). The first two are invariants of
states with no handler running, so `LinkInv` says how far each handler has come: an end
that is being registered is in no entry yet, the entry that the second write of an
association will overwrite is still the counterpart of the first, and an end that is
put down is no longer up; between handlers every end that is up has its entry, and a
link whose ends are both up is active both ways. A route is sent in two loops over
entries that were listed by two queries; `Progress` says which of the messages have been
sent, and `AllSentMeet` that what the first loop announces on one side of a link
the other announces on the other side, because an active entry has its counterpart.

`RouteFlowProofs` proves of `SystemSpec`, both programs with what surrounds them, for
all sets of ports, machines and datapaths, queues of any length and any number of
failures:

- `SystemTypeCorrect`, `SystemImplementsServer` (`Spec`), `SystemImplementsProxy`
  (`ProxySpec`): every step of the whole is a step of the two parts or leaves them
  alone, so what is proved of the parts holds of them here.
- `SystemIsSerial` (`SerialSpec`) and `SystemAssociates`
  (`ImplementsPortAssociation`), when rfserver handles one message at a time.
- `SystemRightPorts` (`RightPorts`), with the threads overlapping or not, when machines
  do not stop, or stop only when they are mapped and all is quiet (`OrderlyStops`).
- `SystemOneDocumentEach` (`OneDocumentEach`) and `SystemAgreement` (`Agreement`), when
  rfserver handles one message at a time and the configuration pairs every VM port, with
  one datapath port (the latter under `OrderlyStops` too).

`RightPorts` and `Agreement` speak of states in which nothing is left to be done; their
invariants say, for any state, what is on its way.

- `RightInv`: every message and every local variable between a machine's mapping packet
  and the table names the port the machine is attached to at that moment (`Plugged`); a
  deleted port of the virtual switch is reported when no such message is on its way, and
  one at a time (`Deletions`); so what the table holds stands for a configured pair, or
  for a port whose deletion has not got there yet (`TableRight`). That a deletion which
  finds nothing in `vs_to_dp` has nothing to remove in `dp_to_vs` either
  needs the two maps to agree (`ThereAndBack`). `system_vm_stop` shows that
  `OrderlyStops` is needed: a mapping message outlives the machine.
- `DocInv`: rfserver inserts a document for a port that is in none
  (`RegisteringIsNew`). For a datapath's port this is due to what is in the
  channel: between two registrations of a port rfproxy sends that its datapath went
  down (`DownsBetween`, in three parts for messages in the channel, about to be sent,
  and possible in the future), and set_dp_down leaves no entry of the datapath behind. A VM
  port that registers again is recognised if the configuration lists it; one that is not
  listed gets another document every time (`register_vm_port`, `rfserver.py:90`), hence
  the assumption `AllConfigured`.
- `AgreementInv` adds that an attached machine is in rfserver's table or its registration
  is on its way (`VmKnown`); that a port that is up is there too, or a registration
  is in the channel with no down after it (`DpKnown`); that an associated machine that is
  not mapped, or was attached elsewhere since, is being asked to map itself
  (`AssociatedIsAsked`, where the request may be a PortConfig, a mapping packet, a message
  or a handler between two of them); and that an active entry is in
  rfproxy's table, or its mapping or its datapath's down is on its way
  (`ActiveIsMapped`). When nothing is on its way, what remains of these is `Agreement`.

The parts of the three invariants were model-checked on the instance of
`system_any_order`, with and without a machine that stops, before they were proved.

They rest on the assumptions of the modules (`NULL` is none of the values,
no datapath port is a port of the virtual switch, `DpOf` and `Config` are of their types, links lead from one datapath to
another, a route's destination is an IPv4 or IPv6 address, a datapath's ports are
finite, the operations of `config_dp` convert and match on no MAC address, what a message says is
in `Meaning`), which TLC evaluates.

Only model-checked: liveness (`EventuallyMapped`, `MappedUnlessDuplicated`,
`EventuallyInstalled`, `EventuallyProcessed`), which is out of the prover's reach, and `Agreement` with
rfserver's threads interleaving and the datapaths coming last, as in `system_flaps`.

## Plan

Done, in this order: the association core, rfproxy's table, their composition,
the flow table, the channel, the inter-switch links, the codecs, routes over
links, failing insertions, and the proofs above. Left:

1. Crashes and redelivery in `RouteFlow`, where nothing recovers today: no
   sender repeats a message and rfproxy's table is gone with its process.
2. Proofs: `Agreement` with rfserver's threads interleaving.

## Not modelled

Logging; `main.cpp`, which prints addresses; the backup copies of sources (`*~`, `*.back`,
`rfserver.backup.py`); the scripts of `rftest`; the NOX, Open vSwitch, MongoDB
and rflib code, which is not in the repository. The configuration of the virtual
switch itself and its connection going down; what rfserver and rfproxy make of a
message that was lost; the loss of a mark (the update at `MongoIPC.cc:99` asks for no
acknowledgement either, and without it a message that was processed is delivered
again, after newer ones); the texts of IP addresses and the assignment and comparison of
addresses and TLVs, which the controller component does not use on its way; a
received value that is shorter or longer than its type (this code writes none);
simultaneous access to a `std::map`; a configuration file that changes between restarts.
`rftest/islconf.csv` configures inter-switch links, but no script starts rfserver
with `-i`, so `RFServer` and `RouteFlow` run without them.
