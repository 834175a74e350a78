# xCall in TLA+

xCall lets a dapp on one chain call a dapp on another. This directory holds
TLA+ models of the contracts under `src/contracts`, TLC runs on small instances
and TLAPS proofs. `PROJECT.json` lists the parts of the system, the source
lines that each definition models, the runs, the hazards and the theorems.

## The system

| part | ports | role |
| --- | --- | --- |
| call service (`xcall`) | CosmWasm, EVM, Java (ICON), Soroban (Stellar), Sui, Solana | numbers messages, keeps rollbacks, collects deliveries, executes requests |
| centralized connection | all | one relayer (the contract's admin) carries `Message` events; receipts stop repetitions |
| cluster connection | all | the same, with a threshold of validator signatures |
| LayerZero and Wormhole adapters | EVM | connections over other bridges |
| relay aggregator | Java | collects the signatures of the relayers of a cluster |
| multisig | Sui, Soroban | approves administrative transactions |
| RLP codecs | EVM, Soroban, Sui, Solana | the format of the messages between call services |
| dapps | all | examples and mocks |

A message is sent over a list of connections (`sources`, and `destinations`
for their names on the other chain) or, when the list is empty, over the
default connection of the network. The receiver admits it when every protocol
of the list delivered it, under a request id that anybody may pass to
`execute_call`. There are one-way, persisted (a failing execution reverts and
can be repeated) and two-way messages. The receiver of a two-way message
answers with a result. The sender then marks the call successful or enables a
rollback, which `execute_rollback` runs. A one-way or persisted message that a
dapp sends back while it executes a call travels in the result of that call.

## Modules

| modules | model |
| --- | --- |
| `XcallMessages` | the records of messages, and the parameters of all call services |
| `CwXcall` | `cw-xcall`: the state and every operation on calls |
| `CwCentralizedConnection`, `CwSystem` | `cw-centralized-connection`, and both composed, on several chains; properties, fairness, refinement |
| `TwoWayCalls` | abstract: what the sender and the receiver of a two-way call may observe |
| `CwFees` | the money of the CosmWasm call service and its connections |
| `XcallProperties` | what the call services of all ports are to guarantee, stated of histories |
| `EvmXcall`, `JavaXcall`, `SorobanXcall`, `SuiXcall`, `SolanaXcall` | the call services of the other ports, each with the connections and dapps as environment |
| `SolanaClients` | the account-list queries of the Solana programs, the contexts that take the accounts, and clients that ask first and submit later |
| `CentralizedRelay`, `OnceChannel` | centralized connections of EVM, Java, Soroban and CosmWasm joined by a relayer; abstract: a channel that brings each message once |
| `SuiConnections` | the storage that the connections of the Sui package share, versions and migration |
| `ClusterRelay`, `CwCluster`, `EvmCluster`, `JavaCluster`, `SorobanCluster`, `SuiCluster`, `SolanaCluster` | validators, relayer and other networks; the cluster connection of each port |
| `BridgeAdapter`, `WormholeAdapter`, `LayerZeroAdapter` | what the EVM adapters have in common, and each of them |
| `RelayAggregator` | the aggregator of ICON |
| `SuiMultisig` | the manager of multi-signatures on Sui |
| `RlpBytes`, `RlpEvm`, `RlpRust` (Soroban and Solana), `RlpSui`, `RlpTransport` | encoders and decoders, on bytes; every port reads what every port writes |
| `MCCwSystem`, `MCXcallPorts`, `MCClusterPorts`, `MCConnections`, `MCQuorums` | instances for TLC |
| `CwProofs` | proofs about the CosmWasm call service and the composed system |
| `EvmXcallProofs`, `JavaXcallProofs`, `SorobanXcallProofs`, `SuiXcallProofs`, `SolanaXcallProofs`, `XcallPortsProofs` | proofs about the call services of the other ports, and about all five |
| `ConnectionProofs` | proofs about connections, adapters, the Sui cluster connection and the aggregator |

Every variable has the name of a storage item (`call_requests` is
`callRequests`, and so on); in `CwXcall` it is a function of the chain. A
handler that has several outcomes is one action per outcome: `handle_request`
is `HandleRequestPending` and `HandleRequest`. An error reverts the
transaction, hence it is a guard that is false. A call from one contract to
another is part of the step, as it is part of the transaction. Where the
platform runs a dapp inside of `execute_call`, the execution is opened and
closed by two steps with the dapp's own calls in between: a submessage on
CosmWasm (a failing dapp is undone by the chain, hence one step), frames of a
call stack on EVM and Java, tickets within a programmable transaction on Sui.
Deliveries may come in between, too: no handler refuses them there.

Data is abstract: a network id is a chain, (from, sn) stands for the account
and payload of a message, a hash for the message itself. A connection has the
same name on both ends. Variables such as `heard`, `admitted`, `executed`,
`calls`, `rolledBack`, `reverted`, `handed` record history and guard nothing.
The RLP modules are the exception: they work on bytes, since what is to be
shown is about lengths and headers.

Definitions marked "(mutant: ...)" are faulty forms of the definition that
follows them. No specification uses them. Each shows that some property
notices the fault.

`MCXcallPorts`, `MCClusterPorts`, `MCConnections` and `MCQuorums` check several
models in one run: a variable that never changes (`port`, `kind`, `onSui`)
says whose behaviour it is, and a property is a case distinction over it. This
is sound because no step mixes two models, and it states a guarantee once for
all the ports that give it.

## Runs

| run | instance | shows |
| --- | --- | --- |
| `calls` | two CosmWasm chains, connections `k1`, `k2`, 2 sequence numbers and 2 request ids each, lists `<<>>` and `<<k1, k2>>` | `TypeOK`, `AtMostOnce`, `ReplyOfOneCall`, `SuccessMeansExecuted` |
| `settles` | 1 and 1, lists `<<k1>>`, `<<k1, k2>>`, both admins may revert | `RollbackMeansFailed`; the system implements `TwoWayCalls`; `EveryCallSettles` |
| `open` | `CwXcall` with connections that deliver any message, at most 4 deliveries | the inductive invariant `XcallInv` and its four consequences |
| `reply_lost` | as `settles`, without reverts | violation of `NoSendLost` |
| `services_deliver` | EVM, Java, Soroban, Sui, Solana; outsiders and connections deliver requests, results and errors | `RequestsEndorsed`, `SettlementEndorsed`, `SettledOnce`, `TimeToAct` |
| `services_execute` | EVM, Java, Sui, Solana; executions that nest, fail, reply, are rolled back by force | `ExecutedOnceAndAnswered`, `RepliesStayInside` |
| `services_fees` | all six; admins change fees | `TypeOK`, `QuoteSuffices`, `ChargedAsQuoted` |
| `accounts` | Solana with a centralized and a cluster connection, two calls; clients with pages of 3 and of 30 accounts | `PlansStayGood` |
| `clusters` | all six cluster connections with one faulty validator of three; the Sui storage | `ThresholdReachable` (Sui, Solana), `DeliveredOnce`, `DeliveredAuthentic`, `SuiConnectionsApart` |
| `connections` | a relayer between four networks, one of each port; or an adapter with two networks | `ChannelInv`, `ImplementsChannel`, `AllReceived`; `ResponsesKept`, `BroughtOnce` (Wormhole), `ResponsesSent` |
| `quorums` | four relayers and one packet; or three members with keys of two schemes, two wallets (of equal and different weights, with a signer without weight, with one listed twice), two proposals | `LookupMatchesList`, `AcknowledgedOnceByQuorum`, `AcknowledgedByRelayers`, `Acknowledged`; `ApprovedMeansExecutable`, `CommandAccepted` |
| `rlp` | messages with every field around the lengths 55/56 and 255/256 | `OneWireFormat`, `ReadUnlessFull` |

Deadlock is checked in `rlp` only: elsewhere the bounds stop every behaviour,
and a system without calls rests.

### Bounds

Two connections are the least number for which deliveries are collected; a
list that names one connection twice is the least with a repetition. Two
sequence numbers allow two calls to interleave, a call from within an
execution, and a reply left over by one execution to meet the next. One is
enough where the property is about the deliveries of a single call. Depth 2 of
executions lets one nest in another, and three request ids let a third start
after both. On Soroban a tick of the clock is a day, and entries live for four. Three
keys with threshold 2 are the least for which one faulty key neither suffices
nor blocks.

State constraints divide the work; each keeps the combinations that a property
is about:

* `CallsFocus` (`calls`): default connections and persisted messages with one
  call per chain, otherwise two calls;
* `Bounded` (`open`): four deliveries (a success and a failure from each
  connection), only chain `a` acts;
* `DeliverFocus` (`services_deliver`): a behaviour settles one call (on Solana
  two, with three deliveries, so that results are brought under the number of
  the other call) or admits requests. Rollbacks and pending requests are
  different storage;
* `ExecuteFocus`: on Sui and Solana two requests, under way together;
* `FeesFocus`: what comes in has no part in the fees of Soroban.

Messages are never removed from a network. The relayer may submit an event at
any time, repeatedly or never, which covers loss, delay, reordering and
repetition.

### Fairness

* `settles`: weak fairness of the delivery of each event, of the execution of
  each request, of the end of an execution and of each enabled rollback.
* `connections`: the relayer brings events that it saw; somebody pays for a
  response on hold (`triggerResponse`).
* `quorums`: each relayer submits each packet.

The contracts do none of this by themselves. It is what the relayers and
executors of a deployment are for: they are independent of each other and
retry, and a step that they may take stays possible until it is taken.
Sending, reverting and administration are not fair.

## Where code and documents differ

The run `reply_lost` shows the first of these. The others were met while
modelling. The models do what the code does, and the properties say what the
code keeps.

CosmWasm

* `is_reply` (`cw-xcall/src/send_call_message.rs:166`) does not look at the
  type of the request being executed. A message that a dapp sends back during
  a one-way or persisted execution is kept as the reply of a call that has no
  result, and dropped. `docs/adr/xcall.md:718` sets the reply state for
  two-way calls only.
* `remove_by_prefix` (`state.rs:280`) removes keys from `pending_requests`
  whatever map it is given: `pending_responses` is never cleared, unlike
  `docs/adr/xcall.md:629`. Settlement holds nevertheless, because a settled
  call has no rollback any more and numbers are not reused.
* `set_signature_threshold` (`cw-cluster-connection/src/contract.rs:143`)
  stores any threshold; `set_validators` refuses one that cannot be met
  (`contract.rs:92`). EVM has the same pair (`ClusterConnection.sol:308` and
  `:73`). Hence `ThresholdReachable` is about Sui and Solana.

EVM

* `handleResult` (`CallService.sol:507`) collects answers by sequence number,
  not by message as in `docs/adr/xcall.md:677`: a success from one connection
  and a failure from another complete the call, and the last one decides.
  `SettlementEndorsed` says for EVM that all connections of the list answered,
  with whatever codes, and that one of them gave the code the call settled on;
  `RequestsEndorsed` says the same of a reply. Other accounts may write
  `pendingResponses`, but never give the answer that decides.
* `getFee` with an empty list (`:638`) leaves the default connection out;
  `docs/adr/xcall.md:320` promises the total. `QuoteSuffices` quotes with the
  other overload then.
* A nested two-way execution that replies overwrites the reply of the outer
  one (`:171`), although `CallMessageSent` was emitted for it
  (`docs/adr/xcall.md:199`).
* `WormholeAdapter.sol:131` and `LayerZeroAdapter.sol:137` keep a response
  under the number of its call alone. Networks number their calls separately:
  two responses on hold with one number replace each other. `ResponsesKept` is
  checked and proved for responses with different numbers (`DistinctNumbers`).
* `lzReceive` (`LayerZeroAdapter.sol:167`) keeps no record of what it passed on
  and does not look at the nonce. That a delivery comes once is an assumption
  about the endpoint (`EndpointBrings`), and `BroughtOnce` is about Wormhole.

Java

* `protocolEquals` (`CallServiceImpl.java:554`) compares a prefix: a message
  over the first of two protocols, or over the default connection, is captured
  as the reply; `docs/adr/xcall.md:780` compares the lists.
* `clearValidators` (`ClusterConnection.java:106`) leaves empty places that
  `updateValidators` counts: fewer validators than the threshold are accepted,
  against the comment at line 82.
* `setRelayers` (`RelayAggregator.java:104`) walks the list by index while
  `removeRelayer` moves the last entry into the gap: an old relayer may stay,
  against `RelayAggregatorTest.java:142`.
* The threshold is only compared when a signature comes in. If relayers are
  removed or the threshold is lowered so that the stored signatures suffice, and
  all relayers that are left have signed, each of them is refused ("Signature
  already exists", line 184) and the packet is not acknowledged.
  `Acknowledged` is about packets whose signatures all come after the last
  change.

Soroban

* `update_validators` (`cluster-connection/src/contract.rs:136`) counts
  different keys but stores repeated ones, which `set_validators_threshold`
  counts.
* The rollback of an unanswered call lives four days in temporary storage and
  is never extended (`xcall/src/storage.rs:187`); compare
  `docs/stellar-xcall.md:26`. `TimeToAct` is about the time after the last
  delivery.
* The multisig writes a wallet to persistent storage and looks it up in
  instance storage (`states.rs:83` and `:55`): no proposal can be created.
* `decode_length` (`soroban-rlp/src/decoder.rs:108`) reads a list with a
  payload of exactly 55 bytes as empty, and the message is refused.

Sui

* The captured reply of an execution reported as failed stays and goes along
  with the next success (`main.move:508`); `docs/adr/xcall.md:724` clears it.
* `get_fee` (`main.move:313`) quotes 0 for a reply, but `send_call` takes the
  protocol fee. `QuoteSuffices` is about sends outside of executions.
* `set_fee`, `claim_fees` and `configure_nid` (`centralized_entry.move:20`) do
  not enforce the version that `docs/sui-xcall.md:152` says every entry
  function enforces.
* `approve_proposal` (`multisig.move:240`) counts a key that a wallet lists
  twice twice, and compares a number with a threshold that Sui compares with
  weights, while `register_wallet` (`:164`) takes signers without weight.
  `verify_pubkey` (`:396`) does not look at the scheme that a raw signature
  begins with, and `create_multi_signature` (`:330`) passes it on.
  `CommandAccepted` says that a command has a genuine signature for every bit if
  no signer is listed twice, and that Sui accepts it if, besides, all signers
  have weight and all signatures begin with the scheme of their key. The run
  has wallets and signatures of all these kinds.
* `decode_list` (`sui_rlp/sources/decoder.move:82`) has no branch for 0xf7: a
  list of protocols with a payload of exactly 55 bytes aborts.

Solana

* `recv_message` of the connections takes a sequence number apart from the
  message (`centralized-connection/src/lib.rs:68`; the signatures of the
  cluster connection do not cover it). It selects the rollback account of the
  call (`handle_message.rs:562`) and is not compared with the number in the
  result, by which every other port finds the call. The model brings every
  result under every number. `SettlementEndorsed` then says for Solana that a
  call settles on one result, or on errors, that a connection of its list
  brought for this call and that as many connections brought as the list is long;
  and that it is a result of this call which all its connections brought, unless
  one of them named another call with it. `RequestsEndorsed` says the same of a
  reply, whose call has the network and the protocols of the reply. The query
  for accounts (`query_accounts.rs:87`) goes by the number in the result;
  `PlansStayGood` is about relays that bring a result under its own number.
* For each source only membership is checked (`connection.rs:84`): a call over
  two sources can go twice through one; compare `send_message.rs:96`.
* Errors and results of failure are counted in different accounts
  (`handle_message.rs:765`), unlike `docs/adr/xcall.md:600`: a failure that
  one connection delivers and another reports as an error never completes.
* The account list for a result that carries a reply over several connections
  lacks the xcall program. `PlansStayGood` excepts it (`ReplyOverSeveral`).

No document says anything of one more hazard: on CosmWasm the default
connection is looked up at delivery. If the list of destinations is empty and
the message went over both connections, changing the default between the two
deliveries admits the message twice. `calls` has one candidate for the
default, and `NamedLists` below excludes empty lists.

## Proofs

The proofs hold for all sets of chains, connections, lists, validators,
networks and messages, and all bounds. What they assume of the constants are
the named assumptions of the modules (lists are sequences of connections,
bounds are naturals, `None` is none of the values), which TLC evaluates for
each instance, and the hypotheses named below.

### The CosmWasm call service: `CwProofs`

`XcallSpec => []XcallInv`, whatever connections deliver, and from it typing,
`RequestsAreEndorsed`, `SettlementIsEndorsed`, `CallsSettleOnce` and
`RequestsExecuteOnce`. None of these properties is inductive. `XcallInv` adds
what the state says about the past. Collected deliveries took place and come
from protocols of the list (`PendingHeard`); this is what turns the contract's
comparison of *counts* into a statement about *sets*. A rollback is that of a
call that was sent, and its flag is set only after an endorsed failure
(`RollbacksOfCalls`). Sequence numbers and request ids are used once, and the
request being executed is stored (`CallsBySn`, `RequestsById`). The central
lemma is `CompleteMeansAll`: if the deliveries of a message come from elements
of the list and are as many as the list is long, every element delivered.

What this needs to know about counting is stated as an assumption of `CwXcall`
(`CountingAssumption`: a set of entries as large as the list is long is all of
them, and sets of positions have a size). It restricts nothing: `RoutesCount`
in `ConnectionProofs` proves it from the other assumptions with the library's theorems
about finite sets. It is an assumption so that those library modules stay out
of the proofs that follow.

### The composed system: `CwProofs`

`SystemInvariance` ties the storage of all chains to the messages between
them. Its invariant `SysInv` is `XcallInv` and `TypeOK` with: a request on the
wire has a number that its chain handed out and, if two-way, is that of a call
to the chain it goes to (`RequestEvents`), and so is every stored request
(`StoredRequests`); a result on the wire tells how the call was executed
(`ResultEvents`); a result that was heard does too, or the admin of its
connection reverted the call (`HeardResults`); while a chain executes a
request, it has a connection to answer it over (`RouteKept`). From it follow

* `SystemTyping`; `SystemImplementsXcall`: in the system each call service
  behaves as among arbitrary connections, so that the theorems above apply;
* `SuccessMeansExecutedAlways`, `RollbackMeansFailedAlways`.

`NumberInvariance` adds `NumberInv`: a number of a chain is on the wire in one
message, was handed out before, and the number of a reply that is kept back is
on the wire in none. `ReplyOfOneCallAlways` follows. `OnceInv` adds receipts:
a connection carries a number once, and once a request is admitted every
connection of its list is spent, i.e. what it carried of that number is
received. `AtMostOnceAlways` and `SystemImplementsTwoWayCalls` (every step is
a step of `TwoWayCalls` or changes neither side of any call) follow under the
hypothesis `NamedLists`: each list names its connections, each once. Without
it both fail: a list of sources with a repetition makes one connection carry a
message twice, each copy with a receipt of its own, and for an empty list of
destinations the default connection may change between deliveries.

### The EVM call service: `EvmXcallProofs`

`EvmInvAlways`: `EvmSpec => []EvmInv`, under `EvmAssumption` (the wire carries
messages, fees are naturals, the contract is on one of the networks), and from
it, for EVM, the properties that `services_deliver` and `services_execute`
check: `EvmWellTyped`, `EvmRequestsEndorsed`, `EvmResultsVouched`,
`EvmSettledOnce`, `EvmExecutedOnceAndAnswered`, `EvmRepliesStayInside`. The
environment is the whole model's: any account delivers anything, dapps call
back into the service from executions that nest up to any depth, fail and are
undone.

`EvmInv` has five parts beside typing. `SettleInv`: what `pendingReqs` and
`pendingResponses` hold was delivered, a rollback in storage is that of an open
call with the same list, and is enabled only after all the connections answered
and one of them reported a failure. `AwaitInv`: of the answers to an open call
over several connections one is always missing, hence the delivery that
completes it is by a connection of the list, although any account may deliver.
`ExecutedInv`: an executed request is no longer stored and its id is not handed
out again, hence it cannot run again; a two-way one was answered or is on the
stack of executions. `ReplyInv`: the number of a reply that waits in `callReply` was
handed out and is on its way in no result. Without it a nested execution that
leaves a reply behind could send one with two results. `Foreign`: requests come
from other networks, hence they can be answered.

### The other call services, and all five

`JavaXcallProofs`, `SorobanXcallProofs`, `SuiXcallProofs` and
`SolanaXcallProofs` prove of each port what the runs check of it, each from an
invariant that has the parts of `EvmInv`, as far as the port has the state, with
these differences.

* Java, Soroban and Sui collect answers by content. Pending entries were heard,
  and an enabled rollback has one result of failure that all connections
  delivered (`OneResult`). Sui's count comes from removing the connections of
  the list one by one.
* Soroban: entries expire. `RollbackTime` and `RequestTime` say that the time an
  entry has left and the time that has passed since the last delivery are
  together more than the threshold; `TimeToAct` follows for any length of a day.
* Sui: a rollback ticket may outlive the rollback but is one of an enabled
  rollback (`TicketsEnabled`). `TicketsLeft` counts the tickets for a request: of
  several, all but one are still out when it has run, so that the transaction
  cannot end.
* Solana: collected answers were brought under the number of some call with the
  connection in its list (`ResponsesHeard`). `FinishInv`: what was admitted has
  its receipt, which makes the account of a request unique; `ConnSnUnique`: a
  connection uses its numbers without gaps.

`XcallPortsProofs` puts them together: the properties of `services_deliver` and
`services_execute` (`PortsRequestsEndorsed`, `PortsSettlementEndorsed`,
`PortsSettledOnce`, `PortsTimeToAct`, `PortsExecutedOnceAndAnswered`,
`PortsRepliesStayInside`) and `PortsWellTyped` of `PortsSpec`, for all values of
the constants under `EvmConstants` to `SolanaConstants`. The first three and the
last, which are stated for five ports, have the hypothesis that `Ports` names no
other (the sixth is only modelled for fees).

### Connections: `ConnectionProofs`

* Sui's cluster connection: `SuiDeliversOnce`, `SuiDeliversAuthentic` and
  `SuiThresholdReachable`. The invariant adds that what was delivered has its
  receipt. The argument for authenticity: accepted
  signatures are of as many different validators as the threshold, so one is
  not faulty, and it signed what was emitted. It assumes `BytesTellMessages`,
  that different packets are signed as different bytes.
* Centralized connections of four ports in any number implement `OnceChannel` (`RelayImplementsChannel`), from `ChannelInv`:
  a number of a contract is that of one message, and what was delivered has a
  receipt.
* The adapters, as instances next to the relay: both keep every response
  (`ResponsesAlwaysKept`) and Wormhole's delivers once (`AlwaysBroughtOnce`).
  `ResponsesKept` counts entries of a table;
  the invariant `KeptInv` says instead that a response is on hold under its
  own number and is not handed over, sent or on hold, one of the three. It is
  here that `DistinctNumbers` is needed.
* The aggregator: `AcknowledgedOnceAlways`, with the invariant that stored
  signatures were submitted (`PacketInv`); `LookupAlwaysMatches`, by induction
  over the loops of `setRelayers`, written as recursive functions; and from both
  `AcknowledgedByRelayersAlways`.

### Only model-checked

* Liveness under fairness (`EveryCallSettles`, `AllReceived`, `ResponsesSent`,
  `Acknowledged`) and what is defined with `ENABLED` (`QuoteSuffices`): out of
  the prover's reach.
* Sums of fees (`ChargedAsQuoted`) and the codecs (`OneWireFormat`,
  `ReadUnlessFull`), which need induction over data.
* The cluster connections other than Sui's, the shared storage
  (`SuiConnectionsApart`) and the multisig of Sui (`ApprovedMeansExecutable`,
  `CommandAccepted`), the clients of Solana (`PlansStayGood`).
* That the signed bytes tell messages apart. The `clusters` run joins number and
  message as the code does, digits without a separator; the name of the network
  before them is taken to be told apart from the digits.

## Not modelled

Setters of admins and fee handlers, roles, contract upgrades other than those
of the Sui package, version 1 of the EVM call service, parsing of network
addresses and envelopes, and the example dapps: the models let a dapp do what
the call service lets it do. The codecs of CosmWasm and Java are libraries
outside of the repository and are taken to be injective. In the RLP models
names are ASCII, a network address is one name, and numbers have at most three
bytes. The multisig of Soroban has no behaviour after a wallet was added (see
above). Deployment scripts have no state.
