# Formal models of clanker-chain

clanker-chain gives bots an on-chain identity and lets them message each other
over MQTT. Its documents split the system into three layers, and so do the models:

- **Facts**: `chain/src/ClankerIdentity.sol`, who owns an operator label, which
  key signs for a bot label, what is revoked;
- **Policy**: which operators an operator wants to hear from (the hub's pairing
  store, the plugin's allow-lists);
- **Transport**: which MQTT client may connect, publish and subscribe (the hub's
  `/auth` and `/acl`).

Paths below are relative to the repository. Run TLC as
`tlc -config X.cfg MCModule` and the proofs as `tlapm ModuleProofs.tla`.

## Inventory

| Part | State it keeps | Operations | Hard behaviour | What makes it correct |
|---|---|---|---|---|
| `ClankerIdentity.sol` | operators, bots, pending owners, key index, predecessor | 7 external functions, constructor | old registries keep changing while a successor is claimed; two mappings kept by hand | key index exact, owners change by consent, tombstones final, no usurpation |
| hub `/nonce`, `/auth` (`server.ts`) | nonces and issue times in memory | issue, check, spend, reap | three awaits between check and use; reaper; restart | an accepted CONNECT was entitled; a spent nonce is dead |
| hub `/pair*` (`server.ts`, `pairing-store.ts`) | allow-lists, in memory and in a file | add, remove, list | ownership changes mid-request; save fails; restart | lists change by their owner; what owners were told survives |
| hub `/acl` (`acl.ts`) | none | one check | four reads at four instants; ordered rules | grants follow the lists, and nothing due is denied |
| `RegistryClient`, `IdentityClient` | TTL caches | lookups, `init`, `verifyMessage` | rows of different ages, answers out of order | what is verified was true within a bounded time |
| `MqttClient`, channel plugin | connection, buffer, poll loop | start, stop, poll, reply | stop racing start; reconnect; errors between two awaits | a stop leaves nothing behind; no message lost between polls; resubscribes eventually |
| `mqtt_send` (`send-signed-dm.ts`) | a chain of sends per bot, a cached identity | call, send, abort | lost acknowledgement; stale identity; a connect that hangs | one call of a bot at a time; the caller is told the truth; recovers after a rotation |
| `clanker` CLI | `config.json`, `operator.json`, `op.key`, session file, bot keys in two places | login, setup, mints, transfers, reset, fund | commands side by side, no lock; a rotating refresh token; interruption between two files | no lost key; the planned address signs in an undisturbed home; no dead token stays stored |
| Join website (`JoinApp.tsx`) | step, names, a bot key in memory | sign-in, look-up, form, mint, save the key | look-ups and mints that end after the page has moved on | the key of a minted bot survives; a look-up shows what its log searches saw; no endless loading |

The hub and the bots only ever *read* the registry, with `operators(id)` and
`bots(id)`. The broker calls `/auth` on CONNECT and `/acl` on each subscription and
message. Owners change the pairing store through `/pair`, signed with the
operator key. Bots sign every message, and their peers verify it against the registry.
The CLI and the Join page are the two ways to write to the registry: both make a
bot key, mint with it, and must not lose it.

## Modules

| Module | Models | Composition |
|---|---|---|
| `IdentityFacts` | what one registry says of operators and bots, and how that may change | abstract specification |
| `ClankerIdentity` | the contract, any number of instances linked by `priorRegistry` | |
| `PinnedRegistry` | one pinned instance | refines `IdentityFacts` (`INSTANCE ... WITH`) |
| `MqttAuthService` | `/nonce`, `/pair-nonce`, `/auth`, `/pair`, the store, restarts | runs beside `IdentityFacts` |
| `TransportAcl` | `evaluateAcl` | runs beside `IdentityFacts`, changing allow-lists and restarts of the hub |
| `HubService` | the hub's one process: `MqttAuthService` and `TransportAcl` over one store and one registry | composes the two; shown to implement both |
| `RegistryClient` | `RegistryClient` and, on it, `IdentityClient.verifyMessage` and `init` | runs beside `IdentityFacts` |
| `MqttChannel` | one account of the channel plugin: `startAccount`, `stopAccount`, `MqttChannelProvider`, `MqttClient` | stands alone; registry and hub are failures |
| `SendSignedDm` | the `mqtt_send` tool: the chain of sends, the identity cache, one ephemeral connection per call | stands alone; registry, hub and broker are external |
| `JoinPage` | the Join form with `owned.ts`, `chain.ts` and `pending-key.ts` | has the part of the registry it reads and writes, with its event log |
| `ClankerCli` | commands of `clanker` side by side over one home | has the part of the registry and of the wallet vendor it uses |
| `MC*` | small instances for TLC | |
| `XProofs` | theorems and lemmas about `X` for TLAPS | `ClankerIdentityProofs` is also about `PinnedRegistry`, `HubProofs` about `MqttAuthService`, `TransportAcl` and `HubService` |

`IdentityFacts` is the joint of the project. The contract is shown to implement
it; every reader is checked beside it, with transactions between any two of its
reads. So the readers do not depend on a contract model of their own, and the
contract's fees, predecessors, proposals and key index do not multiply the
readers' states. `JoinPage` and `ClankerCli` write, and need of the registry what
their own transactions depend on, so they carry that much of it themselves.

### How state and actions correspond

*Contract.* A transaction is one action; a revert is the absence of a step, so each
`if (..) revert` is a guard. A record's two timestamps are its status: `missing`
(`registeredAt == 0`), `revoked` (`revokedAt != 0`) or `active`; the code compares
them with nothing but zero. `forwarded` counts what the fee recipient got.
`proposedBy` is a history. Left out: events, the constructor's check that the fee
recipient is not zero, and the test `oldKey != address(0)` of `rotateBotKey` and
`revokeBot`, which holds for every registered bot (`KeyIndexExact` relies on it, and
the types show it). Predecessor links may be any shape, cycles included; a walk
that meets an address without code reverts.

*Hub.* JavaScript runs a handler alone up to each `await`. A request is a program
counter (`pc`), and the code between two awaits is one action; while it waits,
other requests, the reaper, a restart and transactions happen. A signature is the
address that `recoverMessageAddress` returns. Nonces are drawn at random from
32 bytes: `randomNonceToken` never repeats one, restarts included. The RPC node is
trusted (the hub's README says so): a read answers what the chain says at
some instant of the read. `REGISTRY_CACHE_TTL_MS` has its default 0, so there is no cache.
A request to `/pair` names its operator by label or by hex id and the nonce is bound
to that spelling: `OperatorNames` and `IdOf`. `persist` writes a temporary file and
renames it, so a crash leaves the old file or the new one; it may throw, and
then memory has the change and the file has not. Display labels, CORS and the
parsing of requests are left out. A refused nonce (429) changes nothing.

*ACL.* A check has the four reads of the code: sender, its operator, peer, lists. A
topic is what the rules tell apart: a bot's status, inbox or other topic under
`bots/{b}/`, a DM pair, the announce topic, anything else. `allowBotIds` comes from
the file and no handler writes it, so it is a constant. Checks share nothing they
write, so one check at a time stands for any number. The peer's *operator* is not
asked for its status, as in the code. `lists` leaves out an operator's own id, which makes no
difference to any rule. The lists change by one entry at any moment (`ListChanges`) or at a restart,
which loses the check in flight (`HubRestarts`).

*The service.* `HubService` puts the two halves of the hub together: a handler's step is a step of
`MqttAuthService` with the check's view of the lists computed from the store (`ListsOf`), a check's
step leaves the store alone, a restart is one step of both. `/pair` and `/acl` meet in
`GrantGivenBack`, which relates what an owner was *told* to what a later check *decides*. The
composition has no run: its states are the product of the two models, whose runs have millions already.
It has theorems instead: every step of it is a step of each half (`ServiceImplementsAuth`, `ServiceImplementsAcl`),
so that what holds of a half holds of the service.

*RegistryClient.* A call is a program counter and what it has read. A lookup either
hits a cache in one action or becomes three: asked, read by the node, arrived. Only
the last is bounded, by the HTTP timeout; viem repeats a read that failed, and a read
may take arbitrarily long in all. The caches differ from the code in one way: an entry
goes when its time is up instead of staying in its map unread. Of an operator's row
only the status is kept, because no caller here uses more. The message of a call is the operator it
claims and the key its signature recovers to.

*Channel.* Every `startAccount` makes a provider of its own, and up to three threads
work on its fields: the start (`task`), the poll loop (`loop`) and a `stopAccount`
(`stopping`, `stopAt`). Start and loop share `connectAndSubscribe` (`dial`). An action is
the code from one await to the next. `pollingPromise` is set exactly when `loop` is not
`none` (`InStart`). `stop()` in the catch of `startAccount` never meets a poll loop, so there
it is the disconnect alone. The branch of `connectAndSubscribe` that disconnects first
(MqttChannelProvider.ts:109-115) is dead: both callers call it when not connected. Messages
are counted; which of them verify, and to whom they go, changes no state here.

What the model takes for granted of the environment: the gateway starts an account again
only when the earlier `startAccount` has settled and no stop is under way, and aborts
before it stops; the broker closes another connection of the same client id (the
MQTT rule); mqtt.js does not reconnect (`reconnectPeriod: 0`), emits at most one error event
per connection and calls back `end()`; the message handler returns. An error or a close may
come at any moment, before the connection is there or after, and a close also without
an error event. A connection whose `end()` is under way still counts as connected and
still receives.

*Send.* A call (`at[s]`) waits in the chain of its bot (`sendChains`), runs `init`, signs,
asks for a password, connects, publishes, waits for the acknowledgement and disconnects; each of
these is an await and each await an action. `WrongKey` is the three places where an outdated
key shows: the check of `init`, the check before the password, and the hub's refusal. All three
drop the cached identity (`Invalidate`). Keys are numbered by rotation, and chain and key file
change in either order. The registry cache of the entry (`row`) may run out at any time while no
call relies on it. A connection lost before CONNACK or PUBACK may leave the promise pending
(`hung`, `lost`): mqtt.js calls nobody back. Topics, the envelope's text and the configuration
are abstract; a configuration that is refused is an error at `Start`.

*Join page.* React runs a handler alone up to each await, and a run of `refreshOwned` or
`onMint` is a program counter of its own (`lookup[l]`, `mint[n]`) that goes on whatever the page
shows by then. The effect that follows the owner cancels its own earlier run, and only the step
asks for the flag. A look-up searches the log three times, up to a block fixed at its start:
registrations by the owner, transfers to the owner, and the registration of each transferred id, for
its label. The index that answers lags behind the chain (owned.ts:270) and different nodes answer, so each
search has a height of its own; `seen` is a height that all of them had reached. Chunks add nothing to that. The rows are read from storage
afterwards, as the chain is then. A look-up may fail or time out up to its end. The blocks below
`FromBlock` may hold registrations too, which no search finds; the registry may be deployed there (`Init`) or later (`Foreign`
stands for a block without an operator event). Labels are model values; a label
that is refused by the form is a step not taken.

*CLI.* One operator label and one bot label. A command is a record with a program counter; an
action is the code from one await to the next, cut again where a crash between two files
matters. `plan` is the address the command resolved and showed, `by` the one that signed, `ptr`
the key pointer it will store; `moved` says that another command changed the home under it, which the
properties allow for, because commands take no lock. The network is not the local one, the shell
sets no key, the keychain counts as the file it falls back to. The vendor rotates the refresh
token with every refresh (`Rotates`); whether the access token is near its end is open. Any other answer
(`Declines`: a spent token, but also an error status or an answer without an access token while the token is live) makes the
command clear the session in the file, whosever it is by then (`ClearsRefused`). `Stops` is a command that dies or gets no answer at all. A
transaction takes effect when it is broadcast; the preview before the confirmation resolves the
same signer and can only refuse, so it is not a step of its own. `bot rotate` and `bot revoke`
are one operation here, `change`: they differ in what they do to the bot alone.

## Runs

| Run | Shows | Bounds, and why they are enough |
|---|---|---|
| `Registry` | 4 invariants, 3 action properties and the refinement of one registry | 2 operators, 2 bots, 3 addresses: two bots compete for a key, two owners for an operator, a third address proposes, signs or strays |
| `Lineage` | `NoUsurpation` | 3 registries, `MaxPriorHops = 2`: a hop that knows nothing between two that do, and cycles |
| `HubConnect` | the CONNECT path | 2 requests, 2 nonces, 2 keys, clock 0..2 with TTL 1: a nonce issued, expired, reaped and reissued, a rotation and a revocation between the reads |
| `HubPair` | the pairing path | 2 operators, 2 requests, 2 nonces, one instant of time (times are `HubConnect`'s question) |
| `HubReplay` | violation, see Findings | 2 requests, 1 nonce |
| `Acl` | every topic and right | 2 operators, 2 bots: same operator, different operators, a bot that is its own peer; acc 0 to 4 |
| `Client` | `verifyMessage` and `init` at once | 1 operator, 1 bot, 2 keys; TTL 1, timeout 1 and clock 0..4, one more than the longest age a property allows |
| `Channel` | 5 invariants, `Resubscribes` and `StopReturns` | 2 starts: one provider stopped or orphaned and its successor, which contend for the client id; 2 messages: one left in the buffer by the other; 3 faults: an error while a reconnect that an error caused is failing |
| `StopTearsDown` | violation, see Findings | as `Channel`, with 2 faults |
| `Send` | 3 invariants and `Settles` | 3 calls of 1 bot, 2 keys, 1 fault: one call fails for a rotated key, two more show what it left behind |
| `Join` | 3 invariants and `LoadingEnds` | 2 addresses, 1 operator, 1 bot, `FromBlock` 2, at most 2 look-ups, 2 mints and, with the operator events, 5 turns in all (`MaxTurns`): a late look-up or mint meets the next of its kind and the other address; the operator is registered below or at the first block searched, goes to the other address and comes back (3 events), with the index at every height |
| `Cli` | 4 invariants and 1 action property | 2 terminals, 2 wallets, 2 commands, 1 poll, 1 crash, from 5 kinds of home: every pair of commands side by side |

The contract runs switch deadlock checking off: when every label is taken or
revoked nothing is left to do. So do the channel, send, Join and CLI runs: after the last stop, call, look-up or command
nothing happens. Symmetry is declared only over values no
definition singles out.

The properties of the hub are about *one instant*. `/auth` reads the bot, then its
operator, and either may change between the two reads. `AcceptedWereEntitled` says
there was an instant while the request was served at which bot, key and operator
were all as required. A history variable, `entitled`, is revised with every
transaction and records that. It holds because no transaction revives an operator
or moves a bot to another one: a fact about the contract, proved of
`IdentityFacts`. `GrantedWereLive` is the same for `/acl`; `DueIsNotDenied` is
the converse. `VerifiedWereEntitled` and `ReadyWereEntitled` say the same of a client
that reads through caches, with a bound on how long ago that instant may be: TTL and
one timeout before the call for `verifyMessage`, twice the TTL and one timeout for
`init`. The comment at registry-client.ts:26 speaks of one TTL. The timeout is an
answer that was slow to arrive; the second TTL is `getOperatorByLabel`, which keeps for
a TTL of its own what the cache by id has kept for nearly as long. With one operator in the
run, a wrong claim of the operator is left to the theorem.

`Resubscribes` and `StopReturns` assume weak fairness of each thread of a provider:
start, loop, dial and stop. A step of theirs is a promise that settles, a timer that fires
or an answer that comes, and the event loop runs it once it is due. Nothing is assumed of
failures, starts, stops and messages. Failures are bounded (`MaxFaults`), which is the assumption
that the network finally works: with failures for ever nobody is subscribed. Two states are
named as exceptions, because there the code does hang: `Stuck` (a poll that threw,
see Deviations; a `connect()` whose connection closed without an error event) and
`Orphan` (the leftover of `StopTearsDown`, which competes for the client id).

`Settles` assumes weak fairness of each call's progress: the event loop runs what is ready, and registry,
hub and broker answer or fail. Its exception, `Stuck`, is the promise that mqtt.js leaves pending.
`LoadingEnds` assumes that a look-up ends, because `loadOwnedIdentities` races with a timer of
25 s (`Promise.race`). Nothing is assumed of the user, of mints or of transactions.

`ToldTrue` bounds both ways what a caller of `mqtt_send` may conclude. `OneStaleFailure` is the
recovery after a rotation. It fails if the password path forgets to drop the entry. It would survive that of the two others: `init` reads
the row anew anyway, and a CONNACK that refuses the key belongs to a call under which the rotation
ended, whose failure is not counted. `KeyOutlivesMint` and
`BotKeyOnDisk` are the same concern of the two minters: the page keeps the key in memory until
it is downloaded and has one exception (`interrupted`: the receipt never came, or the tab was
closed); the CLI writes the key before it broadcasts and has none but a reset that was told to delete keys.

`LookupComplete` says what the three searches are worth although each may see the log at another height: an
operator that stayed its owner's is listed as soon as all of them have reached *one* event that gave it to the
owner, be it its registration, a transfer, or an earlier one of several. It does not say that a name
just registered is listed, because it need not be (Deviations).

`StoredTokenLive` is about refreshes side by side: the file never keeps a token the vendor would refuse, but while an answer is
on its way (`Owed`) or after a command died with one (`lost`). A command that was refused must
therefore clear the session, and does. That it spares a live session, its own or another's, is no
property of the code (Deviations). `SignedAsPlanned` says what the two loads of the session
amount to for a command that nobody disturbs; a login or setup between the loads (`moved`) does change
who signs, and nothing in the code detects it.

`StoppedIsQuiet` is what holds of a stop in spite of `StopTearsDown`: if there was a poll loop
when it came, nothing is left, wherever the loop was. `FailedStartIsQuiet` is the other
half: a stop next to a start that fails leaves nothing either.

## Findings

- `HubReplay`: a nonce is one-time for sequential requests only. Two requests in
  flight share it, because `used` is read before the awaits and written after them.
- `StopTearsDown`: MqttChannelProvider.ts:156-157 calls `stopAccount` the single teardown
  point. A stop during the start finds no loop to wait for; the start then goes on, sets
  `pollingActive` again (line 149) and leaves a poller that is in no map and that nobody stops. It
  takes the connection from the next provider of the account, and that takes it back.

## Deviations

Met while modelling, and not among the runs:

- docs/registry-lifecycle.md:61 promises that unclaimed active names stay claimable by the prior
  owner. A bot label needs the owner of the operator in the old registry *and* in the new one to be
  the same address (ClankerIdentity.sol:200). After the operator was claimed and then transferred in one of the two, nobody
  can claim it until a transfer brings the owners together again.
- docs/trust-model.md:69 says that announcing is denied. For acc 3 the announce subscribe rule
  (acl.ts:92) answers before the publish rule, so readwrite is granted there. The model has
  the rules in the code's order and `Acl` asks with every acc.
- mqtt-node-client/src/index.ts:171 says that `poll` waits up to `timeoutMs`. An error event
  while it waits clears `this.client`; then `finish` (line 192) throws on `null` in its timer,
  where nobody catches it, and the promise never settles. `MqttChannel` has that state (`lost`).
- docs/operator-cli.md:69: setup "Refuses saving if the label’s current owner ≠ chosen address". It generates `op.key`, over the old one when forced (setup.mjs:274), before
  `assertSetupIdentity` compares. `config.json` and `operator.json` are indeed not saved.
- owned.ts:270 merges a just-minted pair into the list because "log indexers lag". The next look-up (`goHome`, JoinApp.tsx:194-199) replaces
  the list with what its searches found (line 93), so a name that the index does not have yet disappears again, and the
  form may offer to register it anew. `JoinPage` has these behaviours.
- privy-client.mjs:187 answers every refresh that is not ok, or has no access token, by clearing the
  session, with the message "Session expired". An error of the vendor (429, 5xx) does that to a live session, and a
  refusal of an old token does it to the session that another command has just refreshed. `ClankerCli` has both.
- docs/operator-cli.md:78 says that `logout` clears the session. A refresh that is in flight in another command saves its
  session afterwards (privy-client.mjs:200).
- JoinApp.tsx:397 says "This wallet already owns the labels below". `refreshOwned` sets the list
  (line 93) without asking whether the owner is still the same; a late answer for an earlier
  address shows that address's names.

## Proofs

TLAPS proves, for every value of the constants, every invariant and every action property that a passing
run lists, both refinements, and the types of all modules. What follows says of each module where the
difficulty was.

- `ClankerIdentityProofs`: `TypeOK`, `KeyIndexExact`, `PendingIsLive`,
  `TombstonesAreFinal`, `OwnerChangesByConsent`, `RevokedOperatorFreezesBots`,
  `NoUsurpation`, `FeesMatchRegistrations`. The
  inductive invariant is the type invariant, the exact index, the proposals, and
  that every recorded bot has a key and a recorded operator.
  `NoUsurpation` speaks of all predecessors within reach, while the code's walk stops at the first that knows the
  label. By induction on the hops a lineage is a walk (`LineageIsWalk`), and the lineage of a registry on it is the
  rest of it (`LineageContinues`), cycles included; so every other registry that knows the label stands behind the
  one where the walk stops (`NearestIsForemost`), and that one is asked for the owner.
  `FeesMatchRegistrations` counts sets that grow by one record with each registration; what it needs beyond the types is that
  the recorded sets are finite.
  The same module proves that the pinned registry implements `IdentityFacts` (`ImplementsFacts`). The step
  that needs an invariant is the key: the contract looks in `botKeyToId`, the
  abstract specification at all active bots, and `KeyIndexExact` makes these one.
- `IdentityFactsProofs`: the lemmas the readers rest on. No step revives an operator
  or moves a bot.
- `HubProofs`, of `MqttAuthService`: `AcceptedWereEntitled`, `ToldIsKept`, `AllowListsChangeByOwner`,
  `AcceptedOnALiveNonce`, `IssuanceBounded`, `HubTypeOK`. `AcceptedWereEntitled` is not inductive: what is missing is
  what a request knows after its first read (`ConnectKnows`): the operator of the row
  is on record, and if it is active still, it was active when the bot was read.
  `IssuanceBounded` counts the nonces that a subject got within any window; the code counts the issue times it has kept. The
  invariant (`RateInv`) gives each nonce of the window a position of its own in the filtered list, so that there are no more
  nonces than positions. The filter (`Recent`) is a recursive function: that it exists, and that it loses
  no time still in the window, are inductions over the length of the list.
- `HubProofs`, of `TransportAcl`: `GrantedWereLive`, `GrantsFollowLists`, `DueIsNotDenied`, `AclTypeOK`.
  The invariant says that the operator a check goes on with is still the one the
  chain gives the bot, so that a row read long ago decides as a fresh one would.
- `HubProofs`, of `HubService`: `ServiceImplementsAuth`, and `ServiceImplementsAcl`, step by step (a write of `/pair` is one of `ListChanges`,
  a restart one of `HubRestarts`, any other handler leaves the lists alone), and `RemovalsTakeEffect`: after the owner
  was told that an operator is off its list no check grants that operator's bots what only
  the list would, not even one that was in flight when the answer went out. The second rests on the first: a check
  decides by the lists of the moment, and `ToldIsKept` says that these have what the owner was told.
- `RegistryClientProofs`: `VerifiedWereEntitled`, `ReadyWereEntitled`, `ClientTypeOK`, for any TTL and
  timeout. The invariant says what an old row is worth: a bot that was active with a
  key at *t* has been entitled to it since *t*, unless its operator was revoked before,
  and then it is frozen with that key; an operator that was active at *t* is active
  still, or its bots are frozen with keys they were entitled to at *t* or later. Two such
  rows make one instant (`OneInstant`).
- `MqttChannelProofs`: `ChannelTypeOK`, `StoppedIsQuiet`, `FailedStartIsQuiet`,
  `MapFollowsStarts`, `NothingSwallowed`, `LoopsMove`, for any number of starts, messages and faults. The
  invariant is local: what is true of one provider (`At`) speaks of its own fields and of
  the two shared ones. So each part is shown for the provider that steps, and for
  the others from `OthersUntouched` (a step of one provider may close the connection of
  another, no more) and `SharedSteps`. Two parts are not obvious: a stop that found no loop
  is of no use to the start it raced with (`LinkAt` speaks only of `found[p] # "start"`), and a
  stop next to a start that fails may disconnect a client the start disconnects too.
- `SendSignedDmProofs`: `SendTypeOK`, `OneAtATime`, `ToldTrue`, `OneStaleFailure`, `QueuesMove`, for any number
  of bots, calls, rotations and faults. `QueueInv` says that the chain of a bot holds exactly its unsettled
  calls in call order and that all but the first are queued. So the call that steps is alone
  with the cached identity of its bot, and what is true of a call (what it was told, what it knows of the
  entry, how many calls failed before it) needs to be shown for that call only. `OneStaleFailure` rests on
  `BotAt`: once a call that saw the finished rotation has failed for a wrong key, the entry holds no key or
  the last one.
- `JoinPageProofs`: `JoinTypeOK`, `OneMint`, `KeyOutlivesMint`, `LookupComplete`, `LoadingIsOwed`, for any number of
  accounts, labels, look-ups and mints. `OneMint` needs what the button stands for: the page is busy as long as
  a mint runs (`MintInv`). `KeyOutlivesMint` is inductive together with the types. `LookupComplete` is about the event log: an operator
  has no event before its registration (`LogInv`), so searches that have reached an event that gave it to its owner have
  reached its label too, and storage confirms the owner, because it stayed the owner's (`Scans`, `Found`).
- `ClankerCliProofs`: `CliTypeOK`, `BotKeyOnDisk`, `StoredTokenLive`, `SignedAsPlanned`,
  `PointerHasKey`, for any number of terminals, wallets, commands and crashes. An action replaces the record of
  one command and the home, and changes only `moved` of the others (`DoEffect`). Three
  invariants stand side by side. `KeyInv`: a mint past its key file has its own key in the OpenClaw folder.
  `TokenInv`: every token held or stored was issued, and a token not stored yet is alive and held by nobody else; a stored
  one is spent only under a command that owes the file the answer.
  `PlanInv`: as long as nobody changed the home under a command, session, key file and `operator.json` are as
  it read them. For `PointerHasKey` the actions that may do harm are named first (`ProfileLost`).

The library's induction theorems take an operator as a parameter and cannot be used here. Where a proof needs
induction over the naturals, the property is a *set* of naturals and the least number outside it is the
counterexample (`NatLeast`, `SetInduction`); a recursive function is then what its `CHOOSE` says
once a function that satisfies its equation is shown to exist.

The assumptions are the named ones of the modules: `None` is no address, id, subject, mint, or
registry, and `File` none either; bounds are naturals; `FromBlock` is positive; numbers are naturals; `IdOf`, `AllowBotIds` and `BotOf` are functions; the pin is a
registry; `Mine` is a wallet. TLC evaluates all of them.

Only model-checked: `Resubscribes`, `StopReturns`, `Settles` and `LoadingEnds`. Fairness and `ENABLED` are out of the
prover's reach. What these four rest on is proved: nobody waits for something that is not under way. `LoopsMove`: unless it is
`Stuck`, the poll loop that a stop waits for, or that of a running account, is at an await that is answered.
`QueuesMove`: before every queued call there is one that moves or is stuck. `LoadingIsOwed`: while the
page shows "Looking up names", a look-up runs that will set the step.

No run lists `HubTypeOK`, `AclTypeOK`, `ClientTypeOK`, `JoinTypeOK` and `SendTypeOK`, whose properties say more, nor
`LoopsMove`, `QueuesMove` and `LoadingIsOwed`, which their liveness properties cover on the small instances.

## Not modelled

The broker, the RPC node and the wallet vendor are environment. Text (labels,
messages, JSON, hashes) is abstract: equal labels have equal ids and others differ.
A pairing file that is not JSON is read as empty (`pairing-store.ts:43`); the
service never writes one, so that is not modelled. The rate limit is per process:
`IssuanceBounded` counts the nonces of one process. What follows from several
registries pinned by one reader is out: the documents rule it out.

- Of the channel plugin: publishing and the reply path, the allow-lists, parsing of envelopes.
- Of `IdentityClient`: signing, `getBot`, `issueMqttSiwePassword`, which is one lookup and one request to the
  hub (`SendSignedDm` and `MqttAuthService` have its two ends), and the check of the chain id.
- Of the CLI: `doctor`, `whoami` and `bots`, which only read; `pair` and `sync`, one signed request that
  `MqttAuthService` answers; the wiring of `openclaw.json`; the local-chain commands (`chain`, `check`,
  `init-openclaw`); Foundry as a signer, which is a program of its own; `--bot-key` and `--skip-chain-check`, with which
  the user takes the checks over.
- Of the website: the `/authorize` page, which shows the vendor's dialogue and keeps nothing.
- The deployment scripts and examples have no state of their own. ABI modules are generated.

## Order of work, and what would come next

Facts, hub, readers, channel, then `SendSignedDm`, `JoinPage` and `ClankerCli`, each with its runs before its
proofs. What would add most now: the reply path of the channel (a publish while the connection changes under it),
a composition of `SendSignedDm` with `MqttAuthService` in place of its external hub, and one of `RegistryClient` with
`PinnedRegistry` through the refinement, so that its guarantees are stated of the contract itself.
