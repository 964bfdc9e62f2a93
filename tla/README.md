# Verification of the Tracercoin mining pool

TLA+ models of the stratum pool in this repository, the TLC runs that check
them on small instances, and TLAPS proofs of what holds for every instance.
Paths without a directory are under `engine/lib/`.

- [1. The system](#1-the-system)
- [2. Modules](#2-modules)
- [3. Runs](#3-runs)
- [4. Fairness](#4-fairness)
- [5. What the code does not keep](#5-what-the-code-does-not-keep)
- [6. Proofs](#6-proofs)
- [7. Not modelled](#7-not-modelled)
- [8. Plan](#8-plan)

## 1. The system

One Node.js process (`init.js`) runs the pool: it talks to one or more coin
daemons over JSON-RPC, to miners over stratum (line-delimited JSON over TCP),
to the miner portal over HTTP, and writes the portal's SQLite database. A second
process, `payout_monitor.py`, reads the same database and pays miners through
the wallet's command line. Everything in the pool process is callbacks of one
event loop: a handler runs to its end, and what interleaves are handlers, timers
and answers.

| Component | State | Operations | Talks to |
|---|---|---|---|
| Job manager (`jobManager.js`, `blockTemplate.js`) | job id counter, extranonce counter, `currentJob`, `validJobs`, each template's `submits` | `processTemplate`, `updateCurrentJob`, `processShare`, `registerSubmit` | emits `newBlock`, `updatedBlock`, `share` to the pool |
| Template feed (`pool.js`, `daemon.js`) | requests in flight, poll timer, phase of the startup | `GetFirstJob`, `GetBlockTemplate`, `SetupBlockPolling`, `processBlockNotify`, handlers of `newBlock`, `updatedBlock`, `broadcastTimeout` | daemons (requests and answers), job manager (calls), stratum server (broadcasts) |
| Stratum server (`stratum.js`) | `stratumClients`, `bannedIPs`, rebroadcast timer; per client: authorization, extranonce, difficulty, previous and pending difficulty, share counters, last activity | connections, `data` chunks, `mining.subscribe`, `mining.authorize`, `mining.submit`, `sendDifficulty`, `sendMiningJob`, `broadcastMiningJobs`, `checkBan`, purge interval | miners; the pool's listeners (subscription, submit), the portal for logins |
| Variable difficulty (`varDiff.js`) | per client: ring buffer of times, `lastTs`, `lastRtc` | the `submit` listener | emits `newDifficulty`; the pool puts it in the client's queue |
| Block submission (`pool.js`, `daemon.js`) | calls in flight | `SubmitBlock`, `CheckBlockAccepted`, the share handler | daemons; emits the share to `init.js` |
| Coinbase and block (`transactions.js`, `merkleTree.js`, `util.js`, `blockTemplate.js`, `SetupRecipients` of `pool.js`) | none between calls | outputs of the coinbase, steps of the Merkle tree, serialization | used by the template; read by a node |
| Portal bridge (`portal_bridge.js`, `init.js`) | authorization cache; tables `pool_blocks`, `pool_round`, `pool_payouts`, `pool_worker_stats` | `workerAuth`, `recordShare`, `recordStale`, `recordBlock` | portal (HTTP), database |
| Payout monitor (`payout_monitor.py`) | the same tables; the wallet | `cycle`: confirm blocks, send pending payouts | wallet's command line, database |
| Daemon client (`daemon.js`) | none between calls | `init`, `isOnline`, `cmd`, `batchCmd` | daemons over HTTP |
| Peer (`peer.js`) | connection state, partial messages | handshake, framing, `inv` of blocks | a daemon's P2P port; `processBlockNotify` |
| Startup (`pool.js`) | options filled in step by step | `Init`, `SetupDaemonInterface`, `DetectCoinData`, `OnBlockchainSynced`, `StartStratumServer`, `relinquishMiners`, `attachMiners` | all of the above |
| Algorithms (`algoProperties.js`, `index.js`) | none | tables of hash functions | used by templates and shares |
| Configuration and tools (`gen-config.js`, `run_testminers.sh`, `pool_config.example.json`) | files | run by hand | - |

### What is hard here

- *Answers in any order.* `GetBlockTemplate` asks every daemon and handles each
  answer as it comes; requests of the poll timer, of a block notification, after
  a submission and of the rebroadcast timer overlap, daemons may be on different
  branches, and answers overtake each other, fail or never come.
- *Announcing and registering are different statements.* `currentJob`,
  `validJobs`, the emitted broadcast, the cached `jobParams` with its clean flag,
  and ids from a counter that wraps have to agree, or shares are refused or
  judged against the wrong template.
- *A difficulty in several places.* Retargets wait in a queue, are sent with the
  next job, and shares of older jobs arrive afterwards.
- *State that outlives its socket.* Messages of a chunk are handled although an
  earlier one destroyed the socket; the portal answers for a client that left; a
  ban is set by one connection, read by another, deleted by a timer.
- *A stream cut anywhere.* The peer's parser waits for a number of bytes, and whole
  messages, halves of headers and the next message's first bytes come in one chunk.
- *A startup of many callbacks.* Each step waits for the last daemon, the last step
  takes the first of many answers, and an answer that is dropped stops it.
- *Bytes that another program reads.* Merkle steps, announced lengths, signed heights and
  rounded amounts are right only if a node reads out of them what was meant.
- *Money over two processes without transactions.* A block is submitted, looked
  up, recorded by three statements, confirmed and paid by another process, which
  can be interrupted at every point, as can the calls it makes to the wallet.

### What makes each component correct

- Job manager: a share is judged against the template it was made for; no work is
  credited twice; the current job's shares are never refused as unknown.
- Template feed: work a miner was told to keep counts; the pool follows the
  daemons to the block they agree on; no late answer undoes a block, save the
  refresh; jobs keep coming.
- Stratum server: extranonces differ; a banned address stays out for its time and
  not for ever; a silent miner goes; a share found at a difficulty the miner was
  given is accepted.
- Variable difficulty: the average is that of the last times; the difficulty
  stays within the port's limits.
- Block submission: what is credited is stored by a daemon, what a daemon stored
  is credited.
- Payouts: paid means sent, sent once, and in the end; what was accepted is credited;
  a block is confirmed when its height has matured.
- Coinbase and block: the outputs are worth the reward, the root is a node's root, lengths
  and heights read as written, the pool is paid to its own address.
- Peer: messages are handled whole, in order and at once, however the stream is cut; a node
  that greets is connected again.
- Startup: the pool starts once, not before its daemons are synchronized, and in the end.

## 2. Modules

| Module | Models | Of |
|---|---|---|
| `ShareRules` | when a share counts | `processShare`, 223-265 |
| `JobManager` | ids, current and valid jobs, submits | `jobManager.js`, `blockTemplate.js` |
| `WorkLedger` | *abstract*: templates open and close, work is credited once | what miners are promised |
| `JobHistory` | `JobManager` with the number of the template under each id and the credited work; refines `WorkLedger` | - |
| `JobManagerProofs`, `JobHistoryProofs` | theorems | - |
| `TemplateFeed` | requests, answers, broadcasts, miners' work, around `JobManager` | `pool.js`, `daemon.js`, `stratum.js` |
| `TemplateFeedProofs` | theorems | - |
| `StratumServer` | connections, chunks, messages, difficulties, bans, timers; *abstract* in the difficulty a retarget asks for | `stratum.js`, handlers of `pool.js` |
| `StratumServerProofs` | theorems on `StratumServer` and `RetargetServer` | - |
| `VarDiff` | ring buffer and retarget rule | `varDiff.js` |
| `RetargetServer` | `StratumServer` composed with `VarDiff`; refines `StratumServer` | `setVarDiff` of `pool.js` |
| `BlockSubmission` | a block on its way to the daemons | `SubmitBlock`, `CheckBlockAccepted` |
| `Coinbase` | the recipients' and the finder's share of a reward | `transactions.js`, `portal_bridge.js` |
| `Serialization` | variable-length integers, pushed numbers, 64-bit amounts, and how a node reads them | `util.js` |
| `AddressScript` | from an address to the script that pays it | `util.js` |
| `BlockAssembly` | from a template to a block, loop by loop, around the three above | `blockTemplate.js`, `merkleTree.js`, `transactions.js` |
| `PayoutLedger` | database, both its writers and the wallet, around `BlockSubmission` and `Coinbase` | `portal_bridge.js`, `payout_monitor.py` |
| `PayoutLedgerProofs` | theorems | - |
| `PeerConnection` | a node's P2P connection: life, handshake, framing | `peer.js` |
| `PoolStartup` | the steps of `start` up to the first job, and the peer after it, around `PeerConnection` | `pool.js`, `daemon.js` |
| `PoolStartupProofs` | theorems | - |
| `BlockAssemblyProofs` | theorems | - |
| `SumProofs` | induction, and what the sums of the other modules compute | `FoldFunction` of the community modules |
| `MC...` | instances for TLC | - |

`JobHistory`, `TemplateFeed`, `RetargetServer`, `PayoutLedger`, `BlockAssembly` and
`PoolStartup` are the compositions: an action of theirs conjoins an action of the component with what
the caller does around it in the same handler.

Some definitions are followed by no use (`NextJobIdNoWrap`,
`SendDifficultyOnly`, `AnyChecked` ...), marked "A slip": each is a plausible mistake in
the definition after it. `PROJECT.json` ("mutants") names the property that
notices it; every property of every passing run has one.

### Correspondence

*Job manager.* A job is its id, its height and the block it builds on; bytes of
templates and hashes are left out. `validJobs` and `submits` are functions on all
ids, `NoJob` where JavaScript has `undefined`. `NewBlock` is `processTemplate`
returning true, with the emit's listener in `TemplateFeed.DeliverNewBlock`;
`SameBlock` is its two ways to return false. `JudgeShare` is `processShare` from
`registerSubmit` on, so that a share that is too easy is remembered as well.
A submission is the registered text; a share carries booleans for the length and
time checks, since every combination of them can arrive. `IsNewBlock` is the code's
condition: an answer of the *same* height on another block is a new block.

*Template feed.* A request has a slot in `calls` with the state of each daemon's
part: not served, served (with the block it was built on), done. `live` is the
variable `callback` captured by `GetBlockTemplate`, used up by the first template.
An answer is delivered by one of four actions, one per path through the callback.
`work[m]` is the miner's side: the jobs it was told to keep, by id.
`BlockNotify` needs no condition on the hash: `peer.js` hands over the hash in
wire order while `previousblockhash` is in display order, so they never agree and
the request is always made.

*Stratum server.* `client[c]` is a `StratumClient`. `reading` is the connection
whose `data` event runs: until `EndChunk` no timer, broadcast or other connection
runs, which is how the event loop works, and messages are handled even if the
status is already `destroyed`. Times are ages: `banned[a]` counts units since the
ban; `idle` is set by an action when `connectionTimeout` has passed since the last
submit. `told` and `changes` are the miner's side. The portal's answer
(`AuthAnswer`) comes in any later event, also after the connection closed.

*Variable difficulty.* `meter[c]` holds the `submit` listener's variables, again as
ages (`halvesSinceRtc` in half seconds because `lastRtc` starts half a
`retargetTime` back). The retarget's difficulty is rounded as `toFixed` does, in
integer units. `gaps` is history: the times the buffer should hold.

*Block submission and payouts.* `call[b]` is the share that solved block `b`, with
the answers of the daemons so far; `daemon.cmd` calls back after the last.
`has`, `main` and `mature` are the outside: what daemons store, the best chain, and
maturity. The three statements of `recordBlock` are three steps because each commits
on its own and the monitor runs in between; the pool's other handlers do not
(`recording = Idle`), because the database driver is synchronous. The monitor's
`cycle` is split at each database statement and each call of `tfx-cli`. A failure
is a crash, a busy database, or a call that fails or takes too long, at any
step, `MaxFaults` in all. `payments` counts what the wallet sent for each payout.
`authCache` is the login cache of `workerAuth`, which `recordBlock` reads for the
address to credit: a finder without an entry is credited nothing. The finder is the
worker name in the share, which is the first parameter of the *submit*
(`init.js:12-15`), not the login that was authorized.

*Coinbase and block.* One action per pass of a loop: a level of the tree, a payment,
a recipient. A hash is the tuple of what was hashed, so two roots are equal only if the
trees are. `level` begins with `Null` as the code's `L` does; `WithFirst` is
`withFirst`, which puts the coinbase's hash there. `MerkleRoot` is a node's: all levels of
the tree over all transactions (`Parents`, `Tree`), without steps. `paid` is history.
The script's length is announced from the placeholder of 8 bytes while the extranonces
come from the miner, so `AssembleBlock` takes the size of the second as an input. `Feed` is a pass of the loop of
`bech32ConvertBits`, `SegwitSymbols` the encoding of BIP 173: five bits at a time, out of the
two bytes they lie in. `AccSize` and `Word` are the numbers that JavaScript's bit operations
and half an amount can hold (2^32 both); the instance narrows both so that they overflow.

*Peer.* Bytes are in units that name the message they come from and the place in it; a
header has three (magic number, command, length with checksum), a payload
`PayloadLen`. `readFlowingBytes` is `buff` with `Busy`; the mutual recursion of
`beginReadingMessage` is the steps of `Parse`, and while one is possible no other event
runs. What an unsound message does is that a checksum fails; a unit out of place does
what its bytes do (a magic number is looked for in it, a length in it is any length).
`Closed` stands for the close event after any error, with `Connect` and the
`disconnected` or `connectionRejected` listeners.

*Startup.* `stage` is the callback that is waited for. `Collected` is `cmd` without
`streamResults` (`async.each`), which calls back after the last daemon; the first job is
asked for with `streamResults` and may be answered after the pool serves. An answer that
is dropped (status 401, text that is no JSON) is "lost": `cmd` waits for ever.
`reports` counts `generateProgress` calls whose requests are in flight.

## 3. Runs

| Run | Instance | Checks |
|---|---|---|
| `jobs` | two job ids, 5 templates, a fork, 2 submissions | `HistTypeOK`, `CurrentJobRegistered`, `HistInv`, `IdsUnambiguous`, `PromiseKept` (refines `WorkLedger`) |
| `feed` | 2 daemons, fork a2 / b2 - b3, 2 requests in flight, 1 miner | `FeedTypeOK`, `WorkHonoured`, `OnlyRefreshGoesBack` |
| `feed_live` | 2 daemons, fork a2 / b2, 2 requests, 1 failure | `CatchesUp`, `RebroadcastGoesOn` |
| `bans` | 2 connections, 1 address, threshold 2 | `ServerTypeOK`, `NoncesDistinct`, `AdmittedIsForgiven`, `BansPurged`, `IdleDropped` |
| `retarget` | 1 connection, difficulties 2 to 4, buffer of 2 | `HonestShareCounts`, `RingIsWindow`, `ServerImplemented` (refines `StratumServer`) |
| `payouts` | 2 competing blocks, 2 daemons, 2 failures | `LedgerTypeOK`, `OnlyStoredCredited`, `PaidWasSent`, `PaidIsFinal`, `RepaidOnlyByFailure`, `CreditedUnlessFailed`, `ConfirmedHeightMature`, `PayoutsPaid` |
| `blocks` | templates with 0 to 20 and 251 to 253 transactions, 18 reward layouts, 12 heights, 9 addresses | `AssemblyTypeOK`, `OutputsAddUp`, `RootAgrees`, `LengthsRead`, `NodeReadsBlock`, `PoolPaidToAddress` |
| `startup` | 2 daemons, 4 messages, 2 failures | `StartupTypeOK`, `HandledInOrder`, `NothingLeftUnread`, `VerackIsCurrent`, `StartsOnce`, `WaitsForSync`, `HandshakeCompletes`, `StartsUnlessFault` |
| four more | see [section 5](#5-what-the-code-does-not-keep) | found violated |

What the passing runs show:

- **jobs.** However ids wrap, a share is judged against the newest template of its
  id, which is the only one of the last `IdSpan` templates with that id; the
  manager implements the ledger in which a template is open until the next block
  and a piece of work on it counts once. Bounds: with `JobIdLimit = 3` ids are
  1, 2, so five templates wrap the counter twice, with and without a new block in
  between; two submissions distinguish a duplicate from another share; the
  difficulties lie on both sides of the network's.
- **feed.** Every job a miner was told to keep is registered under its id and is
  that very job, and the newest is the current one; the height falls only with a
  refresh. Bounds: two daemons and two requests are what it takes for answers to
  overtake each other across daemons and across requests; the fork has two blocks
  of one height and a longer branch, so that "same height" and "lower height" both
  happen; miners do not interact, so one stands for all. No failures: a request
  that fails does here what one that is never answered does.
- **feed_live.** If the daemons agree for good on a block the pool ends on it, and the
  rebroadcast timer is set again. One failure and two daemons: the other daemon's
  answer keeps the rebroadcast alive (with one daemon it does not, see
  `rebroadcast_stops`).
- **bans.** Two connections from one address: one can be banned while the other is
  handled, reconnects, or waits for the portal. Threshold 2 makes the ban come with
  the second share; `Second = 3` distinguishes seconds from units. A silent miner
  loses its connection.
- **retarget.** With `variancePercent` 25 and `targetTime` 2, times of 0 and 1 are too
  short, 2 is right and 3 too long, and averages of two of them fall on every side;
  the limits 2 and 4 around the port's 3 are met by rounding and by capping. The
  buffer of 2 wraps, is cleared and filled again. `ServerImplemented` is what
  allows the difficulties of the `StratumServer` to be abstract elsewhere.
  `HonestShareCounts` covers subscription again, which resets the difficulty to
  the port's, and a retarget that waits for the next job.
- **payouts.** Two blocks compete for one height, so that one displaces the other
  before and after it is recorded, confirmed or paid. The float of 110 pays one
  block before maturity; a second payment needs a mature block. Two failures
  suffice for a failure of the recovery from a failure. `RepaidOnlyByFailure` is the
  other half of `paid_twice` below: a payout is paid again only where a call or a
  cycle failed. `CreditedUnlessFailed` is what the missing transaction of `recordBlock`
  costs: a block the pool knows to be accepted stays without a payout only if a failure
  is to blame, one failure for each such block. `ConfirmedHeightMature` is what the
  update by height still guarantees: the row that is confirmed may be the displaced
  block's, but its height has a mature block.
- **blocks.** The root is compared with a node's for every shape of the tree up to five
  levels, and around 253 transactions with the coinbase, where the count takes three
  bytes. The rewards are divisible and not divisible by the percentages (1, 2 and 33) and
  by five; heights lie on both sides of every byte and of every sign bit, and of the
  opcodes for 1 to 16. The addresses are of each witness version's kind, base58, and four
  that must be refused. `Word = 16` makes amounts need their second word, `AccSize = 2^25`
  makes the accumulator overflow before the seventh symbol, as 32 bits do with it.
- **startup.** Two daemons are enough for "all have answered" and "one is synchronized" to
  differ, two reports for one to end while another waits. Four messages are the
  handshake and two after it, with payloads of 0, 1 and 2 units: a chunk can hold the end
  of one message, a whole one, and part of the next header. Two failures: a corrupt message
  desynchronizes the parser, and a second can hit what follows it. `VerackIsCurrent`,
  `HandshakeCompletes` and the reconnection go through any number of connections.

All bounds are constants named `Max...` in the modules; they limit how often an
action happens, never what it may do. Each run checks deadlock except
`rebroadcast_stops` (a pool whose first request fails does not start), `startup` (for the
same reason) and `blocks` (a block is the end of its assembly).

## 4. Fairness

- `FairFeedSpec`: a daemon that was asked answers or its request fails (HTTP ends),
  and the poll timer's `setInterval` fires for ever. Strong fairness, because the
  bound on requests in flight (not the code) can make a tick wait for a slot.
  Nothing is assumed of the rebroadcast timer, notifications or miners.
- `FairServerSpec`: the event loop ends a chunk (weak) and runs its timers and clock
  however busy the sockets are (strong: a timer waits while a chunk is handled).
  Regular broadcasts are what `feed_live` and polling provide.
- `FairStartupSpec`: a request is answered (or fails, or its answer is dropped, each of which
  is a step that counts as a failure), the retry timer fires, a daemon catches up with the
  chain in the end. An attempt to connect ends, the node sends its version and verack, and
  what it sends arrives. Weak fairness, since nothing takes these steps away again but
  the process's death or the connection's end.
- `FairLedgerSpec`: the monitor is restarted by its service manager and its
  loop goes on. Nothing is assumed of the pool, the daemons and the chain.

Fairness is only claimed of schedulers, never of failures stopping by themselves:
failures are bounded by constants.

## 5. What the code does not keep

Each of these runs checks one statement of a comment or document, and TLC finds a
behaviour of the code against it.

| Run | Statement | Why it fails |
|---|---|---|
| `rebroadcast_stops` | a job at least every rebroadcast timeout (`stratum.js:388`) | the timer is one-shot and set by a broadcast; when the refresh request fails nothing broadcasts until the next block |
| `shares_not_reset` | "reset shares" (`stratum.js:47`) | `this.shares` in a plain function is not the client's; counters grow for the connection's life |
| `block_lost` | several daemons "for redundancy" (`engine/README.md:244-246`) | one daemon's error ends `SubmitBlock` although another stored the block |
| `paid_twice` | a failed send "stays 'pending' - it retries next cycle" (`payout_monitor.py:12`) | a send that timed out, or a cycle that ended before its update, may have paid |

Seen while reading, without a run of its own:

- Banning is for `time` seconds (`engine/README.md:216`), but the purge compares
  milliseconds with seconds (`stratum.js:405`): a ban ends with the next purge.
- Payouts are sent "once a block's coinbase is *spendable*" (`payout_monitor.py:7`), but the
  query for pending payouts does not look at the block (`payout_monitor.py:69`): a wallet with
  other coins pays for blocks that are not mature, as the comment at 75-77 half says.
- `recordBlock` is not atomic: a busy database or a crash between its statements
  leaves a block without a payout, and nothing repairs it (`CreditedUnlessFailed` says how often).
- The monitor confirms by height the row it looked up by hash; a row replaced in
  between is confirmed in its place (`ConfirmedHeightMature` says what is left).
- Startup never retries. Any error of getblocktemplate other than -10 counts as
  synchronized, and the first job then fails with "server cannot start".
- `generateProgress` reads results without a look at errors: a failed request, or a node
  without peers, throws and ends the process.
- A bad checksum or magic number drops what was received behind it, and a header without any
  magic number makes `readUInt32LE` throw.
- `bech32Decode` accepts the checksums of bech32 and bech32m for every witness version, and
  any prefix, although its comment names tfx, ttfx and rtfx.
- A base58 address of a script hash gets the script of a key hash.
- The miner's credit (98% of the reward) is all that the coinbase pays to the pool, so a
  block's own coinbase cannot pay the network's fee too: the wallet needs a float.
- A rejected block is emitted with `isValidShare` true, and counted as a share.
- `processTemplate` takes an answer of the same height as a new block, and the refresh takes
  any answer whatever its height, against the comments of `jobManager.js:132-133` and 138
  ("If new block is outdated/out-of-sync than return").
- `jobRebroadcastTimeout` "Set to zero to disable" (`engine/README.md:191-192`) sets a timer of 0.
- varDiff's "maxDiff: Network difficulty will be used if it is lower than this" is not implemented.
- A ring buffer whose size is not an integer never counts as full; its average is then over all
  times since the last retarget (`RingAlwaysWindow` holds with that window).
- varDiff keeps time as `(Date.now() / 1000) | 0`, 32 bits with a sign: a connection that
  is open in January 2038 is not retargeted again.
- An extranonce counter with a negative start repeats its numbers (`Math.abs`) after crossing 0
  (`NoncesAlwaysDistinct` says that it does not before).
- `isOnline` (`daemon.js:42`) asks an array for `error` and is always true.
- A peer that refuses one attempt to reconnect is given up, although the pool
  logs "attempting reconnection...".

## 6. Proofs

All theorems hold for every value of the constants that satisfies the named
assumptions (`JobManagerAssumption`, `ShareRulesAssumption`,
`HistoryAssumption`, `FeedAssumption`, `StratumAssumption`, `VarDiffAssumption`,
`RetargetAssumption`, `BlockAssumption`, `CoinbaseAssumption`, `LedgerAssumption`,
`TemplatesAssumption`, `SizesAssumption`, `AddressAssumption`, `AffordableAssumption`,
`WordAssumption`, `AccAssumption`, `PeerAssumption`, `StartupAssumption`); TLC evaluates
these on the instances.
Three of them say what the code takes for granted and does not check: that the
percentages of the recipients are at most 100 in all and the payments a node asks
for are covered by the coinbase value (`AffordableAssumption`; otherwise the pool's
output is negative), that a height is below 2^31 (`SizesAssumption`, with
`MaxNumber`; `serializeNumber` shifts signed numbers), and that the symbols of a bech32
address have five bits (`AddressAssumption`; its text decodes to nothing else). `RetargetAssumption` only says
that the server's set of difficulties is the range in which varDiff can move the port's.

- `JobManagerInvariant` (`JobSpec => []JobInv`): `CurrentJobRegistered` alone is not
  inductive, since a write to `validJobs` could hit the current id; `JobInv` adds
  the types and that each job sits under its own id.
- `IdsAlwaysUnambiguous` (`HistSpec => []IdsUnambiguous`): the strengthening is
  `SerialsFollowCounter`: ids up to the counter were given in this round of the
  counter, those above in the round before, which determines every serial.
  It is arithmetic on the wrap of `NextJobId`.
- `JobManagerKeepsPromise` (`HistSpec => PromiseKept`): the job manager implements
  `WorkLedger`. `NewBlock` maps to `Announce`, `UpdateCurrentJob` to `Refresh`, an
  accepted share to `Credit`, all else stutters. `CreditedIsRegistered` is what
  shows that a work item is not credited twice: a credited text is in the submit
  list as long as its template is registered.
- `FeedTypeCorrect`, `WorkAlwaysHonoured`, `HeightFallsOnlyByRefresh` (`FeedSpec`): the
  inductive invariant `FeedInv` adds to `WorkHonoured` the job manager's `JobInv` (a
  refresh overwrites an id for everybody at once) and `StartedInOrder` (no client
  before the first job). The lemma `BroadcastHonoured` is used by every action that
  broadcasts.

- `ServerTypeCorrect` and `HonestSharesAlwaysCount` (`ServerSpec`): `ServerInv` says what
  `sendDifficulty` remembers of the jobs that are out (`Remembered`): with no change of
  difficulty since the last block they all have the current one, with one change the
  current or the previous one; nothing is said of more changes, because the code
  forgets. It also needs that whoever is subscribed has a difficulty, which the handler of
  a subscription provides before it sends the first job.
- `NoncesAlwaysDistinct` (`ServerSpec`): `NonceInv` keeps every nonce in use among those
  drawn so far. It assumes `NoncesFrom >= 0 \/ NoncesFrom + MaxSubscribes <= 1`, that is, the
  counter does not pass 0: `Math.abs` is injective on either side only.
- `BannedStayOut` (`ServerSpec => AdmittedIsForgiven`): the check of the ban and the admission
  are one event, so no inductive invariant beyond the types is needed.
- `LedgerTypeCorrect`, `OnlyStoredBlocksCredited`, `PaidAlwaysSent`, `DoublePaymentTakesFailure`,
  `PaidForGood` (`LedgerSpec`): `LedgerInv` relates the two processes. An accepted block is
  stored (`AcceptedStored`), whatever is recorded was accepted and is recorded once
  (`RecordedIsAccepted`), the rows the monitor has read are still pending when it gets to
  them, since only the monitor marks a row (`CycleIsCurrent`), and every payment is recorded,
  about to be, or paid for by a failure (`PaymentsAccounted`). `DoublePaymentTakesFailure`
  holds for every number of failures, blocks and daemons.
- `FailureCostsOneCredit`, `ConfirmedHasMatured` (`LedgerSpec`): the blocks that were accepted and
  are neither credited nor being recorded are at most as many as the failures; the proof
  counts them by the cardinality of that set, which a step changes by one block at most, and only
  with a failure. Confirming takes an answer of the chain that the block looked up is
  mature, and heights do not become immature again.
- `StartupTypeCorrect`, `AlwaysHandledInOrder`, `NeverLeftUnread`, `VerackAlwaysCurrent`,
  `AlwaysStartsOnce`, `AlwaysWaitsForSync` (`StartupSpec`): the inductive invariant `StartupInv` has a part
  for the peer and one for the start. The peer's says where in the stream (what the parser
  holds, then what is on the wire) each message begins (`Framing`), which holds while all
  messages are sound; then whatever the parser takes off the front is the next message
  (`HandledInOrder`), and a parser that waits on an empty wire has none left
  (`NothingLeftUnread`). The proof is about sequences cut at any place, for messages of any
  length. The start's says what the stages have in common with the answers that are out
  (`AnswersHold`, `StartedInOrder`): the callback of `GetFirstJob` finds the pool either in the stage that
  waits for it or already serving.
- `RingAlwaysWindow` (`RetargetSpec => []RingIsWindow`): the buffer is in one of two phases,
  filling up with the cursor at its end, or full with the cursor on the oldest time
  (`Phase`), and in both holds the window of the last times (`Holds`). It covers sizes that
  are no integer, which the run leaves out: the buffer then stays in the first phase and the
  window has no limit.
- `VarDiffKeepsToServer` (`RetargetSpec => ServerImplemented`): the server with the real
  retarget rule implements the server in which a retarget asks for any difficulty of the
  range. What the rule asks for lies between the old difficulty and the limit on the side
  it moves to, because the average is beyond the variance on that side and the rounding
  stays between its neighbours (`NewDifficultyBetween`); the average is a natural number
  because the sum of the buffer is (`RingSumNat`). `MeteredInv` carries the types.
- `RetargetedSharesCount` (`RetargetSpec => []HonestShareCounts`) follows from it and
  `HonestSharesAlwaysCount`: what was proved of the abstract server holds of the composed one.
- `LengthsAlwaysRead`, `AlwaysSpendsItAll` (`AssemblySpec`): `Balance` (what is paid and what is left are
  the coinbase value) and `FewOutputs` (each pass of a loop adds one output, so that the
  count fits two bytes), with `VarIntRoundTrip` for every number up to 0xffff.
- `RootAlwaysAgrees` (`AssemblySpec => []RootAgrees`), for every number of transactions.
  `TreeInv` compares two computations of the tree: after `k` passes of the loop, `level`
  without its `Null` is the node's level `k` without its first node, and the first
  node is the coinbase joined with the steps so far. A pass keeps this whether the level is
  even or odd (`NextLevelNodes`); the loop ends when the node's level has one node, and
  not before (`RootIsTop`). `JoinsEquation` is what `FoldLeft` computes for `withFirst`.
- `OutputsAlwaysAddUp`, `AssemblyWellTyped`: `Accounts` follows the loop of the
  recipients: what was paid in it are the parts of the first recipients, so that at its end
  the sum is that of `RewardToPool`. The parts, each rounded down, are together at most the
  reward if the percentages are at most 100 (`PoolPartNat`).
- `NodeAlwaysReadsBlock`: the bytes of a height that the code writes are those
  of the shortest signed push for every height below 2^31 (`HeightPushed`: by the number of
  bytes, with the sign bit on its own), and a 64-bit amount is read as it was written.
- `PoolAlwaysPaid` (`AssemblySpec => []PoolPaidToAddress`), for every address and program of any
  length: the invariant of the conversion's loop (`Holds`) is that the bytes so far, with
  the bits that still wait in one more byte, read as the symbols so far. A pass either adds
  five bits to the byte that waits (`FeedFew`) or fills it and starts the next (`FeedFull`); what
  was read before is not disturbed (`OldBits`). Only the accumulator's low 12 bits enter,
  so that it may overflow (`LowBits`; `AccAssumption` asks for a multiple of 4096).
- `HistInvariant`, `CurrentAlwaysRegistered`, `HistoryTypeCorrect` (`HistSpec`): the invariant behind
  `IdsAlwaysUnambiguous` in full, and the parts that concern the manager itself.

Proofs have one lemma per action, with the component's lemmas about
`NewBlock` and `UpdateCurrentJob` reused by the compositions.

*Folds and recursion.* The sums of the models are folds of the community modules, whose
result is chosen with the order of the elements left open. `SumProofs` shows that the
order does not matter: it proves induction on the natural numbers from well-foundedness
stated with sets, from it that the recursive function on subsets exists, and then what
`Total` of an empty, an extended or a shortened sequence is. The recursive functions of
`BlockAssembly` (the levels of a tree, the bytes of a number, the passes over an
address) are treated alike: a lemma says that the function exists, the next that the
definition's `CHOOSE` satisfies its equation.

Only model-checked: the liveness properties (`CatchesUp`, `RebroadcastGoesOn`, `BansPurged`,
`IdleDropped`, `PayoutsPaid`, `HandshakeCompletes`, `StartsUnlessFault`), which are out of the
prover's reach. Every safety invariant and every action property of a passing run is proved.

## 7. Not modelled

- Hashing, byte order, the checksums of bech32 and base58, number formatting, the header's
  copied fields and `algoProperties.js`: conversions without state, and without a property
  that a model could tell apart from the identity. Variable-length integers above 0xffff:
  no template has as many transactions.
- Time stamps of proof-of-stake coins, votes, and transaction comments: bytes that are copied.
- Percentages are whole numbers in the models; the code multiplies with a fraction and
  floors, which rounds differently for amounts beyond 2^53.
- The peer is the enabled one (`p2p.enabled`); its `addr` messages and service flags are
  payload.
- The PROXY header and `relinquishMiners` / `attachMiners`, which nothing here calls.
- Worker statistics, `round_shares` and the redis counters: nothing reads them back.
- Times after January 2038.
- `gen-config.js`, `run_testminers.sh`: scripts run once by hand.

## 8. Plan

1. *Compose.* `TemplateFeed` with `StratumServer` (one client with work *and*
   difficulty): a share on a job that is out is accepted from end to end.
2. *Prove* the composition of 1 from the theorems about its two parts.
3. *Extend.* The PROXY header; miners handed from one pool to another.
