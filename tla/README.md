# A TLA+ model of ssbc

ssbc is a small permissioned blockchain in Go.  A handful of servers, all named
in a table, agree on blocks of transactions in rounds: everybody broadcasts the
hashes of its pending transactions, a fixed leader makes a block of them, and
two rounds of votes decide whether it is stored.  This directory models the
round and what surrounds it, checks it with TLC and proves the central facts
with TLAPS.  File names below are relative to the repository; `lib/net` and
`common` are where the program's own logic is.

## 1. The system

| component | state | operations | modelled in |
|---|---|---|---|
| Block round (`lib/net/byzantiumhandler.go`, `receiveBlock.go`, `recBlockVoteRound1.go`, `recBlockVoteRound2.go`, `rtbitarry.go`, `testhandlers.go`, `sendTxs.go`, `broadcast.go`, `common/block.go`) | `blockState` (current and temporary block, behind a mutex), the channel `Blockchains`, the counters `times` and `transinblock`, three `sync.Map` tallies | the handlers `/sendTxs`, `/testinfo`, `/recTransHash`, `/recBlock`, `/recBlockVoteRound1`, `/recBlockVoteRound2`, and the goroutines they start | `Consensus`, `Ledger`, `ConsensusRace`, `ConsensusRestart` |
| A tally (`vote1`, `vote2`, `receiveTran`) | one list in a `sync.Map` | load, append, store, load, act | `VoteTally` |
| Transactions (`blockhandler.go`, `testhandlers.go`, `rtbitarry.go`, `receiveTx.go`, `lib/redis`) | the pool in Redis, the plain map `HashTranMap` | pull, hash, collect, look up, append | `TxRound` (not `/receiveTx`) |
| Start command (`cmd/servercmd.go`) | everything above, built anew | start, crash | `ConsensusRestart` |
| Server lifecycle (`lib/net/server.go`, `lib/docker/lib/net/server.go`) | listener, channel `wait` | `Start`, `Init`, `serve`, `Stop`, `closeListener` | `ServerLifecycle` |
| HTTP endpoint and client (`serverendpoint.go`, `broadcast.go`, `lib/caerrors`) | a request, its handler, its response | route, method check, error mapping, response, `SendReq`, `Broadcast` | `HttpExchange`, `Delivery` |
| Smart-contract node (`lib/docker/lib/net/receiveBlock.go`) | maps of contracts | block handler; install, instantiate, update | `ContractNode` |
| Merkle trees (`common/merkle_tree.go`, `blockhandler.go`) | the tree object | two constructions, rebuilds, paths | `Merkle` |
| DDoS detector (`lib/mininet/src`) | flag `Running`, wait group | listener, periodic jobs, signal | `DdosDetector` |
| Crawler (`EthCrawler.go`) | three channels | three goroutines | `EthCrawler` |
| MySQL driver (`lib/go-sql-driver/mysql`) | a connection, its buffer and sequence number, its watcher | connect, the calls of `database/sql`, cancellation | `MySQLPackets`, `MySQLConn` |
| its values and names (`utils.go`, `packets.go`, `connection.go`, `fields.go`, `dsn.go`) | none | interpolation, execute packet, rows, data source names | `MySQLValues`, `MySQLDSN` |
| RLP (`crypto/rlp`) | a `Stream` | encode, decode, split, stream operations | `Rlp` |
| DER (`crypto/cryptobyte`) | builders, nested | build, read | `Cryptobyte` |
| Hex and numbers (`crypto/common`, `common/math`) | none | conversions, padding, arithmetic | `Hex` |
| PKCS#12 (`crypto/pkcs12`) | none | derive, decipher, open a file | `Pkcs12` |
| Ed25519 (`crypto/ed25519`) | none | field, scalars, group, sign, verify | `EdwardsField`, `EdwardsScalar`, `Edwards25519` |
| Key and storage helpers, configuration, flags, RSA and ECC wrappers, copies of `lib/net` under `lib/docker` | | | not modelled (section 6) |

The block round is the program; the rest surrounds it.  `lib/net` starts the
server, routes posts to the round's handlers and broadcasts its messages;
`lib/docker` is a node that gets the blocks and acts on their contract
transactions; the detector and the crawler are programs of their own.  The
driver and `crypto` are libraries kept in the tree, with changes, and are
modelled from the code that is there.

How the parts interact.  Everything between servers is an HTTP post by
`Broadcast`, which goes through the table `Urls` in order, one post at a time,
the sender included, and returns at the first error; no caller looks at the
result.  A handler other than `/recBlock` starts a goroutine and answers at
once.  `/recBlock` compares the block with the current one before it answers,
with the same answer either way.  Inside a server the goroutines share
`blockState`, the counters, the tallies and `HashTranMap`; only `blockState` has
a lock, and it is held for single calls only.

What is hard about it:

* No message carries a round number.  A server files what it receives under its
  own counters at the time, so messages that come early or late go to another
  list than their senders meant.
* Every tally needs all servers, is checked for *exactly* `Nodes` entries, and a
  list is filled by load, append, store.
* `CheckAndStore` stores whatever `tmpBlock` holds.  Nothing compares it with
  its predecessor; `isBlockValid` (`common/block.go:65`) is never called.
* Between `Checkblock` in the handler and `SetTmpB` in the goroutine the current
  block may change, and `SetTmpB` runs whether or not the check succeeded.
* The leader starts the next round when *it* has stored a block.
* A broadcast may stop half way; a crash loses everything; `/sendTxs` may be
  called while a round is running.
* `serve` tells its end on an unbuffered channel that a `Stop`, another `Stop`
  or nobody may read, and closes the listener the server has *then*.
* A broadcast has no timeout: one handler that waits makes everybody wait.
* A driver call is cancelled by another goroutine in the middle of writing or
  reading, the server's answer may still be under way, and what was sent decides
  whether the call may be repeated.
* The codecs are full of lengths that grow by a byte at a boundary, carries that
  are almost never taken, and two hand-written parsers of one syntax.

`PROJECT.json` lists these hazards at their lines with the properties that
would notice them going wrong.

## 2. Modules

```
Consensus ───────────── the block round, one action per handler or goroutine
 ├─ ConsensusInvariant   the inductive invariants, in parts
 │   ├─ MCConsensus          run reliable
 │   └─ ConsensusSafety      proof: types, IInv; Agreement, ChainLinked;
 │       │                       HInv; lockstep; implements Ledger
 │       └─ ConsensusCounting    proof: CInv, SealInv, KInv, SInv; certificates
 │           └─ ConsensusFaults      proof: ConsensusRace, ConsensusRestart
 ├─ ConsensusRace        receiveTran in three steps       runs race, fork
 ├─ ConsensusRestart     servers that crash and restart   run restart
 └─ TxRound              transactions, hash map
     └─ TxRoundInvariant     mapping to the round; MapInv, SizeInv
         ├─ MCTxRound            run tx
         └─ TxRoundProofs        proof: implements the round; sizes
Ledger                   what the round promises (INSTANCEd by Consensus)
VoteTally                one tally, every interleaving    run lost_entry
 └─ Services             with the four below
     ├─ ServicesInvariant    an inductive invariant for each
     │   ├─ MCServices           run services
     │   └─ ServicesProofs       proof: the five, and the whole
     ├─ ServerLifecycle      Start, serve, Stop
     ├─ ContractNode         block handler, over HttpExchange
     │   ├─ HttpExchange         client, endpoint, connections that break
     │   └─ Delivery             what a broadcast promises (refined)
     ├─ EthCrawler           three goroutines, three channels
     └─ DdosDetector         flag, workers, signal         run graceful
MySQLPackets             a connection: packets, watcher, network, login
 └─ MySQLConn            the calls of database/sql         runs mysql, mysql_file
     └─ MySQLInvariant   types; invariants of the login, of a connection of the
         │                   pool, of a retry, of what is left behind
         └─ MySQLProofs      proof: types; who is connected was accepted
             └─ MySQLStreamProofs    proof: own answers, safe retries, in sync
Merkle                   both tree constructions
 └─ MCEncodings          with the ones below              runs encodings, rlp
     ├─ Rlp                  codec; a stream and its caller
     ├─ Cryptobyte           builder and reader of DER
     ├─ Hex                  texts of bytes and numbers; arithmetic
     ├─ MySQLValues, MySQLDSN
     ├─ Pkcs12               with RC2
     └─ EdwardsField, EdwardsScalar, Edwards25519
```

**Consensus.**  The variables have the names of the code.  A replica is a server;
`Urls` is the order of the table; `Leader` is the one that listens on the
default port.  A goroutine that has been started and has not run is a record in
a `pending...` set, or in `verifying`, `verified`, `storing`; running it is the
action of its function.

| action | code |
|---|---|
| `SendTxs` | `sendTxHandler`, `sendTrans` |
| `SendTransV2` | goroutine of `testinfoHandler` |
| `ReceiveTran` | goroutine `receiveTran` and `generateFromCommonTxV2` of the leader |
| `RecBlock`, `LoseBlock` | one post of a block: `receiveBlockHandler`, or a failed post |
| `Verify`, `SetTmpB` | goroutine `verify`, before and after it takes the lock again |
| `Vote1`, `Vote2` | goroutines `vote1`, `vote2` |
| `StoreBlock` | goroutine `store_block`, that is `CheckAndStore` under its lock |

A step ends where the code takes or releases the lock of `blockState` or starts
a goroutine.  A broadcast to a handler that only starts goroutines is one step
that reaches all replicas or, when `Lossy`, any beginning of `Urls`: the
goroutines it starts may run in any order and as late as they like, which covers
posts that are spread over time.  The broadcast of a block is one step per post,
because the handler reads `blockState` itself.

Data is abstract.  The hash of a block is the number it was generated under
(its text has a timestamp, and `calculateHash` covers it), the hash of no block
is 0 (Go's `""`).  Signatures verify.  Vote thresholds are the code's
(`== Nodes`, `> 0.75 * Nodes`).  What non-leaders collect from `/recTransHash`
is left out here and added in `TxRound`.

**Ledger** is the abstract specification: one chain; a replica that is level with
all others may add a linked block; a replica that is behind may copy the block
it lacks.  `Consensus` implements it with `chain` itself as the mapping.

**ConsensusRace** splits `ReceiveTran` at its calls on the `sync.Map`: load, store,
second load.

**ConsensusRestart** adds the crash and start of a replica as one step: its
variables are those of `Init`, its goroutines are gone, messages already
delivered to others are not.  The time it is away is what `Lossy` models.  A
broadcast stays one step here: the posts that its sender's crash prevents make it
shorter, and a post made so late that it reaches the next life of a replica is
left out.

**TxRound** adds what the messages are about.  Every pool holds the same
transactions in the same order (`generateTx`) and nothing is ever taken out of
it, so a list of transactions is modelled by its length, a union by the longest,
and a lookup by what the map already has.  The goroutines of `SendTransV2` are
split where they write `HashTranMap`, and those of `generateFromCommonTxV2` are
at the map between their start and their end.  Redis is taken to answer.  The
leader's tally is one step, as in `Consensus`: what two goroutines do that both find
it full (finding 1) is the subject of `ConsensusRace` and not of this module.

**VoteTally** is one key of one map, with every goroutine split at its calls.

**Merkle** has the loop of `NewMerkleTree`, `buildWithContent`, the rebuilds and
`GetMerklePath`, with hashing as an injective pairing, against a reference that
defines the root from the top.  The two constructions agree from two
transactions on; for a single one the block's root is the leaf's hash and the
tree object's is that of a pair.

**ServerLifecycle** has two goroutines that call `Start` and `Stop` of one server
in any order, and a `serve` for each start.  A listener and the channel made for
it bear the number of their start, so that closing somebody else's shows.  The
three builds differ in who runs `serve` and in whether it sends on `wait`.

**HttpExchange** is a client in `Broadcast` and a server per URL: a request
arrives, is refused (route, method) or dispatched to a handler, which returns,
panics or takes long; the connection may break at any point; what comes back
decides whether `Broadcast` goes on.  **ContractNode** fills in the handler of
`/recBlock`: transaction after transaction, with `update` waiting on a status.
**Delivery** is what the caller of `Broadcast` may rely on, and `KeepsPromise`
the refinement.

**EthCrawler** and **DdosDetector** are one action per channel operation, and per
read or write of the flag.

**MySQLPackets** has the three parties of a connection.  The *goroutine of the
call* works off `call.todo`, a list of tasks (write this command, read that kind
of answer, finish); the *watcher* takes a context, sees it end and closes the
connection; the *network* breaks, or lets a read time out.  A packet is a record
with its sequence number and the call it belongs to, and a write may fail before
or after some of it has been sent.  Numbers count modulo 256, as the code's `uint8`
does.  The second part of the module is the login: the plugins,
their switch, the full authentication with and without TLS or a key, and a
server that answers in any order the protocol has.  **MySQLConn** adds what
`database/sql` calls on a connection, in the orders it does, with transactions,
statements, open rows, statements of several with their results, LOAD DATA, and
what it does with an error: `driver.ErrBadConn` means that the call is repeated
on another connection.  A result has `Columns` columns and one row or none; each
result of several may be an error, or the refusal of a read-only server, which
`RejectReadOnly` makes an `ErrBadConn`.

**Rlp** has the encoder with its buffer, the stream and the type-directed decoders
(types are records, values trees of byte strings) and `raw.go`, and a
stream in the hands of a caller who may call anything at any time, also after
errors.  **Cryptobyte** runs programs of nested continuations on a builder, with
errors, panics and fixed capacity.  **Hex**, **MySQLValues**, **MySQLDSN** and
**Pkcs12** are operators named as the functions are.  **EdwardsField** has the
products and the order of carries of the unrolled code with the number and
widths of limbs as parameters, **EdwardsScalar** the folds of `ScMulAdd` and
`ScReduce` likewise, and **Edwards25519** the points, windows and signatures over a
curve that is a parameter.

**Services** and **MCEncodings** put components that share nothing into one
state space: a behaviour is of one of them, the variables of the others rest.
The sizes of `Services` are constants, so that its theorems are about any number of
callers, broadcasts, servers, pages and workers; `MCServices` gives them values.

**ConsensusInvariant**, **TxRoundInvariant** and **ServicesInvariant** hold only what
the proofs need: formulas that TLC can evaluate, kept apart from the proofs so that
a run can check them first.  A theorem module extends the one it builds on and cites
its lemmas by name.

Definitions ending in `Bug` are faulty variants of the definition after them.
They are used by no action; each is what a property is tested against: with the
variant in place of the definition, TLC finds the property violated.

## 3. Runs

| run | instance | what it shows |
|---|---|---|
| `reliable` | 3 replicas, 1 start, 2 blocks of 2 sizes, no failed post, fairness; 36,959 states | `CInv` (which contains the invariants of the proofs), `StoredIsHeldByAll`, `SkewAtMostOne`, `NoDissent`, the refinement of `Ledger`, and the liveness properties `LaggardCatchesUp`, `FirstBlockStored` |
| `race` | 3 replicas, 1 start, 1 block, split tally; 55,912 states | even when two blocks compete, what is stored has its own affirmative tally |
| `fork` | as `race` | *violation*: a stored block does not extend the one before (finding 1) |
| `lost_entry` | 4 replicas, all interleavings of one tally | *violation*: entries are lost (finding 2) |
| `tx` | 2 replicas, sizes 1 and 2, pool of 3; 38,878 states | with the tally in one step: blocks have the size that is due, slices fit the pool, and the whole implements the block round of `Consensus` |
| `restart` | 2 replicas, 3 sizes, 1 start, 3 crashes, broadcasts cut short; 12,020 states | restarts forget chains, they do not fork them |
| `services` | 29,036 states, of five components | a tally acts on complete lists and on every complete list; a `Stop` that is told has stopped its own server; no listener leaks; `Start` returns; a broadcast keeps the promise of `Delivery` and hangs only on a contract update; crawler and detector end, with nothing left |
| `graceful` | the detector, two signals | *violation*: a signal taken at the start is forgotten (finding 3) |
| `mysql` | every way to connect, or a pooled connection and 2 more calls, results of 25 columns; 701,297 states | answers are read whole and by their own call; what is repeated was not executed, unless it loaded a file or was refused half way; who is connected was accepted; a cancelled call returns; the watcher ends |
| `mysql_file` | as `mysql` | *violation*: a statement that was executed, and asks for a file, is repeated (finding 4) |
| `encodings` | 122,831 states, one per input and operation | each algorithm against its reference, see below |
| `rlp` | encodings and their corruptions | *violation*: `Kind` answers for a value already decoded (finding 5) |

**What `encodings` compares.**  `StreamReadsInput`: a caller of an RLP stream has read
what the bytes consumed encode, whatever it mixed, up to the first error that cost it
bytes; inputs are all sequences of up to three header bytes, in and out of lists and
limits.  `RlpIsFaithful`: sixteen types with values on both sides of 55 and 255 bytes
decode to themselves, through every size of read buffer; corrupted encodings either fail
or are what would be written; the splitter agrees with the stream.  `DerIsFaithful`:
builder programs nested three deep with contents at the lengths where the header grows;
elements of every short header that is nearly right; the integer -1 is left out (section
5).  `HexIsFaithful`: all texts of up to five characters from an alphabet with both cases
and an invalid one, by every parser; arithmetic on all pairs of 5-bit
words.  `MySQLValuesArrive`: the text of an interpolated query goes through the server's
lexer in both modes; statements of up to 18 parameters go through packets that force
long data; rows of up to 15 columns in both protocols.  `ConfigIsRead`: some 26,000 data
source names are read, written and read again; what the writer loses and an address
whose brackets do not come out even (section 5) are excluded by
`Writable`.  `PfxIsOpened`: key derivation against RFC 7292, RC2 both ways, padding, and
files of every combination of three bags and passwords. `CurveIsExact`: limbs of either
sign with each carry taken, scalars at and beyond the order, every kind of window, all
points with invalid encodings among them. `OnlySignatureVerifies`: for a message and a
first half of a signature, exactly one scalar verifies.  `TreeIsReference`: all trees of
up to seven leaves over two contents, with rebuilds.

**Bounds.**  `MaxStarts` bounds operator requests, `MaxRestarts` crashes,
`MaxTransInBlock` with `Rounds` and `TransChangeStep` the number of blocks; the last
three are the code's own parameters with small values, and after the last size
the leader starts no round, as in the code.  That is also why `CHECK_DEADLOCK`
is `FALSE`: a system whose leader is done, or whose round has lost a message,
stops; so does a program that ends, and an input that has been looked at.  Two
blocks are enough for everything that relates a round to the one after it, and
the second has another size than the first, so every branch of `CheckAndStore`
is taken.  With three replicas a majority, a unanimous tally and a full one
differ, and a replica can be behind two others that differ from each other.  With
two replicas the loss of messages at every position and restarts can be explored
completely.

Larger and other instances were explored once and agree: `Consensus` with 3
replicas and four blocks in two sizes (692,000 states), with 3 replicas, lost
messages and one start (222,000), with 2 replicas, lost messages and two
overlapping starts (637,000), with 4 replicas and one block (987,000); the server of
`Services` with three callers and three starts, with all its invariants (1,166,427);
`ConsensusRestart` with 3 replicas, 2 crashes and no loss (316,710: `Agreement`,
`ChainLinked`, `CountedOnce`, `StoredIsCertified` hold; lockstep does not, and cannot, since a
restarted replica is at height one); `TxRound` with 2 replicas and 3 sizes (3.7
million).  `race` and `fork` explore only the schedules that handle a vote as soon
as it is there: the interleavings that matter to them are those of the leader's
tally.

In `services`, two starts and a `Stop` that looks twice (`Polls`; the code looks ten
times) are what it takes for a notice to go astray; two servers in a broadcast
have one before and one after a failure; channels of one with two pages and two
addresses on each are full when somebody wants to send, and empty when somebody
wants to receive; two signals are the one that is handled and the one after it.
In `mysql`, `MaxCalls` counts the calls of one behaviour: a first that leaves
something behind and a second that would find it; a pooled connection may start
within a transaction with a statement prepared.  The network fails during the last
call or before it, since after a failure nothing else is called.  A behaviour ends
as well with a call that met a packet out of sync or could not send its file: `database/sql`
might go on with such a connection (section 6).
`Columns` is the number of columns of every result, whose row has the number
`Columns + 3`: 25 is the largest number that the proofs cover, 254 one at which the row has
the number 1.  In `encodings`,
`Kinds` names the inputs and `MaxLeaves` bounds the trees; widths are scaled (words
of 2 hex digits, limbs of 1 to 5 bits, a field of 509 elements with a curve of
order 8·67), such that each carry, borrow and window still happens with small
numbers, and toy digests depend on all of their input.

**Fairness.**  `FairSpec` adds weak fairness of the system's steps taken together,
without the operator.  The Go scheduler runs every goroutine and the HTTP client
ends every post, and each of them runs once; as there are finitely many in a
bounded run, none can be passed over for ever.  `VoteTally` has weak fairness of
each goroutine.  The liveness properties are claimed only where no post fails:
with lost messages the code has no retry, and a round that lacks one vote never
ends.  They are also claimed for the atomic tally only; `lost_entry` shows why.

In `services` every goroutine has weak fairness of its own steps.  A server whose
listener is open need not stop serving; one whose listener has been closed does
(`http.Serve` returns).  Handlers and the crawled site answer, a connection need not
break, and a signal need not come; datagrams keep coming, since the detector's
listener cannot end without one.  In `mysql` the call's goroutine and the watcher
are scheduled, and nothing is assumed of the server or the network: that a
cancelled call returns is due to the watcher alone.

## 4. Proofs

A theorem here holds for every value of the constants that the named assumptions
allow, and nothing else is assumed:

* `ReplicaAssumption`, `UrlsAssumption`, `CounterAssumption` (`Consensus`): a finite set of at
  least two replicas, an order of posting that has each of them, sizes and rounds that are positive;
* `RestartAssumption`: the number of restarts is a number;
* `PoolAssumption` (`TxRound`): the pool is large enough for the sizes, as with the code's
  4,000, 6,000 and 300,001;
* `TallyAssumption`: a finite set of replicas, and lists of two entries or more;
* `ServicesAssumption`: the sizes are numbers, and a `Stop` looks at least once;
* `ColumnsAssumption` (`MySQLPackets`): a result has a column or more.

Some theorems have the hypothesis `MaxStarts <= 1`, and say so in their statement:
`RoundsFollow` and what builds on it, for restarts and for the sizes of lists.  It is not
a convenience.  With two starts and one restart TLC finds `ChainLinked` violated (section
5), and with two starts alone `BlockIsFull`.  The three theorems of `MySQLStreamProofs`
have the hypothesis `Columns <= 25`: `OwnAnswers` needs a bound (section 5).  What the
proofs use is that no number comes round to 0 again.  An answer is at most two results,
or asks for a file with which the numbers go on; with every packet of the model counted
as up to 25 they stay below 256.  25 is a number of columns for which this works, not the
greatest.  Whatever does not need a hypothesis is stated without it: certificates, votes
counted once, `RoundImplemented`, and all theorems about `Consensus` itself but
`RoundsFollow`.

### The block round

* `TypeCorrect`: the type invariant.
* `InvariantHolds`: `IInv` is inductive.  `Agreement` and `ChainLinked` are not
  inductive, because nothing in `CheckAndStore` keeps it from storing a stray
  block.  What keeps stray blocks from existing is the leader's tally: it is
  compared with *exactly* `Nodes`, entries never leave it, and its key changes
  only when the leader stores.  So it fires once per round (`FiredOnce`), there is
  at most one block of each index (`UniqueIndex`), generated on the leader's
  chain (`OnLeader`), and `tmpBlock` is the current block or the next one
  (`TmpNext`).  No vote is needed for this, and overlapping starts are covered.
  `AgreementHolds`, `ChainLinkedHolds` and the action property
  `NoUnstoredOverwriteHolds` follow.  `IInv` is the conjunction of what is true of the
  known blocks (`BInv`), and of the leader's tally (`LInv`): the first part is
  kept by every action under a condition on the leader alone, and serves again
  where replicas restart, `LInv` does not.
* `HoldsInvariant`: `HInv` is inductive.  A vote's sender holds the block, a full
  tally is one of all replicas, so a revote says that everybody holds the block
  and a store that everybody has it or is about to.  `NoDissentHolds`,
  `StoredIsHeldByAllHolds`, `SkewAtMostOneHolds` and `LedgerImplemented`
  (`Spec => Ledger`) follow.
* `CountingInvariant`: `CInv` is inductive.  A replica's first vote on a block is
  in one place per receiver, and whoever has revoted has everybody's first vote,
  so no later vote fills its tally again.  `CountedOnceHolds` follows; it justifies
  modelling a list of votes as a set, and `len(votes)` as a number of replicas.
  `CInv` mentions hashes and never blocks of the leader, so it survives competing
  blocks and restarts.
* `StoredIsCertifiedHolds`, from `SealInv`: what is on its way to be stored is
  certified already, and tallies lose nothing.
* `SameHeightSameKeyHolds`, from `KInv`: the counters are a function of the height.
* `RoundsFollow`: with one start, what is under way is of one round, a replica is
  in one place of it (`SentOnce`), and no entry lies under counters the leader has
  yet to come to (`PastKeys`).  Where `LInv` remembers that the leader's tally has
  fired, `SInv` can forget it: either the leader's own part in the round still
  exists, and the tally is as `FiredOnce` says, or it has been lost and nobody ever makes
  a block again (`Alive`, `LeaderStuck`).
* `ConsensusFaults` carries this over.  *Race*: `RaceCountedOnce`, `RaceStoredIsCertified`
  (two blocks on one parent may exist there, as run `fork` shows, but neither is stored
  without its certificate).  *Restart*: `RestartCountedOnce`, `RestartStoredIsCertified`
  for any number of starts, `RestartRoundsFollow`, `RestartAgreement`, `RestartChainLinked` for one.

### Transactions

* `RoundImplemented`: `TxRound` implements `Consensus`.  A replica has *sent its
  transactions* once it has read the current block, although it still fills its map
  and its message may be lost; the leader has *made its block* once it has found the
  tally full, although it still looks transactions up.  `MapInv` says that nothing
  such a goroutine has read has changed when it goes on: the leader's current block,
  because a leader that still looks up has no newer block to store (`OneLook`), and
  each list, because a trigger makes a replica pull once (`ListOnce`).  `TxAgreement` and
  `TxChainLinked` are the theorems of the round under the mapping.
* `PullFitsHolds`, `BlockIsFullHolds`, with one start, from
  `SizeInv`: it adds to `MapInv` the invariants `SInv` and `KInv` of the round under the
  mapping, and that a list is no longer than the leader's size (`ListsFit`) and the leader's
  own list is in its map by the time its message counts (`OwnListFilled`).  A union that
  is modelled by the longest list therefore has exactly the size that is due.

### The services

* `ActedOnAllHolds`: for the split tally, whoever finds the list full finds every
  entry in it, in every interleaving, since each list is one of senders that are
  through with their `Store` (`ListsOfThrough`).
* `PortIsServedHolds`: `PortInv`.  One caller at a time is within `Start`, and until its
  `serve` runs the port is held by the listener it made, or that one is closed.
* `StopMeetsItsServerHolds`: `StopInv`.  In the builds with a channel, and as long as no
  `Stop` has given up and no server ended on its own, there is one server that is not
  through, and it is that of the last `Start` (`LastIsLive`); a `Stop` under way is about that one
  (`StopIsOfLast`); and no channel outlives the `Stop` that received on it (`WaitIsOfLast`).  The
  three are mutually inductive: that the channel is the right one rests on no other
  server being live, which rests on a `Start` not having been let in, which rests on
  the listener and the channel together.
* `KeepsPromiseHolds`: `Broadcast` implements `Delivery`, from `PostInv`: the servers that have
  a request are a beginning of the list, and all before the last have handled it.
* `NothingIsLeftHolds`: `CrawlInv` is a balance (what was found has been taken, is in a
  channel, or is still to be put into it) and the order in which the channels close;
  `DetectInv` says which worker `main` has come to.

### The MySQL connection

* `ConnectionTypeCorrect`: every field of the six variables keeps its type, for any number
  of calls.  What a call has left to do is a sequence of tasks that every packet rewrites, so
  the type of a list is a statement about each function that reads.
* `ConnectIsAcceptedHolds`: `LoginInv`.  `Connect` succeeds by running out of tasks, so
  the invariant is about the list.  As long as the server has not accepted, there is a
  task in it that only an OK packet gets past (`Gated`), behind nothing but writes of
  the login, TLS and the request for the server's key.  One packet or its answer is under
  way at a time, and none when the next task is a write (`OneExchange`); so a stray
  answer is not read for the next. What lies on the wire is no OK packet, and a first
  half of an answer only for the plugin that goes on to ask for a second
  (`NotAccepting`): `sha256` with a key, `caching` with a request for the
  password.  Without this last part the invariant is not inductive: a `more` that is
  empty, or is for another plugin, is the end of the login in `handleAuthResult`.  A
  `Connect` that has failed stays failed (`FailedStays`).  The server may do all that its
  side of the protocol has, and the network may fail anywhere; a server that breaks the
  protocol is not modelled.
* `OwnAnswersHolds`: `PooledInv`, which relates the list of tasks to what is under way.
  `TasksInv` says which task may follow which, and whose rows a task is
  about.  `StreamInv` says that the packets in the buffer and on the wire are what the
  task at the head of the list expects (`Expected`), that at most one command awaits an
  answer and it is the one that is being read (`Alone`), and that otherwise only the
  unread part of open rows is there (`Rest`).  The hard case is a transaction whose rows
  are left open: `database/sql` lets another call write its command although packets of
  the rows are still unread.  They have numbers of 4 or more, because `Query` has read
  the columns, and the new command expects 1 or 2 (`Blocked`); so its first read fails
  instead of taking a row. `NumbersInv` says that no number comes to 256, where the
  code's counter starts again at 0: this is what `Columns <= 25` is for.  `WatchInv` says
  that a cancellation under way is this call's, and `SoloInv` is the invariant for
  `Connect`, which is the only call of its behaviours.
* `RetryIsSafeOtherwiseHolds`: `RetryInv`.  While a command of the call is still to be
  sent, the server has done nothing for the call and nothing harmful is under way
  (`Untouched`); while its answer is read, not before the server takes the command, nor when
  it refuses the first statement of it (`TouchInv`).  A refusal of a later statement is what
  the property leaves out: it must, see section 5.  `mc.reset`, which lets a
  write look at the connection and report `ErrBadConn`, is not set while rows are open or once
  a command of the call has been sent (`FreshInv`): else a later write of the call could ask for
  what is done to be repeated.
* `InSyncHolds`: a pooled call that returns leaves nothing, by `PooledInv`, but for a file
  that is being sent, since the server does not answer its contents: `ContentInv` says
  that they are followed by the empty packet, or that the network is down and nothing
  will be read.  For `Connect` there is `SetupInv`.  `LoginShape` says which task may follow
  which, from the handshake to the last statement of the configuration; once the server
  has accepted, `Reached` relates the next task to what is still to come, the end of the
  login (`Accepting`) or the rest of the answer to one statement (`Answered`, by the sequence
  number).  A list that runs out therefore leaves nothing unread, and a `Connect` that
  fails has closed the connection or has that still to do.

TLC has checked these invariants on the instance of the run `mysql`, and with three calls
(1,605,325 states); the proofs are for any number of calls.

### Not proved, only checked by TLC

Liveness, which needs `ENABLED` and which the prover does not handle:
`LaggardCatchesUp`, `FirstBlockStored`, `CompleteIsActedOn`, `StartReturns`, `OnlyUpdateHangs`,
`ProgramsEnd`, `CancelReleases`, `WatcherStops`.  The ten invariants of `encodings`: they say
what recursive operators compute, and a proof would be by induction over data.  Every
other property of a passing run is a theorem.

## 5. Findings

1. **Two blocks on one parent** (`fork`).  `receiveTran` stores its entry and then
   counts the list it loads again.  Two goroutines can both find it full, and the
   leader makes two blocks on one parent; a replica can store both.
2. **Votes are lost in a goroutine-safe map** (`lost_entry`).  Load, append and
   store are not one operation.
3. **A signal is announced and forgotten** (`graceful`).  `MainLoop` sets `Running`
   after the goroutine that clears it has been started.
4. **A statement that was executed is sent again** (`mysql_file`).  A connection that
   breaks while a file is sent gives `errBadConnNoWrite`, which promises that nothing
   was sent, and `database/sql` repeats the whole statement.
5. **`Kind` answers for a value that has been decoded** (`rlp`).  `decodeByteArray`
   drops the error with which `Uint` refuses a zero byte, and with it the step that
   forgets the cached kind.

Seven more are stated in the modules, and TLC finds them violated when they are
given to it as invariants.

* `SelectedIsCommon` in `TxRound`: the log and the comments say that the common set
  of transactions is searched (`rtbitarry.go:62`); the code takes the union.  The two
  differ when a replica is a block behind where the size changes.
* `MapExclusive` in `TxRound`: `HashTranMap` is written for the next round while a
  goroutine of the last still reads it, at a replica that is not the leader.  At
  the leader a second start shows the same; so would, after a single start, the second
  goroutine of finding 1, which has made no block yet when the first one's is stored
  (the tally of `TxRound` is one step and has no such goroutine).
* `ChainLinked` in `ConsensusRestart` with `MaxStarts = 2` and `MaxRestarts = 1`: a leader
  that crashes and is started by a second request makes another block on the same
  parent; a replica stores both, as nothing compares a block with its predecessor.
* `RetryIsSafeWithoutFile` in `MySQLConn`: a refused statement repeats the ones before it.
  With `RejectReadOnly`, error 1290 or 1792 becomes `driver.ErrBadConn`.  `discardResults`
  (`packets.go:1145`) reads the answers to several statements one after the other, and
  when a later one is refused those before it have been executed, and are executed
  again.  The comment (`packets.go:584`) speaks of a new connection for the *next* statement.
* `OwnAnswers` in `MySQLConn` with `Columns = 254`: the sequence number has eight bits
  (`packets.go:45`).  In a transaction a command may be written while rows of a query are
  unread.  That their packets are not taken for its answer rests on their numbers, which
  come round to 1 after 256 packets.
* `BigIntIsWritten` in `MCEncodings`: `AddASN1BigInt` inverts a negative number and looks at the
  first byte, and the inverse of -1 has none: it panics (`cryptobyte/asn1.go:82`).
* `DefaultPortIsAdded` in `MCEncodings`: `ensureHavePort` (`dsn.go:632`) hands the host of
  `tcp([::1])`, with its brackets, to `net.JoinHostPort`, which adds a second pair; each time
  the result is written and read there are more.

Also met while modelling, and not shown by a run:

* *Round.*  A replica that is late with `store_block` drops the leader's next block
  in `Checkblock`, is not offered it again, and every tally needs its vote, so even
  without any failure the rounds may stop there (the liveness properties claim the
  laggard's own block only, and the first one).  `/receiveTx` appends with `RPUSH`
  to a key that `recTransV2` has set as a string, which Redis refuses
  (`lib/redis/redis.go:10` calls it a list).
* *Contract node.*  Its maps are declared and never made, so the first install
  panics (`lib/docker/lib/net/receiveBlock.go:19`); it broadcasts to `reciveTx` where the
  server registers `receiveTx`.
* *MySQL connection.*  The test `n == 0 && pktLen == len(data)-4` (`packets.go:169`) is
  true at every chunk of a large packet; `rows.Close` after a failed `NextResultSet`
  waits for an EOF that never comes; `Connect` with a context already done returns
  without cleaning up (`connector.go:66`); `getSystemVar` returns a slice of the buffer
  and reads again; a statement's query without a result leaves `rows.mc` nil; a LOAD
  DATA that fails within several statements leaves results unread; an error in
  place of the public key makes `pem.Decode` return nil, and panics.
* *MySQL values.*  A nullable BIGINT UNSIGNED above the greatest int64 is delivered
  as text while `scanType` announces `NullInt64`; a date with month or day 0 is an
  error in the text protocol and carried over in the binary one; a `?` within a
  quoted string is counted and replaced; a `?` directly after an identifier becomes
  part of it.  In data source names a password without a user, an empty collation,
  negative durations and an address with `@` are lost or misread; `tcp(::)`, which has no
  brackets, becomes `[::]:3306`.
* *RLP.*  `ListEnd` skips the last element of a list after `Kind` has looked at it;
  the type cache decides by the order of types which decoder a nil pointer of a
  recursive type gets; a nil `*struct` is written as `C0`, which does not decode.
* *DER.*  `builder.go:44` says "Writes that would exceed the buffer's capacity are
  treated as an error", but `flushChild` (line 259) ignores the child's error;
  `FixedBuilderKeepsBytes` states it and fails.  A prefix that does not fit followed by an empty
  continuation panics with "internal error"; `ReadASN1Boolean` reads the tag INTEGER
  where `AddASN1Boolean` writes BOOLEAN; `ReadOptionalASN1Boolean` reads from what is behind
  the element it has found; `readBase128Int` accepts leading `0x80`.
* *Hex.*  `big.go:185` says that `Exp` "does not change base or exponent", but it
  changes the base (`ExpKeepsBase` fails); `EncodeBig` of a negative number gives `-0x5`
  although "the sign of the integer is ignored" (`hexutil.go:149`); `ParseBig256` accepts
  `0x-5`.
* *Ed25519.*  `FromBytes` accepts y beyond the modulus and a sign for x = 0, which
  RFC 8032 refuses.

## 6. Not modelled, and the plan

Abstracted throughout: signatures and keys in the round, compression, JSON,
logging, the timing of the throughput report, SQL.  `times` and `transinblock` are
read in one step; a reader in the middle of `CheckAndStore` could see one old and
one new value.  The capacity of `Blockchains` (100,000) is not modelled.

Parts left out, and why:

* `lib/docker` beyond `receiveBlock.go` and `server.go`: the same files as `lib/net`, `util`,
  `cmd` and `redis` a second time, and a client of the Docker daemon.
* `cmd/config.go`, `util/flag.go`, `util/struct.go`: reflection over struct tags; no state
  after the start.
* `lib/mysql`, `publicKeyHandler.go`, `util/util.go`, `crypto/{crypto,ecc,rsa}.go`: single calls of
  libraries with their error returned.  The only caller of the insert is commented
  out (`byzantiumhandler.go:120`).
* `/receiveTx` and the older path (`SendTrans`, `pullTrans`, `findCommonTrans`) that no handler
  reaches.
* In the driver: the scrambles of passwords, dialing, the registries, the table of
  collations.  In `cryptobyte`: `GeneralizedTime` and `MarshalASN1`.  In `ed25519`: how 25 and
  26-bit limbs are packed into bytes, beyond the number they stand for, and the
  literal tables, which are computed instead.  SHA-1, SHA-512, DES and X.509 are
  external.

Next, in this order:

1. Results of any number of rows in `MySQLConn`, which make an unread row numbered 1 possible
   with any number of columns, as 254 columns do now; calls on a connection after one
   that met a packet out of sync or could not send its file, which `database/sql` keeps in
   its pool; `Connect` with a context already done, whose connection nobody closes.
2. The split tally for the votes as well, in one composition with `ConsensusRace`,
   and counters read one after the other; a bound on `Blockchains`.
