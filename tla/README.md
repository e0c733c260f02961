# TLA+ models of the BTC vendor tool

The vendor tool runs beside one signer of a bitcoin multisig.  It scans the Poly
chain for unlock transactions (`makeBtcTx`), signs them with the vendor's key,
posts the signatures to Poly (`BtcMultiSign`) and keeps a record of each until
Poly announces that the transaction has its quorum (`btcTxToRelay`).  What the
tool must not do is miss an unlock: the money of a user stays locked.  Before that,
a web console sets the vendor up: it makes keys and the redeem script, and the
vendors of a multisig agree through it on what Poly binds to their script.

## Inventory

| component | state | operations | interacts through |
|---|---|---|---|
| observer (`observer/alliaob.go`) | position `top`, `lastRecorded`, the pass in progress; the file `last_height` | `Listen`, `checkEvents`, `getLastHeight`, `setLastHeight` | reads the chain by RPC, sends on the channel (or `SendToSign`), calls `SetTxDone` |
| channel (`cmd/run.go:158`) | 100 items in memory | send, receive | observer to signer |
| signer (`signer/signer.go`) | the item at hand | `Signing`, `getSigs`, `Sign` | receives from the channel, posts to Poly, calls `PutSignedTx` |
| record store (`db/db.go`) | LevelDB entries and total, cache of the newest 100 | `PutSignedTx`, `SetTxDone`, `GetSignedTx`, `GetTotalTxNum`, `ReadFirstBatch` | shared by both goroutines under a lock |
| process (`cmd/run.go`) | the mode | `run`, `startObserver`, `startSigner`, `startServer` | starts the goroutines; exits when a start fails |
| REST (`rest/`, `ObCli`) | requests and their goroutines | `SendToSign`, `SignTx`, `Sign` | observer process to signer process, HTTP |
| item encoding (`utils/utils.go`) | none | `Serialize`, `Deserialize` of two items | REST bodies, LevelDB values |
| web console (`web/`) | the `Config` in memory, the SDK's client, the account, the bitcoin net | the form handlers, `/status` hands over to `run` | shares all of it with `run`, without a lock |
| governance (`web/service`) | what Poly has bound to a redeem script | make a script, sign and submit a contract or parameters | signatures are passed on by hand between vendors |
| configuration (`config/`) | the JSON file | `NewConfig`, `Save` | read and written by `run` |
| logging, `rest_client.go` | - | - | output only; called by nobody |

The hard parts: two goroutines and the chain interleave around one record (post,
record, announce, mark); the snapshot of the position is durable and the items it
covers are not; heights are subtracted as `uint32`; a post or an HTTP request may
be delivered and its answer lost; a record is two writes in LevelDB plus a cache;
requests of the console run at the same time as each other and as `run`; what a
vendor signs and what another submits come from two forms and two configurations.
Each is a hazard in `PROJECT.json`, with its line and the properties aimed at it.

## Modules

| module | models | state and actions |
|---|---|---|
| `PolyChain` | the Poly chain, external | `chain` (blocks of notifications), `posted`; `CommitBlock`, `AcceptSigs`.  A bitcoin transaction is its identity plus what its scripts hold, and its hash covers both: `ToSignTx`, `SignedTx` and the stripped form have three hashes |
| `TxChan` | the Go channel | `Send` blocks when full, `Recv` when empty |
| `Observer` | `alliaob.go` | `obPc` is the point `Listen` has reached.  `ObStart`, `Tick`/`Idle`, `CheckToSign`/`CheckSigned`/`CheckOther` (one notification each: the send can block between two), `EndBlock`, `EndPass`, `SaveOpen`/`SaveWrite`/`SaveFails` (truncate, then write), `ObCrash`.  RPC failures are waited out without a change of state: stuttering |
| `Signer` | `Signing`, `getSigs` | `Take`/`TakeUnsignable`, then `PostOk`, `PostLost` (delivered, `PostErr`, retried), `PostRefused` (dropped), `Record` |
| `TxStore` | what `db.go` promises | a durable record per key: none, open, done; a call may fail without effect |
| `VendorTool` | `run`, mode `all` | composes the four by sharing their variables: `ToolSetTxDone` and `ToolRecord` conjoin the store's call to the goroutine's step.  `Crash` at any step; histories `lost` and `missed` |
| `SigningService` | what the tool does for Poly and the vendor, seen from outside | the transactions `asked` for, `completed`, `signed`, and the `record` of each; `PolyMoves`, `Sign`, `OpenRecord`, `CloseRecord`.  Nothing is ever undone, and a crash is not seen |
| `VendorDB` | `db.go` | entries, total, cache, total in memory; a call is one action under the lock, except `PutEntry` and `PutTotal`, the two writes of `PutSignedTx`.  `SavedItem` keeps its time and done flag; the clock may be set back, and then a key is cached twice and `Latest` is the copy a lookup finds.  LevelDB may fail to read or write: a total that cannot be read at a start is 0.  The history `cut` says that a process began with another total than the one before had |
| `SplitMode` | modes `onlyob`/`onlysig` | one pass of the observer, requests as goroutines of the server that outlive the client's timeout, responses with error and description.  `PostOk`, `PostLost`, `PostRefused` are the outcomes of `BtcMultiSign` in `Sign`; a refusal (a duplicate, a quorum reached by the others, any failure of the node that is no `PostErr`) is answered as a failure with nothing posted.  `OthersComplete` is the rest of the multisig |
| `WebConsole` | `web/router`, `web/controller` | `conf`, `BtcNetParam`, `client`, `acc` are shared; a request is a goroutine with its place `pc`.  `HandleInit`, `HandleStatus`, `HandleFuncSet`, `HandleGenePrivk`, `HandleGeneRedeem` start one; `StatusHeader`, `StatusFields`, `GetORCPwd`, `FuncSend`, `CloseDone` are its later stretches |
| `Startup` | `cmd/run.go`, `config/config.go` | extends `WebConsole`.  `runPc` is where `run` is: `Start` (load), `OpenDb`, then `SetUp`, or with the console `HandOver`/`SaveWrite` (truncate, then write), passwords, redeem script, `StartObserver`, `StartSigner`, `NewSigner`; `Exit` for each fault `run` exits or panics for; `Crash` |
| `Governance` | `web/service`, the eight handlers that use it | each vendor's redeem script, the signatures made, what Poly has bound; `GeneRedeem`, sign and set for contracts and parameters, from the guided pages and the pages of their own |
| `ObserverProofs`, `VendorToolProofs`, `VendorDBProofs`, `SplitModeProofs`, `StartupProofs`, `GovernanceProofs` | | the theorems |
| `MC...` | | instances for TLC |

Definitions named after a mutation (`TickSkips`, `PostGivenUp`, ...), marked
"Mutant", are bugs the code could have had; no specification uses them.  Each
property has one that breaks it.

## Runs

| run | shows | bounds |
|---|---|---|
| `observer` | `CheckpointSound`: `last_height` is never ahead of the scan.  `UnlocksCheckpointed`: it covers the unlocks handed over.  `SavedEveryCircle` | 4 blocks, 2 transactions, period 2, lag 2: several passes between snapshots and a height that goes backwards past a snapshot; channel of 1, so that sends block; disk failures; crashes without bound |
| `start_height_below` (violation) | `NeverBelowStart` fails | start height 2, empty chain |
| `tool_safety` | `NothingForgotten`, `RecordsTruthful`; `OpenOnlyIfMissed`: a record behind the observer is open only if its `SetTxDone` came before `PutSignedTx` or failed | 3 blocks of up to 2 notifications, 2 transactions (one the others can complete alone, one that Poly may refuse), database failures, 1 crash |
| `tool_live` | `EveryUnlockSigned`, `RecordEventuallyDone` with a start height; `StartHeightMakesUp`: what a crash took is dealt with by the time a process has passed its block again.  `ImplementsService`: the tool implements `SigningService`, with every scan, post and put repeated after the restart | start height 1, 3 blocks, 2 transactions, one of which cannot be signed, disk failures, 1 crash |
| `tool_loss` (violation) | `EveryUnlockSigned` fails without a start height | 1 block, 1 transaction, 1 crash |
| `db` | `CacheIsNewest`, `CacheCoherent`, `NeverOvercounts`, `FirstBatchRight`, and `ImplementsStore`: the entries refine `TxStore` | 4 keys, interchangeable, cache of 2 (evictions and loads both happen), failed reads and writes, restarts without bound, a clock that may be set back at any put |
| `db_total` (violation) | `TotalExact` fails | 2 keys |
| `split_live` | `ReplyTruthful`: `SendToSign` reads the answer to what it sent, and a success is true.  `HeadSigned`: the first transaction is posted, or gets its quorum from the others | 2 transactions, every choice of unsignable ones, the first one of those the others can complete alone, 3 goroutines, 2 crashes of either process |
| `split_stuck` (violation) | `EveryItemSigned` fails | no crash, nothing unsignable, nothing the others complete |
| `console` | `RunsAsSaved`: what the tool was started with is in the file.  `NetMatchesConf`, `SentByOwnWallet` while requests do not overlap.  `StatusStartsTool`: `/status` leads to a running tool or ends the process | a complete and a fresh configuration; 2 requests in flight, 2 in the life of a process, so that one can change the configuration behind the other and behind `run`; forms with missing, empty, wrong and good fields; the console and three other command lines; 2 starts, so that a file cut off by a crash is read again; failing disk |
| `console_direct` (violation) | `StartsAsConfigured` fails | 1 request, the form empty, a complete configuration |
| `governance` | `BoundByQuorum`, `QuorumNotRefused` | 2 vendors (symmetric), 2 signatures, 2 submissions: enough for a script of two keys made by both or by one, signatures of another form or script among them, and a second version; a contract whose address is as long as a number, so that its message is that of the parameters |

Deadlock is checked in the runs of the observer, the tool, the store and split
mode: an observer blocked on a full channel with nobody left to read it would be
one.  The runs of the console and of the governance stop when their bounds on
requests, starts and submissions are used up.

### What the violations say

* `tool_loss`: the snapshot is written when the items of the pass are in memory
  only.  A crash before the post loses them; with `PolyStartHeight` 0 the next
  process starts above their blocks.  With a start height (`tool_live`) every
  restart scans again from there and nothing is lost; `ToolStartHeightMakesUp`
  proves the safety half of it for any number of crashes.
* `start_height_below`: `newTop-top <= 0` on `uint32` is equality, so a node that
  is behind the configured height pulls the position down to its own.
* `db_total`: entry and total are written separately.  `db` shows how far that goes
  (`NeverOvercounts`, `FirstBatchRight`): the total is never too high, a failed write
  of it is made up for by the next put, and a short total makes the first batch
  short, but never wrong.
* `split_stuck`: the client wants the description `SUCCESS`, the server leaves it
  empty; the first unlock is posted, refused, refused... and the second never sent.
  `SplitPostsOnlyFirst` proves that this is no matter of the run's size.
* `console_direct`: `HandleStatus` sets the net's parameters only from the form,
  where the field is shown empty whatever is configured; left empty, the
  parameters stay nil and `NewSigner` panics.  (`HandleInit` falls back to the
  configuration.)

Also met, and not worth a run: the block at `PolyStartHeight` itself is not scanned
(`top = startHeight`, then `h := top + 1`), where README.md:46 says "start scanning
from this height".

## Fairness

`FairSpec` assumes that a goroutine that can run runs (weak fairness of the
observer's and the signer's steps), that the tool is started again after a crash,
that the node reports the tip of the chain again and again while it is at it
(strong fairness of `Tick(Len(chain))`: a lagging answer disables it), and that a
post that is retried for ever is at some time answered.  The last two stand for
the loops in `Listen` and `Signing`, which retry without a limit.  The growth of
the chain, crashes, lost answers and refusals are never forced.  `SplitFairSpec`
assumes the same of the request loop and of the server's goroutines.  There a
refusal is answered, and the client repeats the request, so that the node's failures
have to pass: signatures for a transaction without quorum that are posted again and
again are at some time accepted (strong fairness of `PostOk`, which every answer
disables).  For one that has its quorum nothing is assumed: it is then refused and
repeated for ever.

`StartupFairSpec` assumes that `run` goes on while it can (its calls return, a
prompt is answered) and that a request that has arrived is handled.  Requests,
starts and crashes are never forced.  Weak fairness is enough: nothing but the end
of the process disables a step of `run` or of a handler once it is enabled.

## Proofs

`ObserverProofs` proves, for every value of the constants (any number of blocks
and transactions, start height, period, lag, capacity):

* `ObsTypeCorrect`, `ObsCheckpoint`: `ObsSpec => []ObsTypeOK`, `[]CheckpointSound`.
  `CheckpointSound` speaks of the file alone and is not inductive.  `ObsInv` adds
  that the position in memory has the same property, that during a pass
  everything below `h` has it, and that `newTop` is a block of the chain (so that
  `chain[h]` is defined).  `EndPass` needs the second to give the first, and
  `SaveWrite` the first to give the file's.
* `ObsUnlocksCheckpointed`, `ObsSavedEveryCircle`: `[]UnlocksCheckpointed`,
  `[]SavedEveryCircle`.  Both speak of the moment between two passes; `SaveInv`
  carries them through a pass: as long as it has captured nothing, the blocks it
  has read hold no unlock that the file does not cover (`PassedCovered`), and the
  heights in the file and in memory are blocks of the chain or the start height
  (`HeightsKnown`), so that what the chain grows by lies above them.

`VendorToolProofs` builds on it:

* `ToolImplementsObserver`: every step of the tool is a step of the observer, of
  its environment, or a stutter; so `ObsCheckpoint` holds of the tool.
* `ToolForgetsNothing`: `[]NothingForgotten`.  `HandledStep` shows that a step
  adds at most the notification `checkEvents` is at to the handled ones, and
  `AccountedStep` follows an item from the channel to the signer, to Poly or into
  `lost`.  The strengthening (`ScanInv`, `ItemInv`) says that only blocks of the
  chain were scanned and that the item at hand is one the observer sent, with the
  hash of its unstripped form.
* `ToolRecordsTruthful`, `ToolTypeCorrect`.
* `ToolOpenOnlyIfMissed`: `[]OpenOnlyIfMissed`, which is not inductive: a record
  that is neither done nor missed could be opened later.  `RelayInv` says that the
  record of every announcement passed is done or its key missed; both are stable
  (`ClosedStable`), and the observer's key is the signer's (`AnnouncedKey`).
* `ToolResumesSafely`: `NothingForgotten` and `CheckpointSound` together.  Every
  unlock up to `last_height`, where the next process resumes, is dealt with or was
  lost by a crash.
* `ToolStartHeightMakesUp`: `[]StartHeightMakesUp`.  `NothingForgotten` allows for
  `lost`; here a crash throws the observer back behind every block (`Behind`) and
  the rescan deals with each again, so that what a crash took needs no excuse
  (`BehindStep`, `DealtStep`).
* `ToolImplementsService`: each step of the tool is a step of `SigningService` or a
  stutter.  `AskedInv` is what the mapping needs beyond `ToolInv`: what is in the
  channel or with the signer is on the chain.  A second post (`PostIsSign`) or put
  (`StoreIsRecord`) of the same transaction is a stutter; the records can be
  mapped one by one because a key belongs to one transaction only (`OneRecord`).

`VendorDBProofs`:

* `DbTypeCorrect`, `DbCacheCoherent`, `DbNeverOvercounts`: types and the bound of
  the cache; the cache is never behind LevelDB; no total exceeds the records, and one
  that was not cut equals them.  The type invariant is inductive, coherence is
  relative to it, and the total needs `TotalInv`: the right number is in memory while
  the process runs (`PutTotal` may have failed), in LevelDB between two processes.  They rest on
  what a put (`CachePutItems`) and a load (`LoadedItems`) leave in the cache.
  They hold whatever the clock does: with copies of a record in the cache,
  coherence is about the one that `Get` finds, and `LatestMoves` shows that a put
  or a load never uncovers another.
* `DbImplementsStore`: `DbSpec` implements `TxStore`'s specification under the
  mapping of each entry to its state, whatever fails and wherever the process dies.
* `DbCacheIsNewest`, `DbFirstBatchRight`: `[]CacheIsNewest`, `[]FirstBatchRight`.
  `Newest` is the one array of the stored keys that is sorted by time.  That there
  is such an array, and one only, would be an induction over the number of records;
  instead `OrderInv` carries it along the behaviour: a put at a later time than all
  others extends the order at its front (`PutOrder`), and no other step touches it
  (`QuietStep`).  With `TotalInv` a full or complete cache is not short; without it
  what is returned is still the head of the order.

`GovernanceProofs`, for any vendors, scripts, forms and numbers of signatures:

* `OnlyWhatAQuorumSigned`, `AgreedFormsAreAccepted`: `[]BoundByQuorum` and
  `[]QuorumNotRefused`.  Poly sees messages, the properties speak of forms;
  `SigInv` is the link that makes them inductive: a signature is one of the message
  that its form, with numbers that parse, and its redeem script stand for.
  Contract and parameters are laid out alike and carry no tag, and the code does not
  check an address's length; so what a quorum has agreed on are the values
  (`SameMessage`), not whether they were a contract's.  `GovInvariant` proves the
  three together.

`SplitModeProofs`, for passes of any length and any number of goroutines and
crashes:

* `SplitTypeCorrect`, `SplitReplyTruthful`: `[]SplitTypeOK`, `[]ReplyTruthful`.
  The strengthening (`Busy`) is that a goroutine that is not free works on one of
  the pass's transactions.  A failure that is answered says nothing about Poly, and
  nothing is claimed of it.
* `SplitPostsOnlyFirst`: `[](posted \subseteq {1})`, because the position never moves
  and no goroutine ever works on another item (`OnlyFirst`).

`StartupProofs`, for any forms, command lines and files, requests, starts, crashes:

* `StartTypeCorrect`, `NetIsConfigured`: `[]StartupTypeOK`, `[]NetMatchesConf`.
  `StartInv` adds that what `Save` has marshalled is a configuration, and that a
  process that ended leaves no net parameters behind.
* `ToolRunsAsSaved`: `[]RunsAsSaved`, which speaks of the running tool only.
  `SavedInv` follows each value from the configuration to where `run` keeps it
  (`snap`, `rb`, `started`), step by step (`ReadOK`), along the way that the
  command line selects (`WayOK`).
* `ConsoleSendsByOwnWallet`: `[]SentByOwnWallet`.  `SendInv` says that without an
  overlap one request at most is busy (`Alone`), and that the account is the one it
  opened as long as it is about to send (`OpenedOwn`).

Assumptions: those named in the modules, on the constants only
(`ChainAssumption`, `ChanAssumption`, `ObserverAssumption`: heights fit their
width; `SignerAssumption`, `ToolAssumption`, `DbAssumption`, `SplitAssumption`,
`StartupAssumption`: a configuration file has all fields; `GovAssumption`: the
fields of the two kinds of forms, nothing about their values).

Every invariant and refinement that a run checks is proved.  Model-checked only is
liveness, which the prover cannot reach: `EveryUnlockSigned`,
`RecordEventuallyDone`, `HeadSigned`, `StatusStartsTool`.

## Abstractions

* Heights stay below `UintMod` (2^32 in the code, 16 in the runs); only their
  difference wraps.
* Poly's blocks are final; an unlock is created once; a relay follows in a later
  block.  Poly refuses signatures it already has, or may accept them again.
* With `ClockSetBack` a put may have any earlier time.  A load may then cache a
  record twice; `CacheIsNewest` and `FirstBatchRight` are claimed only while the
  clock has grown (`wentBack` is the history), the rest always.
* `SignTx` answers a body that does not decode with errors of its own; they are left
  out, as `SendToSign` posts what it has serialised itself.
* `ReadFirstBatch` and `GetSignedTx` that fail in LevelDB return an error and change
  nothing: stuttering.
* A handler of the console is atomic between calls that block (an RPC, a wallet).
  The assignments inside a stretch race with other requests in the code; the
  properties about two shared variables are therefore claimed only while no two
  requests have overlapped (`overlap`), and `RunsAsSaved` until a request changes
  the configuration behind `Save` (`parted`).
* A form's fields that do not matter to a handler are left empty.  A wallet is its
  file and the password of its default account.
* Poly's side chain manager is external.  From how the tool calls it: it rebuilds
  the message from what is submitted, wants signatures of as many of the script's
  keys as the script requires and versions that count up, and must accept a
  submission that has exactly that.
* The log's copy of a transaction after the send (`alliaob.go:175`) races with the
  signer and is used for a message only: left out.

## Not modelled

* The item encoding: byte layouts without state; that an item reads back as it was
  written is taken for granted.
* Logging, views and scripts: output only.  `rest_client.go`: nothing calls it.
  `Stop` and `Restart` of the REST server: nothing calls them.
* The figures `/status` collects for its page; the fields of the configuration that
  nothing changes at run time (they are constants).
* The cryptography of signatures and wallets; the contracts of Poly.

## Plan

1. done: all modules above, their runs, and the proofs of every invariant and
   refinement that a run checks.
2. `SigningService` is implemented by mode `all`.  What split mode keeps of it:
   `Sign` of the first item of a pass, and no records at all (`Signer.Sign` does not
   call `PutSignedTx`).
3. What holds of the cache's order under a clock that is set back.
