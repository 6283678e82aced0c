# CoinNews indexer: TLA+ models and proofs

The CoinNews indexer follows the active chain of a Bitcoin Core node, decodes
the messages in `OP_RETURN` outputs and keeps an SQLite index of them, which an
HTTP API reads.  "The chain is the only source of truth" (README.md of the
repository): what makes the program correct is that its index is what the chain
says, through reorganisations, failed calls and crashes.

This directory models the scanner, the two stores, the queries, both API
surfaces, the codec, the process and the node, checks them with TLC on small
instances, and proves with TLAPS, for every chain and every content, that the
index is what the chain says, that the queries and both API surfaces show it,
how far the in-memory store mirrors SQLite, that the decoders neither panic nor
accept what was not published, and that the process stays up.

## The system

| Component | State | Operations | Correct when |
|---|---|---|---|
| scanner (`scanner/scanner.go`) | Run's `next`, `prevHash`, `hash`, position in the block | `Run`, `resume`, `rewind`, `ProcessBlock`, `persist` | the index under the cursor is what the chain says; it reaches the tip |
| store (`store/sqlite.go`, `schema.sql`) | tables of items, stories, comments, votes, topics, continuations; the cursor | `Put...`, `InsertTopicIfAbsent`, `DeleteFromHeight`, `SaveCursor`, `LoadCursor`, `ItemByID`, queries | keys unique, references resolve, first topic and chunk and latest vote win |
| in-memory store (`store/memory.go`) | the same, in maps | the same | it agrees with SQLite |
| RPC client (`rpc/client.go`) | none | `GetBlockCount`, `GetBlockHash`, `GetBlock` | - |
| codec (`codec/`), script (`scanner/script.go`) | none | decode, encode, verify | what is encoded decodes to itself; malformed payloads are refused |
| API (`api/`) | none | read handlers over the store's queries | pages are consistent, parameters are bounded |
| commands (`main.go`) | the process: scanner goroutine, HTTP server, context | `run`, `index`, `serve` | errors are retried, shutdown is orderly |
| web page, API docs, deployment | none | static | - |

The scanner is the only writer of the store; it and the API's handlers share one
handle.  The scanner calls the node and the store, each of which may fail, and
is called again by the poll loop (`cmdRun`) or by the next process.

What is hard: the chain may be reorganised between any two calls; Run may stop
between any two writes (an error, a cancelled context, a crash); the cursor is
the only trace of how far it came, and is stored after the rows it covers and
after the delete of a rewind.  The readers see every state in between, and some
requests take several statements.  Scripts come from anybody, and one that
stopped the indexer would stop it again after each restart.  The goroutines of
a process share a context, a store and an exit.  PROJECT.json lists these
hazards line by line.

## The modules

- `Protocol` - the messages.  An item id is an outpoint, and `Msg[id]` what it
  decodes to: kind, validity of the signature, reference, author, topic,
  sequence number.  Texts, TLVs and times are left out.
- `Node` - the node as `scanner.BlockSource` shows it: a tree of blocks
  (`Height`, `Path`), their outputs in order (`Outs`), and the variable `tip`.
  `Activate(b)` is a new block or a reorganisation.  With `MayShrink` the active
  chain may get shorter (more work in fewer blocks, `invalidateblock`).
- `Store` - the tables of `schema.sql` as sets of rows, and one action per write
  operation of `SQLiteStore`.  An operation is one statement or one transaction,
  hence one step.
- `Scanner` - extends `Node` and `Store`.  `pc` is the call that Run makes next:

  | `pc` | call | actions |
  |---|---|---|
  | `wait` | (Run is called) LoadCursor, GetBlockHash of the cursor | `ResumeFresh`, `ResumeOnChain`, `ResumeDiverged` |
  | `delete`, `anchor`, `reanchor` | rewind: DeleteFromHeight, GetBlockHash, SaveCursor | `RewindDelete`, `RewindAnchor`, `RewindSave` |
  | `count`, `hash`, `block` | GetBlockCount, GetBlockHash, GetBlock | `CaughtUp`, `CountBlocks`, `FetchHash`, `FetchBlock`, `FetchBlockDiverged` |
  | `item` | verify, ItemByID, PutItem; after the last output SaveCursor | `SkipOutput`, `DropMessage`, `PersistItem`, `BlockDone` |
  | `payload` | the write after PutItem | `PersistTopic`, `PersistStory`, `PersistComment`, `PersistVote`, `PersistContinuation` |

  `Fail` is Run stopping anywhere; `HeightRefused` is getblockhash beyond the
  tip; `NodeStep` is the chain changing.  The constants `TornBlocks`,
  `TornRewinds` and `ReorgLimit` say which failures a run has: whether Run may
  stop inside a block, inside a rewind, and how many blocks below the cursor the
  node may replace.
- `ScannerProperties` - the invariants, action properties and liveness.
- `ScannerRestart` - the process restarted with another `-start`.
- `Follower`, `ScannerFollows` - the abstract specification of the index, which
  moves from chain to chain block by block, and the mapping under which `Scanner`
  implements it.
- `ScannerProofs`, `IndexProofs`, `FollowsProofs` - theorems about the scanner, the
  content of its index, and the refinement of `Follower`.
- `Queries` - extends `Store`: the read methods of `SQLiteStore` as operators on
  the tables, with the sorts, the ranking and the paging of `store.go`.
  `QueryProperties` - what they show of the index that the scanner keeps.
- `Reader` - extends `Scanner` and `Queries`: requests that read while the
  scanner writes.  `BeginTopics` and `EndTopics` are the two queries of
  `ListTopics`; `BeginWalk` and `WalkPage` are a client that asks for one page of
  `/v1/new` after the other; `WriterStep` is any step of the scanner, the node or
  a failure.
- `MemoryStore` - the maps of `store.MemoryStore` and one action per write
  method, called in any order; `MirrorsSQLite` is `Store` with its tables read
  off the maps, `MirrorsButChunks` the same without the continuations.
  `MemoryProofs` - theorems about both.  `MemoryQueries` - its read methods, beside
  those of `Queries`.
- `Api` - extends `Queries`: every handler of `api.go` and `connect.go` as the set
  of the responses it may send, with parsing, early returns and error statuses.
  `ApiProperties` - what a client may rely on.
- `QueryProofs` - theorems about the queries, the requests of `Reader` and the
  handlers of `Api`.
- `Codec` - CompactSize, TLVs, encoders and the digests that are signed, on
  sequences of bytes.  `Decoder` - extends it: one output from its script to its
  row, one action per decoder; `DecodeTLVs` is one round of the loop, and a slice
  out of range leads to `pc = "panic"`.  `CodecProofs`, `DecoderProofs` - theorems
  about both.
- `Daemon` - the process of `run`, `index` and `serve`: main, the indexer loop, the
  goroutine that shuts the server down, and the requests.  Run is one step that
  returns, with or without an error; what it does is `Scanner`.  `ListenAndServe`
  fails when it cannot listen, fails later when its listener does, or returns
  after `Shutdown`.  `DaemonProofs` -
  its theorems.
- `MCScanner`, `MCAnyFault`, `MCRestart`, `MCReader`, `MCMemory`, `MCDecoder` - the
  constants for TLC.

A definition whose comment begins with "Faulty" is a plausible bug in the
definition that follows it; substituted for it, it makes the property that
PROJECT.json names fail.

### Abstractions

A read of the store is part of the step that acts on it: nobody else writes.
GetBlock answers for a hash, also one that left the active chain; its content is
fixed, so only the hash matters.  SQLite runs in WAL mode with
`synchronous=NORMAL`: a power failure may lose the last transactions, but leaves
a prefix of them, which is the state after a `Fail` some steps earlier.  Two
processes indexing into the same database are not modelled: the interface is
documented as single-writer.

A `SELECT` without `ORDER BY` and a `range` over a map give their rows in an open
order: `QueryFeed` and `BuildFeed` are the sets of all the orders, and a feed that
is sorted afterwards by `sort.SliceStable` is a set of answers, of one element
when the sort decides every tie.  So is the list of topics, where two of one height
may come in either order.  A join is a join: `Joined` has a row for every row of
`cn_items` with the id.  The rank is `points * Decay[age]` with a
decreasing `Decay` in place of `points / (age + 2)^1.8`: a tie or an order between
stories of one age is the same, and stories of no points tie at any age.  A text
in a request is what its parser makes of it: empty, rejected or a value.  The
Connect messages have 32-bit numbers: `Uint32` and `Int32` wrap at `2 * Half`, which
is 2^32 in the code.

A byte has `Base` values.  CompactSize keeps its three forms and its markers at
`Base - 3`, `Base - 2` and `Base - 1`, so that with `Base = 8` the lengths on both
sides of the first boundary, and over-long forms of each width, are in the
instance; the code has 256.  As there, a push of two length bytes ends below the
smallest length that needs the four-digit form, so such a length is only read.  SHA-256 is taken to be
injective, and the only valid signature of a key is the one its owner made.  The
id of an item stands for its outpoint.

In `Daemon`, `net/http` and `database/sql` are external: `Shutdown` makes
`ListenAndServe` return at once while accepted requests go on, and a query on a
closed database fails.  The five seconds that `Shutdown` waits are not counted,
because main does not wait for them.

## What the runs show

The runs of `MCScanner` use `ReorgDepth = 1`, `StartHeight = 0` and a tree of 13
blocks of heights 0 to 4 with forks of one, two and three blocks (or its main
line); `any_fault`, which evaluates the queries in every state, takes eight blocks
up to height 3, with forks of two and three.  A rewind to an anchor needs two
blocks above the start, a reorganisation deeper than a rewind one more, a second
one on top another: four heights have all of these, and rewinds to the start
height too.  The blocks hold every kind
of message, a topic and a chunk created twice, three votes of one author for one
target (two in one block), an answer to an answer, a bad signature, and messages
that are in both branches of a fork at different positions.

| Run | Environment | Shows |
|---|---|---|
| `reorg` | reorganisations of up to `ReorgDepth` blocks at any moment; blocks and rewinds complete | the items under the cursor are those of its chain (`NoOrphanRows`, `NoMissingRows`, `OnlyProtocolRows`), with their payloads (`PayloadsMatch`), the first topics and chunks (`FirstWins`); votes are of the chain and the latest (`VotesLatest`); `Scanner` implements `Follower` (`FollowsTheChain`) |
| `crash` | the chain grows; Run stops anywhere | the same after replays, with no vote missing (`VotesComplete`) |
| `any_fault` | everything: any reorganisation, a shrinking chain, Run stopping anywhere, forward references | `RefIntegrity`, `CursorMoves`, `TypeOK`; the queries agree in every state of the tables: `CommentsReachable`, `CountsShown`; once the tip stays, calls stop failing and the chain is not shorter than the cursor, the cursor reaches the tip: `EventuallySynced` |
| `reads` | as `reorg`, with `ReorgDepth` 2 and requests between any two steps | `FeedIsTheChain`, `NoStorySkipped`, `CountsCoverTopic`; for both API surfaces `SurfacesAgree` and `PagesTile` |
| `memory` | the writes in any order, with rewinds to any height | `MirrorsButChunks`: but for the continuations, which no query reads, `MemoryStore` implements `Store`; `SameAnswers`: both backends answer alike, up to the order of comments |
| `decoder` | published messages, their copies with one byte changed, added or missing, and every short script | `NoPanic`, `Canonical`, `RoundTrip`, `Authentic`, `RawIsPublished`, `Terminates` |
| `daemon` | Run fails at any time, the interrupt and a failure of the listener come at any time or never | `CleanExit`, `ApiStaysUp`, `AcceptedIsAnswered`, `KeepsPolling`, `InterruptEnds` |

The properties about the content hold while the cursor is on the active chain
and no rewind is under way (`Settled`), for the rows the cursor covers.
`Counts` states the protocol's rule on the finished index, without reference to
the order in which the scanner worked: since the reference of a message must be
earlier, the three item properties together determine the table.
`FollowsTheChain` says it of the whole path: between any two steps of Run the
tables are those of a fresh scan of some chain (`IndexedHead`; during a rewind,
the block below its target), and they change by one block forwards or by a cut.
Votes are left out of it, because of `lost_vote`.

The other instances: `MCReader` has five blocks with a fork of two, two stories of
one transaction, two topics of one block, a story on both branches, comments whose
order the branches exchange, an answer to an answer, a vote against a story, and
pages of one story; the handlers are asked for limits and offsets below, at and
above the default and the length of the lists, and for subtypes with and without a name.  `Half = 16` leaves room for its
heights and counts, and the points of that story are negative.
`MCMemory` puts a vote at either of two heights and the other messages at one of
them, the chunk one block above its story, and rewinds to both: a put, a rewind
and a second put at another height is the shortest sequence in which the backends
could differ.  `MCDecoder` has lengths on both sides of the boundary of the
one-digit form, four-digit lengths, up to two TLVs, the longest headline and
chunk, all scripts of up to three bytes and all payloads of up to four bytes
after the magic.  `Daemon` has two requests, so that one may be served while the
other is lost.

### Where the code differs from what is written about it

Five runs expect a violation.  Each contradicts a line of the repository, quoted
under "findings":

| Run | What happens |
|---|---|
| `lost_vote` | a rewind deletes a vote that had replaced an earlier one; the earlier one is on the chain and not in the index |
| `torn_block` | Run stops inside a block, the block is replaced; its rows stay |
| `restart` | a larger `-start` on a restart: the next rewind skips heights |
| `index_poll` | the first error of Run ends `index -poll`, which the README says is retried on the next poll |
| `memory_rewind` | a rewind between a story and its chunk: the in-memory backend, said to mirror the rewind of SQLite, deletes chunks with their head and not by their height (`memory.go:91`) |

The passing runs also mark where their assumptions are needed.  Each of these
follows from the models; the first four appear when a constant of a passing run,
or a hypothesis of its property, is changed as shown:

| Change | What happens |
|---|---|
| `Reorg.cfg`, `TornRewinds = TRUE` | `NoMissingRows` fails: Run stops between the delete of a rewind and its cursor (`scanner.go:118`), the chain returns to the cursor's branch, and the deleted rows are never indexed again |
| `Reorg.cfg`, `ReorgLimit = 2` | `NoOrphanRows` fails: one block more than `ReorgDepth` while a block is in flight leaves rows of the old branch below the anchor (`scanner.go:126`) |
| `Reorg.cfg`, `TornBlocks = TRUE`, `Outs <- MCForwardOuts` | `OnlyProtocolRows` fails: a comment in front of its parent is dropped, or accepted if the block is replayed (`scanner.go:196`) |
| `EventuallySynced` without `LongEnough` | fails in `any_fault`: while the chain is shorter than the cursor, resume fails on every poll and does not rewind (`scanner.go:100`) |
| requests in flight at the interrupt | main does not wait for `Shutdown` (`main.go:110`, `114`): they may meet a closed store or be lost with the process; without an interrupt and a failure of the listener none is (`AcceptedIsAnswered`) |
| threads of the in-memory backend | comments of one height are ordered by id, not by position (`store.go:224`) |
| `ByAuthor` of SQLite | an offset without a limit is ignored (`sqlite.go:350`) |
| a limit of zero | no limit to REST (`api.go:199`), the default to Connect (`connect.go:332`); `SurfacesAgree` leaves it out |
| the front page | stories of one score and one height keep the order SQLite gave them (`store.go:200`), although "ties then fall back to newest" |
| the items of the zero key | the stories that have no author (`sqlite.go:286`) |
| a script with more after its first push | taken as its first push (`script.go:55`), although `OpReturnPayload` speaks of a single push |

### Fairness

`FairSpec` has weak fairness of the scanner's steps as a whole: the poll loop of
`cmdRun` calls Run again after every return, and Run, a single goroutine, makes
its next call.  Nothing is assumed of the node or of `Fail`; `EventuallySynced`
has as its hypotheses that at some point the tip stays and calls stop failing
(`Calm`), and that the chain is then not shorter than the cursor (`LongEnough`).

`Decoder` has weak fairness of its next step: it is sequential code without calls
that block.  `Daemon` has weak fairness of main, of the loop, of the goroutine
that calls `Shutdown` and of each handler: Go schedules goroutines that can run,
the RPC client has a timeout, and the timer fires.  There is none for the
interrupt, for a client or for the success of Run.

## What is proved

Eight modules hold theorems.  They rest on the assumptions that the modules name
and TLC evaluates: the blocks form a tree whose paths agree (`TreeAssumption`),
the outputs of a block are a sequence in the order of their positions
(`OutsAssumption`), a chain confirms a transaction once (`UniqueAssumption`), the
numbers are natural numbers, and for the queries and the bytes those given below.

### The scanner, with all failures allowed: `ScannerProofs`

For every tree of blocks, content, start height and reorg depth:

- `TypeCorrect`: `Spec => []TypeOK` (types and primary keys);
- `RefsAlwaysThere`: `Spec => []RefIntegrity`;
- `CursorNeverSkips`: `Spec => CursorMoves`.

`RefIntegrity` is not inductive: that a new comment's parent has no greater
height needs to know that no row is above the block being indexed.  `RowsBelow`
says so, for every place where Run can be, and in turn needs `Control`: a
previous hash is the cursor's, without one Run is at the start height, a rewind
starts at the cursor and ends below it, the start height is never above the
cursor.  `Pending` carries the reference from PutItem to the write of the
payload.  `IInv` is the conjunction; one lemma per conjunct goes through the
actions.  The action property follows from it step by step.

### The content of the index: `IndexProofs`

The properties about the content need one of two environments, those of the runs
`reorg` and `crash`; `torn_block` and the table above show what happens outside.

- `ShallowReorgs`: the chain is replaced within `ReorgDepth` below the cursor and
  does not get shorter; a block and a rewind, once begun, complete.
- `OneChain`: all blocks are on one chain, and no message refers to a later output
  of its own block; Run may stop anywhere.

In either, for every chain and content: `NoOrphans`, `OnlyTheProtocol`,
`NothingMissing`, `PayloadsThere`, `FirstAlwaysWins`, `LatestVoteWins` (the six
content invariants of the runs); and `NoVoteLost` (`VotesComplete`) in `OneChain`.

The inductive invariant `IndexInv` speaks about every state and not only about
settled ones.  Its subject is `IndexedHead`, the block that the tables stand for.
`Source` says where a row may come from: the chain of that block, the outputs
already passed of the block being indexed, the row between its two statements,
or, where Run may stop inside a block, an earlier attempt at the block scanned
next (`LeftOver`).  `Complete` says what is there: whatever counts and was passed,
and of a block begun earlier everything up to its last row.  This is why a replay
accepts the same messages again.  `Rules`, `Payloads`, `Firsts` and `Lasts` are
the content properties, stated for rows whose statements were all executed
(`Done`).  `Anchored` is what makes a rewind land on the chain that was indexed:
below `cursor.height - ReorgLimit` the active chain and the cursor's are the same,
one block more once a block was fetched on top of the cursor.  `Straight` says
that on one chain nothing is rewound.

### The refinement of Follower: `FollowsProofs`

`Follows`: in the same environments `Spec => FollowsTheChain`.  The abstract
specification computes the index by two nested folds, over the blocks of a chain
and the outputs of a block.  From `IndexInv` it is shown that the rows below an
output, seen as an index (`View`), are taken by `Index` to the rows below the
next (`IndexStep`): a row is added exactly if it is in the table.  By induction
over the outputs and then over the blocks the tables are a fresh scan
(`IndexIsFresh`), so a step of the scanner has only to be looked at for what it
does to `IndexedHead` (`HeadMoves`): `BlockDone` extends it, `RewindDelete` cuts
it, every other step leaves it.

Induction over data is done with `SetInduction` of `IndexProofs`: a set of numbers
with zero and all successors has all numbers.  It has no operator as a parameter,
so the provers can use it, and follows from the well-foundedness of `<`.

### The queries and the API: `QueryProofs`

Beside the above these rest on the topics, keys, subtypes and flags being of their
types (`QueriesAssumption`), on the times of blocks being natural numbers
(`TimesAssumption`) and on the limits, offsets and page sizes being natural numbers
(`ApiAssumption`, `ReaderAssumption`, `PageAssumption`).  `SurfacesAreEquivalent` also
needs heights below 2^32, and fewer than 2^31 items and authors (`SizeAssumption`):
beyond, the Connect conversions wrap and the surfaces differ.

With all failures allowed, in every state of the tables:

- `QueryInvariance`: `Spec => [](IInv /\ QueryInv)`;
- `NoCommentLost` (`CommentsReachable`), `CountIsShown` (`CountsShown`);
- `SurfacesAreEquivalent`: `ReaderSpec => []SurfacesAgree`.

With requests between any two steps of the scanner:

- `ReadersOnlyRead`: `ReaderSpec => Spec`, which carries the theorems about the index
  over to a scanner that is read from;
- `WalkSkipsNothing` (`NoStorySkipped`) and `PagesMakeUpLists` (`PagesTile`) in the
  environments of `IndexProofs`;
- `FeedFollowsTheChain` (`FeedIsTheChain`; for `Spec`) and `CountsFollowTopics`
  (`CountsCoverTopic`) under `ShallowReorgs`, the environment of run `reads`.

The sorts come first.  A stable sort puts an element where its rank says, the
number of elements before it; the ranks are a permutation of the positions
(`Ranks`), so a sorted list has the rows of the unsorted one, each once, and where
the order has no ties it is determined by them.

`QueryInv` says that the tables are finite, that a payload row is of the kind of
its message, that the height of a row is that of a block (`Mined`), and
`Grounded`: no set of indexed answers refers only to itself.  The
last is what `CommentsReachable` needs.  `RefIntegrity` would allow two comments
that answer each other, which no thread of a story would show; it cannot happen
because an item is put only after what it refers to, and a rewind that takes a
parent takes its children.  Given `Grounded`, the comments that no thread of a
non-comment shows have to be none, as each would answer another of them.

`FeedIsTheChain` follows from `IndexInv`: under a cursor at the tip the rows are
those of the chain, so the comments of a story, the first of them and the order
of the stories are.  `WalkInv` says of a client that every story which was there
when it began was shown, or has at least `at` newer ones and so is still to come:
without a rewind the scanner only adds rows, which moves a story towards later
pages, and two stories never share a position (`NoTies`), so the order among them
does not change.  `TopicInv` says of the two queries of `ListTopics` that the
stories preceding the creation of a topic were all there when the topic was read
and are still counted.

The surfaces agree because each handler parses the request to the same query
and converts the same results, field by field: a height is that of a block, a
comment count at most the number of items, and points are a difference of two
numbers of authors, so that no conversion to 32 bits changes them (`RowsFit`).

Pages make up a list because
without ties a feed has one order and every page is a piece of the same list;
`PiecesTile` puts the pieces together by induction over their number.

### The in-memory store: `MemoryProofs`

`MemoryMirrorsRest`: whatever is called and however far is rewound, every method
on the maps is the same method on the tables of `Store`, the continuations
excepted (`MirrorsButChunks`).  `MemoryMirrors`: the continuations are mirrored too
(`MirrorsSQLite`) in a behaviour in which no rewind separates a chunk from the item
it continues (`NoneSeparated`).  The code does not ensure this, and run
`memory_rewind` shows a rewind that does; the theorem says that there is no other
difference between the backends.

### The bytes: `CodecProofs`, `DecoderProofs`

For every base of at least 7, all opcodes outside the direct pushes, all field
lengths, any set of scripts and of messages that keep to the protocol's limits
(`CodecAssumption`, `OpcodesAssumption`, `MessagesAssumption`; the encoders do not
enforce the limits, so a publisher has to):

- `ReadIsCanonical`, `ReadsBack`: CompactSize is read in one form only, and read
  back whatever follows;
- `EncodeTLVsInjective`, `EncodeInjective`: an encoding determines its message;
- `NeverPanics`, `OnlyCanonical`, `RawKept`, `OnlyAuthentic`, `RoundTrips`: the five
  invariants of run `decoder`.

`DecoderInv` says that what is decoded so far, encoded again, and the rest make up
the payload, and that a row and a verified message agree with it.  `RoundInv`
says the converse for a message that was published and not changed: at every
point the rest is the encoding of the part still missing.  `Authentic` follows
from `DecoderInv`, from the injectivity of the digests and of the encoding.

### The process: `DaemonProofs`

`ExitsCleanly` (`CleanExit`) and `ServerStaysUp` (`ApiStaysUp`), for any set of
requests.  `DaemonInv` relates the place where main is to the store it has opened
and closed, the goroutines to the command that started them, and an end of the
server to its reasons: the interrupt, its listener, or an exit.

### Only model-checked

- Liveness and everything that needs fairness (`EventuallySynced`, `Terminates`,
  `AcceptedIsAnswered`, `KeepsPolling`, `InterruptEnds`): the prover has no rules
  for it.
- `SameAnswers`, that the in-memory backend answers like SQLite: its loops are
  folds over maps in an open order and `SelectSeq`, which the prover has no
  definition for.  The writes of the backend are proved (`MemoryMirrorsRest`).

## Plan

1. (done) `Protocol`, `Node`, `Store`, `Scanner`, their properties, first proofs.
2. (done) `Queries`, `Reader`, `MemoryStore`, `MemoryQueries`, `Api`, `Codec`,
   `Decoder`, `Daemon`, `Follower`.
3. (done) Proofs about the content of the index, `Follower`, `MemoryStore`, `Codec`,
   `Decoder` and `Daemon`.
4. (done) Proofs about the queries, `Reader` and `Api`.
5. The reads of the in-memory backend (`SameAnswers`), once its loops are stated
   without `SelectSeq`.

## Not modelled

The static documentation pages, the web page and the deployment scripts (no
state); the text of JSON and of HTTP, logging and flags; texts, block times as
dates and the retention of topics, which the code stores and returns unchanged;
the hash of an item id, SHA-256 and BIP-340, which are external; `FindAll` and
`pageConnect`, which nothing calls; the reassembly of continuations, which the
code does not do.
