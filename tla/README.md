# memory-blackbox: TLA+ models, model checking and proofs

memory-blackbox records what an AI agent writes to and reads from its memory in
an append-only, signed ledger, and links the records into a provenance graph, so
that an incident can be traced to its source and rolled back. This directory
holds TLA+ models of the parts of that program whose correctness depends on the
order of things: transactions and failed commits, crashes and restarts, several
processes on one file, commands that run beside a recording agent, an external
log that answers late or not at all, a clock that is set back.

Paths below are relative to the repository, with `src/memory_blackbox/` left out
where the file name is clear. Hashes, signatures and ids are symbolic; nothing
here says anything about cryptography.

## 1. The system

### Components

| Component | State it keeps | Operations | What makes it correct | Status |
|---|---|---|---|---|
| Ledger store (`ledger/store.py`, `schema.sql`) | tables `ledger`, `checkpoints`; the connection's open transaction; the in-memory leaf cache `_leaves` | open, `append`, `checkpoint`, close, death of the process | rows always chain; every signed root is the root of the rows; no record twice; an answer means durable and, at the cadence, sealed | modelled: `Ledger`, `LedgerRows`, `AppendOnlyLog` |
| Ledger verification (`ledger/chain.py`, `query/verify.py`, `crypto/signing.py`) | none | `verify_chain`, `verify_merkle`, `verify` | passes on everything the program wrote, and names the right kind of failure | modelled: `LedgerRows`, `Anchoring` |
| Merkle tree (`merkle/tree.py`) | none; a loop over levels | `compute_root`, `inclusion_proof`, `verify_proof` | computes the RFC 6962 tree hash; a proof binds one leaf; a root determines all leaves | modelled: `MerkleTree` |
| External anchoring (`anchor/verify.py`, `store.py`, `file_witness.py`) | table `anchors`; the witness file or Rekor | `anchor_now`, `verify_anchors` | no alarm on an untouched ledger; a verification that is handed an entry of lost history reports it | modelled: `Anchoring` |
| Rekor client (`anchor/rekor.py`) | the remote log | publish, enumerate, fetch, `verify_receipt`, `verify_inclusion` | an untouched ledger raises no alarm, whatever request fails; a receipt passes only for what the log holds | modelled: `Anchoring`, `LogInclusion` |
| Capture engine and graph (`capture/engine.py`, `dag/store.py`, `model/edges.py`) | rows of the ledger, table `edges` | `record_write`, `record_retrieval`, `record_action` | the edges are what the payloads declare; the graph is acyclic | modelled: `Provenance` |
| Graph queries, rollback (`dag/traverse.py`, `query/blast_radius.py`, `query/rollback.py`) | the walk; the rollback event and its edges | `trace`, `blast-radius`, `rollback` | a rollback quarantines exactly what its target influenced, in its scope | modelled: `Provenance` |
| Trace ranking (`query/trace.py`) | none | order of the roots | untrusted first, then recency, then centrality | partly: the walk only |
| Front ends (`capture/wrapper.py`, `gateway.py`, `sidecar.py`) | the call in hand | forward-and-record, record-and-forward | what the backend holds and what the ledger says of it agree up to the calls that failed | modelled: `Capture` |
| Adapters and reconciliation (`adapters/*.py`) | none | write maps, read maps, `reconcile` | every memory that bypassed the front ends is reported | modelled: `Capture` |
| Memory file watcher (`adapters/memory_md.py`) | `_snapshots`, lost with the process | `baseline`, `scan` | every edit is recorded, also one made while nothing ran; no record without an edit | modelled: `MemoryFiles` |
| Record ids (`model/ids.py`) | the last timestamp and random field | `uuid7` | ids of one process sort as they were minted, whatever the clock does | modelled: `RecordIds` in `Recording` |
| Detectors with memory (`detectors/write_rate.py`, `drift.py`) | a window per (namespace, source); trusted embeddings per namespace | `inspect` | flag what their definition says of the writes they remember | modelled: `Detectors` in `Recording` |
| Keys and profile (`crypto/keys.py`, `config.py`, `cli.py`) | key file, ledger file | `init`, `_open` | one key signs the whole ledger | modelled: `Profile` in `Recording` |
| Command line (`cli.py`) | – | the commands | – | partly: they are processes of `Profile`, `Anchoring` and `Provenance` |
| Drift query (`query/drift.py`) | none | `drift` | the streaming detector differs from it only by what it remembers | partly: `Detectors` in `Recording` |
| Trust score, stateless detectors, canonical JSON, timeline, exporters, demo | see section 8 | | | not modelled |

### How they interact

The front ends call the engine; the engine mints an id, calls the detectors (which
keep their own memory and only annotate the record), `LedgerStore.append` and then
`EdgeStore.add_edge` once per declared edge, every one of these in a transaction of
its own on the one SQLite file.
The commands (`verify`, `trace`, `blast-radius`, `rollback`, `anchor`) are
separate processes on the same file. Anchoring writes to the ledger
(`checkpoint()`, the `anchors` table) and outside it. The watcher and the front
ends see a world that others change behind their backs: files and backends.

### What is hard

* **Transactions nobody closes.** Python's `sqlite3` opens a deferred transaction
  before an `INSERT` and leaves it open when the statement or the commit raises.
  Nothing in the store rolls back, so a row "that failed" is committed by a later
  call (`ledger/store.py:117`), and a failed `INSERT` can keep the write lock.
* **Two views of the rows.** Roots are signed over `_leaves`, the file is what
  verification reads (`ledger/store.py:79`, `:119`).
* **Read, then transact.** `append` reads the newest hash outside any transaction
  (`ledger/store.py:92`).
* **A row, then its edges, then maybe a stop** (`capture/engine.py:113`,
  `query/rollback.py:97`).
* **Walks without a snapshot.** Every round of a traversal is a query of its own
  (`dag/traverse.py:52`).
* **Two logs.** checkpoint → publication → receipt are three commits in two
  places, and another process records between them; verification reads one, then the
  other (`anchor/verify.py:118-151`).
* **State moved before the act it stands for** (`adapters/memory_md.py:83`).
* **A wall clock.** `uuid7` and the rate window read it, and it may be set back
  (`model/ids.py:45`, `detectors/write_rate.py:36`).
* **Memory beside the ledger.** A detector has counted a write whose `append` then
  raises, sees no write of another process or namespace, and forgets everything when the
  process ends (`capture/engine.py:112`).
* **A key file before a ledger** (`cli.py:109`): `init` may stop between its calls.
* **Two id spaces**, the ledger's and the backend's (`capture/engine.py:139`).

`PROJECT.json` lists each of these, and the rest, with the line where it bites and
the properties that would catch it going wrong.

## 2. Modules

```
LedgerRows <-- Ledger <-- LedgerProofs          MerkleTree <-- LogInclusion <-- MerkleProofs
    ^            | INSTANCE ... WITH            Provenance <-- ProvenanceProofs
    |            v                                                    ^
Anchoring    AppendOnlyLog                                      LineageProofs
    ^                                           MemoryFiles <-- MemoryFilesProofs
AnchoringProofs                                 Capture <-- CaptureProofs
                         Profile <--+
                         RecordIds <+-- Recording <-- RecordingProofs
                         Detectors <+
```

`MC*.tla` extend the modules above with the constants and symmetry sets TLC
needs, and each `.cfg` is one run. Definitions whose comment begins with
"Mutant" belong to no specification: each is a plausible bug in one definition,
kept beside it, with which some property is known to fail (section 5).

**LedgerRows** has the rows, the checkpoints and the two verifiers as operators.
BLAKE3 being collision-free, an entry hash *is* the sequence of payloads it
commits to and a Merkle root *is* the sequence of its leaves; `MerkleTree` is what
justifies the latter. `RowVerdict` and `CheckpointVerdict` keep the order in which
`verify_chain` and `verify_merkle` test things, because the first failing test
names the failure.

**Ledger** is the store, for any set of processes. `pc` and `conn` separate what
Python and what SQLite think is going on: a call is `idle`, about to `insert`, or
`committed` and before its checkpoint; a connection is in `auto`, has `begun` a
transaction without a lock, is `reading` in one, or `writing` with the write lock.
`append` is `ReadPrev`, then one of `Insert`, `InsertHeld` (the commit raised, the
row stays in the transaction), `InsertRefused` (another process has the lock),
`InsertDuplicate` (the `UNIQUE` constraint), then `ReturnUnsealed`, `Seal` or
`SealFails`. `Stop` is `close()` as well as death at any point: SQLite discards the
open transaction either way. SQLite's locking is external and modelled from its
documented rollback-journal protocol as the store uses it.

**AppendOnlyLog** is what the store promises: a log that grows by one new record
at a time and a sealed prefix that a checkpoint moves to its end. `Ledger` maps
`log` to the payloads of the committed rows and `sealed` to what the latest
checkpoint's root commits to (`ImplementsLog`).

**MerkleTree** is `inclusion_proof` as a loop, one level per step, and
`compute_root` and `verify_proof` as operators. The reference is the recursive
definition of RFC 6962, which the code never spells out. Loops over levels and over
the steps of a proof are recursive functions on the number of rounds (`Levels`,
`Refolds`), so that they can be proved about.

**LogInclusion** adds the other end of such a proof: `verify_receipt`, which has only
an index and a tree size to tell which side each hash goes on. `Positions` are the pairs
(`node_index`, `last_index`) before each round of the `for` loop, with `Promote` the
`while` loop inside it; `Sided` gives every hash its side, and `verify_inclusion` refolds
them. The tree is the remote log's, its proofs are the ones `MerkleTree` climbs to.
`Receipts`, which TLC enumerates, have the log's own path or one edit of it (empty, cut at
either end, lengthened, or with a hash replaced) and any statement, body, position, size
and root beside the log's own note; the theorem `EveryVerifiedReceiptIsIncluded` is about every list of hashes.

**Anchoring** has the ledger as in `Ledger` (one append or checkpoint per step), the
external log, and three processes: one that records, one that runs `anchor_now`, one
that runs `verify_anchors`. `anchor_now` is a step per call: `Open` fills the leaf cache,
`AnchorCheckpoint` seals that cache, `ReadCheckpoint` reads the newest checkpoint back,
`ReadIdentity` the ledger id, then `Publish` (or `PublishFails`) and `Record`.
`AppendRow`, with the recorder's own checkpoint at cadence 1, may come between any two
of them. `verify_anchors` is one step that reads the ledger and one that asks the log,
with whatever `Fetched` lets through; above `MaxWitnesses` entries the Rekor client
raises (`Unreadable`). The profile chooses backend and cadence in the initial state. The
faults are a crash anywhere, an answer of Rekor that is lost, a short write of a witness
line, entries that cannot be fetched, and an older copy of the ledger file put back.
`covered` remembers, of each `anchor_now` that returned, the rows its process had opened
the ledger with and the statement it published. That a Rekor receipt verifies again is
`LogInclusion`'s subject; here it is taken to.

**Provenance** keeps of the ledger only positions, namespaces, sources and the
declared references. `record_*` append a row and fill `todo`; `AddEdge` commits one
edge; `Operations` says which calls and commands an instance has; `Start`/`Expand`
are a traversal, one node per step; `AppendEvent` and `AddRolledBackBy` are `rollback --apply`. `EngineStops` and `CommandStops` drop what
is left, and the history variable `lost` remembers those edges.

**MemoryFiles** has the files, the newest write of each in the ledger and the
watcher's snapshots. A pass looks at, reads and records one file at a time;
`Edit` may happen between any two steps, and while no process runs.

**Capture** has a backend (memories and their tags), a ledger, and front ends with
one call each. `ClientForward`/`ClientRecord` are the wrapper and the gateway,
`SidecarRecord`/`SidecarForward` the sidecar, `ReadForward`/`ReadRecord` the reads
of all three; each half may raise after it took effect or before it.

**Recording** is one process that records into a profile, beside others of which only
the rows are seen (`OthersAppend`), which may be of any source, content and namespace.
It composes **Profile**
(`init` call by call, `Open`), **RecordIds** (`uuid7`: the timestamp and the random
field, compared as the number that the id's bits are) and **Detectors** (the window,
the consensus, and the `drift` query). `RecordWrite` is `record_write` up to the end
of `append`, which may raise; `Tick` and `SetBack` are the machine's clock; `Stop` is
the end of the process, with which generator and detectors start over while `ledger`
stays. `attempts` remembers the place in the ledger that each write got, or 0 when its
`append` raised. Embeddings are vectors of two natural numbers and one length, or zero,
so that cosines and thresholds are compared exactly; `HashingEmbedder`'s have 256
components, none of them negative either.
The list comprehensions of detector and query are `ItemsAt`: the items of a sequence at a
set of places, in order.

## 3. Runs that pass

State counts are of distinct states.

| Run | Instance | What it shows |
|---|---|---|
| `single` | 2 processes one after the other, 4 records, cadence 2, up to 4 checkpoints | `ChainIntact`, `MerkleIntact`: what the store writes always verifies, across reopenings and deaths anywhere. `AckedIsSealed`: an answer means the row is in the file and, at the cadence, under a checkpoint. `ImplementsLog`: the store refines the append-only log |
| `writers` | 2 processes at once, 3 records, cadence 1, a reader that can refuse any commit | `RacesOnlyLeaveGaps`: the worst that races do to the chain is a gap. `RecordedOnce` although a refused row may be committed later and its caller retries. `NoFalseTruncation`: a stale cache never claims more rows than there are |
| `merkle_proofs` | every tree of 1–6 leaves over 2 values, every leaf | `RootIsTreeHash`, `ProofBindsLeaf`, `RootDeterminesLeaves`; `TrueReceiptVerifies`, `VerifiedReceiptIsIncluded`: the log's client accepts the receipt of every leaf and, with the log's path or one edit of it, none for a statement the log does not hold; `ProofEnds` |
| `anchoring` | both backends and cadences, 3 records, 3 checkpoints, a Rekor client that enumerates 2 entries, 1 restored copy, all faults, a recorder beside the anchoring; 2.5 M states | `NoFalseAlarm`, `LiveVerifyOnlyLags`; `LossIsDetected`: a verification that is handed an entry of lost history fails, whichever others it is not handed; `AnchoredIsProtected`: no row that was there when a returned `anchor_now` opened the ledger is lost in silence, unless its own entry cannot be fetched |
| `alone` | 4 writes and rollbacks over 2 namespaces, nothing beside them | `RollbackIsScopedInfluence`: the walk over the edge table finds exactly what the payloads say, also when an earlier rollback's event is walked into, and the scope filters the result and not the walk |
| `concurrent` | 3 records of any kind, a command beside the engine, both stopping between any two commits; 3.4 M states | `EdgesGoForward`, `LineageSound`, `LineageComplete` (edges are exactly what the payloads declare, but for those a stop gave up), `WalkIsBracketed`, `RollbackNeverOverreaches` |
| `memory_files` | 2 files, 4 contents (two ordinary, one too large, one not UTF-8); 0.6 M states | `ScanCatchesUp`, `WriteMeansEdit`, and `TypeOK`, which says that no content above the limit or undecodable is ever stored though a file may grow after its size was looked at |
| `capture` | 1 wrapped client, 1 sidecar that reads its tags, 2 memories, batches of up to 2, 2 records; 1.3 M states | `BypassIsReported`, `AckedIsKnown`, `RecordedWasStored`, `TagNamesItsWrite`, `TaggedReadsAreLinked` |
| `recording` | 3 attempts by a trusted and an untrusted source, 2 rows in the ledger, others' included, 3 contents, 2 namespaces, a clock of 2 values, random fields of 1 and 2 values, 2 keys; 6.0 M states | `KeySignsLedger`: one key signs every row however `init` is stopped and repeated. `IdsIncrease` when the clock stands still or is set back and the field overflows. `BurstsAreFlagged`: the rate detector flags what its definition over all attempts says. `DriftDiffersByMemory`: the drift detector and the query over the whole ledger disagree about a write only where what they compare it with differs |

`TypeOK` is checked in one run of every module that has one.

### Why these bounds

* `single`: with cadence 2, four records give two checkpoints at the cadence and
  rows beyond each; two processes give one reopening by the other, which is what
  could disturb the leaf cache.
* `writers`: a race needs two writers and a row to race for; the third record lets
  one of them go on after it. Records and processes are symmetric. The
  theorems in section 6 lift the chain properties to any number of either.
* `merkle_proofs`: six leaves pass through every shape of the level loop up to
  height three: no odd level, an odd level at the bottom (5), in the middle (6),
  at two levels (5). Two leaf values distinguish every pair of positions.
* `anchoring`: the shortest history in which a restored copy is extended again and
  anchored again, so that the log has witnesses of both branches, has three rows
  and three checkpoints. Three checkpoints are also enough for the recorder to make
  the newest one between the two calls of an `anchor_now`, and the third entry is one
  more than the two that the client enumerates.
* `alone`: four records are a source, what it influenced, a rollback and another
  rollback that reaches the first; two namespaces make the scope matter. Since
  nothing runs beside anything, lists of one reference are enough to build every
  graph with in-degree two (`record_write` has two lists).
* `concurrent`: three records are the least with a path of two edges that a walk
  may be in the middle of while the second edge is added, or a rollback event
  beside a write that it missed.
* `memory_files`: two files, since an exception at one must not, or does, affect
  the next; two ordinary contents, since only change matters.
* `capture`: two memories, so that a batch has an id that is not recorded and a
  read surfaces one with and one without a record; two records are a write and a
  read of it, or two upserts that interleave.
* `recording`: with a window of no seconds and at most one write in it, three attempts
  over a clock of two values are the least for which two entries leave the window at
  once, and for a burst of attempts that are exactly as old as the window. Three contents
  are the least with one that agrees with the first and shares a topic with the third,
  which the first does not. `rand_a` of one value and `rand_b` of two overflow into each
  other and into the timestamp within three ids. Two rows are a write of another process
  or namespace and one that is compared with it; the consensus that TLC sees is hence of
  at most one trusted write and the one in hand, and of more in the theorem only.

`MaxRecords`, `MaxCheckpoints`, `MaxRestores`, `MaxRefs`, `MaxBatch`, `MaxLeaves`,
`MaxAttempts`, `MaxRows` and `MaxClock` are guards of the models and not of the code;
`MaxWitnesses` is the code's own limit (`anchor/rekor.py:188`), made small. The runs
with `CHECK_DEADLOCK FALSE` are those whose models stop at such a bound (`anchoring`,
`alone`, `concurrent`, `capture` and the `violation` runs of the same modules) or
because the algorithm is done (`merkle_proofs`). `single`, `writers`, `busy`,
`memory_files` and `recording` check deadlock: a process can always stop and open again.

Symmetry is used for `Ledger` (processes and records), `Anchoring` (records), `Capture`
(memories) and `Recording` (namespaces and keys): no definition of theirs chooses among
them. `ImplementsLog` is a safety property, an initial condition and a condition on
single steps, for which the reduction is sound; so is `IdsIncrease`.

### Fairness

Only `MerkleTree` states any: `WF_vars(Climb)`, a `while` loop in one thread that
nothing blocks. No other component promises that something happens: an append may
be refused for as long as another process holds the lock, a crashed anchoring is
never resumed, an edge that was lost is never added later. The properties
say what holds whenever a call *returns*, without assuming that it does.

## 4. Runs that end in a counterexample

Each checks one sentence of the repository that the code does not live up to;
`PROJECT.json` has the findings with the quoted lines.

* `busy` (`MerkleIntact`): a reader outlasts the busy timeout, so `commit()`
  raises with the row left in the open transaction and out of `_leaves`. The next
  append commits both rows and signs a root over one. From then on `verify_merkle`
  fails, until a later checkpoint is made by a process that reopened the ledger.
* `fetch` (`FetchFailureHidesNothing`): a Rekor entry that cannot be fetched is
  dropped from the witnesses, and a verification that had to fail passes.
* `unlinked` (`ReadsAreLinked`): a memory written and read back through a wrapped
  client. The retrieval names it by the backend's id, the engine links record ids
  only, so there is no edge from the write to the retrieval.

### Divergences met while modelling that have no run

* `query/rollback.py:1` promises to quarantine a poison "and everything it
  influenced". When the engine stops between a row and its edges
  (`capture/engine.py:113`) nothing adds them later, and a rollback of the parent does
  not reach a record whose signed payload names that parent. `LineageComplete` counts
  exactly these edges as `lost`.
* `cli.py:109`: a crash between the creation and the write of the key file leaves an
  empty one, which `init` calls "already initialized" and which nothing can open. It
  does no worse: `KeySignsLedger` holds. It rests on one `init` at a time; two that
  both found no key file could leave rows signed with the key that was overwritten.
  `InitWrites` is one step: a short write of the key is not told from an empty file, and
  the mode of the file is left out.
* `anchor/rekor.py:257`: neither tree size nor index of a receipt is bound to the log's
  note, and without a note the stored root is taken as it is.
  `VerifiedReceiptIsIncluded` therefore promises the index only with the log's size.
* `detectors/drift.py:6` speaks of a cluster "dominated by trusted writes" and
  `README.md:85` of a "trusted majority": one trusted write within reach is enough, in
  the detector and in the query.
* `detectors/drift.py:3` calls the detector the streaming counterpart of the query, but
  the query reads the whole ledger and the detector knows one process and one namespace
  of it: writes of other namespaces, other processes and earlier runs count in the query
  only, and a write whose `append` raised in the detector only. `DriftDiffersByMemory`
  shows that nothing else tells them apart.
* `detectors/write_rate.py:36`: after the clock was set back the window is not in
  order, and an entry behind a newer one stays for as long as that one does. The key
  is the source's id, which `Source` mints afresh unless the caller gives one.
* `query/timeline.py` and `query/drift.py` sort by the JSON form of `created_at`, in
  which "…:00Z" comes after "…:00.000001Z".

* `ledger/store.py:3` calls the store "the single writer"; nothing enforces it, and
  two writers leave a gap (`store.py:92`). `writers` shows it is at worst a gap.
* `query/rollback.py:86`: a record that the engine adds after the closure was
  computed and before the event is not in the event. `concurrent` shows that the
  error is only ever in this direction.
* `query/blast_radius.py:42` follows every edge type, `ROLLED_BACK_BY` included, so a
  rollback event is in the blast radius of what it rolled back; `ARCHITECTURE.md:137`
  says "every record the poison could have influenced".
* `ARCHITECTURE.md:117` says the graph may contain cycles. `DagIsAcyclic` proves that
  no sequence of engine calls and commands makes one.
* `anchor/file_witness.py:76`: the result of `os.write` is not looked at. A short
  write is followed by a stored receipt, and the next line is glued to the torn one;
  both are then unreadable (`corrupt` in `Anchoring`).
* `anchor/verify.py:151`: with no row there is no ledger id, and verification passes
  without asking the log, while line 13 says that truncation to an earlier point is
  detected. `LossIsDetected` and `AnchoredIsProtected` therefore assume the copy has
  rows, and that the entry in question is handed over (run `fetch` shows why).
* `anchor/file_witness.py:103` returns only witnesses of the current ledger id: with
  this backend a replaced ledger that has been anchored again is compared with its
  own witnesses only. `LossIsDetected` and `AnchoredIsProtected` assume that the log can
  tell.
* `anchor/verify.py:112` says the anchor "always covers every row written so far". It
  covers those there were when its process opened the ledger (or more, when a recorder
  with a cadence makes the newer checkpoint); a row appended after that waits for the
  next anchoring, as `AnchoredIsProtected` says.
* `anchor/verify.py:118` commits a checkpoint of no rows before line 124 says that
  cannot be; when the first row comes in between, that checkpoint of none is published.
* `anchor/verify.py:148` reads the ledger before it asks the log, so a verification
  beside recording and anchoring may report an orphan or a rollback that is none.
  `LiveVerifyOnlyLags` shows that it can report nothing worse.
* `adapters/memory_md.py:83` moves the snapshot before `record_write` (line 89). When
  that raises, no scan of this process records the change. One undecodable file ends
  the pass before the later files are looked at; an oversize content is never
  recorded, nor is a deletion; and a file restored after a baseline at which it was
  absent is recorded again. `ScanCatchesUp` and `WriteMeansEdit` state exactly what
  is left.
* `README.md:118` says a write is captured and then forwarded; `capture/wrapper.py:79`
  forwards first. `RecordedWasStored` is the good side of that order.
* Sidecar upserts carry no `memory_id`, so `reconcile` reports their memories, and
  so it does every memory of a batch but the first (`adapters/chroma_.py:28`).
  Overwriting a memory it knows is invisible to it: ids are compared, not contents.

## 5. Mutants

Every property of every passing run has a mutant in `PROJECT.json`: one mapped
definition whose body is replaced by a plausible bug (a dropped guard, an
off-by-one, a missing reload, edges the wrong way round, a swallowed exception).
Under it TLC finds the property violated with the run's own constants, so none of
them holds merely because of the shape of the model or of its bounds.

## 6. Proofs

The theorems hold for every value of the constants under the assumptions
that the component modules name (`CadenceAssumption`, `NamespaceAssumption`,
`ContentAssumption`, …), which TLC evaluates on every run. Each of them but
`SealsAreBinding` and `EveryVerifiedReceiptIsIncluded` states a property that a passing
run checks on a small instance, and every invariant and safety property of those runs is
stated by one of them.

### LedgerProofs

* `TypeCorrect`: `Spec => []TypeOK`.
* `RecordsOnce`: `Spec => []RecordedOnce`. Not inductive alone: a row that a failed
  commit left in the transaction will be committed later. `OnceInv` is the same
  statement about `AllRows == rows \o pendRows`, with `LockInv`: at most one
  connection writes, and whatever is pending is its own, so the `UNIQUE` test of the
  writer sees all of `AllRows`.
* `RacesLeaveOnlyGaps`: `Spec => []RacesOnlyLeaveGaps`, by `FormInv`: every row of
  `AllRows` is well formed and signed on its own.
* `ChainAlwaysVerifies`: if `Exclusive`, `Spec => []ChainIntact`. `ChainInv` adds that
  at most one process is open (`OneAtATime`), and that the hash a call read is still
  the newest of `AllRows` when it inserts (`PrevIsLast`) — which holds although failed
  commits leave rows pending, because a connection sees its own.
* `MerkleAlwaysVerifies`: if `Exclusive` and no outside reader,
  `Spec => []MerkleIntact`. `SealInv`: nothing pends between calls, the cache of an
  open process is the file (`CacheIsFile`), and every checkpoint ever written
  verifies (`CheckpointsVerify`). The run `busy` shows that the second assumption
  is needed.
* `NeverFalselyTruncated`: `Spec => []NoFalseTruncation`, without those assumptions.
  `ModestInv`: a cache is never longer than the file, and no checkpoint, pending or
  not, counts more rows than it has.
* `StoreImplementsLog`: under the assumptions of `MerkleAlwaysVerifies`,
  `Spec => ImplementsLog`. By `SerialStep` a step commits one row, or one checkpoint of
  all rows, or nothing that `AppendOnlyLog` sees; `RecordedOnce` makes the row new;
  `HashIsLog` makes the newest root the log itself.
* `AnswersAreSealed`: under the same assumptions, `Spec => []AckedIsSealed`. The row
  of a call between its commit and its answer is the newest (`NewestIsInHand`), so
  the checkpoint it makes, or finds not due, is for it.

* `SealsAreBinding`: under the same assumptions, `Spec => []SealedRecordsBind`: *any* list
  of rows, whoever made it, that passes `verify_chain`, and `verify_merkle` with any
  checkpoint the store ever wrote, has in its first rows the very records that the
  checkpoint sealed. The roots being equal, so are the hashes of the rows, and with them
  the hashes the rows are linked to (`LinksDiffer`). That the checkpoint is the store's
  own is the hypothesis; which checkpoint is the newest is what module `Anchoring` is
  about.

`RowsStep` states once what any step may do to rows, pending rows and locks; the
step lemmas of the first three row invariants use it instead of the twelve actions.

### ProvenanceProofs

* `ProvenanceTypes`, `DagIsAcyclic`: `Forward` adds to `TypeOK` and `EdgesGoForward`
  that the edges still in `todo` and `left` lead forward into records that are there
  (`Pending`) and that a walk visits records only; the event a rollback appends is
  later than everything its walk visited.
* `WalkAlwaysBracketed`: `Walking` is the two sides of a traversal invariant on a
  graph that grows under it. `Enclosed`: every closed set of the *current* graph with
  the seeds contains what is visited. `Explored`: visited nodes that left the queue
  have their neighbours in the graph *at the start* visited.

### LineageProofs

On top of `Forward` and `Walking`:

* `EdgesAreDeclared`, `DeclaredIsRecorded`: `Spec => []LineageSound` and
  `Spec => []LineageComplete`, by `Lineage`. Neither is inductive alone: an edge that a
  payload declares is in the graph, or still in `todo` or `left`, or in `lost`, and
  nothing else is in the graph or in hand.
* `RollbacksStayInside`: `Spec => []RollbackNeverOverreaches`, by `Bounded`. The event
  quarantines what a walk visited, which `Enclosed` puts inside the influence in the
  graph of that moment; later records leave that influence as it was, for records refer
  to earlier ones only.
* `RollbacksAreExact`: if nothing runs beside a command and nothing is interrupted,
  `Spec => []RollbackIsScopedInfluence`, by `Exact`. Then the graph that the walk began
  with is the one it ends with, nothing is in hand, and `Explored` is the other side.

### CaptureProofs

`CaptureTypes`, `KnownIdsWereStored`, `BypassesAreReported`, `AcknowledgedIsKnown`,
`TagsNameTheirWrite` and `TaggedReadsLink` for any front ends and batches, from one
invariant `CaptureInv`. It adds to the properties what rows say of memories (`Rows`:
a client's write names the first of its memories, all of which it stored before) and
what a front end in the middle of a call has done already (`Hands`: the record of an
upsert in hand is in the ledger with its own content; tags that were read are of
records that are there).

### AnchoringProofs

`AnchoringTypes`, `NoFalseAlarms`, `LiveVerificationsOnlyLag`, `LossesAreDetected` and
`AnchoredRowsAreProtected` for any records, profiles, faults and numbers of entries.
`Sound` holds whatever copies are put back: the file and the copy agree with their own
checkpoints and everything in the log is of rows there were (`World`); what `anchor_now`
has in hand (the cache, the checkpoint it read back, the statement) is of the ledger as
it grew, the newest checkpoint covering no less than the cache (`InHand`); and each
statement in `covered` covers the rows of its opening and is in the log, unless the file
cannot be read (`Past`). A copy is only put back while nothing runs, which is why what is
in hand stays true of the file. A witness's root being the prefix hashes of the rows,
history that is gone cannot be grown back: `LossIsSeen`. `Untouched` holds while no copy
is put back: every witness, and the statement in hand, is of a checkpoint that the ledger
still has. Which entries are fetched is any subset, so
`NoFalseAlarm` includes every failure of a fetch, and the two theorems about loss say
what is seen of the entries that are handed over.

### RecordingProofs

* `RecordingTypes`. The random field stays inside its width.
* `OneKeySigns`: `Spec => []KeySignsLedger`, by `OneKey`: until a key is written
  nothing can be opened, and after that `init` does nothing.
* `IdsAlwaysIncrease`: `Spec => IdsIncrease`, for fields of any width. The generator
  advances in the order (timestamp, random field); `ComposeIncreases` carries that
  through the version and variant bits that lie between the digits.
* `BurstsAlwaysFlagged`: `Spec => []BurstsAreFlagged`, for any thresholds. A window is
  not determined by a count: `Tracks` says that an injection names the attempt behind
  each entry, that the entries are in order, and that no recent attempt is missed, so
  that what is popped from the left is what left the window (`SlideTracks`).
* `DriftAlwaysDiffersByMemory`: `Spec => []DriftDiffersByMemory`, for any sources,
  contents, namespaces, writes and rows of others, with embeddings as in the model.
  Inductive is `SameConsensus`, which says more than the property, about every content
  and not only the one just written: where the trusted writes on its topic that a
  namespace's memory holds (`Seen`) are those of the ledger (`Kept`), what the detector
  would compare it with is, vector by vector, what the query over the whole ledger would.
  `ItemsWithOneMore` says what a further item does to a selection, `SeenAppend` and
  `KeptAppend` what it does to the two sets of places; a write of others makes them
  differ, or is on another topic. The query's own demand that the write is on its own
  topic costs nothing (`OwnTopic`).

### MerkleProofs

Theorems about the loop of `MerkleTree` and the client of `LogInclusion`, for any leaves
and any number of them.

TLA+ reads a recursive function as the choice of one that satisfies its equation, so
each of `Levels`, `Refolds`, `PowerOfTwo`, `Halves` and `Positions` is first shown to
satisfy it (`Recursion`: there is a function that does). `TreeHash`, whose
recursion is over sequences, is shown to exist by construction from the loop itself
(`TreeHashEquation`). Induction is by a set of numbers that contains the next
(`StepInduction`) or the first number it lacks (`CourseInduction`), because the
theorems of the library take an operator.

* `RootsAreTreeHashes`: `Spec => []RootIsTreeHash`. The heart is `CollapseSplits`: the level
  loop on a list splits at the largest power of two below its length, as RFC 6962 does,
  which holds because a level above a power of two of nodes ends exactly where the left
  part does. That the climb keeps it needs only that one level more collapses to the same
  node (`CollapseAbove`).
* `ProofsBindLeaves` and `RootsDetermineLeaves`. `ClimbInv`: the siblings so far fold the
  leaf's hash up to the node at `idx`. Digests of leaves and of nodes differ in their
  first byte, so no fold of another value gets there, and trees with one root have the
  same shape (`RootsDiffer`).
* `TrueReceiptsVerify`, `VerifiedReceiptsAreIncluded` and
  `EveryVerifiedReceiptIsIncluded`, which is about receipts with any list of hashes, of
  any length, where the run has the log's path and one edit of it. `ReceiptInv` adds to `ClimbInv`:
  the client's position meets the climb's at every level, shifted past the levels at which
  the last node is promoted (`Meets`), from *every* leaf (`Covers`), not only the one
  that was climbed from; the sides the client works out are the sides of the path
  (`SidesAgree`); from no other value do as many hashes lead to that node (`Binds`); and
  whatever folds to a node starts at a leaf of the tree (`FromLeaves`), which is why no
  inner node passes for an entry. `Covers` is needed because a receipt may claim any index.

### MemoryFilesProofs

* `MemoryFilesTypes`, `ScansCatchUp`, `WritesMeanEdits`, from one invariant `IInv`:
  snapshots agree with the newest writes but for files whose write failed or is being
  made (`SnapshotsRecorded`); what is in hand is the snapshot, and the file unless it
  was edited (`InHand`); a scan is done with the files no longer in `todo` (`Covered`);
  an untouched file holds what was written (`Untouched`); what a baseline saw has a
  snapshot (`Based`).

### Model-checked only

* Liveness (`ProofEnds`: the climb ends), which rests on fairness and `ENABLED`, outside
  the proof system.
* The `violation` runs: a counterexample is their proof.

## 7. Plan

Done, in the order of importance: the store and its verifiers; the Merkle tree they
rest on; anchoring, which is the only defence against a restored copy, and the receipts
of its log; the graph and its walks; the watcher; the front ends; ids, detectors and
profile. Every safety property of a passing run is a theorem. What is left:

1. `verify` on a file that was edited from outside: which failure each kind of edit is
   reported as. `SealsAreBinding` says that there is one.
2. The ranking of trace roots (`query/trace.py:83`), of which only the walk is modelled.
   Its ties are in the order of a set, its centrality counts edges that are added
   meanwhile, and among roots of one trust level recency puts what was derived before
   what it was derived from.
3. Two `init`s at once, which section 4 describes.
4. The order of events by their timestamp strings in `drift` and `timeline`.

## 8. Not modelled, and why

* Stateless detectors (`injection_scan`, `unicode_smuggling`, `secrets_pii`,
  `provenance_missing`): pattern matches on one text, which annotate a record.
* Trust score: one real number per source, moved by a fold at every write, and read by
  the caller only.
* `model/canonical.py`: a deterministic serialisation; that it is injective is assumed
  where a payload stands for its record.
* Timeline: a filter and a sort of what the ledger holds. Embedding: the hashing of
  words into a vector; `Recording` uses vectors whose cosines are exact.
* That ids of *different* processes sort in ledger order: they do not when clocks
  differ. `Provenance` takes ids to sort in ledger order where `rollback.py` sorts
  them, which decides the order of a list and no property. The 48-bit mask of the
  timestamp is not reached.
* Exporters, demo, argument parsing: formatting of results already computed, and a
  script over the public API.
* Wording, JSON and base64 shapes, timestamps but for the order of checkpoints, and
  which field of a backend's result holds the id: data that no property tells apart.
* Several threads in one process: the store uses one connection per process, and
  `sqlite3` refuses to use it from another thread.
