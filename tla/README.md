# TLA+ verification of llamacodelab

llamacodelab is a local code assistant written in C++: it indexes a repository into
SQLite and a vector file, retrieves chunks for a question, and lets a llama.cpp model
answer with citations, from a command line or from an HTTP server.  This directory
models the parts of it where the order of steps matters: the queue between the HTTP
threads and the single generation thread, the life of a chat request, the crash-safe
update of the index, queries that run while the index is being updated, the symbol graph
from the syntax tree to the answer, and the loops beneath them: generation, chunking,
embedding, prompt building, the vector indexes and the CLI's interrupt handling.

Paths below are relative to the repository; `PROJECT.json` maps every definition to its
lines.

## Inventory of the system

| Part | State it keeps | Operations | What makes it correct |
|---|---|---|---|
| Generation queue (`src/application/generation_queue.cpp`) | mutex, condition variable, `tasks_`, `accepting_`, a `std::jthread` with its stop state | `try_submit`, `stop`, `depth`, the worker loop, the destructor | FIFO, one task at a time, bounded, no lost wake-up, `stop` always ends |
| HTTP server (`src/adapters/http/http_server.cpp`) | httplib's thread pool, per request: promise, `stop_source`, `DataSink` | `/v1/chat/completions`, `/v1/search`, `/v1/index`, health, models, metrics, `stop` | a request is answered once and completely; the sink is not used after its handler; scores belong to the chunks shown |
| Server assembly (`apps/server/main.cpp`) | generator, index handle, queue and server in one scope | the callbacks `ask`, `search`, `index`; destruction in reverse order | the queue outlives the server |
| Index service (`src/application/index_service.cpp`) | the data directory, `SearchIndexHandle` | `update` | crash consistency, up-to-dateness, publication of committed data only |
| Vector file (`src/adapters/vector/vector_file.cpp`) | `vectors.<g>.bin` and its `.tmp` | `write_atomic`, `read` | a reader sees a whole file or an error |
| SQLite repositories (`src/adapters/sqlite/`) | documents, chunks, FTS, metadata, symbols, edges | `replace_document`, `erase_document`, `replace_file`, `get_many`, transactions | one transaction is all or nothing; reads tolerate missing ids |
| Retrieval (`hybrid_retriever.cpp`, `reciprocal_rank_fusion.cpp`, `symbol_graph_retriever.cpp`, `fts_search.cpp`) | none; reads a snapshot and the live databases | `retrieve`, `reciprocal_rank_fuse` | distinct hits, at most top-k of them |
| Ask service (`ask_service.cpp`) | none | `ask`: retrieve, fetch, rerank, build the prompt, generate, cite | a source carries the score of its own chunk |
| Generator, reranker (`src/adapters/llama/`) | model, per-call context, `generation_mutex` | `generate`, `count_tokens`, `rerank` | token limit, cancellation, whole UTF-8 characters |
| Embedder (`llama_embedder.cpp`) | model, mutex | `embed`, `embed_batch` | batches fit, vector i belongs to text i |
| Vector indexes (`src/adapters/vector/`) | matrix and id tables; HNSW graph and `active_ids`, two files | `upsert`, `erase`, `search`, `save`, `load` | a map from ids to vectors; a load returns one save |
| Chunker, scanner (`src/adapters/filesystem/`) | none | `chunk_text`, `scan` | every line is covered, the window advances; ignored files stay out |
| Prompt builder, context budget | none | `build` | the prompt fits, system messages stay |
| Clang adapter (`src/adapters/clang/`) | during a walk: symbols by canonical declaration, a stack of functions, pending edges | `parse` | symbols, edges and chunks are those of the text, whatever the order of declarations |
| Chat session, CLI (`chat_session.cpp`, `apps/cli/main.cpp`) | messages, settings, the interrupt flag | commands, `ask`, Ctrl-C bridge | an interrupted answer does not corrupt the history |
| Configuration, hashing, logging, similarity, evaluation | none | parsing, formatting, arithmetic | unit tests |

How they interact.  An HTTP thread parses a request, submits a task to the generation
queue and blocks on a future; the worker runs `ask` and writes token events straight
into the handler's sink.  `/v1/index` runs `IndexService::update` on the HTTP thread
itself, and `/v1/search` reads on the HTTP thread while an update may run on another.
An update publishes a new immutable snapshot through an atomic pointer; queries load
the snapshot once, but read chunks, keywords and symbols from the live databases.

What is hard: two threads writing one stream; a stop request that falls between a test
and a wait; tasks dropped by `stop`; the order in which server and queue are destroyed;
a kill between any two file and database writes of an update; files that change while
they are being indexed and change back; ids that two files share; two updates at once; a query that spans a commit; database keys
that legal C++ can violate; a client too slow for its stream.  The list,
with lines, is `hazards` in `PROJECT.json`.

## Modules

| Module | Stands for |
|---|---|
| `SerialExecutor` | What a caller may rely on: a bounded, closable FIFO executor that runs one task at a time.  Abstract, no threads. |
| `GenerationQueue` | `GenerationQueue` with its mutex, condition variable and jthread.  Implements `SerialExecutor`. |
| `ChatServer` | Extends `GenerationQueue`: HTTP threads, `ask` on the worker, promise, sink, stop sources, disconnects, shutdown. |
| `ChatServerProofs` | Invariance and refinement of the queue, and then the invariant of the server on top of it. |
| `IndexService` | `IndexService::update` over the data directory, with editors, exceptions and kills. |
| `IndexServiceProofs` | The inductive invariant of the update and what follows from it, for queries beside it too. |
| `ConcurrentIndexing` | Extends `IndexService` with a second `update` (an `INSTANCE` with its own locals) on the same data. |
| `Retrieval` | Extends `IndexService` with a search or an ask that runs beside the update. |
| `TextGenerator`, `TextGeneratorProofs` | `LlamaGenerator::generate`: batches, token limit, stop token, UTF-8 assembly. |
| `TextChunker` | `TextChunker::chunk_text`: the sliding window over the lines of a file. |
| `Embedder` | `LlamaEmbedder::embed_many`: tokenizing, batches, sequence ids, reading the vectors back. |
| `FilePreparation` | Composes the two: what an update does with a file Clang does not parse, whatever its chunks tokenize to. |
| `FilePreparationProofs` | The chunker, the embedder and the two together. |
| `VectorMap` | A map from ids to vectors with an exact top-k search.  Abstract. |
| `BruteForceIndex` | `BruteForceIndex` with its record vector and position table.  Implements `VectorMap`. |
| `HnswIndex` | Extends `BruteForceIndex`: `HnswIndex` over the slots and the label table of hnswlib under the same operations, and its save and load on two files. |
| `VectorIndexProofs` | Both indexes: the refinement of the exact one, their agreement, the files. |
| `SymbolIndex`, `SymbolIndexProofs` | `SymbolVisitor`, `SqliteSymbolRepository`, the part of an update that writes it, and `SymbolGraphRetriever`. |
| `PromptBudget`, `PromptBudgetProofs` | `ContextBudget::build` and `PromptBuilder::build`, and the room they leave for the generation. |
| `ChatCommand`, `ChatCommandProofs` | `ChatSession` and the generating commands of the CLI: main thread, signal handler, bridge thread. |
| `MC*` | Instances for TLC: model values, chunkings, edit relations, symmetries. |

### GenerationQueue

A critical section of `mutex_` is one step.  `try_submit` is `TrySubmit`; the three
statements of `stop()` are `StopClose`, `StopRequest` and `StopNotify`; the jthread's
destructor is `Join`.  The worker's loop is cut where another thread can get in between:
the test of the stop token (`WorkerTop`), the predicate of `wait` (`WorkerWait`), being
blocked (`asleep`), the pop (`WorkerTake`), the task (`FinishTask` ends it).  The pop is
separate from the test because `request_stop` takes no lock; the worker holds the mutex
there, hence `MutexFree`.  `wait` with a stop token registers a callback that notifies,
so `StopRequest` wakes a blocked worker by itself; a spurious wake-up is an action.
`log` and `taken` are history: what was accepted, and how much of it was popped.

### ChatServer

A request is a task.  `handler[r]` is where its HTTP thread is, and `Epilogue` is the
order in which a handler writes its last events.  The worker runs `ask` in the phases in
which the code does or does not look at the stop token: retrieval and reranking never
do, prefilling does before each batch, decoding at the head of the loop.  A token is one
piece handed to the callback; `Emit` is the callback's `is_writable` test and
`WriteToken` its write, so that a disconnect may fall between them.  `cut` records that
a stop token ended a generation.  Shutdown: `HttpServer::stop` (`StopServer`),
`listen` returns after joining its pool (`ListenReturns`), then the scope of `main`
destroys the queue (`DestroyQueue`).  `is_writable` may be false at any token: httplib
waits for a slow client and gives up; `withheld` remembers it.  After the loop `generate`
hands an incomplete last character to the callback even if it was stopped (`Flush`).
Assumed of httplib: `listen` joins its pool before it returns.

### IndexService

One `update` is a program counter `pc` with one action for each step another actor can
see: removal of temporary files, reading the active generation, its vector file, the
scan, the documents, and then for each file in the order of the scan its three reads, for
the hash (`HashFile`), for the text chunks (`ChunkFile`) and by Clang (`ParseFile`); the
removals, opening, filling and renaming the temporary file, the read-back, the SQLite
transaction, one symbol transaction per file, the publication.  `Throw` ends it at any
step, `Crash` also forgets the process's memory, and `Edit` changes the repository at any
time; contents may come back.

A content is a value and equal to its hash; a vector is the text it was computed from.
Chunk ids are global, as in the code.  `TextChunks` says which ids and texts a content
yields as text chunks; a parse yields one of several units (it depends on headers and
compile commands too), and `UnitChunks` says which ids and texts a unit has.  Nothing is
assumed about ids: a semantic id may stay when its text changes, and two files may have
the same one, because it hashes the path where the declaration is spelled.  The vectors in
memory are one flat map by id: replacing a file erases the ids of its old chunks, its new
ones are assigned, and at the end the ids of removed files are erased, whoever has them by
then (`FindRemovals`).  The commit needs the primary key of `chunks` (`KeysFree`), in the
order in which rows are deleted and inserted, and fails otherwise.

`docs[f]` keeps the stored hash and the content or unit the chunks really came from, so
the two can differ.  Two parts of the state are history: `raced` of a document says that its file
was edited between its first and its last read, and `moved` holds the ids that a file was
given by an update that removed the file that had them.

A crash is a killed process, not a power failure: what was written to a file survives.
A SQLite transaction is atomic.  The refusal to mix embedding models is one of the ways
to throw.  `MaxGeneration` bounds the generations: an update that would exceed it can
still throw.  That one file has an id twice is left to `SymbolIndex`.

### ConcurrentIndexing and Retrieval

`ConcurrentIndexing` runs two updates over one data directory: nothing in
`HttpServer` or `IndexService` serialises two `POST /v1/index`.  That a writer may keep
writing to a file another update has renamed is left out (it adds behaviours to a run
that already fails).

In `Retrieval` a query loads the snapshot, fuses hits from the snapshot and the live
databases, and reads the chunks of its hits, one SELECT and one step for each
(`ReadChunk`), so that a commit may fall between two of them; missing ids are skipped.
Then it shows them: `/v1/search` pairs hit i with chunk i (`ByPosition`), `ask` looks each
hit's chunk up by id (`ById`).  Which hits are found and in which order is left open:
every injective sequence of at most `TopK` candidates is possible.  A score is represented
by the id it was computed for; the texts that are shown are left out, and no property
speaks of them.

### TextGenerator

One action per statement another thread can get in between: the stop token is tested
before each batch of the prompt, at the head of the loop and before a token is decoded,
and `RequestStop` may happen anywhere.  `cached` is what the context holds, `late` counts
tokens sampled after the request.  A byte is the class of bytes the conversion tells
apart (the ranges of second bytes after E0, ED, F0 and F4 included; `Byte` is their set),
and `emit_complete_utf8` is `Scan`, a recursive function of the positions of the buffer:
at each it waits, takes a character or puts out a replacement (`Consumed`, `Emitted`).
That an event is valid UTF-8 is said without a scan, by the places where its characters
begin (`DividesInto`).  `ChatServer` has a coarser view of the same loop, in which a token
is one callback.

### TextChunker

The window is `start` and `end`; opening it, shortening it, leaving a chunk and advancing
are actions.  A file is the sequence of its line sizes, an input is a file with options
that `validate_options` accepts.  A chunk is its first line and the line after its last, and
`ContentSize` adds up its lines and the line breaks between them.

### Embedder and FilePreparation

A text is the number of its tokens; a vector is the set of tokens it was computed from, so
that a vector of another text, of another batch or of the wrong token is a different
value.  One action per text that is tokenized, gathered, filled in or read back;
`EvaluationFails` is every `throw` after the batch was chosen.  `FilePreparation` chunks a
file and then hands its chunks to the embedder.  How many tokens a chunk has is any number
of `TokenCounts`, whatever its size: nothing but a blank chunk's emptiness is known of a
tokenizer, and the configuration does not make a chunk of `max_bytes` (always 12 KiB) fit
a batch (512 tokens by default), so any chunk may be rejected.  `EmbedderAssumption` is
what `validate_model` checks.

### BruteForceIndex

`records` and `positions` are the two tables; `Erase` moves the last record into the hole
and repositions it.  A score is a value of a given function of query and vector, since
only its order matters.

### HnswIndex

Every upsert and erase is applied to both indexes, as the recall test does.  hnswlib 0.8.0
is modelled by the two tables the adapter's calls change: `slots`, each with its label, its
vector and its deletion mark, and `lookup`, its `label_lookup_`.  `addPoint` with
`replace_deleted` gives the label any deleted slot and forgets the label that slot had,
also when that label is live in another slot by then (`ReplaceDeleted`); without it, or
without deleted slots, a known label is updated in place, unless deleted, and an unknown
one gets a new slot, if there is room.  `crossed` is history: an id was added while a
deleted slot other than the one it got still carried its label, which is what makes the
tables disagree later.  Its graph and the search over it are left out (`SearchBaseline` is
the exact index's): a search changes nothing, its answers are approximate, and its score
is computed as `1.0F - distance`, which need not be the other index's dot product to the
last bit.  `save` is cut at each remove and rename; `Interrupt` ends it there, and `torn`
records that this was between the two renames.  `load` rebuilds the label table from the slots (`LoadIndex`).

### SymbolIndex

A translation unit is the sequence of nodes the visitor meets, and a declaration has what
the visitor asks of it: canonical entity, kind, name, line, the file that spells it, main
file or not, definition or not, text or not, related entities.  `Walk` takes the visitor's
members through that sequence, one `Visit` per node, and `resolve_edges` and `parse`
follow.  Beside it stands a definition of the same result without a walk, by quantifiers
over the positions of the unit (`EntitiesOf`, `Enclosing`, `Relations`), and `Matches`
compares the two.  `UnitAssumption` is what Clang guarantees of the nodes: a function that
is left is the one entered last, is not inside itself and has one of the five kinds, an
entity has one definition, and lines count from 1.  A file with several compile commands is
walked once for each into the same collector: its unit is one walk behind the other, with
entities of its own in each.  That an entity of the second walk may have the address of a
freed declaration of the first is left out.  The database part has the two transactions
that can fail on a key: `Commit` (chunk ids, in the order of the scan) and one
`ReplaceFile` per file; `Kill` ends the process at any step.  `clean` says that no unit so
far spells declarations in other files or declares two entities of one name on one line
(two compile commands do), and that there was no kill.  A hash is the tuple it is
computed from: collisions of `stable_hash64` are left out.

### PromptBudget

The text of a prompt is determined by the set of sources or messages in it, and the
tokenizer is an arbitrary function of that set.  This is what the code can rely on: counts
of concatenated texts do not add up, and both functions count the whole text again at each
step.  `max_tokens` equals the reserved output, as in both programs; the chat command's
budget is the context without it, with no safety margin.

### ChatCommand

The main thread runs from `std::signal` to the join of the bridge; an exception goes to
`unwind`, where the jthread's destructor does what the normal end does.  The bridge's loop
(`BridgePoll`) and the test behind it (`BridgeLeave`) read the flag separately.  `cut`
records that a stop request ended the generation.  The sequence of session operations is
that of the command; `fail()` is called by none.

## Runs

| Run | Bounds | Shows |
|---|---|---|
| `queue` | 4 tasks, capacity 2 | `QueueInv`; the queue implements `SerialExecutor`; without a stop every accepted task is begun; a `stop` ends.  Four tasks fill the queue, the worker and one refusal. |
| `chat` | 1 streaming and 1 plain request, capacity 1, 2 tokens, a client that may leave or stall | The sink outlives the task; the stream has its shape although two threads write it; "done" is only said of complete answers unless the client was too slow; after a withheld token no later one is sent; every request is answered and a stopped server ends.  With capacity 1 a request can run beside a waiting one, be refused by one that waits, and be dropped by `stop`. |
| `index` | 2 files, 2 contents with two text and two semantic readings, 7 ids of which one is of both files, 2 generations | Crash consistency, symbols in step unless an update was interrupted, publication of the committed index, an undisturbed update reaches the tree.  f1 is changed, changed back and deleted, f2 is created: so a content comes back during an update, a semantic id keeps living with another text, and the shared id is contested or moves. |
| `retrieval` | 1 file, 3 contents, 2 text chunks, 3 generations, 2 hits, AST index off | A query that began on a snapshot of the database as it was, and during which no update committed, loses no hit and pairs every score with its chunk. |
| `generator` | context 5, batches of 2, prompts of 0 to 6 tokens, max_tokens 0, 1, 9; tokens of one byte of each class, an empty piece, a piece that ends and begins a character | The context never overflows, a stop lets at most one more token through, the call ends; every callback gets whole characters and the stream is the conversion of all bytes at once.  Prompts and limits lie on both sides of every comparison, and four tokens are the longest character. |
| `preparation` | all files of up to 4 lines of 0 to 2 bytes, windows up to 3 lines, every overlap, 1 to 3 bytes; context 4, batches of 3 tokens, chunks of 1, 3 or 4 tokens in every combination | Chunks are in order without gaps, as long as allowed, and cover the file; batches fit what was allocated for them; vector i is that of chunk i, pooled or not, over several batches; the work ends.  A line can be too large by itself; a chunk can be empty, fit beside another, fill a batch or exceed it. |
| `vector_index` | 3 ids, 2 vectors, 2 slots, a query that tells the vectors apart, up to 2 hits, 2 models, earlier files with a deleted slot or none | `BruteForceIndex` is a `VectorMap`, ties included.  Unless a deleted slot kept the label of a live id, the HNSW adapter holds the same entries, can update and erase them and reuses deleted room, and a load returns the slots and the ids of one save, unless that was torn.  With more ids than slots a full graph refuses. |
| `symbols` | 2 files, 12 units, 3 edits, 8 queries | The walk collects what the text says; the tables hold the units written last, after kills and violated keys too; an update of clean files succeeds; the scores of an answer are those of the sources.  The units have a definition behind its declaration and its calls, overloads, a class inside a function, inheritance, a conversion function, a header's function, one-line overloads, macros of another file and of the other file, two compile commands, declarations only, and one that does not compile. |
| `prompts` | up to 3 sources or messages, 7 budgets, every tokenizer with counts around the budget | The answer keeps its reserved tokens; the longest history that fits is kept and nothing is rejected that could fit. |
| `chat_command` | 2 messages | A cut answer is not recorded, a Ctrl-C during generation is delivered, the process ends. |
| `index_concurrent` | 1 file, 2 updates, 2 generations | *Violated*: two updates leave a vector file that does not match the chunks. |
| `search_during_update` | 1 file, 2 hits | *Violated*: a search that spans a commit shows scores with the wrong chunks. |

The violated runs are the disagreements between code and documentation; `findings`
quotes both sides.

The `Edits` of an index run are only a choice of cases, returning contents included; the
proofs hold for every relation.

Deadlock is checked in every run.  A queue that has been destroyed, a process that has
ended and a repository without further edits stutter explicitly (`Destroyed`, `Ended`,
`Rest`); the index never ends, because an
update can always be started or the process killed.

### Fairness

`QueueSpec` and `ChatServer!Spec` assume that the operating system schedules each thread
that exists: the worker, a thread inside `stop()`, each HTTP thread that has a request
to work on, the thread in `main`.  A task returns because each phase of `ask` is finite
and decoding ends by its token limit.  Nothing is assumed of clients (they need not
send, read or leave), of whoever may call `stop`, or of spurious wake-ups.
`TextGenerator!Spec` assumes that the generating thread is scheduled and that calls into
llama.cpp return; `ChatCommand!Spec` that main thread and bridge are scheduled and that
the generation returns, and nothing of the user.  `PrepareSpec` assumes that the thread
that runs the update is scheduled and that llama.cpp returns; `SymbolIndex!Spec` that an
update that was started is carried on, and nothing of whoever starts one.  The other specifications are safety
specifications.

## Proofs

For every value of the constants, under the assumptions stated in the modules.  Each
theorem about a property that is not inductive by itself rests on an inductive invariant,
which is what the paragraphs below explain.

**Queue** (`CapacityAssumption`: the constructor rejects zero).

* `QueueInvariant`: for every set of tasks and every capacity.  The bound and the FIFO
  order are not inductive alone: the heart of the invariant is that the waiting queue is
  the part of `log` behind `taken`, with `StopOrder` for what the worker may do while
  `stop()` is under way.
* `QueueImplementsExecutor`: every step of the queue is a step of `SerialExecutor` or
  none, with `log`, `taken`, `worker = "run"` and the progress of `stop()` as the
  refinement mapping.  The pop is the abstract begin, and needs from `QueueInv` that
  the worker pops a task that is there and that the log is injective.

**Chat requests.**

* `ChatInvariant`: `QueueInv` and `ChatInv` together.  The first is the queue's theorem, as
  every step of the server is one of the queue or leaves it alone (the lemma
  `ServerUsesTheQueue`).  `ChatInv` says which request the worker's `ask` belongs to (`AskFollowsWorker`), that a task that waits or runs has a
  handler that waits for it (`AliveWaits`), that a request that was not submitted has left
  no trace (`FreshRequests`), that the queue is only destroyed after the handlers are gone
  (`ShutdownInOrder`), that nothing but a withheld token cuts a generation
  (`OnlyWithheldIsCut`), and how far each stream is (`StreamSoFar`).
* `SinksOutliveTasks`, `StreamsAreWellFormed`, `DoneIsComplete` follow from it, and the
  action property `NoGapInAStream` from it and `TokenIsWanted`.

**Index update** (`IndexAssumption`, `NoDocAssumption`, `NoReadingAssumption`,
`NoVectorsAssumption`: the sentinels are not values).

* `IndexInvariant`: for every set of files, every chunking, whatever ids files share, every
  relation of edits and every number of generations.  Crash consistency needs to know what
  the locals of `update` mean at each step: until the commit it works on the active
  generation and the documents it read are still the stored ones (`WorksOnActive`); what
  was replaced lies before what is left in the order of the scan (`VisitedFiles`); the new
  file holds the vectors in memory from the rename on (`VectorsOnDisk`); the symbol work
  left is of files that are replaced as stored (`SymbolsInProgress`).  The core is
  `VectorsInMemory`: every vector is one of a chunk of the documents as they will be, and a
  chunk has its vector unless another replacement has its id (`Contested`), a file behind
  it in the scan had the id (`ErasedAfter`) or a removed file had it (`Given`).  In the
  first two cases the primary key makes the commit fail, which needs that an id is stored
  for one file only (`OneFilePerId`); the third is `moved`.
* `CrashConsistency` and `SymbolsInStep` are conjuncts of it; the action property
  `PublishIsCommitted` follows from `VectorsInMemory` and crash consistency.
* `QuietUpdatesReachTheTree`: `UpdateReachesTree`, for every relation of edits.  Two
  invariants: a document has chunks of another content than its hash only if its file was
  edited between the reads (`ReadsAgree`); and while nobody has edited since the scan, every
  file behind the loop is dealt with, skipped because its hash is stored or replaced
  (`CatchesUp`).

**Queries beside an update** (`RetrievalAssumption`).

* `SettledQueriesAreExact`: `SettledQueryIsExact` (with the AST index it does not hold, see
  Findings).  While a query is settled the database does not change, so every id that was
  fused is still stored when its row is read, and the rows read so far are the hits up to
  there (`SettledInv`).

**Chunker and embedder** (`InputAssumption`, what `validate_options` accepts;
`EmbedderAssumption`, what `validate_model` checks; `TokenCountAssumption`).

* `ChunkerInvariant`, `ChunkerCoversTheFile`, `ChunkerFillsItsWindows`: for every file and
  all options.  The window begins after the first line of the last chunk and at most
  `overlap_lines` before its end (`WindowInPlace`), which gives coverage and progress; that
  a shortened window would not fit with one line more gives maximality.
* `PreparationInvariant`, `EmbedderBatchesFit`, `VectorsAreOfTheirChunks`: for the chunks
  of any file.  A batch is a run of consecutive texts, and there are offsets at which the
  tokens of each of them lie in the batch (`BatchContents`); the vectors read so far are
  those of the texts before it.

**Vector indexes** (`VectorAssumption`, `HnswAssumption`).

* `TablesInvariant`: the two tables of `BruteForceIndex` agree after every sequence of
  operations.  `IndexIsAVectorMap`: every operation is one of `VectorMap`, the search
  included: the order of the hits is total, so there is one best answer.
* `HnswInvariant`, `BackendsHoldTheSame`, `LoadReturnsOneSave`: until `crossed`, slots and
  label table describe each other, every slot is the one its label is found at, and the
  labels found at a live slot are the entries of the exact index (`SlotsPaired`); then a
  deleted slot that is given away can only take the label of a deleted id with it.  The two
  files agree at every step of a save but the one between the renames, unless it was torn
  there (`FilesInPlace`), and a slot that is the only one of its label is found again by
  `LoadIndex`.

**Generator** (`GeneratorAssumption`; the configuration rejects a batch of zero).

* `GeneratorInvariant`, `GeneratorKeepsLimits`: for every context, batch and prompt size.
  What is needed besides the limits is how many tokens the context holds at each step
  (`CacheInPlace`) and that a token sampled after a stop request is the last
  (`LateIsLast`).
* `GeneratorStreamIsFaithful`: `StreamIsFaithful`, for every sequence of pieces.  The
  invariant `StreamInv` says of a stream that is not finished that whatever bytes follow,
  the conversion of all bytes is what was delivered and then the conversion of the buffer
  with those bytes behind it.  A step keeps it by `ScanInTwoParts`: scanning a buffer and
  later the rest with more bytes is scanning all of it, because a character that is
  complete is not changed by what follows and an incomplete one is kept.  `ScanDivides` and
  `WellFormedIsUnchanged` add that the output consists of whole characters and that
  well-formed bytes come out as they are.

**Prompts** (the assumptions of `PromptBudget`; nothing is assumed of the tokenizer but
that it counts).

* `BudgetInvariant`, `AnswersHaveTheirRoom`, `HistoryIsTheLongest`: what is selected so far
  fits (`PromptFits`); every longer history was counted and did not fit (`LongestSoFar`).

**Symbol index** (`SymbolAssumption`, `UnitAssumption`).

* `TableInvariant`, `SymbolTableIsExact`: for every set of files and units, whatever the
  walk makes of them: of a parse the proof uses only that its edges join its symbols.  The
  update holds the parses of what it is about to write (`ParsesInHand`); a row with an id
  of the file's own is one of the unit written last (`ExactRows`), and so is an edge
  between two such rows (`ExactEdges`).  An id that is not spelled elsewhere names its
  file, so deleting by declaration path removes the file's own rows and no others.
* `SymbolVisitorMatchesSource`: `VisitorMatchesSource`, for every unit of any length and
  nesting.  `WalkInv` says what the visitor holds after its first k nodes, in terms of
  their text: one symbol for each entity declared so far, with the id of its first
  declaration and its definition if that was passed (`SymbolsInv`); as scopes the functions
  that enclose position k, outermost first (`ScopesInv`), so that the last one is the
  innermost; the relations and the chunks of the positions up to k.  `VisitParts` breaks a
  visit into its effect on each member, and each member has its own lemma.
* `CleanRepositoryInvariant`: without troublesome units and kills, the tables are exactly
  the units written last, ids spelled elsewhere included (`CleanInv`), and outside the
  symbol transactions these are the indexed ones (`ProgressInv`).
* `CleanUpdatesNeverFail` (`NoUpdateFails`): as different entities then differ in name or
  line, and different files in the path, no chunk and no symbol meets a key that is taken.
  With `CleanUpdatesWriteSymbols` this is the safety half of `CleanUpdatesSucceed`; what is
  left to TLC is that an update ends.
* `SymbolGraphAnswers`: `GraphAnswers`, for every question.  Ids are one-to-one with the
  entities of a file and name the file, so the relations of the text and the edges the
  retriever follows to a symbol are in bijection, and their numbers are equal.

**CLI** (`CommandAssumption`).

* `CommandInvariant`, `CompletedAnswersAreWhole`: a generation is only cut by a stop
  request, which is never taken back, and `settle` looks at it after the generation; a
  session that is completed is not touched again.

The inductive invariants are proved; the runs check the properties they are for.

Only model-checked:

* liveness (`EveryAcceptedTaskBegins`, `StopTerminates`, `EveryRequestEnds`,
  `ShutdownCompletes`, `Terminates`, `InterruptIsDelivered`, `CommandExits`,
  `PreparationEnds`, `CleanUpdatesSucceed`), which needs fairness and is out of the
  prover's reach.

Every invariant and every action property that a passing run checks is stated by a theorem.
The recursive functions (`ContentSize`, `Scan`, `Walk`) are reasoned about by the least
input at which a claim would fail (`LeastElement`, from the well-foundedness of the
naturals), since the library's induction rules take an operator as a parameter.

## Findings

Where code and documentation disagree; `findings` in `PROJECT.json` quotes the lines.

1. Two concurrent `POST /v1/index` can leave a vector file that does not match the chunks
   (`index_concurrent`).
2. A search that spans a commit shows scores with the wrong chunks
   (`search_during_update`).

Known limits of the code that the models show and no run states:

* A file that changes while an update reads it, for its hash, its text and its parse, is
  stored with chunks that do not belong to its hash.  If it keeps the new content the next
  update replaces them; if it changes back they stay for good, because every later update
  finds its hash unchanged.  `UpdateReachesTree` says that this takes an edit between the
  reads (`raced`).
* The vectors of removed files are erased by id after the new ones were assigned.  When a
  file is renamed, or one is added and another removed, and both have a definition that
  one macro spells, the chunk of the new file is committed without a vector; it is found by
  keywords only, until the file changes.  `ActiveVectorsMatchChunks` says that no other
  chunk is ever without its vector (`moved`).
* When two ids are erased from an `HnswIndex` and one of them is added again, it may get the
  slot of the other; when its own old slot is given away later, hnswlib forgets the id, and
  an `upsert` of it adds a second point or an `erase` throws.  `BackendsAgree` says that
  nothing else makes the indexes differ (`crossed`).  `IndexService` builds a fresh index
  for every snapshot and erases nothing from it, so the programs of the repository do not
  meet it; other users of the class do.
* An exception between the commit and the publication leaves the old snapshot published
  over the new database until the next update (`Throw` at "symbols").
* A symbol without a chunk (an enumeration, a mere declaration) shifts the pairing of
  `/v1/search` even when nothing changes; `SettledQueryIsExact` is checked without such
  symbols (`Semantic` is false in its run).
* A kill between the commit and the symbol transactions leaves the symbols of the files
  stale until these change again: later updates skip them (`interrupted` in `IndexService`,
  `Kill` in `SymbolIndex`), although `docs/IMPLEMENTATION_GUIDE.md:2607` promises a
  consistent state after a forced interruption.
* Two overloads declared on one line violate `idx_symbols_identity`: `replace_file` throws
  after the commit, and the symbols of the files behind it are not written
  (`ReplaceFails`).  Two overloads *defined* on one line, a file with two
  compile commands that define the same functions, or a definition that one macro spells in
  two files that stay, violate the key of the chunks, and every update fails until a file
  changes (`CommitFails`).  Replacing the file a macro is spelled in deletes the symbols
  other units got from it.
* Calls in a conversion function belong to no function or to the one around it
  (`OpensScope`); calls between files are never edges, because both ends must be declared
  in the main file.
* A neighbour of two named symbols has as many points as a named symbol and may be ranked
  before it (`Score`).
* A chunk that is empty, or that has more tokens than a batch of the embedder, makes every
  update of the repository throw.  `max_bytes` is always 12 KiB and `batch_size` 512 by
  default, so ordinary chunks of several lines can be too long (`FilePreparation` rejects
  any chunk).
* The reranker gets an empty stop token: a shutdown or a cancelled request waits for up to
  50 ratings (`Rerank` in `ChatServer`; no property measures the delay).
* A kill between the two renames of `HnswIndex::save` leaves the graph of one save with the
  metadata of another, which `load` accepts if the earlier model is expected (`torn`); no
  program of the repository calls `save` yet.
* A client too slow for its stream has its generation stopped and is still sent
  `finish_reason` "stop"; the rest of a cut character may follow a withheld token
  (`Flush`).
* An answer that spans a commit may lose hits, and, as a semantic chunk keeps its id when
  its text changes, may show the new text with the score of the old vector.  `ask` pairs by
  id, so a score is never shown with another chunk.
* A queued request whose client left is begun and works up to its first token
  (`ChatServer`).
* Beside a system message a conversation that does not fit is dropped, and a prompt of
  system messages only is built (`PromptBudget`).
* When no source fits, the question is answered without any (`PromptBudget`).

Read in the code and not modelled: an answer that cites an id it was not given passes the
citation check.

## Plan

The order so far went from the parts where threads and crashes meet to the loops beneath
them: queue, chat requests, index update, concurrent queries; then generator, chunker,
vector index, prompts, CLI; then the embedder, HNSW with its files, slow clients and the
symbol graph; then ids shared by files, hnswlib's label table and tokenizers of any kind.
What is left, in order:

1. `VectorFile`: the layout of the file and the length checks of `read`; with it the
   embedding model's identity as state of `IndexService`, and the vector files of
   abandoned generations.
2. Retrieval: `reciprocal_rank_fuse` against a reference definition, the reranker's choice.
3. `FileScanner`: ignore rules and their order.
4. Read errors of SQLite in `documents()`.

Not modelled, and why: the arithmetic of embeddings and scores (floating point); llama.cpp,
hnswlib, SQLite, httplib and Clang themselves (libraries, modelled by what the code uses
of them); configuration, hashing, logging, evaluation and the chat template (no state,
covered by unit tests).  What the configuration checks appears as assumptions on the
constants.
