# semcast in TLA+

Specifications of semcast, a PostgreSQL-protocol SQL engine (Rust, on
DataFusion) whose predicates, extractions, rankings and groupings are answered
by language models. This directory models the parts of it that keep state, run
concurrently or decide which rows reach a model, checks them with TLC on small
instances, and proves their main invariants with TLAPS for every value of the
constants. Paths below are relative to the crate's `src/`; `PROJECT.json` maps
every definition to lines.

## 1. The system

A statement comes in over one connection, is parsed by the SQL front end,
rewritten by the optimizer, planned into operators, and executed as a stream of
record batches. The operators read a shared verdict cache and call model
providers for what it does not hold; some read a semantic index first. A
statement can also be submitted as a batch job that runs detached from the
connection.

| part | state it keeps | operations | correct when | modelled by |
|---|---|---|---|---|
| Batch jobs `server/jobs/{mod,runner}.rs` | map of records under a mutex, `job.json` per job, semaphore, abort handles; per job a task, a drain task, a bounded channel | submit, cancel, start, update, finish, recover | every job ends in one terminal status that survives restarts; permits are never lost; a cancelled job stops, and a queued one never starts | `JobRegistry`, `JobLifecycle` |
| Statement execution `server/engine.rs` | the sink (Parquet writer or buffer), last counters sent | plan, open sink, stream, tick, finish | events in order; a result file is closed before it is offered | `JobRegistry` (Parquet), `Sessions` (memory) |
| `job_result`, `semcast_jobs` `server/jobs/table.rs` | none | read a record | never opens an unclosed file | `JobRegistry` (`JobResult`) |
| Session protocol `server/{handler,router,encode}.rs` | responses of one query string, the progress channel | split, route, run, notify | order of notices and results; an error stops the rest; the connection never hangs on its own channel | `Sessions` |
| Session context `lib.rs`, planner `physical/planner.rs`, optimizer rules `optimizer/*.rs` | none | parse, rewrite, plan | the plan asks what the statement asks, whatever else changes meanwhile | `StatementPlanning`, `Sessions` |
| SQL front end `sql/*.rs`, types `types/*.rs` | registry of types | parse, DDL | a cache entry belongs to exactly one generation unit | `SemanticTypes`, `StatementPlanning` |
| Semantic index `index/{mod,lance,registry}.rs` | Lance dataset under a mutex, registry of indexes | create, add, refresh, search, filter_scan, membership | an index is registered whole; a scan is one consistent state | `SemanticIndex` |
| Index scan and verify `physical/{index_scan,verify}.rs` | evidence cell shared by partitions and stages | plan, prefilter, prune, verify | no row is pruned that was not scored; both stages agree | `MeansFunnel` |
| Ranking `physical/rank.rs` | candidates of one query | search, membership, keep, score | losers are worse than what is kept | `RankFunnel` |
| Calibration `optimizer/{calibrate,proxy}.rs` and the calibrated scan | sample of scores and labels | draw, label, estimate or certify, prune | the floor keeps the share of the sample it reports | `Calibration` |
| Distinct and cluster `physical/{distinct,cluster}.rs`, `index/{dedupe,kmeans}.rs` | vectors of a relation, cached names | key, cluster, name | duplicates are near what stands for them; clusters are settled | `Grouping` |
| Classify `physical/classify.rs`, `optimizer/classify.rs` | verdict cache | collect conditions, guard, ask, fall back | a skipped row needed no answer; nothing is asked twice | `Classification` |
| Chunking `index/chunk.rs` | none | split a text | chunks cover a text and advance | `Chunking` |
| Persistent verdict cache `cache/sqlite.rs` | map under a mutex, channel, writer thread, SQLite file shared by processes | open, get, put, put_many, flush, drop | first evaluation wins; units are on file whole; what is sent is committed | `VerdictStore`, `VerdictContract` |
| In-memory cache `cache/mod.rs` | a map under a mutex | get, put | - | its trait's promises only |
| Extract `physical/extract.rs` | the batch at hand | read, ask, store units | units are served whole | `VerdictStore` |
| Model chain and retries `model/{mod,fallback}.rs` | slots and pending rows of a batch; requests in flight; attempts | complete, embed | one answer per request, its own; an answered row is not asked again; attempts are bounded | `ModelCalls`, `AnswerChain`; embeddings in `SemanticIndex` |
| Providers `model/{ollama,anthropic,voyage,mock}.rs` | none | HTTP | - | as links of a chain |
| Process `bin/semcast.rs` | - | recover, bind, serve, flush on shutdown | recovery before service; verdicts flushed | `JobRegistry`, `VerdictStore` |

How they interact: connections and job tasks share one engine and one session
context, hence one cache, one index registry, one type registry and one model
chain. Jobs share a semaphore. Builders of an index and queries over it share
its dataset. Processes share files: the SQLite store, by design, and the jobs
directory, by default.

The hard behaviours, each at its line under `hazards` in `PROJECT.json`:
cancels that land at any point of a job; work done after an unlock (an abort, a
channel send); a detached drain that outlives its task; crashes between writes;
two servers on one directory; lookups that release the lock between map and
file; batches of a writer thread that end early; transactions and reads that
fail; requests completed out of order and retried; indexes created, refreshed
and replaced under a running query; partitions that race for a shared cell; a
plan made over indexes that appear between its steps; a channel that fills while
its only reader waits; samples with failed labels; three-valued guards; sizes
that wrap.

## 2. Modules

| module | what it is |
|---|---|
| `JobRegistry` | registry, job task, drain, execution into Parquet, crash and recovery |
| `JobLifecycle` | abstract specification: what a reader of `job.json` may see |
| `VerdictStore` | cache instances, writer threads, the operators' lookups and stores |
| `VerdictContract` | abstract specification: a shared file and forgetful memories |
| `ModelCalls` | one batch of completions: chain, buffer of requests in flight, retries |
| `AnswerChain` | abstract specification: links are asked in turn for the open rows |
| `SemanticIndex` | dataset, registry, builders, and what a snapshot answers |
| `MeansFunnel` | one `MEANS` per query: prefilter, scan and verify, in partitions |
| `RankFunnel` | one ranking per query: candidates, losers, scores |
| `SemanticFunnel` | composes the three: `EXTENDS` both funnels over one index |
| `Calibration`, `Grouping`, `Classification`, `Chunking` | the algorithms of the operators, each a small machine |
| `SemanticOperators` | a behaviour runs one of them; they share no state |
| `SemanticTypes` | declarations, generation units, pruning (operators only) |
| `StatementPlanning` | clauses, markers, optimizer rules, physical plan (operators only) |
| `Sessions` | connections: routing, DDL, planning in steps, progress, responses |
| `Subsequences` | parts of a sequence in its order: at positions, of elements, first occurrences, a set of indices sorted |
| `*Proofs` | theorems about the module they are named after; `CalibrationProofs` and `SubsequenceProofs` hold lemmas for `SemanticOperatorsProofs` and `SessionsProofs` |
| `MC*`, `*.cfg` | instances for TLC |

Operators whose comment begins with `Mutant:` are deliberate bugs. No
specification uses them; each breaks the property it is listed with in
`PROJECT.json`, which shows that the property depends on that code.

### 2.1 JobRegistry

Every method of `JobRegistry` (the struct) holds the mutex from its first read
to its write of `job.json`, so each is one action: `Start`, `CancelMark`,
`DrainMirror`, `Finish`. Steps are separate where the code lets go: `create` and
`spawn_attached` are two critical sections; `cancel` marks under the lock and
aborts after it (`CancelMark`, `CancelAbort`); each `.await` of `run` and of
`execute_into` separates two actions. `task[j]` says where `run` is:

    none -> submitted -> waiting -> starting -> planning -> streaming -> totals
         -> closing -> draining -> finishing -> ended

with `line` and `tick` on the side of `planning` and `streaming`: in these and in
`totals` (`Sending`) the statement holds an event and does nothing until the
channel has room for it (`SendEvent`). An abort lands only at an await
(`Awaiting`), as tokio drops a future only there; `starting` and `finishing` run
synchronously. Dropping the task returns the permit, drops the sender and leaves
the Parquet file unclosed. The drain task is a separate actor: it goes on after an
abort. It takes an event from the channel (`DrainReceive`, into `taken`) and
mirrors it into the record (`DrainMirror`) in two steps, the log write between
them, so that a cancel, the end of the statement or a crash may come while it has
one in hand. `ExecuteFails` stands for every `?` of `execute_into` outside a send;
a writer that fails once its file exists is `OpenSink` and then `ExecuteFails`.
The record keeps its status, whether it started, the last event and counters
mirrored into it, and which of `result_path` and `command_tag` is set; timestamps,
SQL text and `progress.log` are left out.

A crash empties everything but the directory, also one in the middle of
`recover` (`Boot`, `RecoverJob` per directory entry, `Serve`). A write of
`job.json` either takes effect or leaves the previous version (write, then
rename). `OtherServerReads` and `OtherServerRewrites` are another server's
`recover` on one entry of the directory, which runs before that server binds its
port; `foreign` is what it has read and not yet written back, so that it may
overwrite what this server wrote in between.

### 2.2 VerdictStore

An instance is one `SqliteCache` in one process. Its map is locked per access,
so `get` is three steps (`LookUp` in the map, `ReadHit`/`ReadMiss` in the file,
`Remember` in the map) and a store is two (`Store` in the map, `Send` to the
channel). The writer takes a nonempty prefix of the channel - one message, and
whatever `try_recv` finds, up to a flush or about `MaxBatch` rows - and commits
it in one transaction (`Commit`), with `INSERT OR IGNORE`. How much it finds
waiting depends on scheduling, hence the choice of `n`. `CommitFails` drops the
rows and answers the flush, as the code does.

An asker is an operator task with one row. It reads a generation unit key by
key (`extract.rs`; a `MEANS` verdict is a unit of one key), stops at the first
miss, asks the model for the whole unit, and stores the unit as one group if
every field validates. A verdict is the number of the model call that produced
it, so two calls never agree by chance: every disagreement shows.

`Close` is `Drop`: it can happen only when no task is in a call of the
instance. `Crash` also stands for a process that exits without dropping it.

### 2.3 ModelCalls

A batch is local to one call of `FallbackProvider::complete`, so one batch is
modelled; concurrent batches share nothing but the HTTP client. `pending` and
`slots` are the code's variables; `calls` is what `buffered` has launched, by
position in the link's batch, and `outcomes` what it has handed on, in order. A
request that has finished keeps its place in the buffer until the ones before it
are collected, which is what `Launch`'s guard says. `Ask` starts a link, `Apply`
is the resize and the `zip` over its results up to the next turn of the loop.
Each request runs `send_with_retry`: a response is usable (`Answered`), not
worth a retry (`Refused`: fatal status, refusal, unreadable body) or retryable
(`Throttled`); pauses have no length. A link in `Sloppy` skips all that and
returns any number of results, with any of the rows' answers, which the code
guards against. A completion is named by the link and row it answers. `sends`
and `refused` are history, for the properties. Dropping the future, when a
statement is cancelled, ends the batch with nothing to clean up.

### 2.4 SemanticIndex, MeansFunnel, RankFunnel

A document is its text and a chunk its position in it; a dataset row stands for
all chunks of one document, as `add_documents` appends them together. Vectors
are abstracted to what a query can see of them: the score of each chunk, and
which embedder of the chain made the vector - one of another embedder scores
`Foreign`, a number that means nothing. Chunks are embedded in calls of
`EmbedBatch` that cut across documents, and each call may be answered by another
link (`Calls`, `Rows`). `indexes` keeps every index object ever built, since a
running query holds on to the one it was planned over while `register` replaces
it; `registered` is the registry's entry. All of them are datasets in one
directory: a `Create` overwrites the one before it, whose versions stay readable,
and Lance refuses the append of a builder that still fills the overwritten one
(`AddDocuments` needs the newest index if it has anything to append; else it is
`BuildFails`). That refusal is Lance's: it is taken from how its versions of a
dataset work, not from code of this repository.

A builder creates (`BeginCreate` reads the column, `Create` writes the empty
dataset, `AddDocuments`, `Register`) or refreshes (`BeginRefresh` reads the
indexed hashes, `FilterNew` the column, `AddDocuments`). Those are the places
where it awaits or releases the dataset's mutex, so two builders and a query may
interleave there. `BuildFails` is every `?`. Reads are of a snapshot: `nearest_hits`
clones the dataset under its lock.

`MeansFunnel` runs one predicate in partitions. All share the cell of
`ChunkEvidence`: the first to poll fills it (`TakeSnapshot`, `FillCell`), the
others wait; if it fails, its partition fails and the next one tries
(`PrefilterFails`). `ScanBatch` splits rows three ways, `VerifyBatch` judges each
row that came through on its excerpts if the cell has any, else on its text.
`RankFunnel` searches, then reads the membership separately (`ReadMembership`),
as `rank.rs` does, so a refresh may land in between. Its sizes are computed in
machine arithmetic with `UsizeMax` as the greatest `usize`: the product of limit
and over-fetch wraps in a release build, the product of candidates and excerpts
saturates.

### 2.5 The operators' algorithms

`Calibration`: documents are numbered by the order `sample_priority` draws them
in; targets are percentages; that a Wilson bound reaches a target is the
equivalent polynomial inequality over counts and `z^2`, with a table of `z^2` for
the error split over m floors. The learned proxy is any assignment of the given
probabilities, trained on half of the labels when they allow it.

`Grouping`: a vector is a place on a line, a mean a pair of sum and count,
compared by cross-multiplication. `Seed` picks any starting documents the sampling
may pick, `Assign` and `Recentre` alternate as the loop does, `NameClusters` asks
for the groups the cache does not know and numbers equal names apart. The
silhouette is a choice of any count in `AUTO_K` that the documents allow.

`Classification`: a CASE is a sequence of MEANS conditions and ordinary branches
that are true, false or null on a row. A lookup tries the request's own prompt and
then that of a WHERE.

`Chunking`: a word is its index, a window an interval, `PushWindow` one turn of
the loop.

### 2.6 SemanticTypes, StatementPlanning, Sessions

A query is a record of what it says semantically (the list is at the head of
`StatementPlanning`); a type is its fields in order and its TOGETHER groups.
`Sessions` takes the steps of one statement apart where another session's DDL can
land between them: `Parse` reads the types, `Optimize` the types and indexes,
`PlanPhysically` the indexes again. DDL takes effect while it is parsed. The
progress loop takes an event from the channel in `Forward` (while the statement
runs) or `Drain` (after it) and has it in `hand` until the client takes it
(`SendNotice`): `client.send(..).await` can wait as long as a client does not read,
and the statement's future is not polled meanwhile (`Polled`). Sending into the
channel waits for `Room`. A client that is gone shows at the first send
(`SendFails`). Responses are held until the string ends; an encoding error
replaces them all. Job statements are answered here and executed in
`JobRegistry`.

## 3. Properties and runs

All safety runs check every interleaving of the instances below. Constants named
`Max...` other than `MaxConcurrent`, `MaxBatch`, `MaxInFlight`, `MaxRetries`,
`MaxIterations` and `MaxTokens` are bounds on how often the environment acts; they
are counted in the state, so the runs end, which is why `CHECK_DEADLOCK FALSE` is
given: a system whose clients have stopped asking stops, legitimately. What would
otherwise be a deadlock is covered by the liveness properties.

| run | shows | instance |
|---|---|---|
| `jobs_safety` | `PermitsConserved` (free and held permits add up, however tasks end); `QueuedCancelNeverWorks`; `ResultReadable` (no file without a footer is opened); `FinalTotalsShown`; `TerminalStable` | 2 jobs, each a query that asks a model or a command that does not, 1 permit, a channel of 1, 1 event besides the totals, 1 failed write, and a crash or another server that visits the directory |
| `jobs_live` | `TerminalSurvivesRestart`, `InterruptedMeansRestart`, `ImplementsLifecycle`; `CancelStopsWork` (fairness of the runtime only, the statement may hang), `EverySubmissionEnds` (if statements end) | 2 jobs, each a query that asks no model or a command that does, 1 permit, a channel of 1, 1 event of the one job besides the totals, 2 crashes, writes succeed, private directory |
| `store_safety` | `NeverAnswersTwoWays`, `FileHoldsUnitsWhole`, `ImplementsContract` | 2 instances, 2 askers, a unit of two keys, 2 model calls, 3 rows, 3 openings, 1 failed read, 1 failed transaction |
| `store_durable` | `UnitServedWhole`, `CloseLosesNothing`, `FlushCommitsSent`, `FlushReturns`, `BacklogReachesFile` | 1 instance, 2 askers, a unit of two keys and one of one, 3 calls, 3 rows, 2 openings |
| `calls_chain` | `TypeOK` (with it the bound on attempts), `OwnAnswers`, `AnsweredNotAskedAgain`, `FallbackAfterExhaustion`, `LastLinkAsked`, `BatchReturns`, `ImplementsChain` | 3 rows, 3 links, the first sloppy, 2 in flight, 1 retry |
| `funnel_queries` | `PrunedWasScored` (no row is lost for being new), `ReadAsScanned` (both stages of every partition go by one prefilter), `RegisteredIsWhole`, `LosersAreWorse` | 3 texts - two chunks astride the floor, one below it, none - 2 builders, 3 builds, 1 edit, 2 partitions, a filter or a ranking, embedder calls of 2 chunks, a `usize` of two bits |
| `operators_all` | `SampleSurvives`, `FailureOnlyLowersFloor`, `KeptRowsDiffer`, `ClustersSettle`, `GuardSkipsNothingNeeded`, `AnswersStayWarm`, `WindowsCoverText` | 4 documents, 2 similarities, tranches of 2; 4 places, counts 1 to 3; 4 CASEs over 3 rows, 2 statements; texts of 0 to 12 words |
| `sessions` | `NoticesThenResponse`, `WhereKeepsMatches`, `UnitsAskedWhole`, `EveryStringAnswered` | 2 sessions, 20 query strings, a channel of 2 |

Why the bounds are enough. Jobs: two jobs with one permit make every job both wait
and be waited for; a channel of one is full as soon as one event is in it, so that
the totals wait for the drain; two crashes put a crash inside a recovery. The two
runs share the four kinds of statement between them. Cache: with two askers and
two calls a unit can be evaluated twice in any order, which is what every cache
race needs; three openings let each of two instances run and one of them be
reopened; `MaxBatch` 2 makes a batch both end early and span messages. Calls:
three rows over a buffer of two make the buffer fill; a link that answers some
rows hands the others down with gaps; of three links, one may return anything, the
next both inherits and hands down, the last has to settle; one retry makes a
request both sleep and give up.
Funnel: three builds are a create and two refreshes of its index that read its
documents before either appends, so that it holds a document twice, or creates
that replace one another; one edit is a text the first build did not see; calls
of two chunks hold chunks of two documents; two partitions race for the cell, fail
it and inherit it. Operators: four documents give two tranches, a
half of two to train on, and failed labels above, below and between matches; four
places in two pairs give an empty cluster for some seed; the outcomes of the
ordinary branches include null before and after the first MEANS; windows of 0 to 6
words with overlaps below, at and above that. Sessions: two sessions suffice for
DDL between any two steps of a plan; the strings hold every operator, every error
of every stage and an error before and after a success; more plan lines than the
channel has room for make it fill.

Properties that hold only under a condition of the environment say it in their
comment. `TerminalSurvivesRestart`, `InterruptedMeansRestart` and
`ImplementsLifecycle` need writes of `job.json` to succeed (`persist` logs a
failure and goes on, so a job shown succeeded can come back interrupted) and a
directory of one's own. `UnitServedWhole` needs reads to succeed and one
instance: a read that fails in the middle of a unit is a miss, and the map may
then hold a unit from two evaluations; the file never does.
`CloseLosesNothing`, `FlushCommitsSent` and `BacklogReachesFile` need
transactions to succeed. `LosersAreWorse` is about one embedder: `funnel_spaces`
shows what a chain does. `SampleSurvives` is about the sample, not the relation:
what a sample says of a relation is statistics.

### Fairness

Safety runs and theorems use `Spec`, without fairness. `RuntimeFairness` of
`JobRegistry` says that tokio polls tasks that can go on, that handlers run to
their end once begun, that a dead server is started again; `Acquire` is strongly
fair because tokio's semaphore is a FIFO queue, so a waiting job is not overtaken
forever. Statements are not assumed to end in it - no provider sets an HTTP
timeout - and `CancelStopsWork` does not need them to; that a waiting send goes on
once there is room (`SendEvent`) is the runtime's part. `StatementFairness` adds
that assumption for `EverySubmissionEnds`, as its premise. In `VerdictStore`,
`FairSpec` is fairness of the writer thread, of the join in `Drop` and of the
askers' own steps; no client has to ask, no model has to answer and no server has
to stop. In `ModelCalls`, `FairSpec` assumes that the task is polled and its
timers fire, and, for `BatchReturns` only, that every request gets some response:
no provider sets a timeout, so the code alone does not guarantee it.

In `Sessions`, `FairSpec` is weak fairness of each connection's task, plus
`PlanningEnds`: a session is again and again not planning. A planning step is
enabled exactly while its statement is being planned and only the session itself
can end that, so this is what weak fairness of the planning steps comes to; it is
written on the states because TLC would otherwise plan every statement anew to
evaluate ENABLED. Streams end by fairness of `EndOfStream`, for which the same
holds as for `StatementFairness`: every provider call has to return. What the
property then says is about the channel: the notices of a running statement are
forwarded by the task that also runs it. `ClientReads` is an assumption about the
environment: a client takes what it is sent, or its connection fails. The code
puts no bound on a send, so a client that does neither holds its own statement up
for good.

### Where the code and its documentation disagree

| run | property | what TLC shows |
|---|---|---|
| `jobs_shared_dir` | `InterruptedMeansRestart` | a second server on the same jobs directory, which is the default for all, marks the first one's running jobs interrupted |
| `store_flush` | `FlushCommitsStored` | a flush between a store's unlock and its send returns before that verdict is committed |
| `store_rerun` | `RerunAgrees` | two tasks that miss a key together both ask; the loser returns its own answer, and re-running it returns the other's |
| `funnel_spaces` | `OneVectorSpace` | a chain of two embedders of one dimension embeds a query with another link than the documents of its index, and nothing notices |

The quoted lines are in `PROJECT.json` under `findings`; section 6 lists
disagreements noticed while modelling for which there is no run.

## 4. Proofs

Proved for every value of the constants - any set of jobs, keys, clients, texts
or queries, every number of permits, partitions and builders, every buffer and
bound - under the named assumptions of each module, which the runs also evaluate.
Most say what a constant is. Those that say more: units of the cache share no key
and every key belongs to one (`CacheKey.type_version` contains a hash of the
unit, `extract.rs`, `cache_key`); a rewritten CASE holds a MEANS; scores are
integers, those of a sample above the number that stands for minus infinity, and a
text's list of chunks is finite; what a statement lists is a finite sequence; the
table of `z^2` has an entry for every number of floors a sample can have and does
not decrease, since an error split over more floors asks for a greater `z`. The
last holds while `z` is not negative, that is, at confidences of one half and
above; below, the code's bound is no confidence bound in the usual sense, and
nothing is claimed.

`JobRegistryProofs`: `TypeCorrect`, `PermitsNeverLeak`, `QueuedCancelSafe`,
`ResultsReadable`, `TotalsShown`, `TerminalIsFinal`, and, under `Private` (writes
of `job.json` succeed and the directory is one's own), `TerminalSurvives`,
`InterruptedIsHonest` and `Implements`, the refinement of `JobLifecycle`. None of
the safety properties is inductive as stated. Their common strengthening `IInv`
adds what ties records, tasks, channels and files together: a record that
succeeded belongs to a task past its join with a drain that has emptied the
channel; the last mirrored event, the one the drain has in hand and the channel's
length make up what was sent (`Numbered`); a job that is not started has sent
nothing and has no file; a result path is set only when the file was closed, in
the directory as well as in memory, so recovery keeps it. `PermitsConserved` needs
a lemma on the cardinality of the set of holders when one task enters or leaves
it. What a restart does is not in `IInv`: `RestartInv` adds that a record in
memory is the one on disk, that a terminal status on disk is the one the job first
settled in, that until a server serves, every job whose record is still live was
cut off by the restart, and that what it has read back by then is terminal. The
refinement map is `Shown`, the status of the record on disk; recovery is then the
abstract interruption of the jobs that were shown busy.

`VerdictStoreProofs`: `TypeCorrect`, `FirstEvaluationWins`, `UnitsWholeOnFile`
and `Implements`, the refinement of `VerdictContract`; if transactions succeed,
`CloseIsClean` and `FlushCommits`; with one instance and reads that succeed,
`ServedWhole`. The strengthening `IInv`
adds: a closed instance has no channel and no asker inside; every key of a
message is in the instance's map with the same verdict; if a message or a store
about to send holds one key of a unit, it holds them all, from one call, unless
the file has the unit already (a map entry that came from the file is how a
store can find part of a unit present); a verdict an asker has read is on file.
The refinement then maps `Remember` to `Adopt` or a stutter, `Store` to
`Evaluate`, `Commit` to `Persist` of the units its batch adds, and `Open` and
`Crash` to `Forget`. `Durable`, for the second group: a verdict in a map is on
file, in the channel or about to be sent by the task that stored it, and a flush
request in the channel has everything it owes before it. `Whole`, for the third:
map and file agree where both have a key, so a read that missed the map cannot
bring back another evaluation than the one the map will hold.

`ModelCallsProofs`: `TypeCorrect`, `OwnAnswersAlways`, `AnsweredOnce`,
`FallbackIsLast`, `NoRowDropped` and `Implements`, the refinement of
`AnswerChain`, for any choice of links that break their promise. What the code leaves
implicit is that positions identify rows. `IInv` says so: `pending` is ascending
(`Order`) and holds exactly the rows without a result (`Open`), so each at one
position; request, outcome and row at a position belong together (`Buffer`); a
row is pending past a link only if that link has failed on it (`Exhaustion`).
`Apply` is then a `Round`, and every other step a stutter.

`SemanticFunnelProofs`: `FunnelTyped`, `IndexWhole`, `NoneLostForBeingNew`,
`StagesAgree`, and `BestAreKept` under the assumption that there is one embedder.
`IndexInv`: datasets only grow, and an index that is registered, or whose builder
has only the registration left, holds what it owed. `MeansInv`: the cell is
either unset or what `FilterScan` makes of the query's snapshot, whose documents
are the indexed ones; a partition that has scanned has its rows split by exactly
that cell, so what verification reads from the cell later is what was scanned.
`RankInv` (`Leads`): every document the search saw and did not make a candidate
has all its chunks below some chunk of every candidate. That last fact rests on
lemmas about `Hits`, the listing of a dataset best first: `Place` is a bijection
from the chunks onto their positions, as a chunk's place is one more than the
number of chunks better than it, so a prefix of the listing beats its rest - for
any bound on its length, the wrapped ones included.

`SemanticOperatorsProofs`: the operators run side by side, so each has an
invariant of its own, and a step of one leaves the others' alone.

- `WindowsCover` (chunking): the last window ends where the next start lies, plus
  the overlap; the overlap is shorter than a window, so starts advance.
- `GuardSkips`: on a row the guard refuses, some branch before the first MEANS
  holds, so the first branch to hold is the same for all verdicts. `StaysWarm`
  needs that every answered pair is in the cache under one of two keys, which are
  the ones tried.
- `KeptApart`: `KeptRowsDiffer` with `GroupingShape`, the types. It rests on what
  the greedy pass computes: a document is a representative exactly if no earlier
  representative is near (`RepsOf`), so each document has a first representative
  within reach, which is the one its key names, and two representatives are apart
  because the later one was tested against the earlier. The documents are the first
  occurrences of the rows' texts, which is what makes positions of documents and of
  rows comparable.
- `ClustersSettled`: `GroupingClusterInv` says what holds between `Recentre` and the
  next look at the points (`Centred`): every centroid with points is their mean, or,
  before the first means, all points are in the first cluster. If `Assign` then moves
  no point, each is in a nearest of these means. A first look that moves none leaves
  one cluster with points, and there is no other to be nearer to. Closer is shown to
  be a strict order (`RatioLess`, `CloserOrder`), so that a nearest centroid exists
  (`NearestOf`).
- `SampleKept` and `FailuresLower`, by way of `CalibrationProofs`: once a floor is
  set, the state still holds the labels and scores it came from (`Calibrated`), so
  both are facts about `Calibrate` and one sample. For the first, what the scan
  prunes is exactly what scores below the floor, on the scale of the scores it was
  estimated on (`ShareSurvives`), and recall counts every failed label below the
  floor as a loss. For the second: without the failed labels every candidate floor
  keeps the same matches out of no more, so any floor that met the target still
  does (`RecallWithout`, `EstimateLowered`). For a certified floor they also change
  which floors may be certified and over how many the error is split: without them
  there are no more, the certified floor has one at or above it that keeps the same
  matches, and a split over fewer asks less (`NextMatch`, `CertifiedFewer`,
  `CertificateLowered`). That last step is where the table of `z^2` has to be
  monotone.

`SessionsProofs`: `NoticesFirst`: between statements hand and channel are empty,
and what was written, what is in hand and what is in the channel are what was
sent; an error that throws responses away leaves notices alone. `MatchesKept` and
`WholeUnits`: neither property is inductive, since both are about a plan and the
statement it came from while types and indexes change under it. `PlannedInv`
follows a statement through the engine: while parsed it is one the string holds;
before optimizing, its casts resolve; a logical plan asks what its WHERE says by
filters and fused calls, whichever indexes it was rewritten over
(`MeansRewritten`), and a physical one by verifications and fused calls, whichever
indexes there are by then (`PhysicalOf`); its extractions ask for whole units of a
type that is still registered. Types are never replaced, and every registered one
is `Sound`: its groups are disjoint parts of its fields, since no name is declared
twice (`SoundOf`). That is why pruning leaves units whole: a field it keeps brings
its group, and no other group can overlap (`PrunedUnits`).

`SubsequenceProofs` has what these share: the order and elements of a part of a
sequence (`AtOf`, `OnlyOf`, `OnlyOnly`, `FirstsOf`) and of a concatenation
(`FlattenOf`). What a recursive function computes (`Representatives`, `Total`,
`FlattenSeq`) is shown for every finite sequence by induction on its length,
spelled out as a least counterexample (`LeastNat`, `AllNat`), as the library's
induction theorem takes an operator for a parameter.

The strengthenings were first checked by TLC as invariants, except where a
bound on a type makes that pointless.

Model-checked only: liveness (`CancelStopsWork`, `EverySubmissionEnds`,
`FlushReturns`, `BacklogReachesFile`, `BatchReturns`, `EveryStringAnswered`), as
fairness and ENABLED are out of the prover's reach, and the properties that TLC
shows violated. Every invariant and action property of the passing runs is a
theorem. RECURSIVE operators are out of its reach too; the modules declare none.
`SelectSeq` takes an operator as a parameter, of which the prover knows nothing:
the specifications take parts of sequences with `Subsequences` instead.

## 5. Not modelled, and the plan

Left out, and why:

- `InMemoryCache` overwrites on `put` and promises nothing about races; its
  properties would restate the map it is. `VerdictContract` is what the trait
  promises.
- The float arithmetic of similarities, regression, silhouettes and Wilson
  bounds: only the order of scores, and exact inequalities, are modelled.
- Tokens, precedence and plan trees: statements and queries are records of what
  they say. `optimizer/funnel.rs` is a `todo!()`.
- Times and ids: a job id is the clock plus a counter, and the model hands out
  each once.
- `open` of an index, which no statement reaches.
- HTTP bodies of providers, wire encoding beyond its failure, argument parsing,
  logging, EXPLAIN text, counters' wording.

What would add most next, in this order:

1. `EverySubmissionEnds` across sessions: `Sessions` and `JobRegistry` composed,
   so that a cancel comes from a connection that may be gone.
2. The verdict cache under the operators' algorithms: `Classification` and
   `Calibration` over `VerdictContract` instead of a map of their own.
3. Safety theorems in the shape of the liveness properties: that a statement in the
   engine always has a step of its own unless it waits for room or for a permit, so
   that only fairness is left to TLC.

## 6. Disagreements met without a run

Places where code and comment, or code and intent, part ways, noticed while
modelling and not worth a run of their own or outside what is modelled:

- `physical/cluster.rs:444`: "two groups must never share one" label.
  `deduplicate` numbers equal names apart, but a model that answers A, A and
  "A (2)" gives two clusters the label "A (2)", and `GROUP BY` merges them.
  `NameClusters` reaches such a state in `operators_all`.
- `optimizer/calibrate.rs:41` "stopping the moment the target certifies":
  candidate floors are certified with the error split over their number, but the
  floor that results is judged with all of it. When no candidate certifies, the
  floor is minus infinity, whose recall on the sample is 1, so the unsplit bound
  can meet the target and drawing stops with pruning off, although the budget
  still had labels with which a floor might have certified.
- `physical/rank.rs:143-144` "enough chunks to fill every candidate's evidence":
  a document with many good chunks can use up the fetch, and fewer candidates
  than asked for remain. `LIMIT * OVER_FETCH` itself is unchecked.
- `server/jobs/mod.rs:227` "cannot observe a handle-less record": a cancel between
  `create` and `spawn_attached` finds no handle; the task is then refused by
  `start`, so no model call is spent (`QueuedCancelNeverWorks`). `JobEntry.abort`
  is documented as present only while the task is alive, but nothing clears it when
  a task ends by itself; `cancel` refuses a terminal record before it looks.
- `optimizer/rewrite.rs:178` "fusion never loses on call count": with a warm cache
  for the first condition, stacking costs fewer calls.
- `physical/rank.rs:330-331` says that rows the search could not score are "counted
  separately in `unindexed_rows`, so index staleness shows up in the funnel". The
  membership is read after the search, from a newer version of the index, where
  `filter_scan` reads both from one: a document that a refresh adds in between was
  no candidate, is known, and counts as beaten (`rows_pruned`). `RankFunnel` keeps
  the two reads apart (`known`, `indexed`); without its `\intersect known`,
  `LosersAreWorse` fails.
- The repository's `README.md:141-142`: "Each column answers exactly what the same `MEANS` answers in
  a `WHERE`, so verdicts are shared". A CASE of several conditions looks for the
  verdicts of a WHERE, but stores its own under another prompt
  (`physical/classify.rs:434`), where no WHERE looks (`physical/verify.rs:298`): the
  WHERE asks again and may be answered otherwise. `Filter` of `Classification`
  reaches such states; `AnswersStayWarm` is about the CASE.
- `sql/distinct.rs:15-17` "which DISTINCT was the semantic one": once SEMANTIC
  occurs, every `DISTINCT ON` of the statement is wrapped, except in a branch of a
  UNION, which is no query of its own to the visitor: there a SEMANTIC DISTINCT ON
  is exact, or an error when no other is wrapped (`Keys`).
- `optimizer/rewrite.rs:352` leaves out a confidence of exactly 1, which the parser
  of `WITH CONFIDENCE` (`sql/recall.rs:86`) lets through: the statement fails in the
  optimizer (`Optimizable`).
- `server/handler.rs:126-127` "keep earlier statements' responses": an encoding
  error drops them.
- `optimizer/cluster.rs:224-225` has zero as the sentinel of an absent `INTO`; the
  code uses -1.
- `optimizer/rank.rs`, `find_fetch`: the first LIMIT from the root sizes every
  ranking, that of a subquery included.
- `optimizer/extract.rs`: inline EXTRACTs are one node per source, field and type;
  a second one with another doc text gets the first one's prompt.
- `physical/index_scan.rs`, `label_sample`: cached labels come first, so which half
  of the sample trains the proxy depends on what is cached.

## 7. Running

    tlc -config MCJobs_safety.cfg MCJobRegistry.tla
    tlapm VerdictStoreProofs.tla
