# tracejutsu: specifications and proofs

tracejutsu watches system calls through eBPF, correlates them into incident
candidates, scores the candidates, and stores events and incidents in SQLite for
later review and for reports by a local language model. These modules specify the
parts of it that are concurrent, stateful or bounded; TLC checks them on small
instances and TLAPS proves each safety property that holds, for every size.

## The system

| Part | State | Operations | Interacts with |
|---|---|---|---|
| collectors (`internal/ebpf`) | kernel maps, ring buffer reader | `Run`: set up, read, decode, normalize, send | read `/proc`; write to the sink; stopped by the context |
| container cache (`container_linux.go`) | entries by PID | `lookup` | reads `/proc`; one per collector |
| composite collector (`collector.go`) | results received, first error | `Run` | starts the collectors, cancels all when one returns |
| live run (`cmd/tracejutsu/main.go`, `runLive`) | sink, collector error, return value | select loop, deferred shutdown | everything |
| processor (`internal/pipeline`) | counters | `Add`, `FlushInactive`, `Drain` | correlator, detector, compressor |
| correlator (`internal/events/group.go`) | candidates, retained count | `Add`, `FlushInactive`, `Drain` | called by the main goroutine only |
| persistence queues (`internal/persistqueue`) | channel, closed flag, error, four counters | `Enqueue`, `Close`, `Stats`, `Errors`, worker | main goroutine, store |
| store (`internal/store`) | tables events, incidents, incident_events, llm_reports | saves, queries | both queue workers, demo runs, `llm` and `show` in other processes |
| opening the store (`path_security.go`, `schema_upgrade.go`, `setup_commands.go`) | directory, database, sidecars, schema | `OpenSQLite`, `init`, `doctor` | every command, in processes of their own |
| llm command (`main.go`, `runLLM`) | entries, counts | list or get, analyse, save report, print | store, llm client |
| llm client (`internal/llm`) | none | `Analyze`, `ValidateReport`, `RedactReport` | model server |
| show (`main.go`, `runShow`) | what it has read | three reads, print | store |
| detector (`internal/detect`) | maps of one analysis, score | `Analyze` | processor |
| compressor (`internal/compress`) | none | `Compress` | processor |
| redaction, reports | none | pure functions | store, output |

What is hard here: the queue's channel is closed from two sides; the worker fails
while clients enqueue; eight collectors share a sink that somebody has to close;
shutdown crosses five goroutines; a bounded correlator keeps a running count
through three ways to evict; several processes open, upgrade, write and read one
database, and any may die on the way; a model answers what it likes; and what a
record lacks is read from `/proc` when the process and its files may have changed
or gone, or cannot be looked at.
`PROJECT.json` lists these hazards with their lines.

What makes each part correct:

* queue: never panics, loses no accepted event silently, keeps order, counts
  everything once, and `Close` tells the truth and returns;
* correlator: limits and windows hold, history that is dropped is the oldest and
  is reported, the indexes describe the events held;
* store: an incident is visible with exactly its evidence or not at all, and is
  complete exactly when its report is stored; what is stored of an answer is what
  the model said, secrets redacted and null items of lists as empty texts; what
  `show` prints fits together though others write meanwhile;
* opening: an opened database is complete whatever state it was found in; a refused
  one has a reason the user can see; every open returns;
* live run: no send on a closed sink, no failure swallowed, a clean exit leaves
  nothing unanalysed or unsaved, and the run stops when it should;
* kernel programs: a captured call is output or counted once, a record has the
  return value of its own call and every field that is read of it;
* normalization: an event is true of the call whenever the code can know, which is
  when `/proc` could be read and neither process nor names of files changed; a
  record is discarded only for a reason; a collector's events come in the order in
  which the calls returned;
* container cache: a hit is about the process that has the PID, and a good entry
  outlives expired ones;
* detector and compressor: the evidence of a signal is a real chain of successful
  steps, the score is the capped sum of what the rules define, each repetition left
  out, and the timeline tells every event once.

## Modules

| Module | Models |
|---|---|
| `PersistQueue` | `queue.go`: mutex, channel, atomic counters, worker with batches |
| `QueueLedger` | what a queue promises, without goroutines; abstract |
| `PersistQueueProofs` | theorems about `PersistQueue` |
| `StreamGrouper` | `group.go`, the streaming correlator |
| `CandidateLedger` | what the correlator promises, without times and limits; abstract |
| `StreamGrouperProofs` | theorems about `StreamGrouper` |
| `Store` | `sqlite.go`, `llm_reports.go`, the `llm` command and `show`, statement by statement |
| `LLMClient` | `http.go`, `client.go` of `internal/llm`: which answers are accepted, what is stored of them; used by `Store` |
| `StoreOpen` | opening a database: path checks, schema script, upgrade; `init`, `doctor` |
| `EvidenceStore` | what the store promises: each call whole or not at all; abstract |
| `StoreProofs` | theorems about `Store` and `StoreOpen` |
| `LiveRun` | `runLive`, composite and collectors, with two `QueueLedger`s and a `CandidateLedger` |
| `LiveRunProofs` | theorems about `LiveRun` |
| `SyscallCorrelation` | the kernel programs of `syscall_linux.go` and `filewrite_linux.go`, with `metrics_linux.go` |
| `SyscallCorrelationProofs` | theorems about `SyscallCorrelation` |
| `EnterPrograms` | the eight `sys_enter` programs as graphs of blocks |
| `Capture` | from a system call to a normalized event, over `EnterPrograms` |
| `CaptureProofs` | theorems about `Capture` |
| `ContainerCache` | `container_linux.go`, with PIDs that are reused |
| `ContainerCacheProofs` | theorems about `ContainerCache` |
| `Detector` | `detect/rules.go`: the loop of `Basic.Analyze` |
| `Compressor` | `Processor.analyze` and `compress/compressor.go`, over `Detector` |
| `DetectorProofs` | theorems about `Detector`, in the specification `Compressor` makes of it |
| `MC*` | the instances for TLC |

**PersistQueue.** `mu`, `closed`, `err`, `errCh` and the four counters are the
fields of `Queue`; `buf` and `chanClosed` are the channel. Clients are goroutines
that call the exported methods in any order. An action is what happens between two
points where another goroutine can see a difference: taking the mutex, the channel
operation, each atomic operation. A save succeeds or fails (error or timeout).
Events are numbered by the call of `Enqueue` that offered them. A send to a closed
channel and a second close set `panicked`. `Producers` are the clients that call
`Enqueue`; everyone may do the rest. `incident_queue.go` is the same program with
`BatchSize` 1 and one record to a save, so the theorems are about it too; records
are values here, which is what its deep copy on `Enqueue` makes them.

**StreamGrouper.** Candidates are a set ordered by the arrival number of their
first event, which is their order in the code's slice. `Add` is one step up to
its eviction loop, and the loop is a step per turn. Events come with a timestamp
up to `MaxSkew` behind the clock, because collectors stamp them before they wait
for the sink.

**Store.** Each call is compiled to its list of statements, executed one at a time
on `work`, the transaction's view, while `db` is what readers see. Statements fail
by foreign key, by primary key, by row count, or for reasons of the environment at
any time. `tracejutsu llm` works through the pending incidents, or the one asked
for; it gets a reply, which `LLMClient` accepts or not, saves the report in a
transaction, and prints, which may fail after the commit. `tracejutsu show` reads
the row, the evidence and the report in three steps, outside a transaction. `at`
and `answer` in the rows are history. A record's id is stored through `Redacted`,
its links under the raw id, as the code does. What a batch works from (`ORDER BY`,
`LIMIT`) is any listing of that kind, as equal scores and times leave the order
open. Only one process holds SQLite's write lock; waiting longer than the busy
timeout is a failure of the call.

**LLMClient.** Operators only. A reply is an outcome and, for a completion with
content, a document: the kind and value of each field of the report, whether there
is a field too many, whether something follows it. The items of a list have kinds
too: a null item decodes to an empty text, as Go has it, and one of another kind is
refused. `Decodes`, `Decoded` and `ValidateReport` are the three steps of
`decodeReport`; a nil slice is not an empty one, because `ValidateReport` tells them
apart and `RedactReport` does not keep them. Each field occurs once in a document.

**StoreOpen.** `parent`, `file` and `side` are what `stat` shows of the directory,
the database and its two sidecars, `objects` what the schema script has made. Each
action is one look or one change another process could fall between: `Lstat` and the
exclusive create, each statement of the script (there is no transaction around it),
`PRAGMA table_info` and the `ALTER`. `conn` is the pool of one connection. SQLite is
external: statements are atomic, WAL mode makes the sidecars with the mode of the
database, and the last connection to close removes them. `Doctor` is what
`tracejutsu doctor` would find at that moment, kept for each process when it opens
or fails (`verdict`), and `rivals` says whose opens overlapped. Its specification is
`OpenSpec`, so that one proof module can extend it and `Store`.

**LiveRun.** One module for all goroutines of `tracejutsu run --db`. The eight
collector loops have the same shape, and each action is mapped to the lines of one
of them. The correlator is `CandidateLedger`, which `StreamGrouper` implements: an
event joins any candidate or opens one, any candidates may be returned as groups, and
`Drain` returns all. Any group may be suspicious. Writes to the output may fail.
Statistics ticks only print and are left out; so is a run without `--db`, which has
neither queue. A second signal after `stop()` kills the process like a crash.

**SyscallCorrelation.** One collector, with `file_write` as the example: the other
correlating collectors use the same two programs and differ in the calls they
capture. `pending` and `ring` are the maps, `stage` says which hooks are attached.
A program is one step, since it touches only its own thread's entry and atomic
counters; a hook that is closed runs no more. Records and return values are named
by the call they come from, so a record completed by the wrong call shows.

**EnterPrograms, Capture.** A program is its dispatch and its blocks, each with the
fields it writes and where it goes on. `Accepted` is what loading demands: every
label exists and every block is reached. In `Capture` a thread enters a call
(`Enter`), where the program makes a record, and returns from it (`Exit`), where the
record is output to the collector's ring buffer; that of `execve` is output on entry.
Calls of several threads overlap. The collector then resolves the file (`Resolve`),
takes the time and describes the process (`Describe`), and sends. Between these the
process may change directory, reopen the descriptor, execute, end, and another may
get its PID; its threads may take other names (`SetComm`); and anyone may rename or
remove its directory, file or executable (`Rename`), after which the links in `/proc`
read a new name, or the old one with " (deleted)" behind it. Any read of `/proc` may
fail (`readable`), for a live process too. `version` counts what the process did and
`renames` what became of the names, so `still` and `unmoved` tell whether a read of
`/proc` was about the state the call saw. The path may be cut or missing, since the
result of reading it from user memory is not looked at. The pairing with the exit
and its drops are left to `SyscallCorrelation`. Left out are other roots and mount
namespaces than the collector's and symbolic links; user memory is taken not to
change during the call, the wall clock not to be set back.

**ContainerCache.** `entries` is the map, `user` the local variables of a lookup,
`proc` what `/proc` shows. Two critical sections and three reads are separate
steps. `of` is history: whose files were read.

**Detector, Compressor.** The detector goes through the events of a candidate in an
order that the code's sort leaves partly open, so TLC tries every sequence over a
set of event kinds. An event has the attributes the rules look at; process names
and paths are their classes. The compressor's timeline keeps which event an entry
narrates, whether as a failure, and how many writes it stands for. Wording and the
identity of an incident are left out.

## Runs

| Run | Checks | Instance | States |
|---|---|---|---|
| `queue` | `NoPanic`, `Conservation`, `StoredInOrder`, `CloseNilMeansStored`, `SnapshotCoherent`, `FailureIsFinal`, `CloseReturns`, `ImplementsLedger` | 2 clients, one of which enqueues, capacity 2, batches of 2, 5 enqueues | 50 000 |
| `grouper` | `WithinLimits`, `HistoryReported`, `IndexesExact`, `SpanBounded`, `ImplementsCandidates` | 4 events of 4 shapes, limits 2/2/3, window 3 | 1 460 000 |
| `store_commands` | `EvidenceComplete`, `StatusMatchesReport`, `BatchAccounts`, `BatchEnds` | 1 writer, 2 batches, 3 calls, 3 records | 380 000 |
| `store_readers` | `AnswerStored`, `ShowCoherent`, `ImplementsEvidenceStore` | 1 writer with 2 of all exported writes, 2 llm commands, 35 replies, 1 show | 2 127 000 |
| `open` | `OpenedIsReady`, `FailureExplained`, `OpenReturns` | 2 processes, every state of directory, files and sidecars, 6 schemas | 427 000 |
| `live` | `NoSendOnClosedSink`, `CleanExitIsComplete`, `FailureIsReported`, `Stops`, no deadlock | 2 collectors, 2 records, buffers of 1 | 321 000 |
| `correlation` | `CapturedAccounted`, `WatchedIsOwn`, `FinalStatsComplete` | 2 threads, map and ring buffer of 1, 5 calls | 344 000 |
| `correlation_window` | `ReturnValueIsOwn`, violated | the same | |
| `capture` | `RecordIsWhole`, `EventIsTrue`, `DiscardIsExplained`, `CollectorOrder` | 5 collectors, 1 PID with 2 threads, 2 directories, 2 calls and 3 calls and changes together | 3 746 000 |
| `capture_behavior` | `NoneRefused`, violated | the seven behavior collectors | |
| `container_cache` | `HitIsOwn`, `EvictsExpiredFirst` | 1 user, 3 PIDs, 3 processes, 2 entries, times 0 to 2 | 341 000 |
| `analysis` | `DownloadChainSound`, `FailedNeverCounts`, `TimelineComplete`, `ScoreExplained` | every sequence of 5 of the chain's events, and of 3 of all rules' | 607 000 |

Bounds. Five enqueues fill a channel of two and a batch of two and leave one to be
refused, so that full batches and a failure with events behind it occur too; the
second goroutine, which may close the queue at any time, is one more than the
program has. In the correlator the three limits differ and all bind within
four events, and the window is longer than the inactivity timeout so that either
can flush. Three calls are enough to save an incident, save another version of it
and interfere once more while two batches run; two of all exported calls, with
replies of every kind, leave `show` an old version, a new one and two reports to
mix. Two processes are enough for any race in opening, since each step looks at or
changes one thing; the schemas are an empty file, two that died in the script, two
of earlier releases and a complete one. Two collectors and two records leave
one collector blocked in `Read`, one on a full sink, and one returned, in turn;
three records give no new control state but 13 million states and more.

With map and ring buffer of one record, two threads fill either; five calls are one
before the hooks, one between them and three after.

In `capture` one PID is enough, since a collector looks at nothing but the PID of
its record; two calls, of one thread or overlapping ones of two, show the order of
two events of a collector, and two changes a process that ends and is replaced, or a
file that is renamed twice. A cache of two entries for three PIDs evicts,
and three processes reuse a PID while another entry expires. The chain from
download to connection has four steps, so five events leave room for one that
disturbs it; no rule but those of the chain relates more than two events.

Deadlock is checked except for the store and its opening, where commands simply end, for an
analysis, which ends too, and where system calls, processes or time are bounded.

Two runs end in a violation. `correlation_window`: `docs/HANDOFF.md:309` says that the probes correlate
entry and exit and that emitted records include the system call's return value. A
call that is captured after the enter hook is attached and returns before the exit
hook is leaves its entry behind, and the exit program, which does not look at the
number of the call that returns, completes it with the return value of the thread's
next call, a `read` for example. It happens once per thread at most, at start; a
call entered with both hooks on always gets its own value (`WatchedIsOwn`).

`capture_behavior`: `README.md:20` says that `--collectors behavior_core` adds
sensitive file reads and network server activity. In the programs of
`sensitive_read`, `file_lifecycle` and `network_server` the block `init`, which
clears the record and fills its header, stands behind an unconditional jump and no
dispatch leads to it. The kernel refuses programs with unreachable instructions; if
it did not, records would have no PID and no key. On arm64 `truncate` also goes to
a label that is only defined for amd64.

Some words of the repository say more than the code does, without a run of their
own. `README.md:14` calls `execve` events process starts; they are recorded on
entry, and one that fails looks like one that succeeds. `rule_definitions.go:38`
says that a downloaded executable opened a connection; a process that ran one and
has executed another program since still counts. `rule_definitions.go:74` says that
a process read a sensitive file; a failed open counts, and the incident's own
timeline calls it a failure. `rule_definitions.go:92` and `:98` say that a process
attempted a call on privileges or namespaces; the code lists the call only when it
succeeded (`rules.go:158`, `:164`), so `FailedNeverCounts` leaves these rules out
with the two that count attempts. Where nothing is said, three behaviours may still
surprise. Events of overlapping calls come in the order of the returns, not of the
calls (`syscall_linux.go:86`), which `CollectorOrder` states. An event about a file that was
renamed or removed after the call has its later name, or one that ends in
" (deleted)" (`syscall_linux.go:155`); `EventIsTrue` says which. A record whose link in
`/proc` cannot be read is discarded without a trace, and the packaged service runs
without `CAP_SYS_PTRACE` (`tracejutsu.service:32`), which reading the links of another
user's process takes; `DiscardIsExplained` lists this among the reasons. An item null
in a list of an answer is stored and shown as an empty text, although
the schema that is sent asks for strings (`http.go:273`). The sentence of `compressor.go:212` tells of one file
and is chosen by the names of signals, which may be about several.

Fairness. `PersistQueue`: the worker and a client inside a call go on, because
nothing but the mutex and the channel can hold them and saves have a timeout;
nothing is assumed of idle clients. `Store`: transactions end (timeouts), a batch
goes on. `StoreOpen`: a command that was started goes on by itself, so a wait for the
one connection would show. `LiveRun`: goroutines that can run do, and `select`, which picks at random
among ready cases, is not kept from the others by ticks. Signals, ticks, records
and failures are never assumed to come.

What holds, in the cases that look doubtful: events accepted after a failed save
but before `recordError` has the mutex are counted as dropped, once. A snapshot of
`Stats` mixes moments, and `SnapshotCoherent` states which inequalities survive
that for the one client goroutine. An incident whose id redaction changes is
refused whole, by the foreign key; so is one with an event id twice. An incident
saved again becomes pending though its old report stays. `show` may print evidence
or a report newer than the row it read, but never calls an incident complete
without a report made after that row. A batch counts an incident as failed when its
report was stored but could not be printed, so `BatchAccounts` bounds the count of
complete ones from above. An open may fail because another process was creating or
upgrading the same database (`FailureExplained` admits no other cause but those
`doctor` shows, a missing database, and one more: sidecars without a database, which
`OpenSQLite` refuses and `doctor`, after the advice to run `init`, does not mention).

## Proofs

A theorem holds for every value of the constants that the named assumptions admit;
TLC evaluates these assumptions in every run of the module. Each section names the
inductive invariant and says why the property does not carry itself.

`PersistQueueProofs` (any number of clients, any capacity, batch size and number of
calls; assumptions `QueueAssumption`, `ProducersAssumption`). `IInv` joins the types
with `MutexInv` (who is at which label of a critical section holds the mutex),
`ClosedInv` (the flag, the channel and the mutex holder agree, so nobody at `send`
meets a closed channel), `WorkerInv` (batch, error and end of the worker agree),
`CountInv` (counters against accepted and saved) and the two properties
`Conservation` and `StoredInOrder`, which are inductive relative to the others.
`NoPanic` alone is not inductive: it needs to know that a client about to send
holds the mutex under which the channel is closed. `CloseNilMeansStored` needs all
of them: the worker ended without an error, hence drained a closed channel.
`SnapshotCoherent` adds what the loads made so far have in common with the counters
now: `CallerInv`, `CallsInv` (received is counted before enqueued) and `SnapInv`
(while the only producer reads, what it alone changes stands still and what the
worker changes only grows). `ImplementsLedgerSafety` is the step-by-step half of
`ImplementsLedger`: events waiting, lost and stored, and the phase, computed from
the queue, move as `QueueLedger` allows. It needs `OfferInv`: an event that is being
decided has not been accepted already.

`StreamGrouperProofs` (any shapes of events, limits, windows and skew; assumption
`GrouperAssumption`, of which `MaxEvents <= MaxRetainedEvents` is what
`NewStreamGrouper` enforces). `BornInv` makes the arrival number of its
first event a name of a candidate; `CountInv` says that the running count is the sum
over the candidates, which lets `WithinLimits` through the three ways to evict and
shows that the eviction loop never runs out of candidates (`TrimFindsCandidate`).
`SpanInv` is stated about late events, which may be older than the candidate's start
by `MaxSkew`. `HistoryInv` counts the events that joined a candidate against those it
holds and those it reports as dropped, all of these older. `ImplementsCandidates`
follows from them, one step of `CandidateLedger` for each of the correlator's.

`LiveRunProofs` (any finite set of collectors; assumption `LiveAssumption`).
`SinkInv` counts: results received and waiting are as many as the collectors that
returned, so when the composite has one from each, all have, and only then is the
sink closed. `ExitInv` follows the return value through the deferred calls.
`CleanExitIsComplete` also needs `PlaceInv` (once the main goroutine has seen the sink
closed and drained the correlator, nothing comes after), `ReportInv` (a suspicious
group is still to be written or was offered to the queue) and `QueueInv`.

`StoreProofs`, first part: `Store` (any numbers of writers, llm commands and readers,
any records, answers and redaction of ids that is idempotent; assumptions
`StoreAssumption`, `CallsAssumption`, `EvidenceAssumption`). `StoreInv` says of an
open transaction which call it executes, how many of its statements are done and
what they have made of `work`; at the commit this is the whole call, which is
`ImplementsEvidenceStore`. The invariants after that are about whole calls only and
use the abstract steps. `RowsInv` compares the ages of a row and its report:
`StatusMatchesReport` and `AnswerStored`. `EvidenceInv` gives `EvidenceComplete`,
under `Bare = {}`: no incident is saved by `SaveIncident` alone or linked by
`LinkIncidentEvents`, as no command does; both are exported and could be so used,
and then the evidence is the caller's. With
`ShowInv`, what `show` has read is as old as it was and may have been replaced since
only by something younger: `ShowCoherent`. `AccountsInv` relates the counts of a run
of `llm` to its entries and to the reports stored by it: `BatchAccounts`.

`StoreProofs`, second part: `StoreOpen` (any number of processes, any part of the
schema found; assumption `OldAssumption`). `OpenInv` says what a process knows at
each label: `FilesAt` of directory and files, `SchemaAt` of the schema. Neither would
last if another process could undo it; the invariant shows that none does. That
gives `OpenedIsReady`. `FailureExplained` is about who won a race: `RivalInv` and
`RaceInv` say that whoever meets a file or column that appeared between two of its
looks overlaps with a process that cannot fail any more (`Safe`).

`SyscallCorrelationProofs` (any finite set of threads, sizes, return values and calls;
assumption `CorrelationAssumption`). `PlaceInv`: a captured call is in one place, the
map, a record or the replaced entries, without which the sizes in
`CapturedAccounted` would not add up. `WatchInv`: while the exit hook is on, the
entry of a watched call is the one its thread is in. `DetachInv`: the counters do
not move once both hooks are closed, so the last reading is complete.

`CaptureProofs` (any processes, threads, directories, names and numbers of calls and
changes; assumptions `CaptureAssumption`, `LegacyAssumption`). `FreshInv` is the heart
of `EventIsTrue`, for records of calls under way as well as for those waiting: as long
as the version of a process is the one of the record, `/proc` still shows a file if
one was meant, and as long as nothing was renamed either, it shows that file and the
executable by the names they had. `TruthInv` keeps it from the read on. `OrderInv`
goes along the way of a collector's records, from the ring buffer through the hand
into the sink, and compares both ends of the calls (`Before`): records are output as
calls return, whichever was entered first, and only for calls of one thread does the
order of the returns give that of the entries. For that it must know that a call
which a thread is in was entered after every record of the thread was output
(`Old`). `DiscardIsExplained` is inductive relative to these.

`RecordIsWhole` and `NoneRefused` are about the programs, over which `Accepted` and
`Outcome` walk recursively. A recursive function is used here through its equation,
which needs a proof that a solution exists: `ExpansionExists` for the sets `Accepted`
grows label by label, `ShortWalk` for the ways through a program that is accepted,
which take at most two blocks after the dispatch. Both argue by the least
counterexample (`NatMin`) where one would use induction. `ProgramRefused` shows that
some label of `sensitive_read`, `file_lifecycle` and `network_server` is not found
however far the walk goes; so `LoadInv`, that what is loaded is accepted, leaves the
other collectors, whose programs are gone through one by one (`ProgramAccepted`).
`NoneRefusedCorrect` is what remains true of the property that run
`capture_behavior` violates: without those three, nothing is refused on either
architecture.

`ContainerCacheProofs` (any PIDs, containers, sizes and times; assumptions
`CacheAssumption` and, in the theorems, a single user). `HitIsOwn` is not inductive:
the start time, the container and the hostname are read one after the other, and an
entry may be stored under the start time of a process that has gone with what its
successor's files said. `OwnInv` says that such an entry is dead: an entry, or a
lookup under way, is about the process whose start time it has, or no process has
that start time any more, and none will. With two users the theorem is false, since
the second may have read the start time while the process lived; every collector
has a cache of its own, so there is one. Start times are taken to be unique, where
the kernel's have the resolution of a clock tick. `EvictsExpiredFirst` adds
`Bounded`, that the cache does not exceed its size, and follows store by store.

`DetectorProofs` (any kinds of events in any number and order; assumptions
`DetectorAssumption`, `KindsAssumption`: PIDs and paths of the events are in the sets
the maps are over, and an execve record has no outcome). `FailedNeverCounts` and
`DownloadChainSound` are about signals, the invariant about what they are made from:
`MapsInv` says that each entry of the detector's four maps is the chain of events, by
the same process and about the same file, that the entry stands for, and `SignalOK`
that each signal was. `KeysInv` says that the keys of the listed signals are reported
and differ, so a key that is not reported is new. `ScoreInv` gives the score as the
capped sum; `ScoreAdded` follows the code's loop, which caps after every signal, next
to the sum, which does not. For `TimelineComplete`, the events that an entry stands
for form a `Class`; no two classes meet (`CoveredOnce`), together they are all events
(`CoveredAll`), and the loop of the timeline adds up their sizes (`TimelineCounts`).
The loops are recursive functions again, used through `Iteration` and `TotalIs`.

Only model-checked:

* `CloseReturns`, `BatchEnds`, `OpenReturns`, `Stops`, the fairness half of
  `ImplementsLedger`: liveness and `ENABLED` are out of the proof system's reach.
* `ReturnValueIsOwn`, and `NoneRefused` for all collectors: they are violated.


## Not modelled

* Redaction and report formatting: regular expressions and layout. Kept is what
  redaction does to ids and that it leaves no list shorter.
* Listing commands and their queries, except the one the batch works from; the
  request to the model server (prompt, schema, endpoint address), which is data
  sent out; the tests of `doctor` that only warn.
* `TreeGrouper`, which only tests use. It shares `related` and `add` with
  `StreamGrouper`, but sorts its events first and has neither limits nor flushes.
* `normalize` of `sensitive_read`, `file_lifecycle` and `network_server`: their
  programs are refused by the kernel (`capture_behavior`), so it never runs.
* System calls and HTTP as such (I/O), configuration constants, the stubs for other
  platforms.

The per-connection pragmas are taken as set: the pool has one connection and never
replaces it. Counters are unbounded in the models; the code's are 64 bits wide.

## Plan

The modules and the proofs cover what was planned. Still worth stating: the action
property of the store that a report is never lost by saving another incident, and
`HitIsOwn` for start times with the resolution of a clock tick.
