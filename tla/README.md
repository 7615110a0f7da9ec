# A TLA+ model of the YOLO-Ave-Mujica platform

The repository is a platform for computer-vision data: datasets and snapshots,
annotation tasks, a review and publish workflow, artifact builds, and a job
control plane that hands long work to Python workers over Redis. This project
models the parts of it in which several actors change shared state, checks them
with TLC on small instances, and proves the main properties with TLAPS for every
value of the constants.

`PROJECT.json` holds the component list, the runs, the map from definitions to
source lines, the hazards, and one mutant per checked property (a plausible bug
in the code that the property must catch).

## 1. Inventory

| component | source | state | operations | what is hard |
| --- | --- | --- | --- | --- |
| job control plane | `internal/jobs/{handler,service,postgres_repository,dispatcher}.go` | table `jobs` (status, worker, lease, stamps, retry count), Redis lanes | CreateJob; heartbeat, progress, event and terminal callbacks | a request is several statements without a transaction; the push follows the insert; callbacks come from any worker at any time |
| sweeper | `internal/jobs/sweeper.go`, background loop in `cmd/api-server/main.go` | none of its own | Tick: requeue retry-ready jobs, fail or park expired ones | acts on lists read earlier; the first error ends the Tick |
| in-memory job repository | `internal/jobs/repository.go` | map of jobs behind a mutex | the same interface | the mutex is free between two calls of the sweeper |
| worker runtime | `workers/common/{queue_runner,job_client}.py` | message in hand, heartbeat thread | pop, reject, heartbeat, handle, report | the pop consumes the message; an HTTP error ends the process |
| publish gate | `internal/publish` | batches, items, records | create, edit, review, owner decision, publish | check in the service, transaction in the repository; the task is created after the commit |
| tasks, annotations | `internal/tasks`, `internal/annotations` | task status, drafts with revisions | transition, save, submit | submit moves draft and task in two steps |
| artifacts | `internal/artifacts` | artifact rows, files, build queue | create, build, complete, recover at start | rename before row update; bounded queue; restart |
| review candidates | `internal/review` | candidates, audit log | persist, accept, reject | a retried job persists again; two reviewers decide at the same time; accepting writes into a snapshot that may be imported |
| datahub | `internal/datahub` | datasets, items, snapshots, annotations, change log | scan, snapshot, queue and deliver an import | an import is delivered more than once and inserts entry by entry without a transaction; snapshot versions are counted and then inserted |
| versioning | `internal/versioning` | none | diff of two lists or two snapshots, compatibility score | a greedy pairing whose result depends on order and threshold |
| command line client | `internal/cli` | temporary file, directory and report on the user's disk | pull with resume and verification | killed anywhere; files are named after the version only; goroutines verify |
| authentication and rate limit | `internal/auth` | one counter per client | allow, refuse | the clock is read before the mutex is taken; rounding of Retry-After |
| overview, audit, observability, server, config, storage, web | the remaining directories | little or none | I/O | |

How they interact: the HTTP handlers call a service, the service its repository
and (for jobs) the dispatcher, which pushes a message on a lane. Workers pop
lanes and call back over HTTP. The sweeper runs in the API server and shares
the `jobs` table with the handlers. The publish service calls the task service
after a publication; the job service calls the review component when a worker
reports candidates. Importer jobs deliver their entries to datahub, which shares
the table `annotations` with the review component and with versioning. The command
line client talks to the artifact endpoints only.

What makes each part correct:

* jobs: a job is dispatched once per idempotency tuple, follows the transition
  table, is retried no more often than allowed, is not lost and does not stay
  running when its worker is gone;
* publish gate: what is published was reviewed, once, and is evaluated;
* tasks and annotations: a submitted draft and its task agree; no save is lost;
* artifacts: a ready artifact has its files; no build is stuck for ever; a package
  holds every image and every box and passes its own verification;
* results of a job: what was reported is found again, whichever report was lost;
* snapshots: an acknowledged import is complete, rows and change log agree, a
  candidate is decided once;
* diff: every box is counted once, and a score of one means equal lists;
* pull: what is called pulled is complete, verified and what was asked for;
* rate limit and backoff: the bound holds, waiting as told suffices, the delay is
  doubled, capped and never negative.

## 2. Modules

| module | models | extends |
| --- | --- | --- |
| `JobStates` | statuses, transition table, what a deadline is | |
| `JobControlPlane` | requests and sweeper on the Postgres repository, statement by statement | `JobStates` |
| `JobControlPlaneProofs` | its theorems | `JobControlPlane` |
| `JobLifecycle` | abstract specification: what a job repository promises | `JobStates` |
| `InMemoryJobs` | the in-memory repository and the sweeper, method by method | `JobStates` |
| `WorkerFleet` | rows, lane, workers and sweeper composed; fairness | `JobStates` |
| `WorkerFleetProofs` | its safety theorems | `WorkerFleet` |
| `PublishGate` | one batch of the publish gate on Postgres | |
| `PublishGateProofs` | its theorems | `PublishGate` |
| `AnnotationWorkspace` | one annotation task, its draft and the pages open on it | |
| `AnnotationWorkspaceProofs` | its theorems | `AnnotationWorkspace` |
| `ArtifactBuild` | artifact rows, build queue, builders, storage, crash and restart | |
| `SnapshotContent` | snapshots, imports and review candidates on Postgres | |
| `JobResults` | reports of overlapping attempts: candidates, events, result reference | `JobStates` |
| `JobResultsProofs` | its theorems | `JobResults` |
| `ArtifactPull` | the command `pull`, its files on disk, kills, signals and errors | |
| `SnapshotDiff` | the diff of two lists of boxes and its score | |
| `PackageExport` | file names, label files and manifest of a package | |
| `RateLimit` | the fixed-window limiter | |
| `RetryBackoff` | the delay before a retry, in integers of fixed width | |
| `ServerMemoryProofs` | the refinement theorem of the in-memory repository; theorems of limiter and backoff | `InMemoryJobs`, `RateLimit`, `RetryBackoff` |
| `ArtifactProofs` | theorems of build, package and pull | `ArtifactBuild`, `PackageExport`, `ArtifactPull` |
| `SnapshotProofs` | theorems of snapshots and of their diff | `SnapshotContent`, `SnapshotDiff` |
| `MCServerParts` | in-memory repository, diff, package, limiter and backoff side by side | all five |
| other `MC*` | instances for TLC | the module they name |

### JobControlPlane

A job is its idempotency tuple (project, job type, key); `Jobs` is the set of
tuples. The row's columns are functions on `Jobs`: `status`, `workerId`,
`leaseUntil`, `startedAt`, `finishedAt`, `retryCount`, `errorCode`. `lease_until`
is compared with the clock and with nothing else, so it is `null`, `future` or
`past`; `DeadlinePasses` is the clock. `startedAt` and `finishedAt` are "not
null", `errorCode` is "is lease_timeout".

A request in flight occupies a slot of `req`: which statement it issues next and
what it has read. An arrival is merged with the read that opens the request.

| code | actions |
| --- | --- |
| `CreateJob` / `CreateOrGet` | `CreateJobExisting`, `CreateJob`, `InsertJob`, `InsertConflict`, `PublishCreated` |
| `ReportHeartbeat` / `Claim`, `UpdateStatus`, `TouchLease` | `ReportHeartbeat`, `ClaimGet`, `UpdateStatusGet`, `UpdateStatusWrite`, `TouchLease` |
| `ReportProgress` / `UpdateProgress` | `ReportProgress`, `UpdateProgressWrite` |
| `ReportTerminal` / `Complete` | `ReportTerminal`, `CompleteWrite` |
| `Sweeper.Tick`, first loop | `ListRetryReady`, `RequeueGet`, `RequeueWrite`, `RequeuePublish` |
| `Sweeper.Tick`, second loop | `ListExpiredRunning`, `MarkFailed`, `MarkRetryWaitingGet`, `MarkRetryWaitingWrite`, `IncrementRetryCount`, `TickDone` |
| an error anywhere | `RequestFails`, `SweeperFails`, at most `MaxFailures` of them |

`createPushes`, `retryPushes` and `acked` are history variables: how often a
message was pushed, and whether a caller was given the job. Two details that are
easy to miss are in the model because properties depend on them: the deadline
`TouchLease` writes was computed when the request arrived and may have passed;
and a list of the sweeper is any subset of the rows that are due, because its
clock is the one of the ticker and a failing query yields an empty list.

The environment is open: any worker may post any callback about any job.

### InMemoryJobs and JobLifecycle

Each method holds the mutex and is one step. The sweeper is a process between
whose calls callbacks may come. Its lists hold pointers, so the retry count it
decides on is the current one, and `MarkFailed` checks the transition here,
unlike in the Postgres repository. The refinement maps `status` to itself and
`attempts` to the retry count plus the increment that is still to come.
The Postgres repository does *not* implement `JobLifecycle`: a writer that acts on an
older read takes edges it does not have. How far that goes is what
`TerminalLeftOnlyOnStaleRead` says.

### WorkerFleet

A call to the control plane is one step here, the row and the push stay two.
The lane is a sequence: the server pushes at the back, workers pop the front,
and a worker that cannot handle a message puts it back at the front (`RPUSH` to
a list that is popped with `BRPOP`). A worker goes through `popped`, `working`,
`report`, `complete`; the calls that `dispatch_once` does not guard end the
process (`Dies`). A handler that raises and one that returns both end in
`HandlerEnds`; the reported status is `succeeded` or `failed`
(`succeeded_with_errors` and `canceled` behave like `succeeded` here).

### PublishGate

An item is the number of the edit it came with: only which edit an item came
from matters. A request loads the batch (`read`), checks, and then runs its
transaction. `ReplaceBatchItems` is three steps because its delete works on
the rows visible when it starts, and the batch is locked only afterwards.
`reviewed` is a history variable: the contents at the moments of approval.
`PublishRecord` refers to its batch and copies no items. `overlaps` is history too:
the requests that were past their check while another one committed. The rules of
the design (`SerialPublishing`: published content was reviewed, is published once and
is of one edit) hold while it is empty; the other properties hold under any overlap.

### AnnotationWorkspace

The draft's body is the number of the save that wrote it. A page shows the revision
and the body it was last given and sends that revision as `base_revision`, as
`annotation-workspace-page.tsx` does. The answer to a save may be lost, and then the
page stays behind the row it wrote itself.

| code | actions |
| --- | --- |
| `tasks.CreateTask` | `CreateTask`, in any valid status |
| `GetWorkspace` | `GetWorkspace` (without a row: revision 0 and an empty body) |
| `SaveWorkspaceDraft` / `SaveDraft` | `SaveWorkspaceDraft`: one transaction that locks the row |
| `SubmitWorkspace` / `Submit` | `SubmitWorkspace` reads the task, `Submit` is the transaction on the draft |
| `tasks.TransitionTask`, called by a submission | `TransitionGet`, `TransitionWrite` |
| `tasks.TransitionTask`, a request of its own | `TransitionTask`, `TransitionWrite` |
| an error or a crash between two statements | `RequestFails` |

`reached`, `refused` and `failures` are history. What the model makes visible besides
the properties: `SaveDraft` does not compare a base revision of 0, so a page opened
before the first save overwrites any draft; a submission for a task whose status has
no edge to `submitted` freezes the draft and answers an error; and a draft stays
submitted when its task is sent back for rework, so it cannot be edited any more.

### ArtifactBuild

A row is its status; `Version` and `Format` are fixed per artifact. `creating` are
requests that have inserted their row and wait to send on the channel, `queue` is the
channel, `proc` the goroutines of the runner (`Builders`) and the requests
`CompleteArtifact` in flight (`Completers`). `temp[v]` and `final[v]` are the
directories `<version>.tmp` and `<version>`: the archives in them, each with the
artifact it was built for.

| code | actions |
| --- | --- |
| `CreatePackageJob`, `BuildRunner.Enqueue` | `CreatePackageJob`, `Enqueue` |
| `BuildRunner.Start`, `buildArtifact` | `Receive`, `StartBuild`, then `StoreBuild`, `MarkReady` or `failBuild` |
| `CompleteArtifact` | `CompleteArtifact`, then `StoreBuild`, `MarkReady` or an error answer |
| `FilesystemStorage.StoreBuild` | `CheckVersion`, `RemoveTemp`, `MakeTemp`, `CopyPackage`, `CopyArchive`, `CopyManifest`, `Rename`, `Cleanup`; `StoreFails` from any of them |
| an update of a row fails | `UpdateFails` |
| the process ends; `MarkStaleBuildsFailed` in `main.go` | `Crash`; `Restart` |

A `RemoveAll` and a copy are one step each, while the real ones work file by file. Where
one process stores a version this makes no difference. Where two do, real
interleavings are finer than the model's, so the property that holds about the
directories, `ReadyHoldsItsPackage`, excludes versions in the history variable
`overlapped`.

### SnapshotContent

A request in flight occupies a slot of `req`. A box is a number in units of 10^-7,
because `importedAnnotationKey` prints six decimals and so identifies boxes that
differ in the seventh. `posts` are the deliveries of imports with their outcome,
`overlaps` the pairs of deliveries that both found their snapshot empty.

| code | actions |
| --- | --- |
| `ScanDataset` | `ScanDataset` |
| `CreateSnapshot` | `CreateSnapshot` (the count), `InsertSnapshot` (refused by the unique index when the version is taken) |
| `ImportSnapshot`, queued as a job | `QueueImport` |
| `CompleteImportSnapshot` / `ImportSnapshot` | `CompleteImportSnapshot` lists and decides, then per entry `RefuseEntry` or `CreateAnnotation` and `RecordAnnotationChange`; `ImportFails` cuts it short |
| `PersistCandidates` | `PersistCandidates`, one transaction |
| `AcceptCandidate`, `RejectCandidate` | `AcceptCandidate`, `RejectCandidate` take the row lock, `CommitReview` or `RollBack` end the transaction |

### JobResults

One job, its attempts, and the reports of each: persist the candidates, append the
event, read and write the reference, read, check and write the status, append the
terminal event, read and write the reference again. Attempts overlap when a lease runs
out under a worker that still reports. The result of an attempt is named by its number;
a type, a count and a name are what `mergeResultRefs` and `extractResultRef` treat
differently, and a count of 0 is the same to them as none. The four kinds of jobs are those
that report differently: candidates, frames, cleaning reports (a result also when nothing
was flagged, and also under a terminal status `failed`), and packages, which are named in
the terminal report only.

| code | actions |
| --- | --- |
| `dispatch_once`, the handler ends | `HandlerEnds` |
| `ReportEvent`, `persistReviewCandidates` | `persistReviewCandidates`, `ReportEvent` |
| `StoreResultRef`, `mergeResultRefs` | `StoreResultRefGet`, `StoreResultRefWrite`, twice |
| `ReportTerminal` / `Complete` | `CompleteGet`, `Complete`, `ReportTerminal` |
| `GetJob`, `extractResultRef` | the operators of the same names |
| `Sweeper.Tick`, retries used up | `MarkFailed` |
| an error, a crash of server or worker | `ReportFails` |

### ArtifactPull

The state is what stays on disk between commands (`part`, `dir`, `report`) and the one
command that runs; commands in one output directory are assumed to run one after the
other. An archive is a sequence of blocks, one per file, and the end mark of the tar;
a download may stop after any block. A server that supports ranges answers 206, one that
does not 200, and a range past the end 416, after which the download starts again from
zero. An archive put together from parts of two artifacts is garbled from the seam on:
extraction then fails or yields a damaged file, a nondeterministic choice. `TakeEntry`,
`VerifyEntry` and `OutcomesClosed` are the goroutines of `verifyManifestEntries`.

| code | actions |
| --- | --- |
| `runPull`, `Pull` | `Start` |
| `resolveArtifact`, a request of its loop | `ResolveArtifact`, `ArtifactUnavailable` (404), `ResolveFails` |
| `resolveArtifact`, its `select` | `PollAgain`, `WaitEnds` (the limit has passed or a signal has come) |
| `downloadArchiveToTemp` | `downloadArchiveToTemp`, `Copy`, `DownloadFails`, `DownloadCancelled` |
| `os.RemoveAll`, whose error is ignored | `RemoveArtifactDir`, `RemoveAllFails` (any part of the old directory stays) |
| `extractTarGz`, `loadManifest` | the actions of the same names, `ExtractFails` |
| `writeVerifyReport`, the end of `Pull` | `writeVerifyReport`, `writeVerifyReportFails` |
| the environment | `BecomesReady`, `LimitPasses`, `ServerHangs`, `Signal`, `Kill` |

The time limit and a signal are flags of the command which only the `select` looks at
while an artifact is being resolved: `fetchJSON` makes its request without a context and
without a timeout. A download has the context, so a signal ends it. `ServerHangs` is a
server that leaves a request without an answer.

### The parts checked side by side

`SnapshotDiff`, `PackageExport`, `RetryBackoff` and `RateLimit` work on their own input
and share no state, with each other, with `InMemoryJobs` or with the rest. `MCServerParts`
puts the five side by side and lets each behaviour run one of them.

* `SnapshotDiff` pairs box by box, in the order of the lists; overlaps are exact
  fractions, where the code has `float64`. `DiffIsFaithful` states what the result means
  without the pairing: every box counted once, nothing left that could still be paired, a
  score of one only for equal lists. A diff of two snapshots runs its query twice, and
  `RowIsAdded` may come in between. The query asks for rows created up to the snapshot, not
  deleted by then, and verified; that of the export (`loadAnnotations`) for the first two
  and for the dataset, and it fails on an item or a category it does not know.
  `DiffAgreesWithExport` compares the diff with what the two exports hold.
* `PackageExport` has file names as sequences of parts between dots, and a part as a
  sequence of words and numbers between dashes, which is what `path.Ext`, `buildOutputName`
  and `buildLabelFileName` tell apart: only the last extension is taken off, and a name
  with nothing before its last dot keeps it.
* `RetryBackoff` wraps sums and products at `Width` bits. With 8 bits, base and maximum
  near half and all of the largest value stand for the edges of `time.Duration`.
* `RateLimit` has requests that read the clock and are counted later.

## 3. Runs

All runs finish within a few minutes. The type invariants of the modules that have
theorems are proved and not part of a run.

| run | instance | shows |
| --- | --- | --- |
| `jobs_races` | 1 job, 1 worker id, 2 requests, sweeper, 1 retry, 1 failure | retries stay within budget, one message per tuple, the columns of a row agree, `lease_timeout` is earned, a terminal status is left only on a stale read |
| `fleet` | 2 jobs, 2 workers, one of which handles only one job, 1 stall, 1 failure | every job finishes unless something was killed; at most one job lost per failure; no job stays running |
| `publish_overlap` | 2 requests, 3 edits, 2 approvals, 1 failure | what holds under overlap, and the design's rules as long as nothing overlapped |
| `annotation_workspace` | 2 pages, 2 requests, 3 saves, 1 failure | all properties of the workspace |
| `artifact_build` | 2 artifacts of one version and format, 2 builders, 1 completion, channel of 1, 1 crash or failing update | every build ends, none is forgotten, ready rows hold their archive |
| `snapshot_content` | 2 requests, 2 snapshots, 2 queued imports, 3 deliveries, 1 candidate, 1 failure | imports are complete once acknowledged, change log and rows agree, a candidate is decided once, a conflict has a cause |
| `job_results` | 2 attempts, 4 kinds of jobs, up to 2 results each, 2 reports cut short | a named result stays named, is of one attempt and has been persisted |
| `artifact_pull` | 3 pulls of 2 artifacts of one version, one server with ranges, 2 verifying goroutines, 2 kills, servers that hang, directories that stay | what ends well is complete and verified, the report is true, every command ends unless the server leaves it waiting |
| `server_parts` | 2 jobs (1 fatal) with 2 retries; lists of up to 3 boxes, tables of up to 3 rows; 3 items with clashing names; 2 callers in 6 ticks; 8-bit durations | refinement of `JobLifecycle`; diff, package, limiter and backoff |
| `acked_but_unpushed`, `running_for_ever`, `backoff_of_design` | | violations, see section 5 |

Why the bounds suffice. Every race in `JobControlPlane` is between a reader that
is about to write and one other writer; two requests and the sweeper give all
pairs and one triple. One retry reaches "used up", one failure reaches every
partially executed request and Tick, and properties that count failures are
stated relative to their number. Lists of several rows, fatal jobs and any number of
requests are covered by the theorems, which remove the bounds for the safety
properties; in the in-memory model TLC checks lists of two jobs as well.

For `WorkerFleet` the interesting cases need a second worker (which pops while the first
still reports), a message that has to be put back, and a stall that makes a job run
twice. In `PublishGate` two requests give every overlap of a check and a transaction, and
three edits an edit before, between and after. In `AnnotationWorkspace` two pages and two
requests give every pair of a stale read and a write, and three saves one that is lost,
one that is seen and one more. In `ArtifactBuild` all artifacts have one version and one
format, the case in which builds meet; a channel of one entry is full as soon as both
builders are slow.

In `SnapshotContent` three deliveries are two that overlap and one that replays them; the
two payloads hold the same boxes in another order, one different below the sixth decimal
and one repeated, which is where comparing a payload with rows could go wrong. In
`JobResults` a merge is lost between two attempts, and two failures cut both short; more
attempts multiply the events, which the theorems cover for any number.
In `ArtifactPull` two artifacts share a version, and of three pulls one leaves a file, one
is killed while it resumes, and one ends. Tables of `SnapshotDiff` hold two rows and a
third one that is added between the queries, out of rows of two datasets and three
snapshots, some of them deleted, unverified or unknown to the export. Two requests suffice for `RateLimit`, because
one held-up request against the others is the only reordering that moves a window. Items in
`PackageExport` clash in pairs, and the third clashes with the name made up for the second;
keys have no extension, one, several, or nothing else.

Symmetry is used in safety runs only, over worker ids, pages and request slots.
`CHECK_DEADLOCK FALSE` is set where the system really may stop: when all jobs, builds or
commands are finished (`WorkerFleet`, `ArtifactBuild`, `JobResults`, `ArtifactPull`), when
a function has returned (`MCServerParts`, `RetryBackoff`), or when the bounds on edits, approvals, deliveries
and snapshots are used up (`PublishGate`, `SnapshotContent`).

### Fairness

`FairSpec` of `WorkerFleet` assumes: the server pushes what it wrote, and runs its
sweeper (`startBackgroundLoop` ticks until shutdown); deadlines pass; handlers end;
`dispatch_once` goes on; a worker process that ended is started again (outside the
repository: the deployment's restart policy). `Pop` is strongly fair per worker:
the lane may become empty and fill again, but Redis serves blocked clients in the
order of arrival, and a worker that put a message back sleeps before it pops again,
so a worker that keeps waiting gets a message. Nothing is assumed about creation,
failing, stalling, renewing a lease or reporting progress.

`FairSpec` of `ArtifactBuild` assumes that the goroutines of the runner go on, that a
send on a channel with room completes, and that a server that ended is started again.
Nothing is assumed about requests, completions, errors or crashes.

`FairPullSpec` of `ArtifactPull` is weak fairness of `Step`, the disjunction of what a
running command does by itself, of `LimitPasses` (time goes on), and strong fairness of
`WaitEnds`: the loop in `resolveArtifact` comes back to its `select`, and there the context
is done once and for all, while the poll interval begins anew. The steps that need an answer
of the server are in `Step` but disabled while it hangs (`Answered`), so the fairness does
not assume that a server answers; `EveryPullEnds` says what then becomes of the command.
Errors, signals, kills and hanging servers are never owed.

## 4. Proofs

`JobControlPlaneProofs` proves, for any sets of jobs, workers and request slots, any
`MaxRetries > 0` and any number of failures, that `Spec` implies `TypeOK`, `RetryBound`
and the properties of the run `jobs_races`. The properties are not inductive as they stand.
The invariant `IInv` adds

* `RequestInv`: a callback in flight names a worker and a row that exists, `Complete`
  writes a terminal status, and an update that passes no `started_at` is about a row
  that has one;
* `SweeperInv`: in the first half of a Tick the jobs still listed are neither absent
  nor queued, and the one just requeued is no longer parked; in the second half the
  retry counts in the list are the ones in the rows, because nobody else increments
  them, the listed rows have started and have an owner, the job being given a retry has
  one left, and the job in hand is not in the list any more;
* `CreateInv`: nothing is pushed before the insert, and at most one request for a job is
  about to publish, and only while nothing has been pushed;
* `BudgetInv`: pushes by the sweeper plus a push that has been granted are bounded by
  the retry count plus the failures plus a count that is still to come.

Each action has its own step in the proof, with one lemma per group of conjuncts.
`TerminalLeftOnlyOnStaleRead` is an action property proved from the same invariant:
an update checked against the current status cannot leave a terminal one.

`ServerMemoryProofs` proves `Spec => ImplementsLifecycle` of `InMemoryJobs`: the initial state maps to
the initial state, every method call to a step of `JobLifecycle` or a stutter. The
invariant it needs: listed jobs exist; in the second half of a Tick they are running or
terminal; and the job about to be counted has a retry to spare.

In the same module, `RateLimit`: `BurstBound` and `RetryAfterSuffices` for any limit,
window, ticks per second and callers. Until a request is held up (`Punctual`) the window
that is open has counted what was allowed since its start (`WindowInv`), all of it less
than a window's length ago, and of the time before it, as far as a stretch of one window's
length can reach back from the open window, less than the limit was allowed: the first
request of the previous window is out of reach. `RetryAfterSuffices` needs nothing of the
sort and holds for requests held up as well: what a refused client was told is never before
the end of the window (`ComeBackInv`).

`RetryBackoff`: `BackoffIsDoubledAndCapped` for integers of any width, any base, maximum and
retry count. In the loop the delay is the base times a power of two and not over the maximum
(`LoopInv`), so the check `delay > backoffMax/2` comes before a product could wrap around.
What is needed of powers (they double, they grow) is derived from `2 ^ n` being the number of
subsets of `1..n`, a fact of the library on finite sets.

`WorkerFleetProofs` proves `TypeOK` and `LostOnlyToFailures` for any finite set of jobs and
any workers, retries, failures and stalls. `Stranded` is not inductive: a job whose
message is gone while its previous worker still works on it is stranded only when that
worker ends, which is no failure. `Lost` counts such a job from the start, because it asks
only for a worker between its pop and its first heartbeat; every step then adds to `Lost`
nothing, or one job together with one failure.

`PublishGateProofs` proves all properties of the run `publish_overlap` for any finite set
of request slots and any bounds. The invariant adds that no request past its check loaded
a published batch. For `SerialPublishing`, which holds without overlap, it adds that then a
request past its check has the batch as it is now. `RecordsGetTasks` uses the cardinality
of the set of requests about to create their task and is proved by following that set
through each action.

`AnnotationWorkspaceProofs` proves the type invariant, `RevisionNamesBody` and the
properties of the run, for any pages, requests and bounds. The invariant adds
that no page is ahead of the row, so that a page that equals the current revision was
given this very row and not an older one of the same number (`PagesInv`), and what a
request between its statements is about to write (`RequestInv`).

`ArtifactProofs` proves of `ArtifactBuild` `TypeOK`, `NoBuildForgotten` and `ReadyHoldsItsPackage` for
any artifacts, versions, builders, completions, channel size and number of failures.
The invariant adds that of the processes inside `StoreBuild` for a version that was not
overlapped there is one (`ExclusiveInv`), and that it finds its own archive in the
temporary directory from the copy to the rename and in the final directory afterwards
(`OwnInv`); nothing is ever taken out of a final directory.

Of `ArtifactPull` it proves `PullTypeOK`, `ReportIsTrue` and `PulledIsVerified`, for any
artifacts, sizes of archives, workers, commands and kills. `PullInv` adds

* `DirReplaced`: from its removal to the report a directory counts as replaced, so that an
  old report claims nothing of it;
* `VerifyInv`: while workers verify there is a manifest; an entry is with one worker or has
  one result, never both, and what is called passed is in the directory; when all workers are
  done every entry has its result, which makes the results as many as the entries;
* `OwnPullInv`: a download that resumed nothing foreign is a beginning of its artifact, after
  the copy the whole of it, and what has been extracted is in the directory: exactly these
  files if the old directory is gone, and its own manifest in place of an old one in any case.

Of `PackageExport` it proves `PackageIsComplete` for any object keys, boxes and number of
items. A name is any sequence of parts and a part any sequence of words and numbers, so keys
with several extensions, and with nothing but extensions, are among them. The names are
distinct because a free suffix is found: there are more suffixes to try
than names in use (the pigeonhole principle), and the least free one is what the loop stops
at. Items are written in their order, so an image is never overwritten and a label file only
by a later item with which it shares its label file (`WritingInv`). Which names do is said by
`DifferInExtension` without reference to `buildLabelFileName`.

`SnapshotProofs` proves every property of the run `snapshot_content`, for any datasets,
payloads, request slots, deliveries, candidates and failures. The invariant adds

* `Placed`, `Linked`, `Held`: jobs and deliveries are about snapshots that exist, and a
  request that imports has a running delivery of its own and stands at one of its entries;
* `RowsOfPosts`: an imported row is the entry of its delivery at the place it says, in the
  snapshot of that delivery;
* `Inserted`: a delivery under way has a row for every entry it has passed, so when it ends
  with success all its entries are there;
* `Alongside`: deliveries running into one snapshot have overlapped, and so has a running
  one with every delivery whose rows are in its snapshot;
* `Reviewed`: a lock is held by one request, and while it is held the candidate is pending;
  what the audit log names has been decided;
* `Dense`, `Counted`: the snapshots of a dataset are numbered from one without gaps, and a
  request that has counted them asks for one of these numbers or for the next;
* `Ahead`, `RowsOnce`, `RowsDiffer`, `RowsAreAll`, for `ConflictHasCause`: a delivery has no
  row for an entry ahead of it and one row for an entry, no two of its rows have the same
  key, and if it ended well it has all of them. A snapshot whose rows are of one such
  delivery then matches a replay of its entries key by key and in number
  (`ReplayMatches`), so a mismatch names its cause (`MismatchHasCause`), which later steps
  do not take away (`CauseStep`).

Of `SnapshotDiff` it proves `DiffIsFaithful` and `DiffAgreesWithExport` for any lists of boxes
with integer coordinates, any table and any threshold. `DiffInv` says that a box is in one
pair or removed or added or still left, that pairs are of one group and exact ones of equal
boxes, that after the first loop no two equal boxes of a group are left, and that a removed
box overlaps nothing free enough. On top of it:

* counting: the pairs are a bijection between the boxes they take from either list
  (`BoxesCounted`);
* the score: an overlap is below one unless the boxes are equal (`IOUTyped`), and the sum of
  the updates' overlaps stays below their number (`SumBound`). The sum is a fold, which the
  library defines by a recursive function on sets; that such a function exists for every
  finite set and is unique is proved here (`SumExists`, `SumIsUnique`);
* the export: of every box, the diff tells of as many more than fewer as the second list has
  more than the first (`ToldIsDifference`), because the pairs of equal boxes take as many from
  either list; the lists are the answers to the two queries (`ListsRead`), the first one on the
  rows that were there then; and where the rows that one snapshot has and the other has not are
  verified and of the dataset, their numbers differ as those of the two exports do
  (`SizesDiffer`, `DiffIsOfExport`).

Induction over finite sets and over numbers, for the sum and for least and greatest elements,
is done through `WFMin` of the library: a counterexample would have a minimal one.

`JobResultsProofs` proves every property of its run for any number of attempts, any sizes
and any number of reports cut short. Its invariant says that the reference, once written,
names a result (`RefNamed`): an event names its own, and a terminal report, which carries
only a count, is merged with a reference that its own attempt wrote before (`Kept`). While
there is no reference, counts and names in the events are of the same events
(`EventsMatch`, `CountsNamed`) and the newest one exists (`Peak`). `Finished` says how far
the attempt that completed the job has come, `Backed` that candidates are persisted before
anything names them, and `Single` that without overlap what an attempt has read is what the
row holds. A first lemma, `Steps`, restates every action as a move of one attempt; the
lemmas about the conjuncts go through its cases.

Every invariant and every action property of the passing runs is stated by a theorem. Only
model-checked is liveness (`EveryJobFinishes`, `RunningIsResolved`, `EveryBuildEnds`,
`EveryPullEnds`): fairness and `ENABLED` are outside the prover's reach. The three runs that
expect a violation have no theorem, of course.

## 5. Where documents and code disagree

Three disagreements are runs with `expect: violation`:

* `AckedJobIsDispatched`: after a failed push the idempotent retry is answered with a
  job that nobody will run (completion design, line 204).
* `RunningIsResolved`: a progress report makes a requeued job running without a lease;
  with two failures (a lost push and a killed worker) it stays running for ever; the MVP
  design names the sweeper as the mitigation.
* `BackoffOfDesign`: the MVP design, line 262, has delays of "10s -> 30s -> 90s". The code
  doubles, so with a base of 10 s and a maximum of 90 s it waits 10, 20 and 40 s, and 5, 10
  and 20 s with the defaults (`sweeper.go:162`, `config.go:51`). `BackoffIsDoubledAndCapped`
  is about what the code means to compute, and that nothing overflows on the way.

Others show in the exceptions that the properties of the passing runs have to make:

* A terminal job can be reopened by an update whose check read an older status
  (`postgres_repository.go:199`; `state_machine.go:3` calls its table "the only legal
  edges"): `TerminalLeftOnlyOnStaleRead`.
* An edit that overtakes the owner's approval is published unreviewed
  (`publish/service.go:125`; publish gate design, line 264): `SerialPublishing`
  holds without overlap only.
* Two builds of one version share the temporary directory, and a row can be marked ready
  while the archive in its place is the other one's (`filesystem_storage.go:34`; artifact
  delivery design, line 152): `ReadyHoldsItsPackage` excludes overlapped versions.
* An import redelivered before the first insert of the delivery it repeats inserts every
  entry a second time, both are answered with success, and every later replay is a
  conflict (`datahub/service.go:215`; the MVP design, line 252, asks for handlers that are
  "side-effect safe for re-delivery"): `MixedOnlyByOverlap`, `ConflictHasCause`.
* A retried job proposes its candidates a second time (`jobs/service.go:486`):
  `CandidatesMatchJob`. A package whose report is cut short after `Complete` leaves a
  succeeded job without a result (`jobs/service.go:383`): `CompletedNamesResult`.
* A cleaning report that flags nothing has a count of 0, which `extractResultRef` skips
  (`jobs/service.go:546`): if its reference was not stored, the job is shown with this report
  and the count of an earlier attempt's. `ResultOfOneAttempt` makes an exception of it.
* Images `a.jpg` and `a.png` have different names but one label file, `a.txt`, and the
  second one written wins (`export_query.go:269`; artifact delivery design, lines 113 and
  314). So have `.jpg` and `.jpg.png`, with `.jpg.txt`. `PackageIsComplete` excludes items
  that share a label file in one of these two ways; there is no other.
* A pull resumes the file that a killed pull of another artifact of the same version left
  (`archive.go:36`, `pull.go:187`): `PulledIsVerified` makes an exception of it.
  Since the file is removed on every ordinary end, a download resumes only after a kill,
  not after an interruption (artifact delivery design, line 208).
* What an earlier pull extracted stays, as far as it cannot be removed, next to what is
  extracted now, because the error of `RemoveAll` is ignored (`pull.go:195`):
  `PulledIsVerified` promises nothing about files besides the verified ones then.
* Neither `--wait-timeout` nor an interrupt ends a pull whose request to resolve the artifact
  gets no answer: the request has no timeout and no context (`api_source.go:102`), and the
  limit is looked at between two requests only (`pull.go:262`). An interrupt ends a download
  that hangs. `EveryPullEnds` makes an exception of these cases and of no others.
* `ListEffectiveAnnotations` does not ask for the dataset, and the export does not ask for
  the review status (`versioning/repository.go:24`, `export_query.go:195`); the diff's two
  queries are in no transaction (`versioning/service.go:187`). `DiffAgreesWithExport` says
  when none of this makes a difference. All inserts of the repository write `verified`, and
  nothing in it sets `deleted_at_snapshot_id` yet; the theorem holds for tables that have both.
* In `float64` a score of 1 is also possible for an update whose overlap is within 2^-53 of 1
  (`versioning/service.go:201`); `DiffIsFaithful` is about the exact sum.
* The rate limiter reads the clock before it takes the mutex: a request that is held up in
  between may be counted in a window that is over, or open one in the past. `BurstBound`
  says what still holds.
* A failure after the commit leaves a publish record without its downstream task
  (`RecordsGetTasks` counts failures), and a request cut short leaves a submitted draft
  whose task did not follow (`SubmissionMovesTask`).

Two more gaps are in the model of `ArtifactBuild` and in no property: a crash between the
rename and the update of the row leaves a directory because of which the version can never
be built again (`artifacts/service.go:547`), and a builder marks its artifact building
without looking at its status, also when a completion has made it ready meanwhile
(`artifacts/service.go:513`).

## 6. Not modelled

The worker registry and the events of a job that carry no result; feedback, suggestions
and the workspace view of the publish gate; messages that move between lanes; task filters
and priorities; creating datasets and categories; presigned URLs; the in-memory
repositories of tasks, annotations, artifacts, review, datahub and the publish gate, which
hold one mutex around each method and serve tests; what worker handlers compute; the upload
path of artifacts without a storage and package jobs, which `main.go` does not wire.
Components without a module are listed in `PROJECT.json` with the reason. Queries that only
read (overview, lists), logging, metrics, routing, configuration and the web application
have no state of their own.

## 7. Plan

Modelling is complete as far as state changes by several actors go. What is left, in this
order:

1. The safety half of the liveness properties as invariants with theorems: what a command,
   a build or a job that has not ended is waiting for, and that each step towards the end
   makes a measure smaller. Fairness itself stays with TLC.
2. What the in-memory and the Postgres repositories have in common: that
   `JobControlPlane` takes only steps of `JobLifecycle` as long as no update acts on an
   older read.
3. An abstract publish gate that the in-memory repository implements.
