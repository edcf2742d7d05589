# KubeTask: a TLA+ development

KubeTask runs jobs on Kubernetes. Two custom resources describe the work: a
`Task` (run once, after a delay, or on a cron schedule) and a `Workflow` (a graph
of Tasks). A REST API writes these objects, two reconcilers carry them out, and
a notifier tells the outside when Jobs fail. This directory holds TLA+ modules
translated from the Go source, TLC configurations for small instances of them,
abstract specifications that the detailed ones implement, and proofs, for
instances of any size, about both reconcilers, the construction of graphs, the
notification channel and the HTTP side. Source paths below are relative to the
repository.

## 1. Inventory

| component | source | state it keeps | operations | modules |
|---|---|---|---|---|
| Task reconciler | `internal/controller/task_controller.go`, `internal/tenant/jobs.go` | none of its own: `Task.status`, the finalizer, Jobs | `Reconcile`: finalizer, suspend and resume, one-time, delay and cron scheduling, Job status into `Task.status`, concurrency policies, deletion | `TaskController`, `Executions`, `TaskProofs` |
| Task REST handlers | `internal/api/handler/task_handler.go` | none | create, list, get, update, delete, trigger, suspend, resume, statistics | `TaskController`, `Api` |
| Workflow reconciler | `internal/controller/workflow_controller.go` | none of its own: `Workflow.status`, the finalizer, child Tasks | `Reconcile`: validation, two passes over the nodes, summary, failure, deletion | `WorkflowController`, `PlanRun`, `WorkflowProofs` |
| Workflow REST handlers | `internal/api/handler/workflow_handler.go`, `workflow_graph.go` | none | create, list, get with the graph view, delete | `WorkflowController`, `Api` |
| DAG construction | `internal/workflow/dag.go` | none (pure) | `Build`: validation, order, levels; child names | `Dag`, `DagBuild`, `DagLemmas`, `DagProofs` |
| Notification dispatcher | `internal/notification/dispatcher.go` | queue, ledger of events (`records`), list of finished events (`completed`) | `enqueue`, `run` (workers), `deliver`, `prune`, `finish` | `Dispatcher`, `Delivery`, `DispatcherProofs`, `DeliveryProofs` |
| Notification observer | `internal/notification/observer.go`, `event.go` | none (an informer's copy of the Jobs) | which Job events become notifications | `Notifier`, `NotifierProofs` |
| Senders | `internal/notification/webhook.go`, `smtp.go` | none | encoding, one delivery attempt, retry delay | `Notifier`, `NotifierProofs` |
| Authentication, authorization, audit | `internal/auth`, `internal/api/middleware` | none (key bindings are read from a file for each request) | identify a request, ask for its permissions, record writes | `Api`, `ApiProofs` |
| Tenant isolation | `internal/tenant`, `internal/api/middleware/tenant.go`, `internal/api/handler/tenant.go` | the tenant label of Tasks and Workflows | scope of a request, label on create and update, filter on reads, precondition on deletes | `Api`, `ApiProofs` |
| Log streaming | `internal/api/handler/log_handler.go` | none | choice of Job and Pod, second authorization, copying | `Api` |
| Router, command, configuration | `internal/api/router.go`, `cmd/main.go`, `internal/config` | the settings | routes, middleware order, rules between settings; start-up | partly in `Api` |
| Web server for static files, logging | `internal/api/webui.go`, `internal/logger` | none over time | - | no |
| Web console, manifests, charts, generated code | `web`, `config`, `charts`, `deploy`, `api/v1/zz_generated*` | - | - | no |

How they interact. Handlers and reconcilers share objects in the API server and
nothing else. All of them use the manager's client, which writes to the API
server and reads from informer caches. The API server refuses an update whose
`resourceVersion` is old. A change that reaches a cache puts the key of the Task
(or of the Job's owner, or of the child's Workflow) in the work queue;
controller-runtime runs one reconcile of a key at a time, and puts a key back on
an error or after `RequeueAfter`. A Workflow writes Tasks and follows their
status; a Task writes Jobs and follows theirs. The notifier hears of Jobs from
the same informers, hands events to the dispatcher's workers through a bounded
channel, and is stopped by the manager's context.

What is hard here, and what makes each part correct:

* **Task reconciler.** A reconcile is up to a dozen calls with reads of stale
  caches between them, and each call may conflict, fail, or be the last before a
  crash. It must not run a Task twice, count a Job twice, start anything for a
  suspended Task, leave a Job behind a deleted one, or fall asleep with work left.
* **Workflow reconciler.** Children are created one by one, the status is
  written once at the end. Nodes must start in dependency order, at most once, no
  more than `maxParallel` at a time; recorded outcomes must have happened; a
  finished Workflow must stay finished.
* **Dispatcher.** Producers, workers, expiry, eviction and shutdown share a
  ledger. An event has one owner, is not forgotten while open and is not
  delivered again inside its lifetime; every accepted event is finished.
* **Observer and senders.** The informer merges changes, and a new leader is first
  told of every Job the informer has. Each failure that is not in that list must be
  reported, and none that is; an email the server may have taken must not be sent
  again.
* **Requests.** A request is a chain of reviews, a cached read and one or two
  writes, while objects, accounts, keys and permissions change and replies get
  lost. Tenants must stay apart, what was revoked must be refused, and answer and
  audit record must be true.
* **DAG construction.** Exactly the well-formed acyclic lists are accepted; order
  and levels agree with the dependencies.

`PROJECT.json` lists each hazard at its line with the properties that cover it.

## 2. Modules

**`TaskController`** follows one Task through its life. `task` and `jobs` are what
the API server stores, `taskCache` and `jobCache` the informers' copies.
Instead of counting resource versions, `current` holds the names of the copies
that are still up to date; a write from a copy that is not in the set is refused
(`Accepted`, `WriteRejected`, `CopiesAfter`). `pc`, `obj` and `victims` are the
local state of the reconcile in progress; there is one action per stretch of code
between two calls, so anything may come between. `queued` and `timer` are the
key's places in the work queue and the delaying queue. A Job is named by the
second in which it is constructed, as in `constructJob`, so a Job name is an
instant of the model's clock.

| code | definitions |
|---|---|
| `Reconcile` | `Reconcile`, `BeingDeleted`, `LacksFinalizer`, `IsSuspended`, `HandleSuspend`, `Dispatch`, `WriteResume` |
| `handleDelay`, `handleOneTime`, `handleNameTooLong` | `Dispatch`, `JobExists`, `WriteAndReturn` |
| `syncJobStatus` and its helpers | `SyncJobStatus`, `SyncedTask`, `Dirty`, `Recorded`, `Trim`, `Completions`, `StatusPhase` |
| `handleCron`, `concurrencyAllowed` | `WriteCronSync`, `Schedule`, `ActiveJobs`, `ReplaceJob` |
| `createJobAndUpdateStatus` | `CreateJob`, `StartedTask`, `RecordStart` |
| `handleDeletion` | `ListForDeletion`, `DeleteJob`, `FinishDeletion` |
| REST handlers | `SuspendTask`, `ResumeTask`, `UpdateTask`, `DeleteTask`, `TriggerTask` then `TriggerStatus` (two writes) |
| environment | `RefreshTask`, `RefreshJobs`, `TimerFires`, `Tick`, `JobStep`, `CallFails`, `Crash` |

The list of Jobs has no fixed order (the informer's index is a map), so
`SyncJobStatus` chooses one. Every list comes from `jobCache`, which may be behind;
`missed` keeps the Jobs that the last list of the reconcile in progress did not show
(`Overlooked`), so that a property can tell what a reconcile did in spite of what it
read from what it could not know. Trigger requests may overlap: `triggering` counts
those between their two writes, the last of the first writes holds a current copy,
and a second write is refused or fails without effect. `TypeOK` is the module's type
invariant; `missed`, `created` and `outcomes` are history variables, read by
properties only.

**`Executions`** is what the status of a Task promises: an outcome enters the
history only if it is true and no record of its Job is there, and both counters
move by exactly what is entered; the completion time is one at which some Job
succeeded. It does not promise more: a record that was cut from the history may be
entered, and counted, again, as `MCTaskRecount` shows. It knows no caches, conflicts
or crashes. `TaskController!KeepsLedger` is its specification under the
mapping `Ledger` (`ended <- outcomes`, the rest from `task.status`).

**`WorkflowController`** has the same shape: `wf`, `children` and their caches,
`pc`, and the local variables of a reconcile (`graph`, `listed`, `left`, `slots`,
`changed`). `SyncNode` visits one node in the first pass of `advanceNodes`,
`ScheduleNode` one in the second, `CreateChild` and `GetExisting` are the two
calls of `createChildTask`, `Summarized` is `summarize`, `Write` the status
write. Child Tasks are reduced to what this reconciler reads (phase, owner,
whether they are being deleted) and end as they please; users may delete a
child, rerun it, edit the spec or delete the Workflow. Tasks of other owners may hold
a child's name from the start or take one that is free (`Foreign`), end, run again
and go away like any other. The graph comes from `Dag`. The Task cache may be behind
whenever it is read; `listed`, the list a reconcile made, says what it could not see.
`GraphNodes` is `buildWorkflowGraph`, the view of a Workflow that `GET` returns.

**`PlanRun`** is a run of a plan without reconciles: nodes start when what they
need has ended well (a rescue node when it has not), are skipped when that can no
longer happen, and one verdict follows when all have ended. A pass over the nodes
decides on skips before its status write reports them, and creates children in
between: `Start` may therefore count on nodes that are doomed but not yet reported
(`Skipping`, `Doomed`).
`WorkflowController!RunsPlan` is its specification under the mapping `Promise`,
which takes the life of a node (`Life`) from its child Task and from the stored
skips; a node whose stored phase its child belies is mapped to a life that `PlanRun` does
not have. It is stated for valid plans that users leave alone and whose names are free: a user
who edits the spec or reruns a child changes the plan under the run.

**`Dag`** holds the pure functions of `dag.go` on a list of declarations: the
faults in the order `Build` looks for them (`TaskFault`, `DependencyFault`,
`FirstFault`), the loop of Kahn's algorithm (`KahnStart`, `KahnStep`), and levels.
A task name is a number, ordered as the strings are. `WorkflowController` does not
run the loop; it uses its result, which `Order` describes: `Rounds`, a
recursive function, gives the names that are free of open dependencies after each
number of rounds, and `Order` is the one listing by round and then by name.
**`DagBuild`** runs `Build` as the code does, one round or one level at a time, on
any list of declarations, and compares the result with `Order` and with definitions
that mention no algorithm.

**`Dispatcher`** has one action per stretch between two uses of the mutex or of
a channel: `Enqueue`, `Receive`, `Exit`, `MarkSending`, `Send`, `Answer`, `Retry`,
`Abandon`, `Finish`, `Cancel`, `Stop`, `Tick`. `records` is the map of states
("none" for no entry), `completed` the list, `held[w]` the event a worker has in
hand. The answer of a sender is a choice (delivered, refused, worth a retry), the
length of the retry delay is not represented, and `sends` is a history variable.

**`Delivery`** is the promise of a channel without queue, workers, list or clock:
an event is open from acceptance to its final state, is sent only while open and
at most `MaxTries` times, and is accepted again only after it was forgotten.
`Dispatcher!KeepsPromise` is its specification under the mapping `Promise`.

**`Notifier`** composes a channel end to end and extends `Dispatcher`. `server`
holds the Jobs by name, `seen` the informer's copy, which may be behind already when
the handler is registered (`MayTrail`), `initial` the Jobs whose initial Add is still
to be handled. `Inform` brings one name up to date in a single
event, however much happened, and calls `AddFunc` or `UpdateFunc`; `Observe` is
`observe` with the call of `enqueue`, and `Eligible` is `snapshot`. The choice of
the dispatcher's `Answer` is replaced by the attempts that `webhook.send` and
`smtp.send` can make (`WebhookAttempts`, `SmtpAttempts` by way of `SmtpFailure`):
each has a result and says whether the receiver may have taken the message, which
`accepted` remembers. `ClusterStep` is what others do to Jobs, taking a failure back
included. `told`, `fresh` and `accepted` are history variables. A failure is `fresh`
when the informer's copy did not show the Job as failed at the time (`Shown`), be it
when it happened or when the handler was registered: those are the failures that
the handler can tell from old ones. The two channels share nothing, so each behaviour
follows one.

**`Api`** is the HTTP side. A request (`req[c]`) goes from step to step through
`Authenticate`, `AuthenticateBinding`, `Authorize` (one review at a time), the
calls of its handler and `Audit`, and every other actor may move between two steps.

| code | definitions |
|---|---|
| `authenticationMiddleware`, `LoadConfig` | `Mode`, `LoadConfig` over `settings` |
| `NewRouter`, `routePermissions`, `auditOperations` | `Routes`, `RoutePermissions`, `AuditOperations` |
| `Authentication`, the authenticators | `Arrive`, `Authenticate`, `TokenReview`, `BoundAccount`, `AuthenticateBinding` |
| `Authorization`, `AuthorizeResource`, `checkResourceAccess` | `Permission`, `NamespaceAsked`, `Authorize` |
| `TenantIsolation`, `internal/tenant`, `handler/tenant.go` | `Scope`, `Visible`, `PrepareTenantCreate`, `Labelled`, `DeleteOptions` |
| handlers | `GetTenantObject`, `List`, `Create`, `Update`, `UpdateStatus`, `Delete`, `FindPod`, `Stream` |
| `Audit` | `Respond` (whether it runs), `Reason`, `Audit` |
| environment | `Refresh`, `Change` |

An object is its UID, resource version and tenant label; what it contains is the
subject of the other modules. A tenant is a namespace with one account, whose UID
is 1 in every token and binding and differs once it was made again. A write may
succeed and its reply be lost (the answer is then 500). Suspend and resume make
the same calls and are one route, as are the list and the two statistics. The
label is changed by nobody but this service, as the comment on `Label`
(`internal/tenant/tenant.go:10`, "service-managed") has it. `did`, `late`, `barred` and `born` are history variables (`born` also names
the Pods that earlier objects left behind).

`MCTask`, `MCWorkflow`, `MCDag` and `MCApi` only define the instances that the
configurations use. Definitions introduced by "Mutant:" are variants of the
definition that follows them with one plausible mistake; nothing uses them except
tests that the properties notice the mistake.

## 3. Model checking

| run | instance | shows |
|---|---|---|
| `MCTaskOnce` | OneTime, suspended or not; two requests among suspend, resume, trigger; TTL of 1 s; two Jobs; one crash or failed call; both caches lag | `TypeOK`; `QuietStatusTrue`: when nothing is pending the status matches the Jobs; `OneExecution`: a Job is created only when every Job there is was missing from the list, and never on a current copy that is finished; `SuspendHolds`: no Job after an acknowledged suspension; `KeepsLedger`: implements `Executions`, so that each recorded outcome is real, its Job was not in the history, and the counters follow the records |
| `MCTaskCron` | Cron under Forbid, Replace, or with a broken schedule; Pods that start and fail; three Jobs; times 0 to 2 | `KeepsLedger`, `CatchesUp`: no lost firing |
| `MCTaskLive` | OneTime, Delay and broken Delay, long names too; one of suspend, update, delete, trigger; both caches lag; no faults | `NoOrphan`: a Task that disappears leaves only Jobs its last list had not shown; `DeletionCompletes`, `Settles` |
| `Notifier` | webhook or SMTP; a Job name with two UIDs in succession, failed or not when the handler is registered, the informer behind or not; one withdrawn failure, a finalizer; two workers, queue and ledger of one, one retry, lifetime 1 in 0 to 1 | the safety properties of section 4; `OnlyNewFailures`, `SeenIsTold`, `EmailOnce`, `NoEarlyRepeat`; `KeepsPromise`: implements `Delivery`; `AcceptedFinishes`, `ShutdownEnds` |
| `MCDag` | every graph on four names with at most two dependencies each; every list of at most two declarations with duplicates, missing, repeated and self dependencies, bad or missing sources | `AcceptsExactly`, `Topological`, `LevelsFollowOrder` |
| `MCWorkflowRun` | two roots, a join, a rescue node for the join, which may be skipped; limit 1 or 2; two faults; lagging caches | `TypeOK`, `ParallelBound`; `StatusWithinLimit`: no write shows more running nodes than before and than the limit; `RunsPlan`: implements `PlanRun`, with stored outcomes and skips that the children bear out; `WorkflowEnds` |
| `MCWorkflowUsers` | four versions of a spec (a chain, its nodes side by side, its first node alone, a cycle); a name held or taken by someone else; one user action; lagging caches | `ViewTrue`, `EndIsFinal`, `WorkflowEnds`, `DeletionCompletes`; `NoOrphan`: a Workflow that disappears leaves only children its last list had not shown |
| `MCApi` | two requests of two tenants, any route and credential, every allowed combination of settings, Tasks and Workflows; or one request and two changes by others | `TypeOK`, `TenantsApart`, `KeepsTenant`, `AllowedOnly`, `VoidIsRefused`, `AnswersTrue` |

Four more runs check what the repository says of itself and find it contradicted:

* `MCTaskRecount`, `CountedOnce`. The history is cut to its last records
  (`task_controller.go:493`) and is also the only memory of which Jobs were
  counted: a finished Job that fell out is counted again by each pass.
  `docs/API.md:387` defines the counter as executions. The model's
  `HistoryLimit` is 1 here, 10 in the code; the mechanism is the same.
* `MCTaskTwice`, `RunsOnce`. `handleOneTime` looks for a Job in the cached list
  (`task_controller.go:211`). If the Job that the previous reconcile created (`:313`)
  is not in the cache yet, the next one creates another, as its name has another
  second (`:343`), although `task_controller_test.go:97` and `:107` say that there
  is no second Job and that OneTime should only run once. No request, crash or
  failed call is needed. `OneExecution` says what the code does achieve: every Job
  there is must then be missing from the list.
* `MCTaskForbid`, `ForbidExcludes`. `concurrencyAllowed` looks at `status.active`,
  which is zero before the first Pod and between retry Pods; the comment at
  `task_controller.go:455` says the Job is then still in progress.
* `MCWorkflowOvercommit`, `ParallelBound`. `advanceNodes` fills its slots by the
  statuses of the copy it starts from. If that copy is older than the last status
  write, the children created by the pass before are not counted as running,
  although `README.md:30` promises the limit; no crash or failed call is needed
  (`MaxFaults = 0`). A status write lost to a crash or a failed call does the same.
  `MCWorkflowRun` does keep the limit, through stale copies and two faults: its
  forgotten children come first in the order and are adopted before new ones start.
  In the graph of this run nodes that become ready later come before them.
  `StatusWithinLimit` says what is left of the limit for every plan: no status write
  raises the number of running nodes above it, so the children in excess are ones
  that the stored status does not show as running.

Disagreements seen while modelling that no run states yet:

* Resume stores phase Pending even for a finished Task (`task_controller.go:81-87`),
  which then runs again once its Job is cleaned up (test at `:110`).
* One trigger may allow several executions when Jobs fail, as a failed Job leaves no
  completion time to compare with (`:574-581`, `docs/API.md:609`).
* `lastCompletionTime` follows the order of the list and may go back (`:484-490`,
  `docs/API.md:383`); `KeepsLedger` therefore promises a time at which a Job
  succeeded, not the latest one.
* An empty `status.nodes` does not prove that no child was created: the write that
  would list the nodes can lose to a spec change (`workflow_controller.go:687`,
  comment at `:107`).

**Bounds, and why they suffice.** Every counter's bound is a CONSTANT used in a
guard: `MaxTime`, `MaxJobs`, `MaxRequests`, `MaxFaults`, `MaxUserActs`,
`MaxRetries`, `MaxWithdrawals`, `MaxChanges`. Each hazard involves two Jobs, two writers or one fault at one
point; the instances have two or three Jobs, two requests and one fault that may
strike at any step. Two seconds suffice for an earlier, an equal and a later Job
name. In `MCDag` four nodes contain diamonds, chains, forks and every cycle of
length two to four. For the dispatcher, queue and ledger of size one are full with
one event, so the second meets both limits. One name with two UIDs is what the
informer can merge; `Lingering` and `Relapsing` say which Jobs may be kept by a
finalizer or have their failure taken back. In `Api`, others change things only
around a single request (`Crowded`): to a request a second one is such a change,
and requests among themselves are met without others. Two changes let an object
be deleted and created again by another tenant, or an account vanish while a
permission is revoked. `Revocable` names the verbs that may be revoked, one for
each way a permission is asked for: with another of the same route, for a
subresource, and by the handler. Once all requests are answered, changes and cache
refreshes stop, as no property could tell. Requests and tenants are symmetric: no
definition tells one from another. Deadlock checking is off where the
system may come to rest: nothing is queued and the bounds are used up, the
dispatcher has been shut down, or `Build` has returned.

At the end of the clock, every deadline counts as past, so a bounded clock cuts no
retry short. In `CatchesUp` a Job of the last second counts as scheduled because its
name blocks every retry while the clock stands still.

**Fairness.** Weak fairness of `ReconcilerStep` (controller-runtime's worker
takes queued keys and a reconcile's calls return), of the informers, of the
delaying queue, of the clock, of the second write of a Trigger, of the garbage
collector and of started Pods. A Job that can time and again end does end (strong
fairness: it is unfinished between retry Pods, whose number `backoffLimit`
bounds). Nothing is assumed of users, of faults or of requests. In the dispatcher
each worker goes on (its calls have time limits) and `run` returns when the
workers are gone; no enqueue is assumed. In `Notifier` the informer, which runs in a
goroutine of its own, also goes on; nothing is assumed of Jobs. `Api` states no
liveness: each of its steps ends by a time limit or by the client's patience. In the
Workflow model child Tasks end,
which is what `Settles` shows of a Task that is left alone.

## 4. Proofs

The theorems hold for every value of the constants that the assumptions allow: any
number of events, workers, clients, tenants, Jobs, names, nodes, requests and
faults. Each module of proofs states first what its model's operators do, then the
parts of the inductive invariant, then one lemma per action or per kind of step
that the actions fall into, and the theorems last.

| module | theorem | says |
|---|---|---|
| `TaskProofs` | `TaskTyped` | `TypeOK` |
| | `SuspensionHolds` | `SuspendHolds`: no Job is created after an acknowledged suspension |
| | `NoJobLeftBehind` | `NoOrphan`: a Task that disappears leaves only Jobs its last list had missed |
| | `StartsOnce` | `OneExecution`: a second Job is started only past a list that missed the others |
| | `LedgerKept` | `KeepsLedger`: the reconciler implements `Executions` |
| | `TaskInductive` | the invariant they share |
| | `QuietStatusHolds` | `QuietStatusTrue`, while no more Jobs were created than the history keeps, if `SpecsStand` |
| | `QuietActiveHolds` | its half about active Jobs, however many Jobs were created, if `SpecsStand` |
| | `StatusInductive` | the invariant these two share |
| `WorkflowProofs` | `ReconcilerTyped` | `TypeOK` |
| | `EndStays` | `EndIsFinal`: a Workflow that has ended keeps its phase |
| | `NoChildLeftBehind` | `NoOrphan`: a Workflow that disappears leaves only children its last list had missed |
| | `ViewFaithful` | `ViewTrue`: the graph view is complete and shows only real ends |
| | `FollowsPlan` | `RunsPlan`: the reconciler implements `PlanRun`, if `PlanStands` |
| | `LimitInStatus` | `StatusWithinLimit`: no write raises the running nodes above the limit |
| | `ReconcilerInductive` | the invariant they share |
| `DagProofs` | `AcceptsExactlyTheRunnable` | `AcceptsExactly`: accepted are the well-formed acyclic lists |
| | `OrderIsTopological` | `Topological`, and the loop's result is `Order` |
| | `LevelsAreRounds` | `LevelsFollowOrder` |
| | `BuildInductive` | the invariant they share |
| `DispatcherProofs` | `TypeCorrect` | `TypeOK`: queue, ledger and attempts within their bounds |
| | `SingleOwner` | `OneOwner`: an open event is once in the queue or with one worker |
| | `OpenNeverForgotten` | `OpenIsKept`: no pruning drops the record of an event in hand |
| | `LedgerInStep` | `ListMatchesLedger`: the list holds the finished records, each once |
| | `ExhaustionIsReal` | `ExhaustedMeansTried` (checked by TLC as part of `KeepsPromise`) |
| | `Inductive` | the invariant they share |
| `DeliveryProofs` | `Refinement` | `KeepsPromise`: the dispatcher implements `Delivery` |
| | `NoRepeat` | `NoEarlyRepeat`: no repeat inside the lifetime |
| `NotifierProofs` | `RunsDispatcher` | a channel, with its real senders, is a behaviour of `Dispatcher` |
| | `NoFalseAlarm` | `OnlyNewFailures` |
| | `NoFailureMissed` | `SeenIsTold` |
| | `NoSecondEmail` | `EmailOnce` |
| | `ChannelDelivers` | `KeepsPromise` and `NoEarlyRepeat` of the whole channel |
| | `NotifierInductive` | the invariant they share |
| `ApiProofs` | `RequestsTyped` | `TypeOK` |
| | `TenantsIsolated` | `TenantsApart`: no effect on another tenant |
| | `LabelsStay` | `KeepsTenant` |
| | `NothingBeyondPermissions` | `AllowedOnly` |
| | `VoidCredentialsRefused` | `VoidIsRefused` |
| | `AnswersHonest` | `AnswersTrue`, of answers and audit records |
| | `RequestsInductive` | the invariant they share |

**Why the invariants are what they are.**

* *Tasks.* `SuspendHolds` is about a step, and what forbids the step lies in the
  past: a reconcile that may create a Job (`Executing`) read a copy that was not
  suspended. `Acknowledged` says that phase Suspended is stored only by someone
  whose cache knew of the suspension, and never while a reconcile is on its way to a
  Job. That needs `Versions`: a local copy whose write would be accepted agrees with
  the stored Task in everything the reconcile has not itself changed. Neither
  `NoOrphan` nor `OneExecution` assumes anything of the age of the Job cache: both
  say what a reconcile leaves or starts in terms of what its list had missed. For
  `NoOrphan`, `Guarded` adds that a Job exists only under a finalizer or a deletion,
  that no reconcile starts Jobs without a stored finalizer, and that from the list
  on which one decides to remove it until the write no Job appears but those the
  list had missed. For `OneExecution`, `Listed` adds that a reconcile on its way to a
  Job listed none and holds a copy that is not finished, and that its copy is the
  stored one if its version is. For
  the refinement of `Executions`, `LedgerTrue` says that what is listed happened
  and that a status about to be stored is one report ahead of the stored one
  (`Reported`). `LedgerKept` counts the records of a report with the library's
  theorems on cardinality, whatever order the list had.
* *What the status of a Task says at rest.* `QuietStatusTrue` looks at one moment, but
  what makes it true is that no wake-up was lost on the way there. `UpToDate` ties
  the work queue to what the caches have not yet shown: if nothing is queued, no
  deadline is set and the Task cache is current, then the status matches the Job
  *cache* (not the Jobs, whose events may be on their way), or the reconcile in
  progress has seen both caches as they are and is about to store a status that
  matches, or one that differs from the stored status, so that its own write wakes up
  the next reconcile. That last part is where the code relies on `Dirty`: a write that changes
  nothing raises no event. It needs that a Task that counts as finished has no active
  Job in its status (`PhaseCleared`), since such a Task's reconcile ends without a
  look at its Jobs, and that a record is dropped only when the history is full
  (`Counted`: the history has at most one record of each Job that ended, and there
  are at most `created` of those).
* *Workflows.* `CopiesFit` and `ChildrenFit` are the types; `CopiesCurrent` is the
  counterpart of `Versions`. `EndIsFinal` follows from these. `FinalizerHolds` says
  at which points the finalizer is stored, that a pass of `handleDeletion` which has
  found nothing to wait for has yet to delete every child it listed
  (`SeenChildren`), and that the copy without finalizer was made when none of those
  was left; outside `reconcileGraph` no child appears (`OwnGrows`). `OutcomesReal` says of every copy, stored, cached or local,
  that the ends it records are ends some child of that name had; `ViewTrue` is its
  consequence for the cached copy. `BirthsBounded`, `PassFits` and `FlagsFit` are
  what the type invariant needs: a name is used again only when a user paid for it,
  and a pass over the nodes keeps to the graph it started with.
* *Plans.* `FollowsPlan` has to show that each Create is a step that `PlanRun` allows,
  and a Create is decided on old copies: an old Workflow, an old list of children,
  and skips that no one has stored. `PlanInv` says of every copy (`BorneOut`) what
  makes its age harmless. Ends that were seen do not change (`OneChild`), and a skip,
  once right, stays right: `Fate(S)` says that the nodes in `S` were never started
  and that, given what has ended and with all of `S` skipped, none of them has a
  reason to start.
  Later steps only add ends and children of nodes with a reason (`Due`), so
  `Fate` is kept by all of them, and the union of two such sets is one again, which
  is how skips decided by different reconciles go together. `SkipsKept` adds that a
  copy that may still be stored has forgotten no stored skip.
* *The limit.* `ParallelBound` is false in general, since a child that was created
  before its node was stored as Running is not counted. `LimitKept` says what each
  pass does achieve: a copy that may still be stored shows no more running nodes than
  the stored status or than its `maxParallel` (`Within`). The pass counts the running
  nodes of its own copy right, frees a slot before it uses one, and looks a taken
  name up only when it has a slot (`PassFits`), so an adopted child is within the
  limit too. If the copy is not current when it is written, the write is refused; if
  it is, no other write came between and the stored status is the one the pass began
  with.
* *Graphs.* `BuildInv` describes the loop after `r` rounds (`KahnAt`, `InRounds`):
  the order lists the names of the first `r` rounds, sorted, the in-degrees count
  the dependencies that are open, and the current round is what the next one
  removes. Then a round that removes nothing is a cycle (`AcceptsExactly`), and the
  scan of `computeLevels` assigns to each name the number of its round
  (`LevelsAt`). `DagLemmas` has what that rests on: a finite set of numbers has
  exactly one increasing listing, the rounds grow until they stop for good, and an
  order by round and name is total. Induction over numbers is done there on sets
  (`LeastNumber`, `Induction`), derived from the well-foundedness of finite sets,
  because the provers cannot use a theorem with an operator as a parameter.
* *Dispatcher.* `OneOwner` is kept by `Enqueue` only because an event in the queue or
  in hand has an open record (`OpenIsKept`), so that `Known` refuses it.
  `OpenIsKept` survives pruning only because the list names finished records alone
  (`ListMatchesLedger`), and `Finish` keeps that only if no one else holds the event
  (`OneOwner`). `ExhaustedMeansTried` needs the number of sends at each point of a
  delivery (`SendsMatch`) and that a worker holds an event exactly while it works on
  one (`HeldWhileBusy`). The refinement of `Delivery` follows from this invariant
  step by step; `NoRepeat` needs in addition only what pruning removes.
* *Channel.* `NInv` adds to the dispatcher's invariant that a UID is used once and
  for one name, that a deletion is not taken back, and that a failure that is not
  fresh is in the informer's copy (`OldFailures`). `RunsDispatcher` makes every
  theorem about the dispatcher one about the channel.
* *Requests.* `IInv` says of each request which step its route allows
  (`RouteFits`), that its copy is genuine and of its tenant (`CopyFits`), which
  permissions were granted or are still to be asked for (`Cleared`), that a void
  credential stays void (`LateRefused`), and what it has done so far
  (`EffectsFit`). `Genuine` is the reason tenants stay apart whatever happens
  between two steps: however old a copy is, its label is the one its UID was
  created with. What others do only lets the history grow (`Grows`), which leaves
  all of this in force (`OthersIInv`).

**Assumptions.** `TaskConstants`, `DispatcherConstants`, `NotifierConstants` and
`ApiConstants` say of each bound that it is a number and of each set what it
contains. `InputsAssumption` says that `Build` gets lists of declarations.
`WorkflowConstants` also asks that there are finitely many specs and that the names
in a spec are distinct; the API server refuses others, since the list is declared as
a map keyed by name (`api/v1/workflow_types.go:56-57`). `DagBuild` does not
assume that. No theorem assumes anything of the age of a cache, of crashes or of
failed calls. `NotifierConstants` and `InitNotifier` start the channel with UIDs that
were given out in order, without gaps, and with no Job that is being deleted.

`SpecsStand` (no request updates the spec, or every spec users submit is valid) and
`created <= HistoryLimit` are needed by `QuietStatusHolds`. With a spec that was
broken and is put right by an update, phase Failed may be stored while a Job is
active; if a TTL then removes the Job, the Task counts as finished and its status
keeps an active Job that is gone. TLC shows this on `MCTaskOnce` with `Specs <- NotCron`, two
updates and `MaxTime = 2`. Once more Jobs were created than the history keeps,
records are dropped on purpose, and only `QuietActiveHolds` remains. Before it was
proved, `StatusInv` was checked as an invariant of two instances: one without
updates (specs of every type, a broken one among them, long names, a TTL, two
requests, one fault, two Jobs, a history of three), complete with 5.2 million states;
and one with updates (valid specs, a history of one), without an error in its first
6.9 million.

`PlanStands` is what `RunsPlan` is stated for: users may delete the Workflow but do
not edit its spec or touch its children, no other Task has a child's name, and the
specs are valid and have the same nodes. Crashes, failed calls, conflicts and
the age of caches are unrestricted. An edit or a rerun changes the plan under the
run, and what holds then is `EndStays`, `ViewFaithful`, `NoChildLeftBehind` and
`LimitInStatus`, which assume none of it.

**Only model-checked.**

* All liveness (`CatchesUp`, `Settles`, `DeletionCompletes`, `WorkflowEnds`,
  `AcceptedFinishes`, `ShutdownEnds`): fairness is beyond the prover.
* `ParallelBound`, which depends on the plan: it is false in `MCWorkflowOvercommit`
  and holds in `MCWorkflowRun`. Likewise `QuietStatusTrue` without `SpecsStand`, which
  no run states.
* `CountedOnce`, `RunsOnce` and `ForbidExcludes` are false, which is what their runs
  show.

The other way round, TLC checks `NoOrphan` of `MCTaskLive` without faults, to keep
its liveness small; `NoJobLeftBehind` covers any number of them.

## 5. Not modelled

* A `List` that fails: the cached client fails only before its first
  synchronisation, for which the manager waits (`jobExists` would take it for no
  Job, `task_controller.go:338`).
* The content of Jobs and Pods (images, resources, environment), except name,
  outcome, end and whether a Pod is active.
* The number of status writes: `activeJobs` is compared in list order
  (`:594`), and a Cron Task whose schedule has become invalid alternates between two
  phases (`:237`, in `MCTaskCron`); the docs promise nothing about either.
* A second Task under the name of a deleted one, which finds its predecessor's
  Jobs outside a tenant (`jobs.go:28`).
* Texts of errors, conditions and notifications (`enrich` included), metrics, logs.
* The filters and pages of the lists, and the counting of `Stats` and `Trend`: pure
  functions of a list.
* A request that its client abandons, or that ends with the process: to the API
  server that is a handler that stops between two calls, which for Trigger
  `TaskController` includes.
* Start-up and wiring in `cmd/main.go` (among it the window in which `Shutdown` may
  read a server that `Run` has not set), the standalone server, static files,
  parsing of flags and files and the checks of webhook and SMTP settings.
* Header syntax, digests, TLS and the bytes of messages: reduced to their outcome.
* Generated code, the web console, manifests and charts.

## 6. Plan

Order: the reconcilers and the dispatcher first, since a mistake there loses or
repeats work; then what surrounds them. All modules of the plan are written, their
safety properties checked and, but for the ones named at the end of section 4,
proved under the conditions given there. Left:

1. A Task recreated under an old name in `TaskController`.
2. Runs that state the disagreements listed at the end of the runs in section 3.
