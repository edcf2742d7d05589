--------------------------- MODULE TaskController ---------------------------
(***************************************************************************)
(* The Task reconciler of internal/controller/task_controller.go, the Task *)
(* REST handlers of internal/api/handler/task_handler.go that write the    *)
(* same object, and their environment: the API server, the two informer    *)
(* caches the shared client reads from, the work queue, the clock and the  *)
(* Kubernetes Job controller.                                              *)
(*                                                                         *)
(* One Task is followed through its life.  A Job is named by the Unix      *)
(* second it is constructed in, so Job names are instants.  One reconcile  *)
(* is a sequence of steps, one per call to the API server or read of the   *)
(* Job cache; anything may happen between two steps, including a crash of  *)
(* the process, which holds the reconciler, the handlers and the caches.   *)
(***************************************************************************)
EXTENDS Integers, Sequences, FiniteSets, SequencesExt

CONSTANTS
    MaxTime,       \* horizon of the clock, in seconds (bound)
    Specs,         \* the specs users submit: records [type, valid, policy]
    LongNames,     \* whether a name may exceed naming.MaxTaskNameLength
    Period,        \* the cron schedule fires at the multiples of Period
    Delay,         \* spec.delay of a Delay Task, in seconds
    TTL,           \* spec.ttlSecondsAfterFinished, or None
    HistoryLimit,  \* execution records kept (10 in the code)
    TrackActive,   \* TRUE: follow status.active, which only Cron policies read
    MaxJobs,       \* bound on the number of Jobs created
    Requests,      \* the kinds of REST requests users make
    MaxRequests,   \* bound on the number of REST requests
    MaxFaults      \* bound on the number of crashes and failed calls

None == -1
Types == {"OneTime", "Cron", "Delay"}
Policies == {"Allow", "Forbid", "Replace"}
Seconds == 0..MaxTime
Terminal == {"Succeeded", "Failed"}
Phases == {"", "Pending", "Running", "Suspended"} \cup Terminal

ASSUME TaskConstants ==
    /\ MaxTime \in Nat
    /\ Specs \subseteq [type: Types, valid: BOOLEAN, policy: Policies]
    /\ LongNames \subseteq BOOLEAN
    /\ Period \in Nat \ {0}
    /\ Delay \in Nat
    /\ TTL \in Nat \cup {None}
    /\ HistoryLimit \in Nat \ {0}
    /\ TrackActive \in BOOLEAN
    /\ MaxJobs \in Nat
    /\ Requests \subseteq {"suspend", "resume", "update", "delete", "trigger"}
    /\ MaxRequests \in Nat
    /\ MaxFaults \in Nat

VARIABLES
    now,         \* the clock, in seconds since the Task was created
    task,        \* the Task stored by the API server
    jobs,        \* the Jobs stored by the API server, by name
    taskCache,   \* the Task informer's copy
    jobCache,    \* the Job informer's copy
    current,     \* the copies holding the stored Task's resourceVersion
    pc,          \* what the running reconcile does next
    obj,         \* its local copy of the Task
    victims,     \* the Jobs it has listed and still has to delete
    queued,      \* the Task's key is in the work queue
    timer,       \* when a delayed requeue is due, or None
    triggering,  \* the Trigger requests that are between their two writes
    requests,    \* REST requests so far
    faults,      \* crashes and failed calls so far
    missed,      \* history variable: the Jobs its last list did not show
    created,     \* history variable: the number of Jobs created
    outcomes     \* history variable: the outcomes Jobs of each name reached, and when

clockVars == <<now, faults>>
ghostVars == <<created, outcomes>>
serverVars == <<task, jobs, created, outcomes>>
cacheVars == <<taskCache, jobCache>>
recVars == <<pc, obj, victims, missed>>
queueVars == <<queued, timer>>
userVars == <<triggering, requests>>
vars == <<now, task, jobs, taskCache, jobCache, current, pc, obj, victims, missed,
          queued, timer, triggering, requests, faults, created, outcomes>>

-----------------------------------------------------------------------------
(* Data.                                                                   *)

JobStates == {"absent", "waiting", "active", "complete", "failed"}

\* A Job is waiting while it is unfinished and status.active is zero: before
\* its first Pod runs and between retry Pods.
Job == [state: JobStates, end: Seconds]
AbsentJob == [state |-> "absent", end |-> 0]
Present(js) == {j \in Seconds : js[j].state # "absent"}

\* jobTransitioned: the Job has a true Complete or Failed condition.
JobTransitioned(job) == job.state \in {"complete", "failed"}

\* Mutant: the Failed condition is forgotten.
PhaseWithoutFailure(job) == IF job.state = "complete" THEN "Succeeded" ELSE "Running"

\* jobPhase.
JobPhase(job) == CASE job.state = "complete" -> "Succeeded"
                   [] job.state = "failed" -> "Failed"
                   [] OTHER -> "Running"

Spec_ == [type: Types, valid: BOOLEAN, policy: Policies, suspend: BOOLEAN]
Meta == [longName: BOOLEAN, finalizer: BOOLEAN, deleting: BOOLEAN,
         trigger: Seconds \cup {None}]
ExecutionRecord == [job: Seconds, phase: Terminal]
Status == [phase: Phases,
           lastSchedule: Seconds \cup {None},
           lastStart: Seconds \cup {None},
           lastCompletion: Seconds \cup {None},
           history: Seq(ExecutionRecord),
           active: Seq(Seconds),
           succeeded: Nat,
           failed: Nat]
Task == [meta: Meta, spec: Spec_, status: Status]

\* A submitted spec, with spec.suspend.
Suspending(s, suspend) ==
    [type |-> s.type, valid |-> s.valid, policy |-> s.policy, suspend |-> suspend]

\* What POST /api/v1/tasks stores: no finalizer and an empty status.
NewTask(spec, longName) ==
    [meta |-> [longName |-> longName, finalizer |-> FALSE, deleting |-> FALSE, trigger |-> None],
     spec |-> spec,
     status |-> [phase |-> "", lastSchedule |-> None, lastStart |-> None,
                 lastCompletion |-> None, history |-> <<>>, active |-> <<>>,
                 succeeded |-> 0, failed |-> 0]]

\* The local copy when no reconcile runs.
NoObject ==
    NewTask([type |-> "OneTime", valid |-> TRUE, policy |-> "Allow", suspend |-> FALSE], FALSE)

\* The API server drops an object once it is being deleted and has no finalizer.
Exists(t) == ~t.meta.deleting \/ t.meta.finalizer

WithPhase(t, phase) == [t EXCEPT !.status.phase = phase]

-----------------------------------------------------------------------------
(* The pure parts of the reconciler.                                       *)

\* schedule.Next: the first firing strictly after the instant t.
NextFiring(t) == ((t \div Period) + 1) * Period

\* nextTime in handleCron; the Task was created at 0.
NextTime(t) ==
    NextFiring(IF t.status.lastSchedule = None THEN 0 ELSE t.status.lastSchedule)

ManuallyTriggeredAfterCompletion(t) ==
    LET reference == IF t.status.lastCompletion # None
                     THEN t.status.lastCompletion ELSE t.status.lastStart
    IN  t.meta.trigger # None /\ (reference = None \/ t.meta.trigger > reference)

ExecutionFinished(t) ==
    /\ ~ManuallyTriggeredAfterCompletion(t)
    /\ t.status.phase \in Terminal
    /\ t.status.lastCompletion # None \/ t.status.history # <<>>

\* taskStatusPhase, on a status whose counters and activeJobs are up to date.
StatusPhase(s) == CASE s.active # <<>> -> "Running"
                    [] s.active = <<>> /\ s.succeeded > 0 -> "Succeeded"
                    [] s.active = <<>> /\ s.succeeded = 0 /\ s.failed > 0 -> "Failed"
                    [] OTHER -> IF s.phase = "" THEN "Pending" ELSE s.phase

Recorded(history, j) == \E i \in DOMAIN history : history[i].job = j

\* executionHistory cut to its last HistoryLimit records.
Trim(history) ==
    IF Len(history) > HistoryLimit
    THEN SubSeq(history, Len(history) - HistoryLimit + 1, Len(history))
    ELSE history

\* The classes syncJobStatus sorts the listed Jobs into.
Unfinished(js) == {j \in Present(js) : ~JobTransitioned(js[j])}
Completed(js) == {j \in Present(js) : js[j].state = "complete"}
Unrecorded(t, js) ==
    {j \in Present(js) : JobTransitioned(js[j]) /\ ~Recorded(t.status.history, j)}

\* Mutant: the end of a failed Job counts as a completion too.
CompletionsOfAny(t, js, fresh) ==
    LET ended == Present(js) \ Unfinished(js)
    IN  IF ended = {} THEN {t.status.lastCompletion} ELSE {js[j].end : j \in ended}

\* The times lastCompletionTime may end with: that of the completed Job listed
\* last, when the unrecorded Jobs come in the order fresh.
Completions(t, js, fresh) ==
    LET MayComeLast(j) == \A a, b \in DOMAIN fresh :
                            (fresh[a] = j /\ b > a) => fresh[b] \notin Completed(js)
    IN  IF Completed(js) = {} THEN {t.status.lastCompletion}
        ELSE {js[j].end : j \in {k \in Completed(js) : MayComeLast(k)}}

\* Mutant: every pass counts every finished Job it lists.
SyncedCountingAll(t, js, fresh, active, completion) ==
    LET added == [i \in DOMAIN fresh |->
                    [job |-> fresh[i], phase |-> JobPhase(js[fresh[i]])]]
        s == [t.status EXCEPT
                !.succeeded = @ + Cardinality(Completed(js)),
                !.failed = @ + Cardinality(Present(js) \ (Unfinished(js) \cup Completed(js))),
                !.history = Trim(@ \o added),
                !.active = active,
                !.lastCompletion = completion]
    IN  [t EXCEPT !.status = [s EXCEPT !.phase = StatusPhase(s)]]

\* syncJobStatus: the Task after the Jobs js were listed with the unrecorded
\* ones in the order fresh and the unfinished ones in the order active.
SyncedTask(t, js, fresh, active, completion) ==
    LET added == [i \in DOMAIN fresh |->
                    [job |-> fresh[i], phase |-> JobPhase(js[fresh[i]])]]
        won == Unrecorded(t, js) \cap Completed(js)
        s == [t.status EXCEPT
                !.succeeded = @ + Cardinality(won),
                !.failed = @ + Cardinality(Unrecorded(t, js) \ won),
                !.history = Trim(@ \o added),
                !.active = active,
                !.lastCompletion = completion]
    IN  [t EXCEPT !.status = [s EXCEPT !.phase = StatusPhase(s)]]

\* Mutant: only a new record makes the status dirty.
DirtyByHistory(t, js, synced) == synced.status.history # t.status.history

\* statusDirty: lastCompletionTime may be overwritten twice in one pass and
\* end where it began, which still counts as dirty.
Dirty(t, js, synced) ==
    \/ synced # t
    \/ \E j \in Completed(js) : js[j].end # t.status.lastCompletion

-----------------------------------------------------------------------------
Init ==
    /\ now = 0
    /\ \E s \in Specs, suspend \in BOOLEAN, longName \in LongNames :
        task = NewTask(Suspending(s, suspend), longName)
    /\ jobs = [j \in Seconds |-> AbsentJob]
    /\ taskCache = task
    /\ jobCache = jobs
    /\ current = {"cache"}
    /\ pc = "idle"
    /\ obj = NoObject
    /\ victims = {}
    /\ missed = {}
    /\ queued = TRUE
    /\ timer = None
    /\ triggering = 0
    /\ requests = 0
    /\ faults = 0
    /\ created = 0
    /\ outcomes = [j \in Seconds |-> {}]

-----------------------------------------------------------------------------
(* The reconciler.  Each action is the code between two calls.             *)

\* Return from Reconcile without an error.
Return(copies) ==
    /\ pc' = "idle"
    /\ obj' = NoObject
    /\ victims' = {}
    /\ missed' = {}
    /\ current' = copies \ {"reconciler"}

\* Return an error: controller-runtime puts the key back.
ReturnError ==
    /\ Return(current)
    /\ queued' = TRUE
    /\ UNCHANGED <<task, jobs, timer>>

\* Mutant: the deadline is lost.
RequeueLost(t) == timer' = timer

\* RequeueAfter: the delaying queue keeps the earlier of two deadlines.
RequeueAt(t) == timer' = IF timer = None \/ t < timer THEN t ELSE timer

\* Go on with the local copy t at step p.
Continue(p, t) == pc' = p /\ obj' = t /\ UNCHANGED <<victims, missed>>

\* The checks and the switch on spec.type that follow suspend and resume.
Dispatch(t, copies) ==
    LET notReady == t.spec.type = "Delay" /\ t.spec.valid /\ now < Delay
        fails == t.meta.longName \/ (t.spec.type = "Delay" /\ ~t.spec.valid)
        told == t.meta.longName /\ t.status.phase = "Failed"
    IN  \/ /\ fails /\ told
           /\ Return(copies)
           /\ UNCHANGED timer
        \/ /\ fails /\ ~told
           /\ Continue("write", WithPhase(t, "Failed"))
           /\ current' = copies
           /\ UNCHANGED timer
        \/ /\ ~fails /\ notReady
           /\ RequeueAt(Delay)
           /\ Return(copies)
        \/ /\ ~fails /\ ~notReady
           /\ Continue("exists", t)
           /\ current' = copies
           /\ UNCHANGED timer

\* Mutants: suspension is tested before deletion, and the finalizer is not added.
DeletedUnlessSuspended(t) == t.meta.deleting /\ ~t.spec.suspend
FinalizerNotNeeded(t) == FALSE

\* The guards of Reconcile, in the order it tests them.
BeingDeleted(t) == t.meta.deleting
LacksFinalizer(t) == ~t.meta.finalizer
IsSuspended(t) == t.spec.suspend

\* Mutant: a Task that is already Suspended goes on to its type handler.
SuspendFallsThrough(t, copies) ==
    IF t.status.phase = "Suspended" THEN Dispatch(t, copies)
    ELSE Continue("write", WithPhase(t, "Suspended")) /\ current' = copies /\ UNCHANGED timer

\* handleSuspend.
HandleSuspend(t, copies) ==
    IF t.status.phase = "Suspended" THEN UNCHANGED <<recVars, current, timer>>
    ELSE Continue("write", WithPhase(t, "Suspended")) /\ current' = copies /\ UNCHANGED timer

\* Reconcile, up to its first call after Get.
Reconcile ==
    LET t == taskCache
        copies == IF "cache" \in current THEN current \cup {"reconciler"} ELSE current
        managed == ~BeingDeleted(t) /\ ~LacksFinalizer(t)
        Call(p, o) == Continue(p, o) /\ current' = copies /\ UNCHANGED timer
    IN  /\ pc = "idle" /\ queued
        /\ queued' = FALSE
        /\ \/ ~Exists(t) /\ UNCHANGED <<recVars, current, timer>>
           \/ Exists(t) /\ BeingDeleted(t) /\ Call("delete", t)
           \/ /\ Exists(t) /\ ~BeingDeleted(t) /\ LacksFinalizer(t)
              /\ Call("update", [t EXCEPT !.meta.finalizer = TRUE])
           \/ Exists(t) /\ managed /\ IsSuspended(t) /\ HandleSuspend(t, copies)
           \/ /\ Exists(t) /\ managed /\ ~IsSuspended(t)
              /\ IF t.status.phase = "Suspended"
                 THEN Call("resume", WithPhase(t, "Pending"))
                 ELSE Dispatch(t, copies)
        /\ UNCHANGED <<serverVars, cacheVars, userVars, clockVars>>

\* A write by the reconciler is accepted when no other write came between.
Accepted == "reconciler" \in current

\* The copies that are current after the API server stored t; an update that
\* changes nothing keeps the resourceVersion.
CopiesAfter(t, holder) == IF t = task THEN current \cup holder ELSE holder

\* A conflict, or NotFound: the reconcile ends with an error.
WriteRejected ==
    /\ pc \in {"write", "update", "resume", "syncWrite", "record"}
    /\ ~Accepted
    /\ ReturnError
    /\ UNCHANGED <<cacheVars, userVars, clockVars, ghostVars>>

\* The last write of a reconcile: Status().Update of a new phase, Update of
\* the finalizers, or the status of syncJobStatus for OneTime and Delay.
WriteAndReturn ==
    /\ \/ pc \in {"write", "update"}
       \/ pc = "syncWrite" /\ obj.spec.type # "Cron"
    /\ Accepted
    /\ task' = obj
    /\ Return(CopiesAfter(obj, {}))
    /\ UNCHANGED <<jobs, ghostVars, queueVars, cacheVars, userVars, clockVars>>

\* The resume write, after which Reconcile goes on with the response.
WriteResume ==
    /\ pc = "resume" /\ Accepted
    /\ task' = obj
    /\ Dispatch(obj, CopiesAfter(obj, {"reconciler"}))
    /\ UNCHANGED <<jobs, ghostVars, queued, cacheVars, userVars, clockVars>>

\* syncJobStatus inside handleCron, which then looks at the schedule.
WriteCronSync ==
    /\ pc = "syncWrite" /\ obj.spec.type = "Cron" /\ Accepted
    /\ task' = obj
    /\ Continue("schedule", obj)
    /\ current' = CopiesAfter(obj, {"reconciler"})
    /\ UNCHANGED <<jobs, ghostVars, queueVars, cacheVars, userVars, clockVars>>

\* ListTaskJobs reads the Job cache, which may be behind: the Jobs it misses.
Overlooked == Present(jobs) \ Present(jobCache)

\* Go on like Continue, knowing what the cache lists.
GoOn(p, t) == pc' = p /\ obj' = t /\ missed' = Overlooked /\ UNCHANGED victims

\* Mutant: a finished Job does not count as existing.
AnyUnfinishedJob(js) == Unfinished(js) # {}

\* jobExists.
AnyJob(js) == Present(js) # {}

\* jobExists and the branch on it in the three type handlers.
JobExists ==
    /\ pc = "exists"
    /\ \/ AnyJob(jobCache) /\ GoOn("sync", obj) /\ UNCHANGED current
       \/ /\ ~AnyJob(jobCache) /\ obj.spec.type = "Cron"
          /\ GoOn("schedule", obj) /\ UNCHANGED current
       \/ /\ ~AnyJob(jobCache) /\ obj.spec.type # "Cron" /\ ExecutionFinished(obj)
          /\ Return(current)
       \/ /\ ~AnyJob(jobCache) /\ obj.spec.type # "Cron" /\ ~ExecutionFinished(obj)
          /\ GoOn("create", obj) /\ UNCHANGED current
    /\ UNCHANGED <<serverVars, cacheVars, queueVars, userVars, clockVars>>

\* syncJobStatus; the informer's index returns the Jobs in no fixed order.
SyncJobStatus ==
    /\ pc = "sync"
    /\ \E fresh \in SetToSeqs(Unrecorded(obj, jobCache)),
          active \in SetToSeqs(Unfinished(jobCache)) :
       \E completion \in Completions(obj, jobCache, fresh) :
        LET synced == SyncedTask(obj, jobCache, fresh, active, completion)
        IN  IF Dirty(obj, jobCache, synced)
            THEN Continue("syncWrite", synced) /\ UNCHANGED current
            ELSE IF obj.spec.type = "Cron"
                 THEN Continue("schedule", obj) /\ UNCHANGED current
                 ELSE Return(current)
    /\ UNCHANGED <<serverVars, cacheVars, queueVars, userVars, clockVars>>

\* The Jobs concurrencyAllowed counts.
ActiveJobs(js) == {j \in Seconds : js[j].state = "active"}

\* The rest of handleCron: the schedule, then concurrencyAllowed.
Schedule ==
    LET busy == ActiveJobs(jobCache)
    IN  /\ pc = "schedule"
        /\ \/ /\ ~obj.spec.valid
              /\ Continue("write", WithPhase(obj, "Failed"))
              /\ UNCHANGED <<current, timer>>
           \/ /\ obj.spec.valid /\ now < NextTime(obj)
              /\ RequeueAt(NextTime(obj))
              /\ Return(current)
           \/ /\ obj.spec.valid /\ now >= NextTime(obj)
              /\ busy # {} /\ obj.spec.policy = "Forbid"
              /\ RequeueAt(NextFiring(now))
              /\ Return(current)
           \/ /\ obj.spec.valid /\ now >= NextTime(obj)
              /\ busy = {} \/ obj.spec.policy # "Forbid"
              /\ pc' = "create" /\ obj' = obj
              /\ victims' = IF obj.spec.policy = "Replace" THEN busy ELSE {}
              /\ UNCHANGED <<missed, current, timer>>
        /\ UNCHANGED <<serverVars, cacheVars, queued, userVars, clockVars>>

\* One Delete of concurrencyAllowed under Replace.
ReplaceJob ==
    /\ pc = "create"
    /\ \E j \in victims :
        /\ jobs' = [jobs EXCEPT ![j] = AbsentJob]
        /\ victims' = victims \ {j}
    /\ UNCHANGED <<task, ghostVars, pc, obj, missed, current, cacheVars, queueVars,
                   userVars, clockVars>>

\* createJobAndUpdateStatus up to Create: the Job is named after the second;
\* AlreadyExists is returned as an error.
CreateJob ==
    /\ pc = "create" /\ victims = {}
    /\ IF jobs[now].state # "absent"
       THEN ReturnError /\ UNCHANGED created
       ELSE /\ created < MaxJobs
            /\ created' = created + 1
            /\ jobs' = [jobs EXCEPT ![now] = [state |-> "waiting", end |-> 0]]
            /\ Continue("record", [obj EXCEPT !.status.active = Append(@, now)])
            /\ UNCHANGED <<task, current, queueVars>>
    /\ UNCHANGED <<outcomes, cacheVars, userVars, clockVars>>

\* The started Task that createJobAndUpdateStatus stores.
StartedTask(t) ==
    [t EXCEPT !.status.phase = "Running",
              !.status.lastStart = now,
              !.status.lastSchedule = IF t.spec.type = "Cron" THEN now ELSE @]

\* createJobAndUpdateStatus after Create.
RecordStart ==
    /\ pc = "record" /\ Accepted
    /\ task' = StartedTask(obj)
    /\ Return(CopiesAfter(StartedTask(obj), {}))
    /\ UNCHANGED <<jobs, ghostVars, queueVars, cacheVars, userVars, clockVars>>

\* handleDeletion: the first list.
ListForDeletion ==
    /\ pc = "delete"
    /\ pc' = "deleting"
    /\ victims' = Present(jobCache)
    /\ missed' = Overlooked
    /\ UNCHANGED <<serverVars, obj, current, cacheVars, queueVars, userVars, clockVars>>

\* handleDeletion: one background Delete; NotFound is ignored.
DeleteJob ==
    /\ pc = "deleting"
    /\ \E j \in victims :
        /\ jobs' = [jobs EXCEPT ![j] = AbsentJob]
        /\ victims' = victims \ {j}
    /\ UNCHANGED <<task, ghostVars, pc, obj, missed, current, cacheVars, queueVars,
                   userVars, clockVars>>

\* handleDeletion: the second list, and the wait or the finalizer.
FinishDeletion ==
    /\ pc = "deleting" /\ victims = {}
    /\ \/ /\ Present(jobCache) # {}
          /\ RequeueAt(now + 2)
          /\ Return(current)
       \/ /\ Present(jobCache) = {}
          /\ GoOn("update", [obj EXCEPT !.meta.finalizer = FALSE])
          /\ UNCHANGED <<current, timer>>
    /\ UNCHANGED <<serverVars, cacheVars, queued, userVars, clockVars>>

ReconcilerStep ==
    \/ Reconcile \/ WriteRejected \/ WriteAndReturn \/ WriteResume \/ WriteCronSync
    \/ JobExists \/ SyncJobStatus \/ Schedule \/ ReplaceJob \/ CreateJob \/ RecordStart
    \/ ListForDeletion \/ DeleteJob \/ FinishDeletion

-----------------------------------------------------------------------------
(* The REST handlers.  A handler reads the Task from the cache and writes  *)
(* it back: the write succeeds only if the cache was current, and changes  *)
(* nothing otherwise, so a rejected request is no step.                    *)

Request(kind) ==
    /\ kind \in Requests
    /\ requests < MaxRequests
    /\ requests' = requests + 1
    /\ UNCHANGED <<jobs, ghostVars, cacheVars, recVars, queueVars, clockVars>>

\* Store t for a handler that goes on holding it under the name in holder.
Store(t, holder) == task' = t /\ current' = CopiesAfter(t, holder)

ReadCurrent == "cache" \in current /\ Exists(task)

SuspendTask ==
    /\ Request("suspend") /\ ReadCurrent
    /\ Store([task EXCEPT !.spec.suspend = TRUE], {})
    /\ UNCHANGED triggering

ResumeTask ==
    /\ Request("resume") /\ ReadCurrent
    /\ Store([task EXCEPT !.spec.suspend = FALSE], {})
    /\ UNCHANGED triggering

\* PUT replaces spec and annotations; an invalid cron expression is refused.
UpdateTask ==
    /\ Request("update") /\ ReadCurrent
    /\ \E s \in Specs, suspend \in BOOLEAN, trigger \in {None, task.meta.trigger} :
        /\ s.type = "Cron" => s.valid
        /\ Store([task EXCEPT !.spec = Suspending(s, suspend), !.meta.trigger = trigger], {})
    /\ UNCHANGED triggering

DeleteTask ==
    /\ Request("delete") /\ Exists(task)
    /\ Store([task EXCEPT !.meta.deleting = TRUE], {})
    /\ UNCHANGED triggering

\* Trigger: the annotation first ...
TriggerTask ==
    /\ Request("trigger") /\ ReadCurrent
    /\ Store([task EXCEPT !.meta.trigger = now], {"trigger"})
    /\ triggering' = triggering + 1

\* ... then the status, with the object the first write returned.  The write is
\* refused when another one came between, or fails; then nothing changes.  Of two
\* such requests at once either may be the one that is refused.
TriggerStatus ==
    LET last == IF triggering = 1 THEN {"trigger"} ELSE {}
        t == [task EXCEPT !.status.lastSchedule = None, !.status.active = <<>>]
    IN  /\ triggering > 0
        /\ triggering' = triggering - 1
        /\ \/ /\ "trigger" \in current
              /\ task' = t /\ current' = CopiesAfter(t, {}) \ last
           \/ UNCHANGED task /\ current' = current \ last
        /\ UNCHANGED <<jobs, ghostVars, cacheVars, recVars, queueVars, requests, clockVars>>

-----------------------------------------------------------------------------
(* The environment.                                                        *)

\* The Task informer receives the stored Task; its event enqueues the key.
RefreshTask ==
    /\ "cache" \notin current
    /\ taskCache' = task
    /\ current' = current \cup {"cache"}
    /\ queued' = TRUE
    /\ UNCHANGED <<serverVars, jobCache, recVars, timer, userVars, clockVars>>

\* Mutant: the controller does not watch the Jobs it owns.
RefreshJobsSilently ==
    /\ jobCache # jobs
    /\ jobCache' = jobs
    /\ UNCHANGED <<queued, serverVars, taskCache, current, recVars, timer, userVars, clockVars>>

\* The Job informer catches up; its events enqueue the owner's key.
RefreshJobs ==
    /\ jobCache # jobs
    /\ jobCache' = jobs
    /\ queued' = TRUE
    /\ UNCHANGED <<serverVars, taskCache, current, recVars, timer, userVars, clockVars>>

\* A delayed requeue is due.  At the horizon every deadline counts as past.
TimerFires ==
    /\ timer # None
    /\ now >= timer \/ now = MaxTime
    /\ timer' = None
    /\ queued' = TRUE
    /\ UNCHANGED <<serverVars, cacheVars, current, recVars, userVars, clockVars>>

Tick ==
    /\ now < MaxTime
    /\ now' = now + 1
    /\ UNCHANGED <<faults, serverVars, cacheVars, current, recVars, queueVars, userVars>>

\* A change of one Job by the Job controller, the TTL controller or the GC.
JobChange(j, job) ==
    /\ jobs' = [jobs EXCEPT ![j] = job]
    /\ UNCHANGED <<task, created, cacheVars, current, recVars, queueVars, userVars, clockVars>>

PodStarts(j) ==
    /\ TrackActive
    /\ jobs[j].state = "waiting"
    /\ JobChange(j, [jobs[j] EXCEPT !.state = "active"])
    /\ UNCHANGED outcomes

PodFails(j) ==
    /\ jobs[j].state = "active"
    /\ JobChange(j, [jobs[j] EXCEPT !.state = "waiting"])
    /\ UNCHANGED outcomes

JobCompletes(j) ==
    /\ jobs[j].state \in (IF TrackActive THEN {"active"} ELSE {"waiting"})
    /\ JobChange(j, [state |-> "complete", end |-> now])
    /\ outcomes' = [outcomes EXCEPT ![j] = @ \cup {[phase |-> "Succeeded", end |-> now]}]

JobFails(j) ==
    /\ jobs[j].state \in {"active", "waiting"}
    /\ JobChange(j, [state |-> "failed", end |-> now])
    /\ outcomes' = [outcomes EXCEPT ![j] = @ \cup {[phase |-> "Failed", end |-> now]}]

TTLExpires(j) ==
    /\ TTL # None
    /\ JobTransitioned(jobs[j])
    /\ now >= jobs[j].end + TTL
    /\ JobChange(j, AbsentJob)
    /\ UNCHANGED outcomes

\* The garbage collector removes Jobs whose owner is gone.
CollectJob(j) ==
    /\ ~Exists(task)
    /\ jobs[j].state # "absent"
    /\ JobChange(j, AbsentJob)
    /\ UNCHANGED outcomes

\* A call to the API server fails in transit, without effect.  A failed
\* Delete under Replace is only logged.
CallFails ==
    /\ faults < MaxFaults
    /\ faults' = faults + 1
    /\ \/ /\ \/ pc \in {"write", "update", "resume", "syncWrite", "record"}
             \/ pc = "create" /\ victims = {}
             \/ pc = "deleting" /\ victims # {}
          /\ ReturnError
       \/ /\ pc = "create"
          /\ \E j \in victims : victims' = victims \ {j}
          /\ UNCHANGED <<task, jobs, pc, obj, missed, current, queueVars>>
    /\ UNCHANGED <<now, ghostVars, cacheVars, userVars>>

\* The process dies and another one starts with freshly listed caches, which
\* enqueue every Task.
Crash ==
    /\ faults < MaxFaults
    /\ faults' = faults + 1
    /\ pc' = "idle" /\ obj' = NoObject /\ victims' = {} /\ missed' = {}
    /\ taskCache' = task
    /\ jobCache' = jobs
    /\ current' = {"cache"}
    /\ queued' = TRUE /\ timer' = None
    /\ triggering' = 0
    /\ UNCHANGED <<now, serverVars, requests>>

UserStep ==
    \/ SuspendTask \/ ResumeTask \/ UpdateTask \/ DeleteTask \/ TriggerTask

JobStep ==
    \E j \in Seconds : \/ PodStarts(j) \/ PodFails(j) \/ JobCompletes(j) \/ JobFails(j)
                       \/ TTLExpires(j) \/ CollectJob(j)

Next ==
    \/ ReconcilerStep
    \/ UserStep
    \/ TriggerStatus
    \/ RefreshTask
    \/ RefreshJobs
    \/ TimerFires
    \/ Tick
    \/ JobStep
    \/ CallFails
    \/ Crash

Spec == Init /\ [][Next]_vars

\* What keeps going on its own: the worker that runs reconciles, the informers,
\* the delaying queue, the clock, the second half of a Trigger, the garbage
\* collector, and Pods that are started and end (a Job that may always end does).
Fairness ==
    /\ WF_vars(ReconcilerStep)
    /\ WF_vars(RefreshTask) /\ WF_vars(RefreshJobs)
    /\ WF_vars(TimerFires) /\ WF_vars(Tick)
    /\ WF_vars(TriggerStatus)
    /\ \A j \in Seconds : /\ WF_vars(CollectJob(j))
                          /\ WF_vars(PodStarts(j))
                          /\ SF_vars(JobCompletes(j) \/ JobFails(j))

FairSpec == Spec /\ Fairness

-----------------------------------------------------------------------------
(* Properties.                                                             *)

Pcs == {"idle", "write", "update", "resume", "syncWrite", "exists", "sync",
        "schedule", "create", "record", "delete", "deleting"}

\* Every variable has its type: the stored Task and its copies are Tasks, a
\* Job's name and times are instants, only real copies claim to be current.
TypeOK ==
    /\ now \in Seconds
    /\ task \in Task /\ taskCache \in Task /\ obj \in Task
    /\ jobs \in [Seconds -> Job] /\ jobCache \in [Seconds -> Job]
    /\ current \subseteq {"cache", "reconciler", "trigger"}
    /\ pc \in Pcs
    /\ victims \subseteq Seconds /\ missed \subseteq Seconds
    /\ queued \in BOOLEAN /\ triggering \in 0..requests
    /\ timer \in Nat \cup {None}
    /\ requests \in 0..MaxRequests /\ faults \in 0..MaxFaults
    /\ created \in 0..MaxJobs
    /\ outcomes \in [Seconds -> SUBSET [phase: Terminal, end: Seconds]]

\* API.md calls the counters of the status cumulative numbers of executions, by
\* how their Jobs ended: they are then at most the numbers of Jobs that ended so,
\* though syncJobStatus lists the same Job again until its TTL expires.
EndedAs(phase) == {j \in Seconds : \E o \in outcomes[j] : o.phase = phase}
CountedOnce ==
    /\ task.status.succeeded <= Cardinality(EndedAs("Succeeded"))
    /\ task.status.failed <= Cardinality(EndedAs("Failed"))

\* syncJobStatus implements the ledger of Executions: across conflicts, stale
\* lists, crashes between the writes and triggers that reset the status, every
\* write adds true outcomes of Jobs the history does not name, moves each
\* counter by exactly what it adds, and leaves a completion time at which some
\* Job really succeeded.
Ledger == INSTANCE Executions WITH
    Jobs <- Seconds, Times <- Seconds, Never <- None, Limit <- HistoryLimit,
    ended <- outcomes, history <- task.status.history,
    succeeded <- task.status.succeeded, failed <- task.status.failed,
    completion <- task.status.lastCompletion
KeepsLedger == Ledger!Spec

\* handleSuspend: once the reconciler has acknowledged a suspended Task by
\* storing phase Suspended, no Job is created for it, not even by a reconcile
\* working from an old cache, until a user resumes it.
SuspendHolds ==
    [][(task.spec.suspend /\ task.status.phase = "Suspended")
         => Present(jobs') \subseteq Present(jobs)]_vars

\* jobExists and taskExecutionFinished: a reconcile starts a Job of a OneTime or
\* Delay Task only when every Job of the Task that is still there was missing
\* from the list it read, and never when its copy of the Task is the stored one
\* and says that the execution is over.  No crash, failed call, conflict, expired
\* Job or trigger between its steps, or those of its predecessors, makes another.
OneExecution ==
    [][(~(Present(jobs') \subseteq Present(jobs)) /\ obj.spec.type # "Cron")
         => /\ Present(jobs) \subseteq missed
            /\ "reconciler" \in current => ~ExecutionFinished(task)]_vars

\* handleDeletion: the Jobs left by a Task that disappears are those its last
\* list had missed: none when it was never given the finalizer, and after it is
\* gone no Job of it is created.
NoOrphan ==
    [][~Exists(task') =>
         Present(jobs') \subseteq CASE ~Exists(task) -> Present(jobs)
                                   [] Exists(task) /\ task.meta.deleting -> missed
                                   [] OTHER -> {}]_vars

\* handleDeletion: a deleted Task goes away, and all its Jobs with it.
DeletionCompletes == task.meta.deleting ~> (~Exists(task) /\ Present(jobs) = {})

\* handleOneTime and handleDelay: a Task that is left alone ends in phase
\* Succeeded or Failed and stays there; no wake-up is lost on the way.
LeftAlone == Exists(task) /\ ~task.meta.deleting /\ ~task.spec.suspend
Settles == <>[]LeftAlone => <>[](task.status.phase \in Terminal)

\* handleCron: a valid Cron Task that is left alone never misses its schedule
\* for good; every firing before the horizon is in the end scheduled or passed
\* over by a later one.  A Job of the last second, where the clock stops, counts
\* as scheduled even if the status never says so: its name blocks every retry.
NothingOverdue ==
    \/ MaxTime \in Present(jobs)
    \/ \E last \in Seconds : task.status.lastSchedule = last /\ NextFiring(last) >= MaxTime
CatchesUp == <>[](LeftAlone /\ task.spec.valid) => <>NothingOverdue

\* syncJobStatus: when nothing is left to do - no reconcile, no queued key, no
\* deadline, caches up to date - the status of a running Task tells the truth:
\* activeJobs names exactly the unfinished Jobs and every finished Job is in the
\* history.  No interleaving of writes, events and requests loses an update.
Quiet ==
    /\ pc = "idle" /\ ~queued /\ timer = None /\ triggering = 0
    /\ "cache" \in current /\ jobCache = jobs
QuietStatusTrue ==
    (Quiet /\ LeftAlone /\ ~task.meta.longName /\ task.spec.valid) =>
        /\ ToSet(task.status.active) = Unfinished(jobs)
        /\ \A j \in Present(jobs) \ Unfinished(jobs) : Recorded(task.status.history, j)

(* What a comment says and the code does not do.                           *)

\* A test of handleOneTime says OneTime should only run once.
RunsOnce == task.spec.type = "OneTime" => created <= 1

\* The comment in syncJobStatus says a Job remains in progress between retry
\* Pods: under Forbid two Jobs are then never in progress together.
ForbidExcludes == task.spec.policy = "Forbid" => Cardinality(Unfinished(jobs)) <= 1
=============================================================================
