----------------------------- MODULE TaskProofs -----------------------------
(***************************************************************************)
(* Proofs about the Task reconciler and the Task handlers, for every clock *)
(* horizon, every set of specs and any number of requests, failed calls    *)
(* and crashes.                                                            *)
(***************************************************************************)
EXTENDS TaskController, FiniteSetTheorems, FunctionTheorems, TLAPS

Copies == {"cache", "reconciler", "trigger"}

\* The steps of a reconcile that lead to a Job or come right after one.
Executing == {"exists", "sync", "syncWrite", "schedule", "create", "record"}

\* Two copies of the Task that tell the same about its executions.
SameLedger(v, w) ==
    /\ v.status.history = w.status.history
    /\ v.status.succeeded = w.status.succeeded
    /\ v.status.failed = w.status.failed
    /\ v.status.lastCompletion = w.status.lastCompletion

-----------------------------------------------------------------------------
(* The operators on a copy of the Task.                                    *)

\* The parts of a Task have their types.
LEMMA Fields ==
    ASSUME NEW t \in Task
    PROVE  /\ t.meta \in Meta /\ t.spec \in Spec_ /\ t.status \in Status
           /\ t.meta.longName \in BOOLEAN /\ t.meta.finalizer \in BOOLEAN
           /\ t.meta.deleting \in BOOLEAN /\ t.meta.trigger \in Seconds \cup {None}
           /\ t.spec.type \in Types /\ t.spec.valid \in BOOLEAN
           /\ t.spec.policy \in Policies /\ t.spec.suspend \in BOOLEAN
           /\ t.status.phase \in Phases
           /\ t.status.lastSchedule \in Seconds \cup {None}
           /\ t.status.lastStart \in Seconds \cup {None}
           /\ t.status.lastCompletion \in Seconds \cup {None}
           /\ t.status.history \in Seq(ExecutionRecord)
           /\ t.status.active \in Seq(Seconds)
           /\ t.status.succeeded \in Nat /\ t.status.failed \in Nat
BY DEF Task, Meta, Spec_, Status

\* A status write replaces the status only.
LEMMA NewStatus ==
    ASSUME NEW t \in Task, NEW st \in Status
    PROVE  /\ [t EXCEPT !.status = st] \in Task
           /\ [t EXCEPT !.status = st].status = st
           /\ [t EXCEPT !.status = st].meta = t.meta
           /\ [t EXCEPT !.status = st].spec = t.spec
BY DEF Task

\* A write of the metadata replaces the metadata only.
LEMMA NewMeta ==
    ASSUME NEW t \in Task, NEW m \in Meta
    PROVE  /\ [t EXCEPT !.meta = m] \in Task
           /\ [t EXCEPT !.meta = m].status = t.status
           /\ [t EXCEPT !.meta = m].meta = m
           /\ [t EXCEPT !.meta = m].spec = t.spec
BY DEF Task

\* A write of the spec replaces the spec only.
LEMMA NewSpec ==
    ASSUME NEW t \in Task, NEW s \in Spec_
    PROVE  /\ [t EXCEPT !.spec = s] \in Task
           /\ [t EXCEPT !.spec = s].status = t.status
           /\ [t EXCEPT !.spec = s].meta = t.meta
           /\ [t EXCEPT !.spec = s].spec = s
BY DEF Task

\* Setting the phase changes nothing else.
LEMMA PhaseSet ==
    ASSUME NEW t \in Task, NEW phase \in Phases
    PROVE  /\ WithPhase(t, phase) \in Task
           /\ WithPhase(t, phase).status.phase = phase
           /\ WithPhase(t, phase).meta = t.meta /\ WithPhase(t, phase).spec = t.spec
           /\ SameLedger(WithPhase(t, phase), t)
<1> DEFINE st == [t.status EXCEPT !.phase = phase]
<1>1. /\ st \in Status /\ st.phase = phase
      /\ st.history = t.status.history /\ st.succeeded = t.status.succeeded
      /\ st.failed = t.status.failed /\ st.lastCompletion = t.status.lastCompletion
  BY Fields DEF Status
<1>2. WithPhase(t, phase) = [t EXCEPT !.status = st]
  BY DEF WithPhase
<1> HIDE DEF st
<1> QED
  BY <1>1, <1>2, NewStatus DEF SameLedger

\* Setting or removing the finalizer changes nothing else.
LEMMA FinalizerSet ==
    ASSUME NEW t \in Task, NEW b \in BOOLEAN
    PROVE  LET u == [t EXCEPT !.meta.finalizer = b]
           IN  /\ u \in Task /\ u.status = t.status /\ u.spec = t.spec
               /\ u.meta.finalizer = b /\ u.meta.deleting = t.meta.deleting
<1> DEFINE m == [t.meta EXCEPT !.finalizer = b]
<1>1. m \in Meta /\ m.finalizer = b /\ m.deleting = t.meta.deleting
  BY Fields DEF Meta
<1>2. [t EXCEPT !.meta.finalizer = b] = [t EXCEPT !.meta = m]
  OBVIOUS
<1> HIDE DEF m
<1> QED
  BY <1>1, <1>2, NewMeta, ZenonT(40)

\* A Delete request sets the deletion timestamp and nothing else.
LEMMA DeletingSet ==
    ASSUME NEW t \in Task
    PROVE  LET u == [t EXCEPT !.meta.deleting = TRUE]
           IN  /\ u \in Task /\ u.status = t.status /\ u.spec = t.spec
               /\ u.meta.deleting /\ u.meta.finalizer = t.meta.finalizer
<1> DEFINE m == [t.meta EXCEPT !.deleting = TRUE]
<1>1. m \in Meta /\ m.deleting /\ m.finalizer = t.meta.finalizer
  BY Fields DEF Meta
<1>2. [t EXCEPT !.meta.deleting = TRUE] = [t EXCEPT !.meta = m]
  OBVIOUS
<1> HIDE DEF m
<1> QED
  BY <1>1, <1>2, NewMeta

\* Setting the trigger annotation changes nothing else.
LEMMA TriggerSet ==
    ASSUME NEW t \in Task, NEW at \in Seconds \cup {None}
    PROVE  LET u == [t EXCEPT !.meta.trigger = at]
           IN  /\ u \in Task /\ u.status = t.status /\ u.spec = t.spec
               /\ u.meta.deleting = t.meta.deleting /\ u.meta.finalizer = t.meta.finalizer
<1> DEFINE m == [t.meta EXCEPT !.trigger = at]
<1>1. m \in Meta /\ m.deleting = t.meta.deleting /\ m.finalizer = t.meta.finalizer
  BY Fields DEF Meta
<1>2. [t EXCEPT !.meta.trigger = at] = [t EXCEPT !.meta = m]
  OBVIOUS
<1> HIDE DEF m
<1> QED
  BY <1>1, <1>2, NewMeta

\* Setting spec.suspend changes nothing else.
LEMMA SuspendSet ==
    ASSUME NEW t \in Task, NEW b \in BOOLEAN
    PROVE  LET u == [t EXCEPT !.spec.suspend = b]
           IN  u \in Task /\ u.status = t.status /\ u.meta = t.meta /\ u.spec.type = t.spec.type
<1> DEFINE s == [t.spec EXCEPT !.suspend = b]
<1>1. s \in Spec_ /\ s.type = t.spec.type
  BY Fields DEF Spec_
<1>2. [t EXCEPT !.spec.suspend = b] = [t EXCEPT !.spec = s]
  OBVIOUS
<1> HIDE DEF s
<1> QED
  BY <1>1, <1>2, NewSpec

\* What a submitted spec becomes.
LEMMA SubmittedFits ==
    ASSUME NEW s \in Specs, NEW b \in BOOLEAN
    PROVE  Suspending(s, b) \in Spec_ /\ Suspending(s, b).type = s.type
BY TaskConstants DEF Suspending, Spec_

\* The second write of a Trigger keeps the phase and the records.
LEMMA TriggerStatusSet ==
    ASSUME NEW t \in Task
    PROVE  LET u == [t EXCEPT !.status.lastSchedule = None, !.status.active = <<>>]
           IN  /\ u \in Task /\ u.meta = t.meta /\ u.spec = t.spec
               /\ u.status.phase = t.status.phase /\ SameLedger(u, t)
<1> DEFINE u == [t EXCEPT !.status.lastSchedule = None, !.status.active = <<>>]
           st == [t.status EXCEPT !.lastSchedule = None, !.active = <<>>]
<1>1. /\ st \in Status /\ st.phase = t.status.phase
      /\ st.history = t.status.history /\ st.succeeded = t.status.succeeded
      /\ st.failed = t.status.failed /\ st.lastCompletion = t.status.lastCompletion
  <2>1. <<>> \in Seq(Seconds)
    OBVIOUS
  <2> QED
    BY <2>1, Fields DEF Status
<1>2. u = [t EXCEPT !.status = st]
  BY Fields DEF Task, Status
<1>3. /\ u \in Task /\ u.meta = t.meta /\ u.spec = t.spec
      /\ u.status.phase = t.status.phase /\ SameLedger(u, t)
  <2> HIDE DEF st, u
  <2> QED
    BY <1>1, <1>2, NewStatus DEF SameLedger
<1> QED
  BY <1>3

\* Appending a created Job to activeJobs changes nothing else.
LEMMA ActiveSet ==
    ASSUME NEW t \in Task, NEW j \in Seconds
    PROVE  LET u == [t EXCEPT !.status.active = Append(@, j)]
           IN  /\ u \in Task /\ u.meta = t.meta /\ u.spec = t.spec
               /\ u.status.phase = t.status.phase /\ SameLedger(u, t)
<1> DEFINE a == Append(t.status.active, j)
           st == [t.status EXCEPT !.active = a]
           u == [t EXCEPT !.status.active = Append(@, j)]
<1>1. a \in Seq(Seconds)
  BY Fields
<1>2. u = [t EXCEPT !.status = st]
  OBVIOUS
<1> HIDE DEF a, u
<1>3. /\ st \in Status /\ st.phase = t.status.phase
      /\ st.history = t.status.history /\ st.succeeded = t.status.succeeded
      /\ st.failed = t.status.failed /\ st.lastCompletion = t.status.lastCompletion
  BY <1>1, Fields DEF Status
<1> HIDE DEF st
<1>4. /\ u \in Task /\ u.meta = t.meta /\ u.spec = t.spec
      /\ u.status.phase = t.status.phase /\ SameLedger(u, t)
  BY <1>2, <1>3, NewStatus DEF SameLedger
<1> QED
  BY <1>4 DEF u

\* What createJobAndUpdateStatus stores differs in phase and start times.
LEMMA StartedSet ==
    ASSUME NEW t \in Task, now \in Seconds
    PROVE  /\ StartedTask(t) \in Task /\ StartedTask(t).meta = t.meta
           /\ StartedTask(t).spec = t.spec /\ StartedTask(t).status.phase = "Running"
           /\ SameLedger(StartedTask(t), t)
<1> DEFINE ls == IF t.spec.type = "Cron" THEN now ELSE t.status.lastSchedule
           st == [t.status EXCEPT !.phase = "Running", !.lastStart = now, !.lastSchedule = ls]
<1>1. ls \in Seconds \cup {None} /\ "Running" \in Phases
  BY Fields DEF Phases
<1>2. StartedTask(t) = [t EXCEPT !.status = st]
  BY Fields DEF StartedTask, Task, Status
<1> HIDE DEF ls
<1>3. /\ st \in Status /\ st.phase = "Running"
      /\ st.history = t.status.history /\ st.succeeded = t.status.succeeded
      /\ st.failed = t.status.failed /\ st.lastCompletion = t.status.lastCompletion
  BY <1>1, Fields DEF Status
<1> HIDE DEF st
<1> QED
  BY <1>2, <1>3, NewStatus DEF SameLedger

\* What POST stores is a Task.
LEMMA NewTaskFits ==
    ASSUME NEW s \in Spec_, NEW b \in BOOLEAN
    PROVE  /\ NewTask(s, b) \in Task /\ NewTask(s, b).spec = s
           /\ NewTask(s, b).status.phase = "" /\ ~NewTask(s, b).meta.finalizer
           /\ NewTask(s, b).status.history = <<>> /\ NewTask(s, b).status.lastCompletion = None
           /\ NewTask(s, b).status.succeeded = 0 /\ NewTask(s, b).status.failed = 0
<1>1. <<>> \in Seq(Seconds) /\ <<>> \in Seq(ExecutionRecord) /\ "" \in Phases
  BY DEF Phases
<1> QED
  BY <1>1 DEF NewTask, Task, Meta, Status

\* The local copy between two reconciles is a Task.
LEMMA NoObjectFits == NoObject \in Task /\ NoObject.spec.type = "OneTime"
<1> DEFINE s == [type |-> "OneTime", valid |-> TRUE, policy |-> "Allow", suspend |-> FALSE]
<1>1. s \in Spec_ /\ s.type = "OneTime"
  BY DEF Spec_, Types, Policies
<1>2. NoObject = NewTask(s, FALSE)
  BY DEF NoObject
<1> HIDE DEF s
<1> QED
  BY <1>1, <1>2, NewTaskFits

-----------------------------------------------------------------------------
(* syncJobStatus.                                                          *)

\* The records syncJobStatus adds for the Jobs fresh.
Added(js, fresh) ==
    [i \in DOMAIN fresh |-> [job |-> fresh[i], phase |-> JobPhase(js[fresh[i]])]]

\* Every set of instants is finite.
LEMMA InstantsFinite ==
    ASSUME NEW S \in SUBSET Seconds
    PROVE  IsFiniteSet(S) /\ Cardinality(S) \in Nat
<1>1. IsFiniteSet(Seconds)
  BY FS_Interval, TaskConstants DEF Seconds
<1>2. IsFiniteSet(S)
  BY <1>1, FS_Subset
<1> QED
  BY <1>2, FS_CardinalityType

\* A listing of a set of instants is a sequence that takes each one once.
LEMMA ListingFits ==
    ASSUME NEW S \in SUBSET Seconds, NEW f \in SetToSeqs(S)
    PROVE  /\ f \in [1..Cardinality(S) -> S] /\ DOMAIN f = 1..Cardinality(S)
           /\ f \in Seq(S) /\ Len(f) = Cardinality(S)
           /\ \A a, b \in DOMAIN f : f[a] = f[b] => a = b
<1>1. Cardinality(S) \in Nat
  BY InstantsFinite
<1>2. f \in [1..Cardinality(S) -> S]
      /\ \A i, j \in 1..Cardinality(S) : i # j => f[i] # f[j]
  BY DEF SetToSeqs
<1> QED
  BY <1>1, <1>2

\* The records added are records of finished Jobs.
LEMMA AddedFits ==
    ASSUME NEW t \in Task, NEW js \in [Seconds -> Job],
           NEW fresh \in SetToSeqs(Unrecorded(t, js))
    PROVE  /\ Added(js, fresh) \in Seq(ExecutionRecord)
           /\ \A i \in DOMAIN fresh : JobPhase(js[fresh[i]]) \in Terminal
<1>1. Unrecorded(t, js) \in SUBSET Seconds
  BY DEF Unrecorded, Present
<1>2. fresh \in [1..Cardinality(Unrecorded(t, js)) -> Unrecorded(t, js)]
      /\ Cardinality(Unrecorded(t, js)) \in Nat
      /\ DOMAIN fresh = 1..Cardinality(Unrecorded(t, js))
  BY <1>1, ListingFits, InstantsFinite
<1>3. ASSUME NEW i \in DOMAIN fresh
      PROVE  fresh[i] \in Seconds /\ JobPhase(js[fresh[i]]) \in Terminal
  <2>1. fresh[i] \in Unrecorded(t, js)
    BY <1>2
  <2> QED
    BY <2>1 DEF Unrecorded, Present, JobTransitioned, JobPhase, Terminal
<1>4. \A i \in DOMAIN fresh :
         [job |-> fresh[i], phase |-> JobPhase(js[fresh[i]])] \in ExecutionRecord
  BY <1>3 DEF ExecutionRecord
<1>5. Added(js, fresh) \in [1..Cardinality(Unrecorded(t, js)) -> ExecutionRecord]
  BY <1>2, <1>4 DEF Added
<1> QED
  BY <1>2, <1>3, <1>5

\* Trimming keeps a history a history.
LEMMA TrimFits ==
    ASSUME NEW h \in Seq(ExecutionRecord)
    PROVE  Trim(h) \in Seq(ExecutionRecord)
BY TaskConstants DEF Trim

\* A completion time is an instant at which a listed Job completed, or the old one.
LEMMA CompletionsFit ==
    ASSUME NEW t, NEW js \in [Seconds -> Job], NEW fresh,
           NEW completion \in Completions(t, js, fresh)
    PROVE  \/ completion = t.status.lastCompletion
           \/ \E j \in Completed(js) : completion = js[j].end /\ completion \in Seconds
<1>1. CASE Completed(js) = {}
  BY <1>1 DEF Completions
<1>2. CASE Completed(js) # {}
  <2>1. PICK j \in Completed(js) : completion = js[j].end
    BY <1>2 DEF Completions
  <2>2. js[j] \in Job
    BY DEF Completed, Present
  <2>3. js[j].end \in Seconds
    BY <2>2 DEF Job
  <2> QED
    BY <2>1, <2>3
<1> QED
  BY <1>1, <1>2

\* taskStatusPhase never answers Suspended unless the status says so already.
LEMMA StatusPhaseIs ==
    ASSUME NEW s \in Status
    PROVE  /\ StatusPhase(s) \in Phases
           /\ s.phase # "Suspended" => StatusPhase(s) # "Suspended"
<1>1. s.phase \in Phases
  BY DEF Status
<1>2. StatusPhase(s) \in {"Running", "Succeeded", "Failed", "Pending", s.phase}
  BY DEF StatusPhase
<1>3. s.phase # "Suspended" => StatusPhase(s) # "Suspended"
  BY DEF StatusPhase
<1> QED
  BY <1>1, <1>2, <1>3 DEF Phases, Terminal

\* syncJobStatus returns a Task that differs in its status; the history grows
\* by the records of the unrecorded Jobs and the counters by their numbers.
LEMMA SyncedSet ==
    ASSUME NEW t \in Task, NEW js \in [Seconds -> Job],
           NEW fresh \in SetToSeqs(Unrecorded(t, js)),
           NEW active \in SetToSeqs(Unfinished(js)),
           NEW completion \in Completions(t, js, fresh)
    PROVE  LET u == SyncedTask(t, js, fresh, active, completion)
               won == Unrecorded(t, js) \cap Completed(js)
           IN  /\ u \in Task /\ u.meta = t.meta /\ u.spec = t.spec
               /\ t.status.phase # "Suspended" => u.status.phase # "Suspended"
               /\ u.status.history = Trim(t.status.history \o Added(js, fresh))
               /\ u.status.succeeded = t.status.succeeded + Cardinality(won)
               /\ u.status.failed = t.status.failed + Cardinality(Unrecorded(t, js) \ won)
               /\ u.status.lastCompletion = completion
<1> DEFINE won == Unrecorded(t, js) \cap Completed(js)
           lost == Unrecorded(t, js) \ won
           w == t.status.succeeded + Cardinality(won)
           l == t.status.failed + Cardinality(lost)
           h == Trim(t.status.history \o Added(js, fresh))
           s == [t.status EXCEPT !.succeeded = w, !.failed = l, !.history = h,
                                 !.active = active, !.lastCompletion = completion]
           p == StatusPhase(s)
           st == [s EXCEPT !.phase = p]
           u == SyncedTask(t, js, fresh, active, completion)
<1>1. u = [t EXCEPT !.status = st]
  BY DEF SyncedTask, Added
<1>2. won \in SUBSET Seconds /\ lost \in SUBSET Seconds /\ Unfinished(js) \in SUBSET Seconds
  BY DEF Unrecorded, Unfinished, Present
<1>3. w \in Nat /\ l \in Nat
  <2>1. Cardinality(won) \in Nat /\ Cardinality(lost) \in Nat
    BY <1>2, InstantsFinite
  <2> HIDE DEF won, lost
  <2> QED
    BY <2>1, Fields
<1>4. h \in Seq(ExecutionRecord)
  <2>1. t.status.history \o Added(js, fresh) \in Seq(ExecutionRecord)
    BY AddedFits, Fields
  <2> QED
    BY <2>1, TrimFits
<1>5. active \in Seq(Seconds)
  <2>1. active \in Seq(Unfinished(js))
    BY <1>2, ListingFits
  <2> QED
    BY <2>1, <1>2
<1>6. completion \in Seconds \cup {None}
  BY CompletionsFit, Fields
<1> HIDE DEF w, l, h
<1>7. s \in Status /\ s.phase = t.status.phase /\ s.history = h /\ s.succeeded = w
      /\ s.failed = l /\ s.lastCompletion = completion
  BY <1>3, <1>4, <1>5, <1>6, Fields DEF Status
<1> HIDE DEF s
<1>8. p \in Phases /\ (t.status.phase # "Suspended" => p # "Suspended")
  BY <1>7, StatusPhaseIs
<1> HIDE DEF p
<1>9. st \in Status /\ st.phase = p /\ st.history = h /\ st.succeeded = w
      /\ st.failed = l /\ st.lastCompletion = completion
  BY <1>7, <1>8 DEF Status
<1> HIDE DEF st, u
<1>10. /\ u \in Task /\ u.meta = t.meta /\ u.spec = t.spec
       /\ t.status.phase # "Suspended" => u.status.phase # "Suspended"
       /\ u.status.history = h /\ u.status.succeeded = w
       /\ u.status.failed = l /\ u.status.lastCompletion = completion
  BY <1>1, <1>8, <1>9, NewStatus
<1> QED
  BY <1>10 DEF h, w, l, u

-----------------------------------------------------------------------------
(* What a step may do to the copies of the Task and to the reconcile.      *)

Stays == UNCHANGED <<task, taskCache, current, pc, obj>>

\* A reconcile returns.
Ends ==
    /\ pc' = "idle" /\ obj' = NoObject /\ current' = current \ {"reconciler"}
    /\ UNCHANGED <<task, taskCache>>

\* A reconcile starts and leads to its first call.
Begins ==
    LET t == taskCache
        Call(p, o) == pc' = p /\ obj' = o
    IN  /\ pc = "idle"
        /\ current' = IF "cache" \in current THEN current \cup {"reconciler"} ELSE current
        /\ UNCHANGED <<task, taskCache>>
        /\ \/ t.meta.deleting /\ Call("delete", t)
           \/ /\ ~t.meta.deleting /\ ~t.meta.finalizer
              /\ Call("update", [t EXCEPT !.meta.finalizer = TRUE])
           \/ /\ ~t.meta.deleting /\ t.meta.finalizer
              /\ t.spec.suspend /\ Call("write", WithPhase(t, "Suspended"))
           \/ /\ ~t.meta.deleting /\ t.meta.finalizer
              /\ t.status.phase = "Suspended" /\ Call("resume", WithPhase(t, "Pending"))
           \/ /\ ~t.meta.deleting /\ t.meta.finalizer
              /\ ~t.spec.suspend /\ t.status.phase # "Suspended"
              /\ Call("write", WithPhase(t, "Failed")) \/ Call("exists", t)

\* A reconcile goes from one call to the next without writing the Task.
Moves ==
    LET Call(p, o) == pc' = p /\ obj' = o
    IN  /\ UNCHANGED <<task, taskCache, current>>
        /\ \/ pc = "exists" /\ Call("sync", obj)
           \/ pc \in {"exists", "sync"} /\ obj.spec.type = "Cron" /\ Call("schedule", obj)
           \/ /\ pc = "exists" /\ obj.spec.type # "Cron"
              /\ Present(jobCache) = {} /\ ~ExecutionFinished(obj) /\ missed' = Overlooked
              /\ Call("create", obj)
           \/ /\ pc = "sync"
              /\ \E fresh \in SetToSeqs(Unrecorded(obj, jobCache)),
                    active \in SetToSeqs(Unfinished(jobCache)) :
                 \E completion \in Completions(obj, jobCache, fresh) :
                    Call("syncWrite", SyncedTask(obj, jobCache, fresh, active, completion))
           \/ pc = "schedule" /\ (Call("create", obj) \/ Call("write", WithPhase(obj, "Failed")))
           \/ pc = "create" /\ Call("record", [obj EXCEPT !.status.active = Append(@, now)])
           \/ pc = "delete" /\ Call("deleting", obj)
           \/ /\ pc = "deleting" /\ Present(jobCache) = {} /\ missed' = Overlooked
              /\ Call("update", [obj EXCEPT !.meta.finalizer = FALSE])

\* A reconcile stores its copy and returns.
WritesLast ==
    /\ Accepted
    /\ pc \in {"write", "update", "syncWrite", "record"}
    /\ task' = IF pc = "record" THEN StartedTask(obj) ELSE obj
    /\ current' = CopiesAfter(task', {}) \ {"reconciler"}
    /\ pc' = "idle" /\ obj' = NoObject
    /\ UNCHANGED taskCache

\* A reconcile stores its copy and goes on with it, or ends without a call.
WritesOn ==
    LET Call(p, o) == pc' = p /\ obj' = o /\ current' = CopiesAfter(obj, {"reconciler"})
    IN  /\ Accepted
        /\ task' = obj
        /\ UNCHANGED taskCache
        /\ \/ pc = "syncWrite" /\ obj.spec.type = "Cron" /\ Call("schedule", obj)
           \/ pc = "resume" /\ (Call("write", WithPhase(obj, "Failed")) \/ Call("exists", obj))
           \/ /\ pc = "resume" /\ pc' = "idle" /\ obj' = NoObject
              /\ current' = CopiesAfter(obj, {"reconciler"}) \ {"reconciler"}

\* A handler stores the Task t.
Handles(t) ==
    /\ task' = t
    /\ current' \ {"trigger"} = CopiesAfter(t, {}) \ {"trigger"}
    /\ UNCHANGED <<taskCache, pc, obj>>

\* One of the requests of a user, or the second write of a Trigger.
Serves ==
    \/ "cache" \in current /\ \E b \in BOOLEAN : Handles([task EXCEPT !.spec.suspend = b])
    \/ /\ "cache" \in current
       /\ \E s \in Specs, b \in BOOLEAN, at \in {None, task.meta.trigger} :
            Handles([task EXCEPT !.spec = Suspending(s, b), !.meta.trigger = at])
    \/ Exists(task) /\ Handles([task EXCEPT !.meta.deleting = TRUE])
    \/ "cache" \in current /\ Handles([task EXCEPT !.meta.trigger = now])
    \/ Handles([task EXCEPT !.status.lastSchedule = None, !.status.active = <<>>])
    \/ Handles(task)

\* The Task informer catches up.
Learns ==
    /\ taskCache' = task /\ current' = current \cup {"cache"}
    /\ UNCHANGED <<task, pc, obj>>

\* The process starts anew.
Restarts ==
    /\ pc' = "idle" /\ obj' = NoObject
    /\ taskCache' = task /\ current' = {"cache"}
    /\ UNCHANGED task

\* Returning from Reconcile.
LEMMA ReturnEnds ==
    ASSUME NEW copies, Return(copies), copies \ {"reconciler"} = current \ {"reconciler"},
           UNCHANGED <<task, taskCache>>
    PROVE  Ends
BY DEF Return, Ends

\* Where the checks and the switch after suspend and resume lead.
LEMMA DispatchLeads ==
    ASSUME NEW t, NEW copies, Dispatch(t, copies)
    PROVE  \/ Return(copies)
           \/ pc' = "write" /\ obj' = WithPhase(t, "Failed") /\ current' = copies
           \/ pc' = "exists" /\ obj' = t /\ current' = copies
BY DEF Dispatch, Continue

\* A started reconcile makes a call or returns at once.
LEMMA ReconcileLeads == Reconcile => Stays \/ Ends \/ Begins
<1> SUFFICES ASSUME Reconcile PROVE Stays \/ Ends \/ Begins
  OBVIOUS
<1> DEFINE t == taskCache
           copies == IF "cache" \in current THEN current \cup {"reconciler"} ELSE current
           managed == ~t.meta.deleting /\ t.meta.finalizer
<1>1. pc = "idle" /\ UNCHANGED <<task, taskCache>>
  BY DEF Reconcile, serverVars, cacheVars
<1>2. copies \ {"reconciler"} = current \ {"reconciler"}
  OBVIOUS
<1>3. \/ UNCHANGED <<recVars, current>>
      \/ t.meta.deleting /\ pc' = "delete" /\ obj' = t /\ current' = copies
      \/ /\ ~t.meta.deleting /\ ~t.meta.finalizer /\ pc' = "update"
         /\ obj' = [t EXCEPT !.meta.finalizer = TRUE] /\ current' = copies
      \/ /\ managed /\ t.spec.suspend
         /\ pc' = "write" /\ obj' = WithPhase(t, "Suspended") /\ current' = copies
      \/ /\ managed /\ t.status.phase = "Suspended"
         /\ pc' = "resume" /\ obj' = WithPhase(t, "Pending") /\ current' = copies
      \/ managed /\ ~t.spec.suspend /\ t.status.phase # "Suspended" /\ Dispatch(t, copies)
  BY DEF Reconcile, BeingDeleted, LacksFinalizer, IsSuspended, HandleSuspend, Continue
<1>4. CASE UNCHANGED <<recVars, current>>
  BY <1>1, <1>4 DEF Stays, recVars
<1>5. CASE managed /\ ~t.spec.suspend /\ t.status.phase # "Suspended" /\ Dispatch(t, copies)
  <2>1. CASE Return(copies)
    BY <1>1, <1>2, <2>1, ReturnEnds
  <2>2. CASE pc' = "write" /\ obj' = WithPhase(t, "Failed") /\ current' = copies
    BY <1>1, <1>5, <2>2 DEF Begins
  <2>3. CASE pc' = "exists" /\ obj' = t /\ current' = copies
    BY <1>1, <1>5, <2>3 DEF Begins
  <2> HIDE DEF copies, t
  <2> QED
    BY <1>5, <2>1, <2>2, <2>3, DispatchLeads
<1>6. CASE t.meta.deleting /\ pc' = "delete" /\ obj' = t /\ current' = copies
  BY <1>1, <1>6 DEF Begins
<1>7. CASE /\ ~t.meta.deleting /\ ~t.meta.finalizer /\ pc' = "update"
           /\ obj' = [t EXCEPT !.meta.finalizer = TRUE] /\ current' = copies
  BY <1>1, <1>7 DEF Begins
<1>8. CASE /\ managed /\ t.spec.suspend
           /\ pc' = "write" /\ obj' = WithPhase(t, "Suspended") /\ current' = copies
  BY <1>1, <1>8 DEF Begins
<1>9. CASE /\ managed /\ t.status.phase = "Suspended"
           /\ pc' = "resume" /\ obj' = WithPhase(t, "Pending") /\ current' = copies
  BY <1>1, <1>9 DEF Begins
<1> QED
  BY <1>3, <1>4, <1>5, <1>6, <1>7, <1>8, <1>9

\* The writes of the Task by a reconcile.
LEMMA WriteLeads ==
    ASSUME WriteAndReturn \/ RecordStart \/ WriteResume \/ WriteCronSync
    PROVE  WritesLast \/ WritesOn
<1>1. CASE WriteAndReturn
  BY <1>1 DEF WriteAndReturn, Return, WritesLast, cacheVars
<1>2. CASE RecordStart
  BY <1>2 DEF RecordStart, Return, WritesLast, cacheVars
<1>3. CASE WriteResume
  <2>1. Accepted /\ pc = "resume" /\ task' = obj /\ UNCHANGED taskCache
        /\ Dispatch(obj, CopiesAfter(obj, {"reconciler"}))
    BY <1>3 DEF WriteResume, cacheVars
  <2>2. CASE Return(CopiesAfter(obj, {"reconciler"}))
    BY <2>1, <2>2 DEF Return, WritesOn
  <2> QED
    BY <2>1, <2>2, DispatchLeads DEF WritesOn
<1>4. CASE WriteCronSync
  BY <1>4 DEF WriteCronSync, Continue, WritesOn, cacheVars
<1> QED
  BY <1>1, <1>2, <1>3, <1>4

\* The steps of a reconcile between two writes of the Task.
LEMMA StepLeads ==
    ASSUME \/ WriteRejected \/ JobExists \/ SyncJobStatus \/ Schedule \/ ReplaceJob
           \/ CreateJob \/ ListForDeletion \/ DeleteJob \/ FinishDeletion
    PROVE  Stays \/ Ends \/ Moves
<1>1. CASE WriteRejected
  <2>1. Return(current) /\ UNCHANGED <<task, taskCache>>
    BY <1>1 DEF WriteRejected, ReturnError, cacheVars
  <2> QED
    BY <2>1, ReturnEnds
<1>2. CASE JobExists
  <2>1. UNCHANGED <<task, taskCache>> /\ pc = "exists"
    BY <1>2 DEF JobExists, serverVars, cacheVars
  <2>2. CASE Return(current)
    BY <2>1, <2>2, ReturnEnds
  <2>3. CASE UNCHANGED current /\ GoOn("sync", obj)
    BY <2>1, <2>3 DEF GoOn, Moves
  <2>4. CASE UNCHANGED current /\ obj.spec.type = "Cron" /\ GoOn("schedule", obj)
    BY <2>1, <2>4 DEF GoOn, Moves
  <2>5. CASE /\ UNCHANGED current /\ obj.spec.type # "Cron" /\ Present(jobCache) = {}
             /\ ~ExecutionFinished(obj) /\ GoOn("create", obj)
    BY <2>1, <2>5 DEF GoOn, Moves
  <2> QED
    BY <1>2, <2>2, <2>3, <2>4, <2>5 DEF JobExists, AnyJob
<1>3. CASE SyncJobStatus
  <2>1. UNCHANGED <<task, taskCache>> /\ pc = "sync"
    BY <1>3 DEF SyncJobStatus, serverVars, cacheVars
  <2>2. PICK fresh \in SetToSeqs(Unrecorded(obj, jobCache)),
             active \in SetToSeqs(Unfinished(jobCache)) :
          \E completion \in Completions(obj, jobCache, fresh) :
            \/ /\ Continue("syncWrite", SyncedTask(obj, jobCache, fresh, active, completion))
               /\ UNCHANGED current
            \/ obj.spec.type = "Cron" /\ Continue("schedule", obj) /\ UNCHANGED current
            \/ Return(current)
    BY <1>3 DEF SyncJobStatus
  <2>3. CASE Return(current)
    BY <2>1, <2>3, ReturnEnds
  <2>4. CASE obj.spec.type = "Cron" /\ Continue("schedule", obj) /\ UNCHANGED current
    BY <2>1, <2>4 DEF Continue, Moves
  <2>5. CASE \E completion \in Completions(obj, jobCache, fresh) :
            /\ Continue("syncWrite", SyncedTask(obj, jobCache, fresh, active, completion))
            /\ UNCHANGED current
    BY <2>1, <2>2, <2>5 DEF Continue, Moves
  <2> QED
    BY <2>2, <2>3, <2>4, <2>5
<1>4. CASE Schedule
  <2>1. UNCHANGED <<task, taskCache>> /\ pc = "schedule"
    BY <1>4 DEF Schedule, serverVars, cacheVars
  <2>2. CASE Return(current)
    BY <2>1, <2>2, ReturnEnds
  <2>3. CASE UNCHANGED current /\ Continue("write", WithPhase(obj, "Failed"))
    BY <2>1, <2>3 DEF Continue, Moves
  <2>4. CASE UNCHANGED current /\ pc' = "create" /\ obj' = obj
    BY <2>1, <2>4 DEF Moves
  <2> QED
    BY <1>4, <2>2, <2>3, <2>4 DEF Schedule
<1>5. CASE ReplaceJob \/ DeleteJob
  BY <1>5 DEF ReplaceJob, DeleteJob, Stays, cacheVars
<1>6. CASE CreateJob
  <2>1. UNCHANGED <<task, taskCache>> /\ pc = "create"
    BY <1>6 DEF CreateJob, ReturnError, cacheVars
  <2>2. CASE Return(current)
    BY <2>1, <2>2, ReturnEnds
  <2>3. CASE UNCHANGED current /\ Continue("record", [obj EXCEPT !.status.active = Append(@, now)])
    BY <2>1, <2>3 DEF Continue, Moves
  <2> QED
    BY <1>6, <2>2, <2>3 DEF CreateJob, ReturnError
<1>7. CASE ListForDeletion
  BY <1>7 DEF ListForDeletion, Moves, serverVars, cacheVars
<1>8. CASE FinishDeletion
  <2>1. UNCHANGED <<task, taskCache>> /\ pc = "deleting"
    BY <1>8 DEF FinishDeletion, serverVars, cacheVars
  <2>2. CASE Return(current)
    BY <2>1, <2>2, ReturnEnds
  <2>3. CASE /\ UNCHANGED current /\ Present(jobCache) = {}
             /\ GoOn("update", [obj EXCEPT !.meta.finalizer = FALSE])
    BY <2>1, <2>3 DEF GoOn, Moves
  <2> QED
    BY <1>8, <2>2, <2>3 DEF FinishDeletion
<1> QED
  BY <1>1, <1>2, <1>3, <1>4, <1>5, <1>6, <1>7, <1>8

\* The requests of users.
LEMMA UserLeads == UserStep \/ TriggerStatus => Stays \/ Serves
<1>1. \A t : CopiesAfter(t, {"trigger"}) \ {"trigger"} = CopiesAfter(t, {}) \ {"trigger"}
  BY DEF CopiesAfter
<1>2. ASSUME NEW t, NEW h \in {{}, {"trigger"}}, Store(t, h), UNCHANGED <<taskCache, pc, obj>>
      PROVE  Handles(t)
  BY <1>1, <1>2 DEF Store, Handles
<1>3. \A kind : Request(kind) => UNCHANGED <<taskCache, pc, obj>>
  BY DEF Request, cacheVars, recVars
<1>4. CASE SuspendTask
  BY <1>2, <1>3, <1>4 DEF SuspendTask, ReadCurrent, Serves
<1>5. CASE ResumeTask
  BY <1>2, <1>3, <1>5 DEF ResumeTask, ReadCurrent, Serves
<1>6. CASE UpdateTask
  <2>1. PICK s \in Specs, b \in BOOLEAN, at \in {None, task.meta.trigger} :
          Store([task EXCEPT !.spec = Suspending(s, b), !.meta.trigger = at], {})
    BY <1>6 DEF UpdateTask
  <2>2. "cache" \in current /\ UNCHANGED <<taskCache, pc, obj>>
    BY <1>3, <1>6 DEF UpdateTask, ReadCurrent
  <2>3. Handles([task EXCEPT !.spec = Suspending(s, b), !.meta.trigger = at])
    BY <1>2, <2>1, <2>2
  <2> QED
    BY <2>2, <2>3 DEF Serves
<1>7. CASE DeleteTask
  BY <1>2, <1>3, <1>7 DEF DeleteTask, Serves
<1>8. CASE TriggerTask
  BY <1>2, <1>3, <1>8 DEF TriggerTask, ReadCurrent, Serves
<1>9. CASE TriggerStatus
  <2>1. UNCHANGED <<taskCache, pc, obj>>
    BY <1>9 DEF TriggerStatus, cacheVars, recVars
  <2> DEFINE last == IF triggering = 1 THEN {"trigger"} ELSE {}
             t == [task EXCEPT !.status.lastSchedule = None, !.status.active = <<>>]
  <2>2. \/ task' = t /\ current' = CopiesAfter(t, {}) \ last
        \/ UNCHANGED task /\ current' = current \ last
    BY <1>9 DEF TriggerStatus
  <2>3. \A S : (S \ last) \ {"trigger"} = S \ {"trigger"}
    OBVIOUS
  <2> HIDE DEF last, t
  <2>4. CASE task' = t /\ current' = CopiesAfter(t, {}) \ last
    <3>1. Handles(t)
      BY <2>1, <2>3, <2>4 DEF Handles
    <3> QED
      BY <3>1 DEF Serves, t
  <2>5. CASE UNCHANGED task /\ current' = current \ last
    <3>1. CopiesAfter(task, {}) = current
      BY DEF CopiesAfter
    <3>2. Handles(task)
      BY <2>1, <2>3, <2>5, <3>1 DEF Handles
    <3> QED
      BY <3>2 DEF Serves
  <2> QED
    BY <2>2, <2>4, <2>5
<1> QED
  BY <1>4, <1>5, <1>6, <1>7, <1>8, <1>9 DEF UserStep

\* The environment.
LEMMA EnvironmentLeads ==
    ASSUME \/ RefreshTask \/ RefreshJobs \/ TimerFires \/ Tick \/ JobStep
           \/ CallFails \/ Crash
    PROVE  Stays \/ Ends \/ Learns \/ Restarts
<1>1. CASE RefreshTask
  BY <1>1 DEF RefreshTask, Learns, serverVars, recVars
<1>2. CASE RefreshJobs \/ TimerFires \/ Tick
  BY <1>2 DEF RefreshJobs, TimerFires, Tick, Stays, serverVars, recVars, cacheVars
<1>3. CASE JobStep
  <2>1. PICK j \in Seconds : \E job : JobChange(j, job)
    BY <1>3 DEF JobStep, PodStarts, PodFails, JobCompletes, JobFails, TTLExpires, CollectJob
  <2> QED
    BY <2>1 DEF JobChange, Stays, cacheVars, recVars
<1>4. CASE CallFails
  <2>1. UNCHANGED taskCache
    BY <1>4 DEF CallFails, cacheVars
  <2>2. CASE ReturnError
    <3>1. Return(current) /\ UNCHANGED task
      BY <2>2 DEF ReturnError
    <3> QED
      BY <2>1, <3>1, ReturnEnds
  <2>3. CASE UNCHANGED <<task, jobs, pc, obj, missed, current, queueVars>>
    BY <2>1, <2>3 DEF Stays
  <2> QED
    BY <1>4, <2>2, <2>3 DEF CallFails
<1>5. CASE Crash
  BY <1>5 DEF Crash, Restarts, serverVars
<1> QED
  BY <1>1, <1>2, <1>3, <1>4, <1>5

\* Every step is of one of these kinds.
LEMMA StepKinds ==
    ASSUME [Next]_vars
    PROVE  \/ Stays \/ Ends \/ Begins \/ Moves \/ WritesLast \/ WritesOn
           \/ Serves \/ Learns \/ Restarts
<1>1. CASE UNCHANGED vars
  BY <1>1 DEF vars, Stays
<1>2. CASE ReconcilerStep
  BY <1>2, ReconcileLeads, WriteLeads, StepLeads DEF ReconcilerStep
<1>3. CASE UserStep \/ TriggerStatus
  BY <1>3, UserLeads
<1>4. CASE RefreshTask \/ RefreshJobs \/ TimerFires \/ Tick \/ JobStep \/ CallFails \/ Crash
  BY <1>4, EnvironmentLeads
<1> QED
  BY <1>1, <1>2, <1>3, <1>4 DEF Next

-----------------------------------------------------------------------------
(* The type invariant, in parts.                                           *)

CopiesTyped ==
    /\ now \in Seconds
    /\ task \in Task /\ taskCache \in Task /\ obj \in Task
    /\ jobs \in [Seconds -> Job] /\ jobCache \in [Seconds -> Job]
    /\ current \subseteq Copies
    /\ pc \in Pcs

QueueTyped ==
    /\ victims \subseteq Seconds /\ missed \subseteq Seconds
    /\ queued \in BOOLEAN /\ triggering \in 0..requests
    /\ timer \in Nat \cup {None}
    /\ requests \in 0..MaxRequests /\ faults \in 0..MaxFaults
    /\ created \in 0..MaxJobs
    /\ outcomes \in [Seconds -> SUBSET [phase: Terminal, end: Seconds]]

\* A Job is absent, unfinished or finished at an instant.
LEMMA JobFits ==
    /\ AbsentJob \in Job /\ AbsentJob.state = "absent"
    /\ [state |-> "waiting", end |-> 0] \in Job
    /\ \A e \in Seconds : /\ [state |-> "complete", end |-> e] \in Job
                          /\ [state |-> "failed", end |-> e] \in Job
    /\ \A job \in Job : /\ [job EXCEPT !.state = "active"] \in Job
                        /\ [job EXCEPT !.state = "waiting"] \in Job
<1>1. 0 \in Seconds
  BY TaskConstants DEF Seconds
<1> QED
  BY <1>1 DEF AbsentJob, Job, JobStates

\* A Job is created.
Creates ==
    /\ pc = "create" /\ victims = {} /\ pc' = "record"
    /\ created' = created + 1
    /\ jobs' = [jobs EXCEPT ![now] = [state |-> "waiting", end |-> 0]]
    /\ UNCHANGED <<task, taskCache, jobCache, outcomes>>

\* The Job j is removed, by the reconcile, its TTL or the garbage collector.
Removes(j) ==
    /\ \/ j \in victims /\ pc \in {"create", "deleting"}
       \/ TTL # None
       \/ ~Exists(task) /\ j \in Present(jobs)
    /\ jobs' = [jobs EXCEPT ![j] = AbsentJob]
    /\ UNCHANGED <<created, jobCache, outcomes>> /\ Stays

\* The unfinished Job j starts or loses its Pod, or ends.
Progresses(j) ==
    /\ j \in Present(jobs)
    /\ \/ \E state \in {"active", "waiting"} :
            jobs' = [jobs EXCEPT ![j] = [jobs[j] EXCEPT !.state = state]] /\ UNCHANGED outcomes
       \/ \E state \in {"complete", "failed"} :
            LET ended == [state |-> state, end |-> now] IN
            /\ jobs' = [jobs EXCEPT ![j] = ended]
            /\ outcomes' = [outcomes EXCEPT ![j] = @ \cup {[phase |-> JobPhase(ended), end |-> now]}]
    /\ UNCHANGED <<created, jobCache>> /\ Stays

\* The Job cache is left alone or caught up.
LEMMA JobCacheLeads ==
    ASSUME [Next]_vars
    PROVE  jobCache' \in {jobCache, jobs}
<1>1. CASE RefreshJobs \/ Crash
  BY <1>1 DEF RefreshJobs, Crash
<1>2. CASE RefreshTask \/ TimerFires \/ Tick \/ CallFails
  BY <1>2 DEF RefreshTask, TimerFires, Tick, CallFails, cacheVars
<1>3. CASE JobStep
  BY <1>3, SMTT(30) DEF JobStep, PodStarts, PodFails, JobCompletes, JobFails, TTLExpires, CollectJob,
              JobChange, cacheVars
<1>4. CASE UserStep \/ TriggerStatus
  BY <1>4 DEF UserStep, SuspendTask, ResumeTask, UpdateTask, DeleteTask, TriggerTask,
              Request, TriggerStatus, cacheVars
<1>5. CASE ReconcilerStep
  BY <1>5 DEF ReconcilerStep, Reconcile, WriteRejected, WriteAndReturn, WriteResume,
              WriteCronSync, JobExists, SyncJobStatus, Schedule, ReplaceJob, CreateJob,
              RecordStart, ListForDeletion, DeleteJob, FinishDeletion, cacheVars
<1>6. CASE UNCHANGED vars
  BY <1>6 DEF vars
<1> QED
  BY <1>1, <1>2, <1>3, <1>4, <1>5, <1>6 DEF Next

\* What every step does to the Jobs.
LEMMA JobKinds ==
    ASSUME CopiesTyped, victims \subseteq Seconds, [Next]_vars
    PROVE  \/ UNCHANGED <<jobs, created, outcomes>>
           \/ Creates
           \/ \E j \in Seconds : Removes(j) \/ Progresses(j)
<1>1. CASE ReplaceJob \/ DeleteJob
  <2>1. PICK j \in victims : jobs' = [jobs EXCEPT ![j] = AbsentJob]
    BY <1>1 DEF ReplaceJob, DeleteJob
  <2>2. Removes(j)
    BY <1>1, <2>1 DEF ReplaceJob, DeleteJob, Removes, Stays, cacheVars, ghostVars
  <2> QED
    BY <2>2
<1>2. CASE CreateJob
  <2>1. CASE jobs[now].state # "absent"
    BY <1>2, <2>1 DEF CreateJob, ReturnError
  <2>2. CASE jobs[now].state = "absent"
    BY <1>2, <2>2 DEF CreateJob, Creates, Continue, cacheVars
  <2> QED
    BY <2>1, <2>2
<1>3. CASE JobStep
  <2>1. PICK j \in Seconds :
          \/ PodStarts(j) \/ PodFails(j) \/ JobCompletes(j) \/ JobFails(j)
          \/ TTLExpires(j) \/ CollectJob(j)
    BY <1>3 DEF JobStep
  <2>2. \A job : JobChange(j, job) =>
          jobs' = [jobs EXCEPT ![j] = job] /\ UNCHANGED <<created, jobCache>> /\ Stays
    BY DEF JobChange, Stays, cacheVars, recVars
  <2>3. CASE PodStarts(j) \/ PodFails(j)
    <3>1. PICK state \in {"active", "waiting"} :
            JobChange(j, [jobs[j] EXCEPT !.state = state]) /\ UNCHANGED outcomes
      BY <2>3 DEF PodStarts, PodFails
    <3>2. j \in Present(jobs)
      BY <2>3 DEF PodStarts, PodFails, Present
    <3> QED
      BY <2>2, <3>1, <3>2 DEF Progresses
  <2>4. CASE JobCompletes(j)
    <3>1. JobPhase([state |-> "complete", end |-> now]) = "Succeeded"
      BY DEF JobPhase
    <3>2. j \in Present(jobs)
      BY <2>4 DEF JobCompletes, Present
    <3> QED
      BY <2>2, <2>4, <3>1, <3>2 DEF JobCompletes, Progresses
  <2>5. CASE JobFails(j)
    <3>1. JobPhase([state |-> "failed", end |-> now]) = "Failed"
      BY DEF JobPhase
    <3>2. j \in Present(jobs)
      BY <2>5 DEF JobFails, Present
    <3> QED
      BY <2>2, <2>5, <3>1, <3>2 DEF JobFails, Progresses
  <2>6. CASE TTLExpires(j)
    BY <2>2, <2>6 DEF TTLExpires, Removes
  <2>7. CASE CollectJob(j)
    BY <2>2, <2>7 DEF CollectJob, Removes, Present
  <2> QED
    BY <2>1, <2>3, <2>4, <2>5, <2>6, <2>7
<1>4. CASE Crash \/ RefreshTask \/ RefreshJobs \/ TimerFires \/ Tick \/ CallFails
  BY <1>4, SMTT(30) DEF Crash, RefreshTask, RefreshJobs, TimerFires, Tick, CallFails, ReturnError,
              serverVars, ghostVars
<1>5. CASE UserStep \/ TriggerStatus
  BY <1>5 DEF UserStep, SuspendTask, ResumeTask, UpdateTask, DeleteTask, TriggerTask,
              Request, TriggerStatus, ghostVars
<1>6. CASE Reconcile \/ WriteRejected \/ WriteAndReturn \/ WriteResume \/ WriteCronSync
           \/ JobExists \/ SyncJobStatus \/ Schedule \/ RecordStart
           \/ ListForDeletion \/ FinishDeletion
  BY <1>6 DEF Reconcile, WriteRejected, ReturnError, WriteAndReturn, WriteResume, WriteCronSync,
              JobExists, SyncJobStatus, Schedule, RecordStart, ListForDeletion,
              FinishDeletion, serverVars, ghostVars
<1>7. CASE UNCHANGED vars
  BY <1>7 DEF vars
<1> QED
  BY <1>1, <1>2, <1>3, <1>4, <1>5, <1>6, <1>7 DEF Next, ReconcilerStep

\* Every step stores Jobs under Job names.
LEMMA JobsTyped ==
    ASSUME CopiesTyped, victims \subseteq Seconds, [Next]_vars
    PROVE  jobs' \in [Seconds -> Job] /\ jobCache' \in [Seconds -> Job]
<1>1. jobs \in [Seconds -> Job] /\ jobCache \in [Seconds -> Job] /\ now \in Seconds
  BY DEF CopiesTyped
<1>2. \/ UNCHANGED jobs
      \/ \E j \in Seconds, job \in Job : jobs' = [jobs EXCEPT ![j] = job]
  <2>1. CASE Creates
    BY <1>1, <2>1, JobFits DEF Creates
  <2>2. ASSUME NEW j \in Seconds, Removes(j) \/ Progresses(j)
        PROVE  \E job \in Job : jobs' = [jobs EXCEPT ![j] = job]
    <3>1. jobs[j] \in Job
      BY <1>1
    <3>2. CASE Removes(j)
      BY <3>2, JobFits DEF Removes
    <3>3. CASE Progresses(j)
      BY <1>1, <3>1, <3>3, JobFits DEF Progresses
    <3> QED
      BY <2>2, <3>2, <3>3
  <2> QED
    BY <2>1, <2>2, JobKinds
<1> QED
  BY <1>1, <1>2, JobCacheLeads

\* The steps of a reconcile lead from a Task to a Task.
LEMMA MovesFit ==
    ASSUME CopiesTyped, Moves
    PROVE  obj' \in Task /\ pc' \in Pcs
<1> USE DEF Pcs
<1>1. obj \in Task /\ jobCache \in [Seconds -> Job] /\ now \in Seconds /\ "Failed" \in Phases
  BY DEF CopiesTyped, Phases, Terminal
<1>2. CASE obj' = obj /\ pc' \in {"sync", "schedule", "create", "deleting"}
  BY <1>1, <1>2
<1>3. CASE pc' = "syncWrite"
           /\ \E fresh \in SetToSeqs(Unrecorded(obj, jobCache)),
                 active \in SetToSeqs(Unfinished(jobCache)) :
              \E completion \in Completions(obj, jobCache, fresh) :
                 obj' = SyncedTask(obj, jobCache, fresh, active, completion)
  <2>1. PICK fresh \in SetToSeqs(Unrecorded(obj, jobCache)),
             active \in SetToSeqs(Unfinished(jobCache)) :
          \E completion \in Completions(obj, jobCache, fresh) :
             obj' = SyncedTask(obj, jobCache, fresh, active, completion)
    BY <1>3
  <2>2. PICK completion \in Completions(obj, jobCache, fresh) :
             obj' = SyncedTask(obj, jobCache, fresh, active, completion)
    BY <2>1
  <2>3. SyncedTask(obj, jobCache, fresh, active, completion) \in Task
    BY <1>1, SyncedSet
  <2> QED
    BY <1>3, <2>2, <2>3
<1>4. CASE pc' = "write" /\ obj' = WithPhase(obj, "Failed")
  BY <1>1, <1>4, PhaseSet
<1>5. CASE pc' = "record" /\ obj' = [obj EXCEPT !.status.active = Append(@, now)]
  BY <1>1, <1>5, ActiveSet
<1>6. CASE pc' = "update" /\ obj' = [obj EXCEPT !.meta.finalizer = FALSE]
  BY <1>1, <1>6, FinalizerSet, Zenon
<1> QED
  BY <1>2, <1>3, <1>4, <1>5, <1>6 DEF Moves

\* What a handler stores is a Task whose phase and records are the stored ones;
\* only a PUT changes the type, only a Delete the deletion timestamp.
LEMMA ServesFit ==
    ASSUME CopiesTyped, Serves
    PROVE  /\ Handles(task') /\ task' \in Task
           /\ task'.status.phase = task.status.phase /\ SameLedger(task', task)
           /\ task'.meta.finalizer = task.meta.finalizer
           /\ task.meta.deleting => task'.meta.deleting
           /\ Exists(task) \/ task'.meta.deleting = task.meta.deleting
           /\ task'.spec.type = task.spec.type \/ \E s \in Specs : task'.spec.type = s.type
<1>1. task \in Task /\ now \in Seconds \cup {None} /\ None \in Seconds \cup {None}
      /\ task.meta.trigger \in Seconds \cup {None}
  BY Fields DEF CopiesTyped
<1>2. CASE \E b \in BOOLEAN : Handles([task EXCEPT !.spec.suspend = b])
  <2>1. PICK b \in BOOLEAN : Handles([task EXCEPT !.spec.suspend = b])
    BY <1>2
  <2> DEFINE u == [task EXCEPT !.spec.suspend = b]
  <2>2. u \in Task /\ u.status = task.status /\ u.meta = task.meta /\ u.spec.type = task.spec.type
    BY <1>1, SuspendSet
  <2>3. Handles(u) /\ task' = u
    BY <2>1 DEF Handles
  <2> HIDE DEF u
  <2> QED
    BY <2>2, <2>3 DEF SameLedger
<1>3. CASE \E s \in Specs, b \in BOOLEAN, at \in {None, task.meta.trigger} :
             Handles([task EXCEPT !.spec = Suspending(s, b), !.meta.trigger = at])
  <2>1. PICK s \in Specs, b \in BOOLEAN, at \in {None, task.meta.trigger} :
             Handles([task EXCEPT !.spec = Suspending(s, b), !.meta.trigger = at])
    BY <1>3
  <2> DEFINE u == [task EXCEPT !.spec = Suspending(s, b), !.meta.trigger = at]
  <2>2. at \in Seconds \cup {None} /\ Suspending(s, b) \in Spec_ /\ Suspending(s, b).type = s.type
    BY <1>1, SubmittedFits
  <2>3. u \in Task /\ u.status = task.status /\ u.spec = Suspending(s, b)
        /\ u.meta.deleting = task.meta.deleting /\ u.meta.finalizer = task.meta.finalizer
    <3> DEFINE v == [task EXCEPT !.spec = Suspending(s, b)]
    <3>1. v \in Task /\ v.status = task.status /\ v.meta = task.meta /\ v.spec = Suspending(s, b)
      BY <1>1, <2>2, NewSpec
    <3>2. u = [v EXCEPT !.meta.trigger = at]
      BY <3>1
    <3> HIDE DEF u, v
    <3> QED
      BY <2>2, <3>1, <3>2, TriggerSet
  <2>4. Handles(u) /\ task' = u
    BY <2>1 DEF Handles
  <2> HIDE DEF u
  <2> QED
    BY <2>2, <2>3, <2>4 DEF SameLedger
<1>4. CASE Exists(task) /\ Handles([task EXCEPT !.meta.deleting = TRUE])
  <2> DEFINE u == [task EXCEPT !.meta.deleting = TRUE]
  <2>1. u \in Task /\ u.status = task.status /\ u.spec = task.spec
        /\ u.meta.deleting /\ u.meta.finalizer = task.meta.finalizer
    BY <1>1, DeletingSet
  <2>2. Handles(u) /\ task' = u
    BY <1>4 DEF Handles
  <2> HIDE DEF u
  <2> QED
    BY <1>4, <2>1, <2>2 DEF SameLedger
<1>5. CASE Handles([task EXCEPT !.meta.trigger = now])
  <2> DEFINE u == [task EXCEPT !.meta.trigger = now]
  <2>1. u \in Task /\ u.status = task.status /\ u.spec = task.spec
        /\ u.meta.deleting = task.meta.deleting /\ u.meta.finalizer = task.meta.finalizer
    BY <1>1, TriggerSet
  <2>2. Handles(u) /\ task' = u
    BY <1>5 DEF Handles
  <2> HIDE DEF u
  <2> QED
    BY <2>1, <2>2 DEF SameLedger
<1>6. CASE Handles([task EXCEPT !.status.lastSchedule = None, !.status.active = <<>>])
  <2> DEFINE u == [task EXCEPT !.status.lastSchedule = None, !.status.active = <<>>]
  <2>1. u \in Task /\ u.meta = task.meta /\ u.spec = task.spec
        /\ u.status.phase = task.status.phase /\ SameLedger(u, task)
    BY <1>1, TriggerStatusSet
  <2>2. Handles(u) /\ task' = u
    BY <1>6 DEF Handles
  <2> HIDE DEF u
  <2> QED
    BY <2>1, <2>2
<1>7. CASE Handles(task)
  BY <1>1, <1>7 DEF Handles, SameLedger
<1> QED
  BY <1>2, <1>3, <1>4, <1>5, <1>6, <1>7, ZenonT(30) DEF Serves

\* The copies of the Task stay Tasks.
LEMMA CopiesTypedStep == CopiesTyped /\ QueueTyped /\ [Next]_vars => CopiesTyped'
<1> SUFFICES ASSUME CopiesTyped, QueueTyped, [Next]_vars PROVE CopiesTyped'
  OBVIOUS
<1>1. /\ now \in Seconds /\ task \in Task /\ taskCache \in Task /\ obj \in Task
      /\ current \subseteq Copies /\ pc \in Pcs
  BY DEF CopiesTyped
<1>2. jobs' \in [Seconds -> Job] /\ jobCache' \in [Seconds -> Job]
  BY JobsTyped DEF QueueTyped
<1>3. now' \in Seconds
  <2>1. CASE Tick
    BY <1>1, <2>1, TaskConstants DEF Tick, Seconds
  <2>2. CASE ~Tick
    <3>1. UNCHANGED now
      <4>1. CASE ReconcilerStep
        BY <4>1, SMTT(30) DEF ReconcilerStep, Reconcile, WriteRejected, WriteAndReturn, WriteResume,
                WriteCronSync, JobExists, SyncJobStatus, Schedule, ReplaceJob, CreateJob,
                RecordStart, ListForDeletion, DeleteJob, FinishDeletion, clockVars
      <4>2. CASE UserStep \/ TriggerStatus
        BY <4>2 DEF UserStep, SuspendTask, ResumeTask, UpdateTask, DeleteTask, TriggerTask,
                Request, TriggerStatus, clockVars
      <4>3. CASE JobStep
        BY <4>3 DEF JobStep, PodStarts, PodFails, JobCompletes, JobFails, TTLExpires,
                CollectJob, JobChange, clockVars
      <4>4. CASE RefreshTask \/ RefreshJobs \/ TimerFires \/ CallFails \/ Crash
        BY <4>4 DEF RefreshTask, RefreshJobs, TimerFires, CallFails, Crash, clockVars
      <4>5. CASE UNCHANGED vars
        BY <4>5 DEF vars
      <4> QED
        BY <2>2, <4>1, <4>2, <4>3, <4>4, <4>5 DEF Next
    <3> QED
      BY <1>1, <3>1
  <2> QED
    BY <2>1, <2>2
<1>4. task' \in Task /\ taskCache' \in Task /\ obj' \in Task /\ current' \subseteq Copies /\ pc' \in Pcs
  <2> USE DEF Pcs
  <2>0. \A t : \A h \in SUBSET Copies : CopiesAfter(t, h) \subseteq Copies
    BY <1>1 DEF CopiesAfter
  <2>1. CASE Stays
    BY <1>1, <2>1 DEF Stays
  <2>2. CASE Ends
    BY <1>1, <2>2, NoObjectFits DEF Ends
  <2>3. CASE Begins
    <3>1. UNCHANGED <<task, taskCache>> /\ current' \subseteq Copies
      BY <1>1, <2>3 DEF Begins, Copies
    <3>2. {"Suspended", "Pending", "Failed"} \subseteq Phases
      BY DEF Phases, Terminal
    <3>3. obj' \in {taskCache, [taskCache EXCEPT !.meta.finalizer = TRUE],
                    WithPhase(taskCache, "Suspended"), WithPhase(taskCache, "Pending"),
                    WithPhase(taskCache, "Failed")}
      BY <2>3 DEF Begins
    <3>4. obj' \in Task
      <4>1. [taskCache EXCEPT !.meta.finalizer = TRUE] \in Task
        BY <1>1, FinalizerSet
      <4>2. \A p \in Phases : WithPhase(taskCache, p) \in Task
        BY <1>1, PhaseSet
      <4> QED
        BY <1>1, <3>2, <3>3, <4>1, <4>2
    <3>5. pc' \in Pcs
      BY <2>3 DEF Begins
    <3> QED
      BY <1>1, <3>1, <3>4, <3>5
  <2>4. CASE Moves
    BY <1>1, <2>4, MovesFit DEF Moves
  <2>5. CASE WritesLast
    <3>1. task' \in Task
      BY <1>1, <2>5, StartedSet DEF WritesLast
    <3>2. current' \subseteq Copies
      BY <2>0, <2>5 DEF WritesLast, Copies
    <3> QED
      BY <1>1, <2>5, <3>1, <3>2, NoObjectFits DEF WritesLast
  <2>6. CASE WritesOn
    <3>1. current' \subseteq Copies
      BY <2>0, <2>6 DEF WritesOn, Copies
    <3>2. obj' \in {obj, NoObject, WithPhase(obj, "Failed")} /\ pc' \in Pcs
      BY <2>6 DEF WritesOn
    <3>3. WithPhase(obj, "Failed") \in Task
      BY <1>1, PhaseSet DEF Phases, Terminal
    <3>4. obj' \in Task
      BY <1>1, <3>2, <3>3, NoObjectFits
    <3> QED
      BY <1>1, <2>6, <3>1, <3>2, <3>4 DEF WritesOn
  <2>7. CASE Serves
    <3>1. Handles(task') /\ task' \in Task
      BY <2>7, ServesFit
    <3> QED
      BY <1>1, <2>0, <3>1 DEF Handles, Copies
  <2>8. CASE Learns \/ Restarts
    BY <1>1, <2>8, NoObjectFits DEF Learns, Restarts, Copies
  <2> QED
    BY <2>1, <2>2, <2>3, <2>4, <2>5, <2>6, <2>7, <2>8, StepKinds
<1> QED
  BY <1>2, <1>3, <1>4 DEF CopiesTyped

\* The next firing of a schedule is an instant after the given one.
LEMMA FiringFits ==
    ASSUME NEW t \in Nat
    PROVE  NextFiring(t) \in Nat
<1>1. Period \in Nat \ {0}
  BY TaskConstants
<1>2. (t \div Period) + 1 \in Nat
  BY <1>1
<1>3. \A a, b \in Nat : a * b \in Nat
  OBVIOUS
<1> QED
  BY <1>1, <1>2, <1>3 DEF NextFiring

\* So is the time handleCron waits for.
LEMMA NextTimeFits ==
    ASSUME NEW t \in Task
    PROVE  NextTime(t) \in Nat
<1>1. t.status.lastSchedule \in Seconds \cup {None} /\ Seconds \subseteq Nat
  BY Fields, TaskConstants DEF Seconds
<1> QED
  BY <1>1, FiringFits DEF NextTime

\* The Jobs a reconcile has missed are those of its last list.
LEMMA MissedLeads ==
    ASSUME [Next]_vars
    PROVE  \/ UNCHANGED missed
           \/ pc' = "idle" /\ missed' = {}
           \/ pc \in {"exists", "delete", "deleting"} /\ missed' = Overlooked
<1>1. CASE JobExists \/ ListForDeletion \/ FinishDeletion
  BY <1>1 DEF JobExists, ListForDeletion, FinishDeletion, Return, GoOn
<1>2. CASE Reconcile
  BY <1>2 DEF Reconcile, Continue, HandleSuspend, Dispatch, Return, recVars
<1>3. CASE WriteRejected \/ WriteAndReturn \/ WriteResume \/ WriteCronSync \/ RecordStart
  BY <1>3 DEF WriteRejected, WriteAndReturn, WriteResume, WriteCronSync, RecordStart,
              Dispatch, ReturnError, Return, Continue
<1>4. CASE SyncJobStatus \/ Schedule \/ CreateJob
  BY <1>4 DEF SyncJobStatus, Schedule, CreateJob, ReturnError, Return, Continue
<1>5. CASE ReplaceJob \/ DeleteJob \/ CallFails
  BY <1>5, SMTT(30) DEF ReplaceJob, DeleteJob, CallFails, ReturnError, Return
<1>6. CASE UserStep \/ TriggerStatus
  BY <1>6 DEF UserStep, SuspendTask, ResumeTask, UpdateTask, DeleteTask, TriggerTask,
              Request, TriggerStatus, recVars
<1>7. CASE JobStep
  BY <1>7 DEF JobStep, PodStarts, PodFails, JobCompletes, JobFails, TTLExpires, CollectJob,
              JobChange, recVars
<1>8. CASE RefreshTask \/ RefreshJobs \/ TimerFires \/ Tick \/ Crash
  BY <1>8 DEF RefreshTask, RefreshJobs, TimerFires, Tick, Crash, recVars
<1>9. CASE UNCHANGED vars
  BY <1>9 DEF vars
<1> QED
  BY <1>1, <1>2, <1>3, <1>4, <1>5, <1>6, <1>7, <1>8, <1>9 DEF Next, ReconcilerStep

\* The work queue, the counters and the histories keep their types.
LEMMA QueueTypedStep == CopiesTyped /\ QueueTyped /\ [Next]_vars => QueueTyped'
<1> SUFFICES ASSUME CopiesTyped, QueueTyped, [Next]_vars PROVE QueueTyped'
  OBVIOUS
<1>1. now \in Seconds /\ now \in Nat /\ Seconds \subseteq Nat
      /\ obj \in Task /\ jobs \in [Seconds -> Job] /\ jobCache \in [Seconds -> Job]
  BY TaskConstants DEF CopiesTyped, Seconds
<1>2. /\ MaxRequests \in Nat /\ MaxFaults \in Nat /\ MaxJobs \in Nat /\ Delay \in Nat
  BY TaskConstants
<1>3. Present(jobCache) \subseteq Seconds /\ ActiveJobs(jobCache) \subseteq Seconds
  BY DEF Present, ActiveJobs
<1>4. ASSUME NEW t \in Nat, RequeueAt(t) PROVE timer' \in Nat \cup {None}
  BY <1>4 DEF RequeueAt, QueueTyped
<1>5. victims' \subseteq Seconds
  <2> USE DEF QueueTyped
  <2>1. CASE Schedule \/ ListForDeletion
    BY <1>3, <2>1 DEF Schedule, ListForDeletion, Return, Continue
  <2>2. CASE ReplaceJob \/ DeleteJob \/ CallFails
    BY <2>2 DEF ReplaceJob, DeleteJob, CallFails, ReturnError, Return
  <2>3. CASE Reconcile
    BY <2>3 DEF Reconcile, Continue, HandleSuspend, Dispatch, Return, recVars
  <2>4. CASE WriteRejected \/ WriteAndReturn \/ WriteResume \/ WriteCronSync \/ RecordStart
    BY <2>4 DEF WriteRejected, WriteAndReturn, WriteResume, WriteCronSync, RecordStart,
                Dispatch, ReturnError, Return, Continue
  <2>5. CASE JobExists \/ SyncJobStatus \/ CreateJob \/ FinishDeletion
    BY <2>5, SMTT(30) DEF JobExists, SyncJobStatus, CreateJob, FinishDeletion,
                ReturnError, Return, Continue, GoOn
  <2>6. CASE UserStep \/ TriggerStatus
    BY <2>6 DEF UserStep, SuspendTask, ResumeTask, UpdateTask, DeleteTask, TriggerTask,
                Request, TriggerStatus, recVars
  <2>7. CASE JobStep
    BY <2>7 DEF JobStep, PodStarts, PodFails, JobCompletes, JobFails, TTLExpires, CollectJob,
                JobChange, recVars
  <2>8. CASE RefreshTask \/ RefreshJobs \/ TimerFires \/ Tick \/ Crash
    BY <2>8 DEF RefreshTask, RefreshJobs, TimerFires, Tick, Crash, recVars
  <2>9. CASE UNCHANGED vars
    BY <2>9 DEF vars
  <2> QED
    BY <2>1, <2>2, <2>3, <2>4, <2>5, <2>6, <2>7, <2>8, <2>9 DEF Next, ReconcilerStep
<1>6. queued' \in BOOLEAN
  <2> USE DEF QueueTyped
  <2>1. CASE ReconcilerStep
    <3>1. CASE WriteRejected \/ CreateJob \/ ReplaceJob \/ DeleteJob \/ ListForDeletion
      BY <3>1 DEF WriteRejected, CreateJob, ReplaceJob, DeleteJob, ListForDeletion,
                  ReturnError, queueVars
    <3>2. CASE Reconcile \/ Schedule \/ FinishDeletion \/ WriteResume
      BY <3>2 DEF Reconcile, Schedule, FinishDeletion, WriteResume
    <3>3. CASE WriteAndReturn \/ WriteCronSync \/ JobExists \/ SyncJobStatus \/ RecordStart
      BY <3>3 DEF WriteAndReturn, WriteCronSync, JobExists, SyncJobStatus, RecordStart,
                  queueVars
    <3> QED
      BY <2>1, <3>1, <3>2, <3>3 DEF ReconcilerStep
  <2>2. CASE UserStep \/ TriggerStatus
    BY <2>2 DEF UserStep, SuspendTask, ResumeTask, UpdateTask, DeleteTask, TriggerTask,
                Request, TriggerStatus, queueVars
  <2>3. CASE JobStep
    BY <2>3 DEF JobStep, PodStarts, PodFails, JobCompletes, JobFails, TTLExpires, CollectJob,
                JobChange, queueVars
  <2>4. CASE RefreshTask \/ RefreshJobs \/ TimerFires \/ Tick \/ Crash
    BY <2>4 DEF RefreshTask, RefreshJobs, TimerFires, Tick, Crash, queueVars
  <2>5. CASE CallFails
    BY <2>5 DEF CallFails, ReturnError, queueVars
  <2>6. CASE UNCHANGED vars
    BY <2>6 DEF vars
  <2> QED
    BY <2>1, <2>2, <2>3, <2>4, <2>5, <2>6 DEF Next
<1>11. missed' \subseteq Seconds
  BY <1>3, MissedLeads DEF QueueTyped, Overlooked, Present
<1>12. triggering' \in 0..requests'
  <2>0. triggering \in 0..requests /\ requests \in Nat
    BY <1>2 DEF QueueTyped
  <2>1. CASE UserStep
    <3>1. requests' = requests + 1
      BY <2>1, ZenonT(30) DEF UserStep, SuspendTask, ResumeTask, UpdateTask, DeleteTask, TriggerTask, Request
    <3>2. triggering' \in {triggering, triggering + 1}
      BY <2>1 DEF UserStep, SuspendTask, ResumeTask, UpdateTask, DeleteTask, TriggerTask
    <3> QED
      BY <2>0, <3>1, <3>2, SMTT(30)
  <2>2. CASE TriggerStatus
    <3>1. triggering > 0 /\ triggering' = triggering - 1 /\ UNCHANGED requests
      BY <2>2 DEF TriggerStatus
    <3> QED
      BY <2>0, <3>1
  <2>3. CASE Crash
    BY <2>0, <2>3 DEF Crash
  <2>4. CASE UNCHANGED userVars
    BY <2>0, <2>4 DEF userVars
  <2>5. CASE ReconcilerStep
    BY <2>4, <2>5 DEF ReconcilerStep, Reconcile, WriteRejected, WriteAndReturn, WriteResume,
                WriteCronSync, JobExists, SyncJobStatus, Schedule, ReplaceJob, CreateJob,
                RecordStart, ListForDeletion, DeleteJob, FinishDeletion
  <2>6. CASE JobStep
    BY <2>4, <2>6 DEF JobStep, PodStarts, PodFails, JobCompletes, JobFails, TTLExpires,
                CollectJob, JobChange
  <2>7. CASE RefreshTask \/ RefreshJobs \/ TimerFires \/ Tick \/ CallFails
    BY <2>4, <2>7 DEF RefreshTask, RefreshJobs, TimerFires, Tick, CallFails
  <2>8. CASE UNCHANGED vars
    BY <2>4, <2>8 DEF vars, userVars
  <2> QED
    BY <2>1, <2>2, <2>3, <2>5, <2>6, <2>7, <2>8 DEF Next
<1>7. timer' \in Nat \cup {None}
  <2>0. timer \in Nat \cup {None}
    BY DEF QueueTyped
  <2>1. ASSUME NEW t, NEW copies, Dispatch(t, copies) PROVE timer' \in Nat \cup {None}
    BY <1>2, <1>4, <2>0, <2>1 DEF Dispatch
  <2>2. CASE Reconcile
    <3>1. UNCHANGED timer \/ \E t, copies : Dispatch(t, copies)
      BY <2>2 DEF Reconcile, HandleSuspend
    <3> QED
      BY <2>0, <2>1, <3>1
  <2>3. CASE WriteResume
    BY <2>1, <2>3 DEF WriteResume
  <2>4. CASE Schedule
    <3>1. NextTime(obj) \in Nat /\ NextFiring(now) \in Nat
      BY <1>1, NextTimeFits, FiringFits
    <3>2. UNCHANGED timer \/ RequeueAt(NextTime(obj)) \/ RequeueAt(NextFiring(now))
      BY <2>4 DEF Schedule
    <3> QED
      BY <1>4, <2>0, <3>1, <3>2
  <2>5. CASE FinishDeletion
    <3>1. UNCHANGED timer \/ RequeueAt(now + 2)
      BY <2>5 DEF FinishDeletion
    <3> QED
      BY <1>1, <1>4, <2>0, <3>1
  <2>6. CASE WriteRejected \/ WriteAndReturn \/ WriteCronSync \/ RecordStart \/ JobExists
             \/ SyncJobStatus \/ CreateJob \/ ReplaceJob \/ DeleteJob \/ ListForDeletion
    BY <2>0, <2>6, SMTT(30) DEF WriteRejected, WriteAndReturn, WriteCronSync, RecordStart, JobExists,
                SyncJobStatus, CreateJob, ReplaceJob, DeleteJob, ListForDeletion,
                ReturnError, queueVars
  <2>7. CASE UserStep \/ TriggerStatus
    BY <2>0, <2>7 DEF UserStep, SuspendTask, ResumeTask, UpdateTask, DeleteTask, TriggerTask,
                Request, TriggerStatus, queueVars
  <2>8. CASE JobStep
    BY <2>0, <2>8 DEF JobStep, PodStarts, PodFails, JobCompletes, JobFails, TTLExpires,
                CollectJob, JobChange, queueVars
  <2>9. CASE RefreshTask \/ RefreshJobs \/ TimerFires \/ Tick \/ Crash \/ CallFails
    BY <2>0, <2>9 DEF RefreshTask, RefreshJobs, TimerFires, Tick, Crash, CallFails,
                ReturnError, queueVars
  <2>10. CASE UNCHANGED vars
    BY <2>0, <2>10 DEF vars
  <2> QED
    BY <2>2, <2>3, <2>4, <2>5, <2>6, <2>7, <2>8, <2>9, <2>10 DEF Next, ReconcilerStep
<1>8. requests' \in 0..MaxRequests
  <2> USE DEF QueueTyped
  <2>1. CASE UserStep
    <3>1. \E kind : Request(kind)
      BY <2>1 DEF UserStep, SuspendTask, ResumeTask, UpdateTask, DeleteTask, TriggerTask
    <3> QED
      BY <1>2, <3>1, SMTT(30) DEF Request
  <2>2. CASE UNCHANGED requests
    BY <2>2
  <2>3. CASE ReconcilerStep
    BY <2>2, <2>3 DEF ReconcilerStep, Reconcile, WriteRejected, WriteAndReturn, WriteResume,
                WriteCronSync, JobExists, SyncJobStatus, Schedule, ReplaceJob, CreateJob,
                RecordStart, ListForDeletion, DeleteJob, FinishDeletion, userVars
  <2>4. CASE JobStep
    BY <2>4 DEF JobStep, PodStarts, PodFails, JobCompletes, JobFails, TTLExpires,
                CollectJob, JobChange, userVars
  <2>5. CASE RefreshTask \/ RefreshJobs \/ TimerFires \/ Tick \/ Crash \/ CallFails \/ TriggerStatus
    BY <2>5 DEF RefreshTask, RefreshJobs, TimerFires, Tick, Crash, CallFails, TriggerStatus,
                userVars
  <2>6. CASE UNCHANGED vars
    BY <2>6 DEF vars
  <2> QED
    BY <2>1, <2>3, <2>4, <2>5, <2>6 DEF Next
<1>9. faults' \in 0..MaxFaults
  <2> USE DEF QueueTyped
  <2>1. CASE CallFails \/ Crash
    BY <1>2, <2>1 DEF CallFails, Crash
  <2>2. CASE ReconcilerStep
    BY <2>2, SMTT(30) DEF ReconcilerStep, Reconcile, WriteRejected, WriteAndReturn, WriteResume,
                WriteCronSync, JobExists, SyncJobStatus, Schedule, ReplaceJob, CreateJob,
                RecordStart, ListForDeletion, DeleteJob, FinishDeletion, clockVars
  <2>3. CASE UserStep \/ TriggerStatus
    BY <2>3 DEF UserStep, SuspendTask, ResumeTask, UpdateTask, DeleteTask, TriggerTask,
                Request, TriggerStatus, clockVars
  <2>4. CASE JobStep
    BY <2>4 DEF JobStep, PodStarts, PodFails, JobCompletes, JobFails, TTLExpires,
                CollectJob, JobChange, clockVars
  <2>5. CASE RefreshTask \/ RefreshJobs \/ TimerFires \/ Tick
    BY <2>5 DEF RefreshTask, RefreshJobs, TimerFires, Tick, clockVars
  <2>6. CASE UNCHANGED vars
    BY <2>6 DEF vars
  <2> QED
    BY <2>1, <2>2, <2>3, <2>4, <2>5, <2>6 DEF Next
<1>10. created' \in 0..MaxJobs /\ outcomes' \in [Seconds -> SUBSET [phase: Terminal, end: Seconds]]
  <2> USE DEF QueueTyped
  <2>1. CASE CreateJob
    BY <1>2, <2>1 DEF CreateJob
  <2>2. CASE JobStep
    <3>1. UNCHANGED created
      BY <2>2 DEF JobStep, PodStarts, PodFails, JobCompletes, JobFails, TTLExpires,
                CollectJob, JobChange
    <3>2. \/ UNCHANGED outcomes
          \/ \E j \in Seconds, p \in Terminal :
                outcomes' = [outcomes EXCEPT ![j] = @ \cup {[phase |-> p, end |-> now]}]
      BY <2>2, SMTT(30) DEF JobStep, PodStarts, PodFails, JobCompletes, JobFails, TTLExpires,
                CollectJob, Terminal
    <3> QED
      BY <1>1, <3>1, <3>2
  <2>3. CASE UserStep \/ TriggerStatus
    BY <2>3 DEF UserStep, SuspendTask, ResumeTask, UpdateTask, DeleteTask, TriggerTask,
                Request, TriggerStatus, ghostVars
  <2>4. CASE ReconcilerStep /\ ~CreateJob
    BY <2>4 DEF ReconcilerStep, Reconcile, WriteRejected, WriteAndReturn, WriteResume,
                WriteCronSync, JobExists, SyncJobStatus, Schedule, ReplaceJob,
                RecordStart, ListForDeletion, DeleteJob, FinishDeletion, serverVars, ghostVars
  <2>5. CASE RefreshTask \/ RefreshJobs \/ TimerFires \/ Tick \/ Crash \/ CallFails
    BY <2>5 DEF RefreshTask, RefreshJobs, TimerFires, Tick, Crash, CallFails, serverVars, ghostVars
  <2>6. CASE UNCHANGED vars
    BY <2>6 DEF vars
  <2> QED
    BY <2>1, <2>2, <2>3, <2>4, <2>5, <2>6 DEF Next
<1> QED
  BY <1>5, <1>6, <1>7, <1>8, <1>9, <1>10, <1>11, <1>12 DEF QueueTyped

\* The initial state has its types.
LEMMA TypedInit == Init => CopiesTyped /\ QueueTyped
<1> SUFFICES ASSUME Init PROVE CopiesTyped /\ QueueTyped
  OBVIOUS
<1>1. 0 \in Seconds /\ MaxRequests \in Nat /\ MaxFaults \in Nat /\ MaxJobs \in Nat
  BY TaskConstants DEF Seconds
<1>2. task \in Task
  <2>1. PICK s \in Specs, b \in BOOLEAN, l \in LongNames : task = NewTask(Suspending(s, b), l)
    BY DEF Init
  <2>2. l \in BOOLEAN /\ Suspending(s, b) \in Spec_
    BY TaskConstants, SubmittedFits
  <2> QED
    BY <2>1, <2>2, NewTaskFits
<1>3. jobs \in [Seconds -> Job]
  BY JobFits DEF Init
<1>4. CopiesTyped
  BY <1>1, <1>2, <1>3, NoObjectFits DEF Init, CopiesTyped, Copies, Pcs
<1>5. QueueTyped
  <2>1. requests \in 0..MaxRequests /\ faults \in 0..MaxFaults /\ created \in 0..MaxJobs
    BY <1>1 DEF Init
  <2>2. outcomes \in [Seconds -> SUBSET [phase: Terminal, end: Seconds]]
    BY DEF Init
  <2>3. triggering \in 0..requests
    BY DEF Init
  <2> QED
    BY <2>1, <2>2, <2>3 DEF Init, QueueTyped
<1> QED
  BY <1>4, <1>5

\* The parts make the type invariant.
LEMMA TypeParts == CopiesTyped /\ QueueTyped <=> TypeOK
BY DEF TypeOK, CopiesTyped, QueueTyped, Copies

\* The Task reconciler, the handlers and their environment keep every
\* variable in its type: a reconcile only ever stores well-formed Tasks and
\* names every Job after an instant of the clock.
THEOREM TaskTyped == Spec => []TypeOK
<1>1. Init => TypeOK
  BY TypedInit, TypeParts
<1>2. TypeOK /\ [Next]_vars => TypeOK'
  <2> SUFFICES ASSUME TypeOK, [Next]_vars PROVE TypeOK'
    OBVIOUS
  <2>1. CopiesTyped /\ QueueTyped
    BY TypeParts
  <2>2. CopiesTyped' /\ QueueTyped'
    BY <2>1, CopiesTypedStep, QueueTypedStep
  <2> QED
    BY <2>2 DEF TypeOK, CopiesTyped, QueueTyped, Copies
<1> QED
  BY <1>1, <1>2, PTL DEF Spec

-----------------------------------------------------------------------------
(* The inductive invariant.                                                *)

\* A copy that claims to be current is what the API server stores; the copy of
\* a reconcile whose write would be accepted differs from it only in what the
\* reconcile itself has changed so far.
Versions ==
    /\ "cache" \in current => taskCache = task
    /\ "reconciler" \in current =>
        /\ pc # "idle"
        /\ obj.spec = task.spec
        /\ obj.meta.deleting = task.meta.deleting
        /\ pc # "update" => obj.meta.finalizer = task.meta.finalizer
        /\ pc \in {"delete", "deleting", "update"} => obj.status.phase = task.status.phase
        /\ pc # "syncWrite" => SameLedger(obj, task)
        /\ "cache" \in current \/ pc \in Executing \cup {"write"}

\* Phase Suspended is stored only by a reconcile that saw spec.suspend, so the
\* cache knows of it, and a reconcile on its way to a Job has seen neither.
Acknowledged ==
    /\ task.status.phase = "Suspended" =>
          taskCache.spec.suspend \/ taskCache.status.phase = "Suspended"
    /\ pc \in Executing =>
          task.status.phase # "Suspended" /\ obj.status.phase # "Suspended"
    /\ pc = "resume" => obj.status.phase # "Suspended"
    /\ (pc = "write" /\ "reconciler" \in current /\ obj.status.phase = "Suspended")
          => "cache" \in current /\ obj.spec.suspend

\* A Task without finalizer gets no Job, and has none unless it is being
\* deleted: a reconcile on its way to a Job holds the finalizer, and one that is
\* about to remove it listed no Job.
Guarded ==
    /\ ~task.meta.finalizer =>
          /\ task.meta.deleting \/ Present(jobs) = {}
          /\ taskCache.meta.deleting \/ ~taskCache.meta.finalizer
    /\ pc \in Executing \cup {"resume"} => task.meta.finalizer
    /\ pc \in {"delete", "deleting"} => obj.meta.deleting
    /\ (pc = "update" /\ ~obj.meta.finalizer) =>
          obj.meta.deleting /\ Present(jobs) \subseteq missed

\* A reconcile that is about to start a Job of a OneTime or Delay Task listed
\* none and holds a copy that is not finished, as is the stored Task if no write
\* came between.
Listed ==
    /\ (pc = "create" /\ obj.spec.type # "Cron") =>
          Present(jobs) \subseteq missed /\ ~ExecutionFinished(obj)
    /\ (pc \in {"exists", "sync", "schedule", "create"} /\ "reconciler" \in current) =>
          obj = task
    /\ pc = "schedule" => obj.spec.type = "Cron"

\* The finished Jobs of js ended as outcomes says.
EndsTrue(js) ==
    \A j \in Seconds : JobTransitioned(js[j]) =>
        [phase |-> JobPhase(js[j]), end |-> js[j].end] \in outcomes[j]

\* The status of t is the stored one after one report of true outcomes.
Reported(t) ==
    /\ t.status.lastCompletion \in {task.status.lastCompletion} \cup Ledger!Completions
    /\ \E R \in SUBSET Ledger!Unreported :
        LET Won == {r \in R : r.phase = "Succeeded"} IN
        /\ \A r, s \in R : r.job = s.job => r = s
        /\ t.status.succeeded = task.status.succeeded + Cardinality(Won)
        /\ t.status.failed = task.status.failed + Cardinality(R \ Won)
        /\ \E s \in SetToSeqs(R) : t.status.history = Ledger!Latest(task.status.history \o s)

\* What a reconcile lists happened, and what it is about to store of it is a report.
LedgerTrue ==
    /\ EndsTrue(jobs) /\ EndsTrue(jobCache)
    /\ (pc = "syncWrite" /\ "reconciler" \in current) => Reported(obj)

-----------------------------------------------------------------------------
(* Its steps.                                                              *)

\* Who is current after a write: its holder, and everyone else only when the
\* write changed nothing.
LEMMA CurrentAfter ==
    ASSUME NEW t, NEW h, NEW c \in CopiesAfter(t, h)
    PROVE  c \in h \/ (t = task /\ c \in current)
BY DEF CopiesAfter

\* A handler's write leaves current only who was, and changes nothing then.
LEMMA HandlesCurrent ==
    ASSUME NEW c \in {"cache", "reconciler"}, Handles(task'), c \in current'
    PROVE  /\ task' = task /\ c \in current
           /\ \A d \in {"cache", "reconciler"} : d \in current => d \in current'
<1>1. c \in CopiesAfter(task', {})
  BY DEF Handles
<1>2. task' = task /\ c \in current
  BY <1>1, CurrentAfter
<1>3. CopiesAfter(task', {}) = current
  BY <1>2 DEF CopiesAfter
<1> QED
  BY <1>2, <1>3 DEF Handles

\* What the local copy becomes, of a reconcile that goes on.
LEMMA MovesKeep ==
    ASSUME CopiesTyped, Moves
    PROVE  /\ obj'.spec = obj.spec /\ obj'.meta.deleting = obj.meta.deleting
           /\ pc # "idle" /\ pc' # "idle"
           /\ pc' # "update" => obj'.meta.finalizer = obj.meta.finalizer
           /\ pc' = "update" => ~obj'.meta.finalizer
           /\ pc' \in {"delete", "deleting", "update"} =>
                pc \in {"delete", "deleting"} /\ obj'.status.phase = obj.status.phase
           /\ pc' # "syncWrite" => SameLedger(obj', obj)
           /\ pc' \in Executing => pc \in Executing
           /\ pc \in Executing => pc' \in Executing \cup {"write"}
           /\ pc' \in Executing /\ obj.status.phase # "Suspended" =>
                obj'.status.phase # "Suspended"
           /\ pc' = "write" => obj'.status.phase = "Failed"
           /\ pc \notin {"update", "syncWrite", "write"} /\ pc' # "resume"
<1> USE DEF Executing
<1>1. obj \in Task /\ jobCache \in [Seconds -> Job] /\ now \in Seconds /\ "Failed" \in Phases
  BY DEF CopiesTyped, Phases, Terminal
<1>2. CASE obj' = obj /\ \/ pc = "exists" /\ pc' \in {"sync", "schedule", "create"}
                         \/ pc = "sync" /\ pc' = "schedule"
                         \/ pc = "schedule" /\ pc' = "create"
                         \/ pc = "delete" /\ pc' = "deleting"
  BY <1>2 DEF SameLedger
<1>3. CASE /\ pc = "sync" /\ pc' = "syncWrite"
           /\ \E fresh \in SetToSeqs(Unrecorded(obj, jobCache)),
                 active \in SetToSeqs(Unfinished(jobCache)) :
              \E completion \in Completions(obj, jobCache, fresh) :
                 obj' = SyncedTask(obj, jobCache, fresh, active, completion)
  <2>1. PICK fresh \in SetToSeqs(Unrecorded(obj, jobCache)),
             active \in SetToSeqs(Unfinished(jobCache)) :
          \E completion \in Completions(obj, jobCache, fresh) :
             obj' = SyncedTask(obj, jobCache, fresh, active, completion)
    BY <1>3
  <2>2. PICK completion \in Completions(obj, jobCache, fresh) :
             obj' = SyncedTask(obj, jobCache, fresh, active, completion)
    BY <2>1
  <2>3. /\ obj'.meta = obj.meta /\ obj'.spec = obj.spec
        /\ obj.status.phase # "Suspended" => obj'.status.phase # "Suspended"
    BY <1>1, <2>2, SyncedSet
  <2> QED
    BY <1>3, <2>3
<1>4. CASE pc = "schedule" /\ pc' = "write" /\ obj' = WithPhase(obj, "Failed")
  BY <1>1, <1>4, PhaseSet
<1>5. CASE pc = "create" /\ pc' = "record" /\ obj' = [obj EXCEPT !.status.active = Append(@, now)]
  <2> DEFINE u == [obj EXCEPT !.status.active = Append(@, now)]
  <2>1. u.meta = obj.meta /\ u.spec = obj.spec /\ u.status.phase = obj.status.phase
        /\ SameLedger(u, obj)
    BY <1>1, ActiveSet
  <2>2. obj' = u
    BY <1>5
  <2> HIDE DEF u
  <2> QED
    BY <1>5, <2>1, <2>2
<1>6. CASE pc = "deleting" /\ pc' = "update" /\ obj' = [obj EXCEPT !.meta.finalizer = FALSE]
  <2> DEFINE u == [obj EXCEPT !.meta.finalizer = FALSE]
  <2>1. u.status = obj.status /\ u.spec = obj.spec /\ u.meta.deleting = obj.meta.deleting
        /\ ~u.meta.finalizer
    BY <1>1, FinalizerSet
  <2>2. obj' = u
    BY <1>6
  <2> HIDE DEF u
  <2> QED
    BY <1>6, <2>1, <2>2 DEF SameLedger
<1> QED
  BY <1>2, <1>3, <1>4, <1>5, <1>6 DEF Moves

\* What the local copy is, of a reconcile that starts.
LEMMA BeginsKeep ==
    ASSUME CopiesTyped, Begins
    PROVE  /\ obj'.spec = taskCache.spec /\ obj'.meta.deleting = taskCache.meta.deleting
           /\ pc' # "update" => obj'.meta.finalizer = taskCache.meta.finalizer
           /\ pc' = "update" => obj'.meta.finalizer
           /\ pc' \in {"delete", "update"} => obj'.status.phase = taskCache.status.phase
           /\ SameLedger(obj', taskCache)
           /\ pc' \in {"delete", "update", "write", "resume", "exists"}
           /\ pc' = "delete" => taskCache.meta.deleting
           /\ pc' \in {"exists", "resume", "write"} =>
                taskCache.meta.finalizer /\ ~taskCache.meta.deleting
           /\ pc' = "exists" => /\ ~taskCache.spec.suspend /\ taskCache.status.phase # "Suspended"
                                /\ obj'.status.phase # "Suspended"
           /\ pc' = "resume" => obj'.status.phase # "Suspended"
           /\ pc' = "write" /\ obj'.status.phase = "Suspended" => taskCache.spec.suspend
<1>1. taskCache \in Task /\ {"Failed", "Suspended", "Pending"} \subseteq Phases
  BY DEF CopiesTyped, Phases, Terminal
<1>2. CASE taskCache.meta.deleting /\ pc' = "delete" /\ obj' = taskCache
  BY <1>2 DEF SameLedger
<1>3. CASE pc' = "update" /\ obj' = [taskCache EXCEPT !.meta.finalizer = TRUE]
  <2> DEFINE u == [taskCache EXCEPT !.meta.finalizer = TRUE]
  <2>1. u.status = taskCache.status /\ u.spec = taskCache.spec
        /\ u.meta.deleting = taskCache.meta.deleting /\ u.meta.finalizer
    BY <1>1, FinalizerSet
  <2>2. obj' = u
    BY <1>3
  <2> HIDE DEF u
  <2> QED
    BY <1>3, <2>1, <2>2 DEF SameLedger
<1>4. CASE /\ ~taskCache.meta.deleting /\ taskCache.meta.finalizer /\ taskCache.spec.suspend
           /\ pc' = "write" /\ obj' = WithPhase(taskCache, "Suspended")
  BY <1>1, <1>4, PhaseSet
<1>5. CASE /\ ~taskCache.meta.deleting /\ taskCache.meta.finalizer
           /\ pc' = "resume" /\ obj' = WithPhase(taskCache, "Pending")
  BY <1>1, <1>5, PhaseSet
<1>6. CASE /\ ~taskCache.meta.deleting /\ taskCache.meta.finalizer
           /\ pc' = "write" /\ obj' = WithPhase(taskCache, "Failed")
  BY <1>1, <1>6, PhaseSet
<1>7. CASE /\ ~taskCache.meta.deleting /\ taskCache.meta.finalizer
           /\ ~taskCache.spec.suspend /\ taskCache.status.phase # "Suspended"
           /\ pc' = "exists" /\ obj' = taskCache
  BY <1>7 DEF SameLedger
<1> QED
  BY <1>2, <1>3, <1>4, <1>5, <1>6, <1>7 DEF Begins

\* What the local copy becomes when a reconcile goes on after a write.
LEMMA WritesOnKeep ==
    ASSUME CopiesTyped, WritesOn
    PROVE  /\ pc \in {"syncWrite", "resume"} /\ task' = obj
           /\ \/ pc' = "idle" /\ "reconciler" \notin current'
              \/ /\ pc' \in {"schedule", "exists", "write"}
                 /\ obj'.spec = obj.spec /\ obj'.meta = obj.meta /\ SameLedger(obj', obj)
                 /\ obj'.status.phase \in {obj.status.phase, "Failed"}
<1>1. obj \in Task /\ "Failed" \in Phases
  BY DEF CopiesTyped, Phases, Terminal
<1>2. /\ pc \in {"syncWrite", "resume"} /\ task' = obj
      /\ \/ pc' = "idle" /\ "reconciler" \notin current'
         \/ pc' \in {"schedule", "exists"} /\ obj' = obj
         \/ pc' = "write" /\ obj' = WithPhase(obj, "Failed")
  BY DEF WritesOn
<1>3. CASE obj' = obj
  BY <1>2, <1>3 DEF SameLedger
<1>4. CASE obj' = WithPhase(obj, "Failed")
  BY <1>1, <1>2, <1>4, PhaseSet
<1> QED
  BY <1>2, <1>3, <1>4

\* The current copies stay what they claim to be.
LEMMA VersionsStep == CopiesTyped /\ Versions /\ [Next]_vars => Versions'
<1> SUFFICES ASSUME CopiesTyped, Versions, [Next]_vars PROVE Versions'
  OBVIOUS
<1>1. CASE Stays
  BY <1>1 DEF Stays, Versions, SameLedger
<1>2. CASE Ends
  BY <1>2 DEF Ends, Versions
<1>3. CASE Begins
  <2>1. pc = "idle" /\ UNCHANGED <<task, taskCache>>
        /\ current' = IF "cache" \in current THEN current \cup {"reconciler"} ELSE current
    BY <1>3 DEF Begins
  <2>2. "reconciler" \notin current
    BY <2>1 DEF Versions
  <2>3. "reconciler" \in current' => "cache" \in current /\ "cache" \in current' /\ taskCache = task
    BY <2>1, <2>2 DEF Versions
  <2> QED
    BY <1>3, <2>1, <2>3, BeginsKeep DEF Versions, SameLedger
<1>4. CASE Moves
  <2>1. UNCHANGED <<task, taskCache, current>>
    BY <1>4 DEF Moves
  <2>2. pc' # "syncWrite" => ("reconciler" \in current' => SameLedger(obj', task'))
    BY <1>4, <2>1, MovesKeep DEF Versions, SameLedger
  <2> QED
    BY <1>4, <2>1, <2>2, MovesKeep DEF Versions, SameLedger
<1>5. CASE WritesLast
  <2>1. UNCHANGED taskCache /\ "reconciler" \notin current'
        /\ ("cache" \in current' => "cache" \in CopiesAfter(task', {}))
    BY <1>5 DEF WritesLast
  <2>2. "cache" \in current' => task' = task /\ "cache" \in current
    BY <2>1, CurrentAfter
  <2> QED
    BY <2>1, <2>2 DEF Versions
<1>6. CASE WritesOn
  <2>1. UNCHANGED taskCache /\ task' = obj
        /\ ("cache" \in current' => "cache" \in CopiesAfter(obj, {"reconciler"}))
    BY <1>6 DEF WritesOn
  <2>2. "cache" \in current' => task' = task /\ "cache" \in current
    BY <2>1, CurrentAfter
  <2>3. CASE pc' = "idle" /\ "reconciler" \notin current'
    BY <2>1, <2>2, <2>3 DEF Versions
  <2>4. CASE /\ pc' \in {"schedule", "exists", "write"}
             /\ obj'.spec = obj.spec /\ obj'.meta = obj.meta /\ SameLedger(obj', obj)
    <3>1. /\ obj'.spec = task'.spec /\ obj'.meta = task'.meta /\ SameLedger(obj', task')
      BY <2>1, <2>4 DEF SameLedger
    <3> QED
      BY <2>1, <2>2, <2>4, <3>1 DEF Versions, Executing
  <2> QED
    BY <1>6, <2>3, <2>4, WritesOnKeep
<1>7. CASE Serves
  <2>1. Handles(task') /\ UNCHANGED <<taskCache, pc, obj>>
    BY <1>7, ServesFit DEF Handles
  <2>2. \A c \in {"cache", "reconciler"} : c \in current' =>
            /\ task' = task /\ c \in current
            /\ \A d \in {"cache", "reconciler"} : d \in current => d \in current'
    BY <2>1, HandlesCurrent
  <2> QED
    BY <2>1, <2>2 DEF Versions, SameLedger
<1>8. CASE Learns \/ Restarts
  BY <1>8 DEF Learns, Restarts, Versions, SameLedger
<1> QED
  BY <1>1, <1>2, <1>3, <1>4, <1>5, <1>6, <1>7, <1>8, StepKinds

\* The acknowledgement of a suspension is kept.
LEMMA AcknowledgedStep ==
    CopiesTyped /\ Versions /\ Acknowledged /\ [Next]_vars => Acknowledged'
<1> SUFFICES ASSUME CopiesTyped, Versions, Acknowledged, [Next]_vars PROVE Acknowledged'
  OBVIOUS
<1> USE DEF Executing
<1>1. CASE Stays
  BY <1>1 DEF Stays, Acknowledged
<1>2. CASE Ends
  BY <1>2 DEF Ends, Acknowledged
<1>3. CASE Begins
  <2>1. pc = "idle" /\ UNCHANGED <<task, taskCache>>
        /\ current' = IF "cache" \in current THEN current \cup {"reconciler"} ELSE current
    BY <1>3 DEF Begins
  <2>2. "reconciler" \in current' => "cache" \in current'
    BY <2>1 DEF Versions
  <2> QED
    BY <1>3, <2>1, <2>2, BeginsKeep DEF Acknowledged
<1>4. CASE Moves
  <2>1. UNCHANGED <<task, taskCache, current>>
    BY <1>4 DEF Moves
  <2> QED
    BY <1>4, <2>1, MovesKeep DEF Acknowledged
<1>5. CASE WritesLast
  <2>1. /\ Accepted /\ pc \in {"write", "update", "syncWrite", "record"} /\ UNCHANGED taskCache
        /\ task' = (IF pc = "record" THEN StartedTask(obj) ELSE obj) /\ pc' = "idle"
    BY <1>5 DEF WritesLast
  <2>2. task'.status.phase = "Suspended" =>
          taskCache.spec.suspend \/ taskCache.status.phase = "Suspended"
    <3>1. CASE pc = "record"
      BY <2>1, <3>1, StartedSet DEF CopiesTyped
    <3>2. CASE pc = "syncWrite"
      BY <2>1, <3>2 DEF Acknowledged
    <3>3. CASE pc = "update"
      BY <2>1, <3>3 DEF Acknowledged, Versions, Accepted
    <3>4. CASE pc = "write"
      BY <2>1, <3>4 DEF Acknowledged, Versions, Accepted
    <3> QED
      BY <2>1, <3>1, <3>2, <3>3, <3>4
  <2> QED
    BY <2>1, <2>2 DEF Acknowledged
<1>6. CASE WritesOn
  <2>1. UNCHANGED taskCache
    BY <1>6 DEF WritesOn
  <2>2. obj.status.phase # "Suspended"
    BY <1>6, WritesOnKeep DEF Acknowledged
  <2> QED
    BY <1>6, <2>1, <2>2, WritesOnKeep DEF Acknowledged
<1>7. CASE Serves
  <2>1. Handles(task') /\ UNCHANGED <<taskCache, pc, obj>> /\ task'.status.phase = task.status.phase
    BY <1>7, ServesFit DEF Handles
  <2>2. \A c \in {"cache", "reconciler"} : c \in current' =>
            /\ task' = task /\ c \in current
            /\ \A d \in {"cache", "reconciler"} : d \in current => d \in current'
    BY <2>1, HandlesCurrent
  <2> QED
    BY <2>1, <2>2 DEF Acknowledged
<1>8. CASE Learns \/ Restarts
  BY <1>8 DEF Learns, Restarts, Acknowledged
<1> QED
  BY <1>1, <1>2, <1>3, <1>4, <1>5, <1>6, <1>7, <1>8, StepKinds

\* Only CreateJob adds a Job; a Job that progresses stays, a removed one goes.
LEMMA PresentAfter ==
    ASSUME CopiesTyped, QueueTyped, [Next]_vars
    PROVE  /\ ~Creates => Present(jobs') \subseteq Present(jobs)
           /\ (~Creates /\ Present(jobs') # Present(jobs)) => \E j \in Seconds : Removes(j)
           /\ Creates => Present(jobs') = Present(jobs) \cup {now}
<1>1. jobs \in [Seconds -> Job] /\ now \in Seconds /\ victims \subseteq Seconds
  BY DEF CopiesTyped, QueueTyped
<1>2. CASE UNCHANGED <<jobs, created, outcomes>> /\ ~Creates
  BY <1>2 DEF Present
<1>3. CASE Creates
  <2>1. jobs' = [jobs EXCEPT ![now] = [state |-> "waiting", end |-> 0]]
    BY <1>3 DEF Creates
  <2> QED
    BY <1>1, <1>3, <2>1 DEF Present
<1>4. ASSUME NEW j \in Seconds, Removes(j), ~Creates
      PROVE  Present(jobs') \subseteq Present(jobs)
  <2>1. jobs' = [jobs EXCEPT ![j] = AbsentJob]
    BY <1>4 DEF Removes
  <2> QED
    BY <1>1, <2>1, JobFits DEF Present
<1>5. ASSUME NEW j \in Seconds, Progresses(j), ~Creates
      PROVE  Present(jobs') = Present(jobs)
  <2>1. j \in Present(jobs) /\ jobs[j] \in Job
    BY <1>1, <1>5 DEF Progresses
  <2>2. \E job : jobs' = [jobs EXCEPT ![j] = job] /\ job.state # "absent"
    <3>1. \A state : [jobs[j] EXCEPT !.state = state].state = state
      BY <2>1 DEF Job
    <3>2. CASE \E state \in {"active", "waiting"} :
                 jobs' = [jobs EXCEPT ![j] = [jobs[j] EXCEPT !.state = state]]
      BY <3>1, <3>2
    <3>3. CASE \E state \in {"complete", "failed"} :
                 jobs' = [jobs EXCEPT ![j] = [state |-> state, end |-> now]]
      <4>1. PICK state \in {"complete", "failed"} :
                   jobs' = [jobs EXCEPT ![j] = [state |-> state, end |-> now]]
        BY <3>3
      <4>2. [state |-> state, end |-> now].state # "absent"
        BY <4>1
      <4> QED
        BY <4>1, <4>2
    <3> QED
      BY <1>5, <3>2, <3>3 DEF Progresses
  <2> QED
    BY <1>1, <2>1, <2>2 DEF Present
<1> QED
  BY <1>1, <1>2, <1>3, <1>4, <1>5, JobKinds

\* The finalizer holds a Task whose Jobs the reconciler knows of.
LEMMA GuardedStep ==
    CopiesTyped /\ QueueTyped /\ Versions /\ Guarded /\ [Next]_vars => Guarded'
<1> SUFFICES ASSUME CopiesTyped, QueueTyped, Versions, Guarded, [Next]_vars PROVE Guarded'
  OBVIOUS
<1> USE DEF Executing
<1>0. Present(jobs') \subseteq Present(jobs) \/ Creates
  BY PresentAfter
<1>1. CASE Creates
  <2>1. task.meta.finalizer /\ pc' = "record" /\ UNCHANGED <<task, taskCache>>
    BY <1>1 DEF Creates, Guarded
  <2> QED
    BY <2>1 DEF Guarded
<1>2. ASSUME ~Creates PROVE Guarded'
  <2>0. Present(jobs') \subseteq Present(jobs)
    BY <1>0, <1>2
  <2>9. pc = "update" /\ pc' = "update" => UNCHANGED missed
    BY MissedLeads
  <2>1. CASE Stays
    BY <2>0, <2>9, <2>1 DEF Stays, Guarded
  <2>2. CASE Ends
    BY <2>0, <2>2 DEF Ends, Guarded
  <2>3. CASE Begins
    <3>1. UNCHANGED <<task, taskCache>>
      BY <2>3 DEF Begins
    <3> QED
      BY <2>0, <2>3, <3>1, BeginsKeep DEF Guarded
  <2>4. CASE Moves
    <3>1. UNCHANGED <<task, taskCache>>
      BY <2>4 DEF Moves
    <3>2. pc' = "update" => Present(jobs') \subseteq missed' /\ obj.meta.deleting
      <4>1. pc' = "update" => pc = "deleting" /\ Present(jobCache) = {} /\ missed' = Overlooked
        BY <2>4 DEF Moves
      <4> QED
        BY <2>0, <4>1 DEF Overlooked, Guarded
    <3>3. pc' = "deleting" => pc = "delete"
      BY <2>4 DEF Moves
    <3> QED
      BY <2>0, <2>4, <3>1, <3>2, <3>3, MovesKeep DEF Guarded
  <2>5. CASE WritesLast
    <3>1. /\ Accepted /\ pc \in {"write", "update", "syncWrite", "record"} /\ UNCHANGED taskCache
          /\ task' = (IF pc = "record" THEN StartedTask(obj) ELSE obj) /\ pc' = "idle"
      BY <2>5 DEF WritesLast
    <3>2. task'.meta = obj.meta
      BY <3>1, StartedSet DEF CopiesTyped
    <3>0. obj.meta.deleting = task.meta.deleting
      BY <3>1 DEF Versions, Accepted
    <3>3. CASE pc = "update"
      <4>1. taskCache = task
        BY <3>1, <3>3 DEF Versions, Accepted, Executing
      <4> QED
        BY <2>0, <3>0, <3>1, <3>2, <3>3, <4>1 DEF Guarded
    <3>4. CASE pc # "update"
      <4>1. obj.meta.finalizer = task.meta.finalizer
        BY <3>1, <3>4 DEF Versions, Accepted
      <4> QED
        BY <2>0, <3>0, <3>1, <3>2, <4>1 DEF Guarded
    <3> QED
      BY <3>3, <3>4
  <2>6. CASE WritesOn
    <3>1. UNCHANGED taskCache /\ Accepted /\ task' = obj
      BY <2>6 DEF WritesOn
    <3>2. pc \in {"syncWrite", "resume"} /\ pc' \in {"idle", "schedule", "exists", "write"}
      BY <2>6, WritesOnKeep
    <3>3. task'.meta.finalizer = task.meta.finalizer
      BY <3>1, <3>2 DEF Versions, Accepted
    <3> QED
      BY <2>0, <3>1, <3>2, <3>3 DEF Guarded
  <2>7. CASE Serves
    <3>1. UNCHANGED <<taskCache, pc, obj>> /\ task'.meta.finalizer = task.meta.finalizer
          /\ (task.meta.deleting => task'.meta.deleting)
      BY <2>7, ServesFit DEF Handles
    <3> QED
      BY <2>0, <2>9, <3>1 DEF Guarded
  <2>8. CASE Learns \/ Restarts
    BY <2>0, <2>9, <2>8 DEF Learns, Restarts, Guarded
  <2> QED
    BY <2>1, <2>2, <2>3, <2>4, <2>5, <2>6, <2>7, <2>8, StepKinds
<1> QED
  BY <1>1, <1>2

\* A reconcile that goes on to start a Job keeps what it listed.
LEMMA ListedStep ==
    CopiesTyped /\ QueueTyped /\ Versions /\ Listed /\ [Next]_vars => Listed'
<1> SUFFICES ASSUME CopiesTyped, QueueTyped, Versions, Listed, [Next]_vars PROVE Listed'
  OBVIOUS
<1> DEFINE OnTheWay == {"exists", "sync", "schedule", "create"}
<1>1. pc' = "create" => Present(jobs') \subseteq Present(jobs)
  BY PresentAfter DEF Creates
<1>2. pc = "create" /\ pc' = "create" => UNCHANGED missed
  BY MissedLeads
<1>3. CASE Stays
  BY <1>1, <1>2, <1>3 DEF Stays, Listed
<1>4. CASE Ends
  BY <1>4 DEF Ends, Listed
<1>5. CASE Begins
  <2>1. /\ UNCHANGED task /\ pc = "idle" /\ pc' \notin {"create", "schedule"}
        /\ pc' \in OnTheWay => obj' = taskCache
        /\ "reconciler" \in current' => "cache" \in current \/ "reconciler" \in current
    BY <1>5 DEF Begins
  <2> QED
    BY <2>1 DEF Listed, Versions
<1>6. CASE Moves
  <2>1. UNCHANGED <<task, current>> /\ (pc # "create" \/ pc' = "record")
    BY <1>6 DEF Moves
  <2>2. pc' \in OnTheWay => pc \in OnTheWay /\ obj' = obj
    BY <1>6 DEF Moves
  <2>3. (pc' = "create" /\ obj'.spec.type # "Cron") =>
          \/ pc = "exists" /\ Present(jobCache) = {} /\ ~ExecutionFinished(obj)
             /\ missed' = Overlooked
          \/ pc = "schedule"
    BY <1>6 DEF Moves
  <2>4. (pc' = "create" /\ obj'.spec.type # "Cron") =>
          Present(jobs') \subseteq missed' /\ ~ExecutionFinished(obj')
    BY <1>1, <2>2, <2>3 DEF Listed, Overlooked
  <2>5. pc' = "schedule" => obj'.spec.type = "Cron"
    BY <1>6 DEF Moves
  <2> QED
    BY <2>1, <2>2, <2>4, <2>5 DEF Listed
<1>7. CASE WritesLast
  BY <1>7 DEF WritesLast, Listed
<1>8. CASE WritesOn
  <2>1. /\ task' = obj /\ pc' # "create" /\ (pc' \in OnTheWay => obj' = obj)
        /\ pc' = "schedule" => obj'.spec.type = "Cron"
    BY <1>8 DEF WritesOn
  <2> QED
    BY <2>1 DEF Listed
<1>9. CASE Serves
  <2>1. UNCHANGED <<pc, obj>>
    BY <1>9, ServesFit DEF Handles
  <2>2. "reconciler" \in current' => UNCHANGED task /\ "reconciler" \in current
    BY <1>9, ServesFit DEF Handles, CopiesAfter
  <2> QED
    BY <1>1, <1>2, <2>1, <2>2 DEF Listed
<1>10. CASE Learns \/ Restarts
  BY <1>1, <1>2, <1>10 DEF Learns, Restarts, Listed
<1> QED
  BY <1>3, <1>4, <1>5, <1>6, <1>7, <1>8, <1>9, <1>10, StepKinds

-----------------------------------------------------------------------------
(* The theorems.                                                           *)

IInv == CopiesTyped /\ QueueTyped /\ Versions /\ Acknowledged

\* The invariants hold when the Task has just been stored.
LEMMA InvariantsInit ==
    Init => Versions /\ Acknowledged /\ Guarded /\ Listed
<1> SUFFICES ASSUME Init PROVE Versions /\ Acknowledged /\ Guarded /\ Listed
  OBVIOUS
<1>1. PICK s \in Specs, b \in BOOLEAN, l \in LongNames : task = NewTask(Suspending(s, b), l)
  BY DEF Init
<1>2. l \in BOOLEAN /\ Suspending(s, b) \in Spec_
  BY TaskConstants, SubmittedFits
<1>3. task.status.phase = "" /\ ~task.meta.finalizer
  BY <1>1, <1>2, NewTaskFits
<1>4. Present(jobs) = {}
  BY JobFits DEF Init, Present
<1>5. taskCache = task /\ current = {"cache"} /\ pc = "idle" /\ obj = NoObject
  BY DEF Init
<1> QED
  BY <1>3, <1>4, <1>5 DEF Versions, Acknowledged, Guarded, Listed, Executing

\* What is common to the safety theorems: the copies are what they claim to
\* be and a suspension is known to whoever could start a Job.
THEOREM TaskInductive == Spec => []IInv
<1>1. Init => IInv
  BY TypedInit, InvariantsInit DEF IInv
<1>2. IInv /\ [Next]_vars => IInv'
  BY CopiesTypedStep, QueueTypedStep, VersionsStep, AcknowledgedStep DEF IInv
<1> QED
  BY <1>1, <1>2, PTL DEF Spec

\* handleSuspend: once the stored Task is suspended and its phase says so, no
\* step creates a Job, whatever the caches hold and whoever else writes.
THEOREM SuspensionHolds == Spec => SuspendHolds
<1>1. IInv /\ [Next]_vars =>
        [(task.spec.suspend /\ task.status.phase = "Suspended")
            => Present(jobs') \subseteq Present(jobs)]_vars
  <2> SUFFICES ASSUME IInv, [Next]_vars, task.status.phase = "Suspended"
               PROVE  Present(jobs') \subseteq Present(jobs)
    OBVIOUS
  <2>1. pc # "create"
    BY DEF IInv, Acknowledged, Executing
  <2>2. ~Creates
    BY <2>1 DEF Creates
  <2> QED
    BY <2>2, PresentAfter DEF IInv
<1> QED
  BY <1>1, TaskInductive, PTL DEF Spec, SuspendHolds

\* handleDeletion: whatever the Job cache shows, the Jobs left by a Task that
\* disappears are Jobs its last list had missed, there are none when it went
\* before it had the finalizer, and none is created afterwards.
THEOREM NoJobLeftBehind == Spec => NoOrphan
<1>1. Init => IInv /\ Guarded
  BY TypedInit, InvariantsInit DEF IInv
<1>2. IInv /\ Guarded /\ [Next]_vars => (IInv /\ Guarded)'
  BY CopiesTypedStep, QueueTypedStep, VersionsStep, AcknowledgedStep, GuardedStep DEF IInv
<1>3. ASSUME IInv, Guarded, [Next]_vars, ~Exists(task')
      PROVE  Present(jobs') \subseteq CASE ~Exists(task) -> Present(jobs)
                                        [] Exists(task) /\ task.meta.deleting -> missed
                                        [] OTHER -> {}
  <2>1. CopiesTyped /\ QueueTyped /\ Versions
    BY <1>3 DEF IInv
  <2>2. ~Creates
    <3> SUFFICES ASSUME Creates PROVE FALSE
      OBVIOUS
    <3>1. task.meta.finalizer /\ UNCHANGED task
      BY <1>3 DEF Creates, Guarded, Executing
    <3> QED
      BY <1>3, <3>1 DEF Exists
  <2>3. Present(jobs') \subseteq Present(jobs)
    BY <1>3, <2>1, <2>2, PresentAfter
  <2>4. CASE ~Exists(task)
    BY <2>3, <2>4
  <2>5. CASE Exists(task) /\ task.meta.deleting
    <3>1. task.meta.finalizer /\ ~task'.meta.finalizer
      BY <1>3, <2>5 DEF Exists
    <3>2. pc = "update" /\ ~obj.meta.finalizer
      <4>1. CASE Stays \/ Ends \/ Begins \/ Moves \/ Learns \/ Restarts
        BY <3>1, <4>1 DEF Stays, Ends, Begins, Moves, Learns, Restarts
      <4>2. CASE Serves
        BY <2>1, <3>1, <4>2, ServesFit
      <4>3. CASE WritesLast \/ WritesOn
        <5>1. /\ Accepted /\ pc \in {"write", "update", "syncWrite", "record", "resume"}
              /\ task' = (IF pc = "record" THEN StartedTask(obj) ELSE obj)
          BY <4>3 DEF WritesLast, WritesOn
        <5>2. task'.meta = obj.meta
          BY <2>1, <5>1, StartedSet DEF CopiesTyped
        <5> QED
          BY <2>1, <3>1, <5>1, <5>2 DEF Versions, Accepted
      <4> QED
        BY <1>3, <4>1, <4>2, <4>3, StepKinds
    <3> QED
      BY <1>3, <2>3, <2>5, <3>2 DEF Guarded
  <2>6. CASE Exists(task) /\ ~task.meta.deleting
    <3>1. task'.meta.deleting /\ ~task'.meta.finalizer
      BY <1>3 DEF Exists
    <3>2. ~task.meta.finalizer
      <4>1. CASE Stays \/ Ends \/ Begins \/ Moves \/ Learns \/ Restarts
        BY <2>6, <3>1, <4>1 DEF Stays, Ends, Begins, Moves, Learns, Restarts
      <4>2. CASE Serves
        BY <2>1, <3>1, <4>2, ServesFit
      <4>3. CASE WritesLast \/ WritesOn
        <5>1. Accepted /\ task' = (IF pc = "record" THEN StartedTask(obj) ELSE obj)
          BY <4>3 DEF WritesLast, WritesOn
        <5>2. task'.meta = obj.meta
          BY <2>1, <5>1, StartedSet DEF CopiesTyped
        <5> QED
          BY <2>1, <2>6, <3>1, <5>1, <5>2 DEF Versions, Accepted
      <4> QED
        BY <1>3, <4>1, <4>2, <4>3, StepKinds
    <3>3. Present(jobs) = {}
      BY <1>3, <2>6, <3>2 DEF Guarded
    <3> QED
      BY <2>3, <2>6, <3>3
  <2> QED
    BY <2>4, <2>5, <2>6
<1>4. IInv /\ Guarded /\ [Next]_vars =>
        [~Exists(task') =>
           Present(jobs') \subseteq CASE ~Exists(task) -> Present(jobs)
                                     [] Exists(task) /\ task.meta.deleting -> missed
                                     [] OTHER -> {}]_vars
  BY <1>3
<1> QED
  BY <1>1, <1>2, <1>4, PTL DEF Spec, NoOrphan

\* jobExists and taskExecutionFinished: a OneTime or Delay Task starts a Job only
\* while each Job of it that is there was missing from the list just read, and
\* never when the stored Task, if that is what the reconcile holds, is finished;
\* so it is across crashes, conflicts, failed calls, triggers, updates and TTLs.
THEOREM StartsOnce == Spec => OneExecution
<1>1. Init => IInv /\ Listed
  BY TypedInit, InvariantsInit DEF IInv
<1>2. IInv /\ Listed /\ [Next]_vars => (IInv /\ Listed)'
  BY CopiesTypedStep, QueueTypedStep, VersionsStep, AcknowledgedStep, ListedStep DEF IInv
<1>3. IInv /\ Listed /\ [Next]_vars =>
        [(~(Present(jobs') \subseteq Present(jobs)) /\ obj.spec.type # "Cron")
           => /\ Present(jobs) \subseteq missed
              /\ "reconciler" \in current => ~ExecutionFinished(task)]_vars
  <2> SUFFICES ASSUME IInv, Listed, [Next]_vars, obj.spec.type # "Cron",
                      ~(Present(jobs') \subseteq Present(jobs))
               PROVE  /\ Present(jobs) \subseteq missed
                      /\ "reconciler" \in current => ~ExecutionFinished(task)
    OBVIOUS
  <2>1. Creates
    BY PresentAfter DEF IInv
  <2>2. pc = "create"
    BY <2>1 DEF Creates
  <2> QED
    BY <2>2 DEF Listed
<1> QED
  BY <1>1, <1>2, <1>3, PTL DEF Spec, OneExecution

-----------------------------------------------------------------------------
(* The ledger of executions.                                               *)

\* The record of the Job j of js.
Record(js, j) == [job |-> j, phase |-> JobPhase(js[j])]

\* There are as many records as Jobs they are of.
LEMMA RecordCount ==
    ASSUME NEW js, NEW S \in SUBSET Seconds
    PROVE  LET T == {Record(js, j) : j \in S}
           IN  IsFiniteSet(T) /\ Cardinality(T) = Cardinality(S)
<1> DEFINE T == {Record(js, j) : j \in S}
           f == [j \in S |-> Record(js, j)]
<1>1. IsFiniteSet(S)
  BY InstantsFinite
<1>2. f \in [S -> T] /\ (\A t \in T : \E j \in S : f[j] = t)
  OBVIOUS
<1>3. \A a, b \in S : f[a] = f[b] => a = b
  BY DEF Record
<1> HIDE DEF f, T
<1>4. f \in Bijection(S, T)
  BY <1>2, <1>3, Fun_IsBij
<1>5. ExistsBijection(S, T)
  BY <1>4 DEF ExistsBijection
<1>6. IsFiniteSet(T) /\ Cardinality(T) = Cardinality(S)
  BY <1>1, <1>5, FS_Bijection
<1> QED
  BY <1>6 DEF T

\* What syncJobStatus makes of a true list is a report to the ledger.
LEMMA SyncReports ==
    ASSUME CopiesTyped, SameLedger(obj, task), EndsTrue(jobCache),
           NEW fresh \in SetToSeqs(Unrecorded(obj, jobCache)),
           NEW active \in SetToSeqs(Unfinished(jobCache)),
           NEW completion \in Completions(obj, jobCache, fresh),
           NEW u, u = SyncedTask(obj, jobCache, fresh, active, completion)
    PROVE  Reported(u)
<1> DEFINE js == jobCache
           new == Unrecorded(obj, js)
           won == new \cap Completed(js)
           R == {Record(js, j) : j \in new}
           Won == {r \in R : r.phase = "Succeeded"}
<1>1. obj \in Task /\ js \in [Seconds -> Job]
  BY DEF CopiesTyped
<1>2. new \in SUBSET Seconds /\ won \in SUBSET Seconds /\ new \ won \in SUBSET Seconds
  BY DEF Unrecorded, Present
<1>3. \A j \in new : /\ j \in Seconds /\ JobTransitioned(js[j])
                     /\ ~Recorded(obj.status.history, j)
                     /\ JobPhase(js[j]) \in {"Succeeded", "Failed"}
                     /\ JobPhase(js[j]) = "Succeeded" <=> j \in won
  <2> SUFFICES ASSUME NEW j \in new
               PROVE  /\ j \in Seconds /\ JobTransitioned(js[j])
                      /\ ~Recorded(obj.status.history, j)
                      /\ JobPhase(js[j]) \in {"Succeeded", "Failed"}
                      /\ JobPhase(js[j]) = "Succeeded" <=> j \in won
    OBVIOUS
  <2>1. j \in Present(js) /\ JobTransitioned(js[j]) /\ ~Recorded(obj.status.history, j)
    BY DEF Unrecorded
  <2>2. j \in Seconds /\ js[j].state \in {"complete", "failed"}
    BY <2>1 DEF Present, JobTransitioned
  <2>3. j \in won <=> js[j].state = "complete"
    BY <2>1 DEF Completed
  <2>4. JobPhase(js[j]) = "Succeeded" <=> js[j].state = "complete"
    BY <2>2 DEF JobPhase
  <2>5. JobPhase(js[j]) \in {"Succeeded", "Failed"}
    BY <2>2 DEF JobPhase
  <2> QED
    BY <2>1, <2>2, <2>3, <2>4, <2>5
<1>4. R \subseteq Ledger!Unreported
  <2> SUFFICES ASSUME NEW j \in new PROVE Record(js, j) \in Ledger!Unreported
    OBVIOUS
  <2>1. Record(js, j) \in [job : Seconds, phase : {"Succeeded", "Failed"}]
    BY <1>3 DEF Record
  <2>2. [phase |-> JobPhase(js[j]), end |-> js[j].end] \in outcomes[j]
    BY <1>3 DEF EndsTrue
  <2>3. \E o \in outcomes[Record(js, j).job] : o.phase = Record(js, j).phase
    BY <2>2 DEF Record
  <2>4. \A i \in DOMAIN task.status.history : task.status.history[i].job # Record(js, j).job
    BY <1>3 DEF Record, Recorded, SameLedger
  <2> QED
    BY <2>1, <2>3, <2>4 DEF Ledger!Unreported
<1>5. \A r, s \in R : r.job = s.job => r = s
  BY DEF Record
<1>6. Won = {Record(js, j) : j \in won} /\ R \ Won = {Record(js, j) : j \in new \ won}
  <2>1. \A j \in new : Record(js, j).phase = "Succeeded" <=> j \in won
    BY <1>3 DEF Record
  <2>2. \A i, j : Record(js, i) = Record(js, j) => i = j
    BY DEF Record
  <2>3. won \subseteq new
    OBVIOUS
  <2> HIDE DEF new, won, js
  <2> QED
    BY <2>1, <2>2, <2>3
<1>7. Cardinality(Won) = Cardinality(won) /\ Cardinality(R \ Won) = Cardinality(new \ won)
      /\ Cardinality(R) = Cardinality(new)
  <2> DEFINE T(S) == {Record(js, j) : j \in S}
  <2>1. Won = T(won) /\ R \ Won = T(new \ won) /\ R = T(new)
    BY <1>6
  <2>2. \A S \in SUBSET Seconds : Cardinality(T(S)) = Cardinality(S)
    BY RecordCount
  <2> HIDE DEF won, new, js, R, Won, T
  <2> QED
    BY <1>2, <2>1, <2>2
<1>8. Added(js, fresh) \in SetToSeqs(R)
  <2>1. /\ fresh \in [1..Cardinality(new) -> new] /\ DOMAIN fresh = 1..Cardinality(new)
        /\ \A a, b \in DOMAIN fresh : fresh[a] = fresh[b] => a = b
    BY <1>2, ListingFits
  <2> HIDE DEF new, js
  <2>2. Added(js, fresh) = [i \in 1..Cardinality(new) |-> Record(js, fresh[i])]
    BY <2>1 DEF Added, Record
  <2>3. \A i \in 1..Cardinality(new) : Record(js, fresh[i]) \in R
    BY <2>1
  <2>4. \A a, b \in 1..Cardinality(new) : a # b => Record(js, fresh[a]) # Record(js, fresh[b])
    BY <2>1 DEF Record
  <2> HIDE DEF R
  <2>5. Added(js, fresh) \in [1..Cardinality(R) -> R]
    BY <1>7, <2>2, <2>3
  <2>6. \A a, b \in 1..Cardinality(R) : a # b => Added(js, fresh)[a] # Added(js, fresh)[b]
    BY <1>7, <2>2, <2>4
  <2> QED
    BY <2>5, <2>6 DEF SetToSeqs
<1>9. /\ u.status.history = Trim(obj.status.history \o Added(js, fresh))
      /\ u.status.succeeded = obj.status.succeeded + Cardinality(won)
      /\ u.status.failed = obj.status.failed + Cardinality(new \ won)
      /\ u.status.lastCompletion = completion
  BY <1>1, SyncedSet
<1>10. completion \in {task.status.lastCompletion} \cup Ledger!Completions
  <2>1. CASE completion = obj.status.lastCompletion
    BY <2>1 DEF SameLedger
  <2>2. CASE \E j \in Completed(js) : completion = js[j].end
    <3>1. PICK j \in Completed(js) : completion = js[j].end
      BY <2>2
    <3>2. j \in Seconds /\ js[j].state = "complete"
      BY DEF Completed, Present
    <3>3. JobTransitioned(js[j]) /\ JobPhase(js[j]) = "Succeeded"
      BY <3>2 DEF JobTransitioned, JobPhase
    <3>4. [phase |-> "Succeeded", end |-> completion] \in outcomes[j]
      BY <3>1, <3>2, <3>3 DEF EndsTrue
    <3> QED
      BY <3>2, <3>4 DEF Ledger!Completions
  <2> QED
    BY <1>1, <2>1, <2>2, CompletionsFit
<1>11. Ledger!Latest(task.status.history \o Added(js, fresh)) = u.status.history
  BY <1>9 DEF Ledger!Latest, Trim, SameLedger
<1>12. u.status.succeeded = task.status.succeeded + Cardinality(Won)
       /\ u.status.failed = task.status.failed + Cardinality(R \ Won)
  BY <1>7, <1>9 DEF SameLedger
<1> HIDE DEF R, js, new, won
<1> QED
  BY <1>4, <1>5, <1>8, <1>9, <1>10, <1>11, <1>12 DEF Reported

\* A report stays one while Jobs go on ending.
LEMMA ReportedKept ==
    ASSUME NEW u, Reported(u), obj' = u, UNCHANGED task,
           \A j \in Seconds : outcomes[j] \subseteq outcomes'[j]
    PROVE  Reported(obj)'
<1>1. Ledger!Completions \subseteq Ledger!Completions'
  BY DEF Ledger!Completions
<1>2. Ledger!Unreported \subseteq Ledger!Unreported'
  BY DEF Ledger!Unreported
<1>3. PICK R \in SUBSET Ledger!Unreported :
        LET Won == {r \in R : r.phase = "Succeeded"} IN
        /\ \A r, s \in R : r.job = s.job => r = s
        /\ u.status.succeeded = task.status.succeeded + Cardinality(Won)
        /\ u.status.failed = task.status.failed + Cardinality(R \ Won)
        /\ \E s \in SetToSeqs(R) : u.status.history = Ledger!Latest(task.status.history \o s)
  BY DEF Reported
<1>4. R \in SUBSET Ledger!Unreported'
  BY <1>2
<1> QED
  BY <1>1, <1>3, <1>4 DEF Reported, Ledger!Latest

\* The outcomes of Jobs are never forgotten.
LEMMA OutcomesGrow ==
    ASSUME CopiesTyped, QueueTyped, [Next]_vars
    PROVE  /\ \A j \in Seconds : outcomes[j] \subseteq outcomes'[j]
           /\ UNCHANGED outcomes \/ \E j \in Seconds : Progresses(j)
<1>1. \/ UNCHANGED outcomes
      \/ \E j \in Seconds : Progresses(j)
  BY JobKinds DEF QueueTyped, Creates, Removes
<1>2. ASSUME NEW j \in Seconds, Progresses(j)
      PROVE  \A k \in Seconds : outcomes[k] \subseteq outcomes'[k]
  <2>1. UNCHANGED outcomes \/ \E o : outcomes' = [outcomes EXCEPT ![j] = @ \cup {o}]
    BY <1>2 DEF Progresses
  <2> QED
    BY <2>1 DEF QueueTyped
<1> QED
  BY <1>1, <1>2

\* What is listed stays true and what is about to be stored stays a report.
LEMMA LedgerTrueStep ==
    CopiesTyped /\ QueueTyped /\ Versions /\ LedgerTrue /\ [Next]_vars => LedgerTrue'
<1> SUFFICES ASSUME CopiesTyped, QueueTyped, Versions, LedgerTrue, [Next]_vars
             PROVE  LedgerTrue'
  OBVIOUS
<1>1. jobs \in [Seconds -> Job] /\ now \in Seconds /\ victims \subseteq Seconds
      /\ outcomes \in [Seconds -> SUBSET [phase: Terminal, end: Seconds]]
  BY DEF CopiesTyped, QueueTyped
<1>2. \A j \in Seconds : outcomes[j] \subseteq outcomes'[j]
  BY OutcomesGrow
<1>3. ASSUME NEW j \in Seconds, JobTransitioned(jobs'[j])
      PROVE  [phase |-> JobPhase(jobs'[j]), end |-> jobs'[j].end] \in outcomes'[j]
  <2>0. jobs'[j] = jobs[j] => [phase |-> JobPhase(jobs'[j]), end |-> jobs'[j].end] \in outcomes'[j]
    BY <1>2, <1>3 DEF LedgerTrue, EndsTrue
  <2>1. CASE UNCHANGED <<jobs, created, outcomes>>
    BY <2>0, <2>1
  <2>2. CASE Creates
    <3>1. jobs' = [jobs EXCEPT ![now] = [state |-> "waiting", end |-> 0]]
      BY <2>2 DEF Creates
    <3>2. j # now
      BY <1>1, <1>3, <3>1 DEF JobTransitioned
    <3> QED
      BY <1>1, <2>0, <3>1, <3>2
  <2>3. ASSUME NEW k \in Seconds, Removes(k)
        PROVE  jobs'[j] = jobs[j]
    <3>1. jobs' = [jobs EXCEPT ![k] = AbsentJob]
      BY <2>3 DEF Removes
    <3>2. j # k
      BY <1>1, <1>3, <3>1, JobFits DEF JobTransitioned
    <3> QED
      BY <1>1, <3>1, <3>2
  <2>4. ASSUME NEW k \in Seconds, Progresses(k)
        PROVE  [phase |-> JobPhase(jobs'[j]), end |-> jobs'[j].end] \in outcomes'[j]
    <3>1. PICK job : jobs' = [jobs EXCEPT ![k] = job]
      BY <2>4 DEF Progresses
    <3>2. CASE j # k
      BY <1>1, <2>0, <3>1, <3>2
    <3>3. CASE j = k
      <4>1. jobs[k] \in Job
        BY <1>1
      <4>2. ~\E state \in {"active", "waiting"} :
              jobs' = [jobs EXCEPT ![k] = [jobs[k] EXCEPT !.state = state]]
        BY <1>1, <1>3, <3>3, <4>1 DEF JobTransitioned, Job
      <4>3. PICK state \in {"complete", "failed"} :
            LET ended == [state |-> state, end |-> now] IN
            /\ jobs' = [jobs EXCEPT ![k] = ended]
            /\ outcomes' = [outcomes EXCEPT ![k] = @ \cup {[phase |-> JobPhase(ended), end |-> now]}]
        BY <2>4, <4>2 DEF Progresses
      <4>4. jobs'[k] = [state |-> state, end |-> now] /\ jobs'[k].end = now
        BY <1>1, <4>3
      <4>5. [phase |-> JobPhase([state |-> state, end |-> now]), end |-> now] \in outcomes'[k]
        BY <1>1, <4>3
      <4> QED
        BY <3>3, <4>4, <4>5
    <3> QED
      BY <3>2, <3>3
  <2> QED
    BY <1>1, <2>0, <2>1, <2>2, <2>3, <2>4, JobKinds
<1>4. EndsTrue(jobs)'
  BY <1>3 DEF EndsTrue
<1>5. EndsTrue(jobCache)'
  BY <1>2, JobCacheLeads DEF LedgerTrue, EndsTrue
<1>6. (pc' = "syncWrite" /\ "reconciler" \in current') => Reported(obj)'
  <2> SUFFICES ASSUME pc' = "syncWrite", "reconciler" \in current' PROVE Reported(obj)'
    OBVIOUS
  <2>1. CASE Stays
    BY <1>2, <2>1, ReportedKept DEF Stays, LedgerTrue
  <2>2. CASE Moves
    <3>1. UNCHANGED <<task, current>> /\ pc = "sync"
      BY <2>2 DEF Moves
    <3>2. SameLedger(obj, task)
      BY <3>1 DEF Versions
    <3>3. PICK fresh \in SetToSeqs(Unrecorded(obj, jobCache)),
               active \in SetToSeqs(Unfinished(jobCache)) :
            \E completion \in Completions(obj, jobCache, fresh) :
               obj' = SyncedTask(obj, jobCache, fresh, active, completion)
      BY <2>2 DEF Moves
    <3>4. PICK completion \in Completions(obj, jobCache, fresh) :
               obj' = SyncedTask(obj, jobCache, fresh, active, completion)
      BY <3>3
    <3> DEFINE u == SyncedTask(obj, jobCache, fresh, active, completion)
    <3>5. Reported(u)
      BY <3>2, SyncReports DEF LedgerTrue
    <3>6. obj' = u
      BY <3>4
    <3> HIDE DEF u
    <3> QED
      BY <1>2, <3>1, <3>5, <3>6, ReportedKept
  <2>3. CASE Serves
    <3>1. Handles(task') /\ UNCHANGED <<pc, obj>>
      BY <2>3, ServesFit DEF Handles
    <3>2. UNCHANGED task /\ "reconciler" \in current
      BY <3>1, HandlesCurrent
    <3> QED
      BY <1>2, <3>1, <3>2, ReportedKept DEF LedgerTrue
  <2>4. CASE Learns
    BY <1>2, <2>4, ReportedKept DEF Learns, LedgerTrue
  <2>5. CASE Begins
    BY <2>5, BeginsKeep
  <2>6. CASE WritesOn
    BY <2>6, WritesOnKeep
  <2>7. CASE Ends \/ WritesLast \/ Restarts
    BY <2>7 DEF Ends, WritesLast, Restarts
  <2> QED
    BY <2>1, <2>2, <2>3, <2>4, <2>5, <2>6, <2>7, StepKinds
<1> QED
  BY <1>4, <1>5, <1>6 DEF LedgerTrue

\* No Job has ended when the Task has just been stored.
LEMMA LedgerTrueInit == Init => LedgerTrue /\ Ledger!Init
<1> SUFFICES ASSUME Init PROVE LedgerTrue /\ Ledger!Init
  OBVIOUS
<1>1. LedgerTrue
  BY JobFits DEF Init, LedgerTrue, EndsTrue, JobTransitioned
<1>2. PICK s \in Specs, b \in BOOLEAN, l \in LongNames : task = NewTask(Suspending(s, b), l)
  BY DEF Init
<1>3. l \in BOOLEAN /\ Suspending(s, b) \in Spec_
  BY TaskConstants, SubmittedFits
<1>4. /\ task.status.history = <<>> /\ task.status.lastCompletion = None
      /\ task.status.succeeded = 0 /\ task.status.failed = 0
  BY <1>2, <1>3, NewTaskFits
<1>5. Ledger!Init
  BY <1>4 DEF Init, Ledger!Init
<1> QED
  BY <1>1, <1>5

\* The operators of the library mean the same to the ledger.
LEMMA SameOperators ==
    \A S : Ledger!Cardinality(S) = Cardinality(S) /\ Ledger!SetToSeqs(S) = SetToSeqs(S)
<1>1. \A S : Ledger!Cardinality(S) = Cardinality(S)
  BY Zenon DEF Ledger!Cardinality, Cardinality
<1> QED
  BY <1>1, Zenon DEF Ledger!SetToSeqs, SetToSeqs

\* Every step is a step of the ledger or leaves it alone.
LEMMA LedgerStep ==
    IInv /\ LedgerTrue /\ [Next]_vars => [Ledger!Next]_(Ledger!evars)
<1> SUFFICES ASSUME IInv, LedgerTrue, [Next]_vars
             PROVE  Ledger!Next \/ UNCHANGED Ledger!evars
  BY DEF Ledger!evars
<1>1. CopiesTyped /\ QueueTyped /\ Versions /\ now \in Seconds /\ obj \in Task
      /\ outcomes \in [Seconds -> SUBSET [phase: Terminal, end: Seconds]]
  BY DEF IInv, CopiesTyped, QueueTyped
<1>0. UNCHANGED outcomes /\ UNCHANGED Ledger!status => UNCHANGED Ledger!evars
  BY DEF Ledger!status, Ledger!evars
<1>2. ASSUME UNCHANGED outcomes, SameLedger(task', task)
      PROVE  UNCHANGED Ledger!evars
  BY <1>2 DEF SameLedger, Ledger!evars
<1>3. ASSUME UNCHANGED outcomes, Reported(obj), task' = obj
      PROVE  Ledger!Report \/ UNCHANGED Ledger!evars
  <2>1. PICK R \in SUBSET Ledger!Unreported :
          LET Won == {r \in R : r.phase = "Succeeded"} IN
          /\ \A r, s \in R : r.job = s.job => r = s
          /\ obj.status.succeeded = task.status.succeeded + Cardinality(Won)
          /\ obj.status.failed = task.status.failed + Cardinality(R \ Won)
          /\ \E s \in SetToSeqs(R) :
                obj.status.history = Ledger!Latest(task.status.history \o s)
    BY <1>3 DEF Reported
  <2>2. obj.status.lastCompletion \in {task.status.lastCompletion} \cup Ledger!Completions
    BY <1>3 DEF Reported
  <2>3. task'.status = obj.status
    BY <1>3
  <2> DEFINE Won == {r \in R : r.phase = "Succeeded"}
  <2>4. /\ \A r, s \in R : r.job = s.job => r = s
        /\ task'.status.succeeded = task.status.succeeded + Cardinality(Won)
        /\ task'.status.failed = task.status.failed + Cardinality(R \ Won)
        /\ \E s \in SetToSeqs(R) :
              task'.status.history = Ledger!Latest(task.status.history \o s)
    BY <2>1, <2>3
  <2>5. CASE UNCHANGED Ledger!status
    BY <1>0, <1>3, <2>5
  <2>6. CASE ~UNCHANGED Ledger!status
    BY <1>3, <2>2, <2>3, <2>4, <2>6, SameOperators DEF Ledger!Report
  <2> QED
    BY <2>5, <2>6
<1>4. ASSUME NEW j \in Seconds, Progresses(j)
      PROVE  Ledger!Next \/ UNCHANGED Ledger!evars
  <2>1. UNCHANGED task
    BY <1>4 DEF Progresses, Stays
  <2>2. CASE UNCHANGED outcomes
    BY <1>2, <2>1, <2>2 DEF SameLedger
  <2>3. CASE ~UNCHANGED outcomes
    <3>1. PICK state \in {"complete", "failed"} :
            outcomes' = [outcomes EXCEPT ![j] = @ \cup
                           {[phase |-> JobPhase([state |-> state, end |-> now]), end |-> now]}]
      BY <1>4, <2>3 DEF Progresses
    <3> DEFINE p == JobPhase([state |-> state, end |-> now])
               o == [phase |-> p, end |-> now]
    <3>2. p \in {"Succeeded", "Failed"}
      BY DEF JobPhase
    <3> HIDE DEF p
    <3>3. o \in Ledger!Outcome
      BY <1>1, <3>2 DEF Ledger!Outcome
    <3>4. outcomes' = [outcomes EXCEPT ![j] = @ \cup {o}]
      BY <3>1 DEF p
    <3> HIDE DEF o
    <3>5. UNCHANGED Ledger!status
      BY <2>1 DEF Ledger!status
    <3>6. Ledger!End
      BY <2>3, <3>3, <3>4, <3>5 DEF Ledger!End
    <3> QED
      BY <3>6 DEF Ledger!Next
  <2> QED
    BY <2>2, <2>3
<1>5. ASSUME UNCHANGED outcomes
      PROVE  Ledger!Next \/ UNCHANGED Ledger!evars
  <2>1. CASE Stays \/ Ends \/ Begins \/ Moves \/ Learns \/ Restarts
    <3>1. UNCHANGED task
      BY <2>1 DEF Stays, Ends, Begins, Moves, Learns, Restarts
    <3> QED
      BY <1>2, <1>5, <3>1 DEF SameLedger
  <2>2. CASE WritesLast
    <3>1. Accepted /\ task' = (IF pc = "record" THEN StartedTask(obj) ELSE obj)
      BY <2>2 DEF WritesLast
    <3>2. CASE pc = "syncWrite"
      BY <1>3, <1>5, <3>1, <3>2 DEF LedgerTrue, Accepted, Ledger!Next
    <3>3. CASE pc # "syncWrite"
      <4>1. SameLedger(obj, task)
        BY <1>1, <3>1, <3>3 DEF Versions, Accepted
      <4>2. SameLedger(StartedTask(obj), obj)
        BY <1>1, StartedSet
      <4>3. SameLedger(task', task)
        BY <3>1, <4>1, <4>2 DEF SameLedger
      <4> QED
        BY <1>2, <1>5, <4>3
    <3> QED
      BY <3>2, <3>3
  <2>3. CASE WritesOn
    <3>1. Accepted /\ task' = obj /\ pc \in {"syncWrite", "resume"}
      BY <2>3 DEF WritesOn
    <3>2. CASE pc = "syncWrite"
      BY <1>3, <1>5, <3>1, <3>2 DEF LedgerTrue, Accepted, Ledger!Next
    <3>3. CASE pc = "resume"
      <4>1. SameLedger(obj, task)
        BY <1>1, <3>1, <3>3 DEF Versions, Accepted
      <4> QED
        BY <1>2, <1>5, <3>1, <4>1
    <3> QED
      BY <3>1, <3>2, <3>3
  <2>4. CASE Serves
    BY <1>1, <1>2, <1>5, <2>4, ServesFit
  <2> QED
    BY <2>1, <2>2, <2>3, <2>4, StepKinds
<1> QED
  BY <1>1, <1>4, <1>5, OutcomesGrow

\* syncJobStatus keeps the ledger: whatever is stored as history, counters and
\* completion time comes from reports of true outcomes, each of a Job that the
\* history does not name, across conflicts, stale lists and crashes.
THEOREM LedgerKept == Spec => KeepsLedger
<1>1. Init => IInv /\ LedgerTrue /\ Ledger!Init
  BY TypedInit, InvariantsInit, LedgerTrueInit DEF IInv
<1>2. IInv /\ LedgerTrue /\ [Next]_vars => (IInv /\ LedgerTrue)'
  BY CopiesTypedStep, QueueTypedStep, VersionsStep, AcknowledgedStep, LedgerTrueStep DEF IInv
<1> QED
  BY <1>1, <1>2, LedgerStep, PTL DEF Spec, KeepsLedger, Ledger!Spec
-----------------------------------------------------------------------------
(* What the status says when nothing is left to do.                        *)

\* A Task that passes the checks of Reconcile and of its type handler.
Sound(t) == ~t.meta.longName /\ t.spec.valid

\* Every spec users submit is valid, or none is submitted after the first.
SpecsStand == "update" \notin Requests \/ \A s \in Specs : s.valid

\* A reconcile whose write would be accepted holds a Task as sound as the
\* stored one.
Settled ==
    /\ "update" \in Requests => task.spec.valid
    /\ "reconciler" \in current => obj.meta.longName = task.meta.longName

\* The phase of an execution that ended says that no Job is active.
Cleared(t) == t.status.phase \in Terminal => t.status.active = <<>>

\* So does what a reconcile may store, but for the Job it has just created,
\* with which it stores phase Running.
PhaseCleared ==
    Sound(task) => /\ Cleared(task)
                   /\ ("reconciler" \in current /\ pc # "record") => Cleared(obj)

\* The history h has records of Jobs in N, at most one of each.
Distinct(h, N) ==
    /\ \A i \in DOMAIN h : h[i].job \in N
    /\ \A i, k \in DOMAIN h : h[i].job = h[k].job => i = k

\* A Job that ended or is there was created, and the history names each Job
\* that ended at most once.
EndedNames == {j \in Seconds : outcomes[j] # {}}
Counted ==
    /\ Cardinality(EndedNames \cup Present(jobs)) <= created
    /\ Distinct(task.status.history, EndedNames)

\* The status of t tells of the Jobs js: it names the unfinished ones, and
\* while no record has been dropped the finished ones are in the history.
Matches(t, js) ==
    /\ ToSet(t.status.active) = Unfinished(js)
    /\ created <= HistoryLimit =>
          \A j \in Present(js) \ Unfinished(js) : Recorded(t.status.history, j)

\* Nothing will wake up the reconciler but what the Job cache has yet to learn.
Unprompted ==
    /\ ~queued /\ timer = None /\ "cache" \in current
    /\ LeftAlone /\ Sound(task)

\* Then the last reconcile has seen the stored Task and the Job cache as they
\* are: it has made the status match, or is still on its way to do so or to a
\* write that makes the Task informer wake up the next one.
UpToDate ==
    Unprompted =>
        /\ pc = "idle" => Matches(task, jobCache)
        /\ pc \in {"exists", "sync", "schedule", "create"} => obj = task
        /\ pc = "syncWrite" => Matches(obj, jobCache)
        /\ pc \in {"update", "resume"} => obj # task
        /\ pc = "record" => Len(obj.status.active) = Len(task.status.active) + 1
        /\ pc \notin {"write", "delete", "deleting"}

StatusInv == LedgerTrue /\ Settled /\ PhaseCleared /\ Counted /\ UpToDate

\* Setting the phase keeps the active Jobs.
LEMMA PhaseOnly ==
    ASSUME NEW t \in Task, NEW phase \in Phases
    PROVE  WithPhase(t, phase).status.active = t.status.active
<1> DEFINE st == [t.status EXCEPT !.phase = phase]
<1>1. st \in Status /\ st.active = t.status.active
  BY Fields DEF Status
<1>2. WithPhase(t, phase) = [t EXCEPT !.status = st]
  BY DEF WithPhase
<1> HIDE DEF st
<1> QED
  BY <1>1, <1>2, NewStatus

\* No write of the metadata touches the name.
LEMMA NameKept ==
    ASSUME NEW t \in Task, NEW b \in BOOLEAN, NEW at \in Seconds \cup {None}
    PROVE  /\ [t EXCEPT !.meta.finalizer = b].meta.longName = t.meta.longName
           /\ [t EXCEPT !.meta.deleting = TRUE].meta.longName = t.meta.longName
           /\ [t EXCEPT !.meta.trigger = at].meta.longName = t.meta.longName
           /\ [t EXCEPT !.spec.suspend = b].spec.valid = t.spec.valid
           /\ [t EXCEPT !.spec.suspend = b].meta = t.meta
BY Fields DEF Task, Meta, Spec_

\* The second write of a Trigger forgets the active Jobs.
LEMMA TriggerClears ==
    ASSUME NEW t \in Task
    PROVE  [t EXCEPT !.status.lastSchedule = None, !.status.active = <<>>].status.active = <<>>
BY Fields DEF Task, Status

\* A created Job makes activeJobs one longer, which is what is stored.
LEMMA ActiveGrows ==
    ASSUME NEW t \in Task, NEW j \in Seconds
    PROVE  LET u == [t EXCEPT !.status.active = Append(@, j)]
           IN  Len(u.status.active) = Len(t.status.active) + 1
<1> DEFINE a == Append(t.status.active, j)
           st == [t.status EXCEPT !.active = a]
           u == [t EXCEPT !.status.active = Append(@, j)]
<1>1. a \in Seq(Seconds) /\ Len(a) = Len(t.status.active) + 1
  BY Fields
<1>2. u = [t EXCEPT !.status = st]
  OBVIOUS
<1> HIDE DEF a, u
<1>3. st \in Status /\ st.active = a
  BY <1>1, Fields DEF Status
<1> HIDE DEF st
<1>4. Len(u.status.active) = Len(t.status.active) + 1
  BY <1>1, <1>2, <1>3, NewStatus
<1> QED
  BY <1>4 DEF u

\* What createJobAndUpdateStatus stores keeps the active Jobs.
LEMMA StartedActive ==
    ASSUME NEW t \in Task, now \in Seconds
    PROVE  StartedTask(t).status.active = t.status.active
<1> DEFINE ls == IF t.spec.type = "Cron" THEN now ELSE t.status.lastSchedule
           st == [t.status EXCEPT !.phase = "Running", !.lastStart = now, !.lastSchedule = ls]
<1>1. ls \in Seconds \cup {None} /\ "Running" \in Phases
  BY Fields DEF Phases
<1>2. StartedTask(t) = [t EXCEPT !.status = st]
  BY Fields DEF StartedTask, Task, Status
<1> HIDE DEF ls
<1>3. st \in Status /\ st.active = t.status.active
  BY <1>1, Fields DEF Status
<1> HIDE DEF st
<1> QED
  BY <1>2, <1>3, NewStatus

\* syncJobStatus stores the active Jobs it lists, a phase that agrees and the
\* history with what it found unrecorded.
LEMMA SyncedActive ==
    ASSUME NEW t \in Task, NEW js \in [Seconds -> Job],
           NEW fresh \in SetToSeqs(Unrecorded(t, js)),
           NEW active \in SetToSeqs(Unfinished(js)),
           NEW completion \in Completions(t, js, fresh)
    PROVE  LET u == SyncedTask(t, js, fresh, active, completion)
           IN  /\ u.status.active = active /\ Cleared(u)
               /\ u.status.history = Trim(t.status.history \o Added(js, fresh))
<1> DEFINE won == Unrecorded(t, js) \cap Completed(js)
           w == t.status.succeeded + Cardinality(won)
           l == t.status.failed + Cardinality(Unrecorded(t, js) \ won)
           h == Trim(t.status.history \o Added(js, fresh))
           s == [t.status EXCEPT !.succeeded = w, !.failed = l, !.history = h,
                                 !.active = active, !.lastCompletion = completion]
           p == StatusPhase(s)
           st == [s EXCEPT !.phase = p]
           u == SyncedTask(t, js, fresh, active, completion)
<1>1. u = [t EXCEPT !.status = st]
  BY DEF SyncedTask, Added
<1> HIDE DEF w, l, h
<1>2. /\ s.active = active /\ s.history = h /\ DOMAIN s = DOMAIN t.status
  BY Fields DEF Status
<1>3. DOMAIN t.status = {"phase", "lastSchedule", "lastStart", "lastCompletion", "history",
                         "active", "succeeded", "failed"}
  BY Fields DEF Status
<1> HIDE DEF s
<1>4. p \in Terminal => active = <<>>
  BY <1>2 DEF StatusPhase, Terminal
<1> HIDE DEF p
<1>5. st.phase = p /\ st.active = active /\ st.history = h
  BY <1>2, <1>3
<1> HIDE DEF st
<1>6. u.status = st
  BY <1>1 DEF Task
<1> HIDE DEF u
<1>7. u.status.active = active /\ u.status.history = h /\ Cleared(u)
  BY <1>4, <1>5, <1>6 DEF Cleared
<1> QED
  BY <1>7 DEF u, h

-----------------------------------------------------------------------------
(* Soundness and the phase.                                                *)

\* Every step is of one of the kinds; what serves is a request.
LEMMA StepSources ==
    ASSUME [Next]_vars
    PROVE  \/ Stays \/ Ends \/ Begins \/ Moves \/ WritesLast \/ WritesOn
           \/ (Serves /\ (UserStep \/ TriggerStatus)) \/ Learns \/ Restarts
<1>1. CASE UNCHANGED vars
  BY <1>1 DEF vars, Stays
<1>2. CASE ReconcilerStep
  BY <1>2, ReconcileLeads, WriteLeads, StepLeads DEF ReconcilerStep
<1>3. CASE UserStep \/ TriggerStatus
  BY <1>3, UserLeads
<1>4. CASE RefreshTask \/ RefreshJobs \/ TimerFires \/ Tick \/ JobStep \/ CallFails \/ Crash
  BY <1>4, EnvironmentLeads
<1> QED
  BY <1>1, <1>2, <1>3, <1>4 DEF Next

\* What a request leaves alone: the name, the validity unless it is an update,
\* the phase, and the active Jobs unless it clears them.
LEMMA RequestKeeps ==
    ASSUME CopiesTyped, UserStep \/ TriggerStatus
    PROVE  /\ task'.meta.longName = task.meta.longName
           /\ \/ task'.spec.valid = task.spec.valid
              \/ "update" \in Requests /\ \E s \in Specs : task'.spec.valid = s.valid
           /\ task'.status.phase = task.status.phase
           /\ task'.status.active \in {task.status.active, <<>>}
<1> DEFINE Goal(t) ==
      /\ t.meta.longName = task.meta.longName
      /\ \/ t.spec.valid = task.spec.valid
         \/ "update" \in Requests /\ \E s \in Specs : t.spec.valid = s.valid
      /\ t.status.phase = task.status.phase
      /\ t.status.active \in {task.status.active, <<>>}
<1>1. task \in Task /\ now \in Seconds \cup {None} /\ None \in Seconds \cup {None}
      /\ task.meta.trigger \in Seconds \cup {None} /\ TRUE \in BOOLEAN /\ FALSE \in BOOLEAN
  BY Fields DEF CopiesTyped
<1>2. CASE SuspendTask \/ ResumeTask
  <2>1. PICK b \in BOOLEAN : task' = [task EXCEPT !.spec.suspend = b]
    BY <1>2 DEF SuspendTask, ResumeTask, Store
  <2> DEFINE u == [task EXCEPT !.spec.suspend = b]
  <2>2. u.status = task.status /\ u.meta = task.meta /\ u.spec.valid = task.spec.valid
    BY <1>1, SuspendSet, NameKept
  <2>3. task' = u
    BY <2>1
  <2> HIDE DEF u
  <2> QED
    BY <2>2, <2>3
<1>3. CASE UpdateTask
  <2>1. PICK s \in Specs, b \in BOOLEAN, at \in {None, task.meta.trigger} :
          task' = [task EXCEPT !.spec = Suspending(s, b), !.meta.trigger = at]
    BY <1>3 DEF UpdateTask, Store
  <2>2. at \in Seconds \cup {None} /\ Suspending(s, b) \in Spec_ /\ Suspending(s, b).valid = s.valid
    BY <1>1, SubmittedFits DEF Suspending
  <2> DEFINE u == [task EXCEPT !.spec = Suspending(s, b), !.meta.trigger = at]
             v == [task EXCEPT !.spec = Suspending(s, b)]
  <2>3. v \in Task /\ v.status = task.status /\ v.meta = task.meta /\ v.spec = Suspending(s, b)
    BY <1>1, <2>2, NewSpec
  <2>4. u = [v EXCEPT !.meta.trigger = at] /\ task' = u
    BY <2>1, <2>3
  <2> HIDE DEF u, v
  <2>5. u.status = v.status /\ u.spec = v.spec /\ u.meta.longName = v.meta.longName
    BY <1>1, <2>2, <2>3, <2>4, TriggerSet, NameKept
  <2>6. "update" \in Requests
    BY <1>3 DEF UpdateTask, Request
  <2> QED
    BY <2>2, <2>3, <2>4, <2>5, <2>6
<1>4. CASE DeleteTask
  <2> DEFINE u == [task EXCEPT !.meta.deleting = TRUE]
  <2>1. u.status = task.status /\ u.spec = task.spec /\ u.meta.longName = task.meta.longName
    BY <1>1, DeletingSet, NameKept
  <2>2. task' = u
    BY <1>4 DEF DeleteTask, Store
  <2> HIDE DEF u
  <2> QED
    BY <2>1, <2>2
<1>5. CASE TriggerTask
  <2> DEFINE u == [task EXCEPT !.meta.trigger = now]
  <2>1. u.status = task.status /\ u.spec = task.spec /\ u.meta.longName = task.meta.longName
    BY <1>1, TriggerSet, NameKept
  <2>2. task' = u
    BY <1>5 DEF TriggerTask, Store
  <2> HIDE DEF u
  <2> QED
    BY <2>1, <2>2
<1>6. CASE TriggerStatus
  <2> DEFINE u == [task EXCEPT !.status.lastSchedule = None, !.status.active = <<>>]
  <2>1. u.meta = task.meta /\ u.spec = task.spec /\ u.status.phase = task.status.phase
        /\ u.status.active = <<>>
    BY <1>1, TriggerStatusSet, TriggerClears
  <2>2. task' = u \/ task' = task
    BY <1>6 DEF TriggerStatus
  <2> HIDE DEF u
  <2> QED
    BY <2>1, <2>2
<1> QED
  BY <1>2, <1>3, <1>4, <1>5, <1>6 DEF UserStep

\* A reconcile that starts or goes on keeps the name, but for a return.
LEMMA NameFollows ==
    ASSUME CopiesTyped
    PROVE  /\ Begins => obj'.meta.longName = taskCache.meta.longName
           /\ Moves => obj'.meta.longName = obj.meta.longName
<1>1. obj \in Task /\ taskCache \in Task /\ now \in Seconds /\ jobCache \in [Seconds -> Job]
      /\ {"Failed", "Suspended", "Pending"} \subseteq Phases
  BY DEF CopiesTyped, Phases, Terminal
<1>2. ASSUME Begins PROVE obj'.meta.longName = taskCache.meta.longName
  <2>1. obj' \in {taskCache, [taskCache EXCEPT !.meta.finalizer = TRUE],
                  WithPhase(taskCache, "Suspended"), WithPhase(taskCache, "Pending"),
                  WithPhase(taskCache, "Failed")}
    BY <1>2 DEF Begins
  <2>2. [taskCache EXCEPT !.meta.finalizer = TRUE].meta.longName = taskCache.meta.longName
    BY <1>1, NameKept
  <2>3. \A p \in Phases : WithPhase(taskCache, p).meta = taskCache.meta
    BY <1>1, PhaseSet
  <2> QED
    BY <1>1, <2>1, <2>2, <2>3
<1>3. ASSUME Moves PROVE obj'.meta.longName = obj.meta.longName
  <2>1. CASE obj' = obj \/ obj' = WithPhase(obj, "Failed")
    BY <1>1, <2>1, PhaseSet
  <2>2. CASE obj' = [obj EXCEPT !.status.active = Append(@, now)]
    <3> DEFINE u == [obj EXCEPT !.status.active = Append(@, now)]
    <3>1. u.meta = obj.meta
      BY <1>1, ActiveSet
    <3>2. obj' = u
      BY <2>2
    <3> HIDE DEF u
    <3> QED
      BY <3>1, <3>2
  <2>3. CASE obj' = [obj EXCEPT !.meta.finalizer = FALSE]
    BY <1>1, <2>3, NameKept
  <2>4. CASE \E fresh \in SetToSeqs(Unrecorded(obj, jobCache)),
                active \in SetToSeqs(Unfinished(jobCache)) :
             \E completion \in Completions(obj, jobCache, fresh) :
                obj' = SyncedTask(obj, jobCache, fresh, active, completion)
    <3>1. PICK fresh \in SetToSeqs(Unrecorded(obj, jobCache)),
               active \in SetToSeqs(Unfinished(jobCache)) :
             \E completion \in Completions(obj, jobCache, fresh) :
                obj' = SyncedTask(obj, jobCache, fresh, active, completion)
      BY <2>4
    <3>2. PICK completion \in Completions(obj, jobCache, fresh) :
                obj' = SyncedTask(obj, jobCache, fresh, active, completion)
      BY <3>1
    <3> QED
      BY <1>1, <3>2, SyncedSet
  <2> QED
    BY <1>3, <2>1, <2>2, <2>3, <2>4 DEF Moves
<1> QED
  BY <1>2, <1>3

\* A Task becomes sound by no step.
LEMMA SettledStep ==
    ASSUME SpecsStand, CopiesTyped, Versions, Settled, [Next]_vars
    PROVE  Settled' /\ (Sound(task') => Sound(task))
<1>0. obj \in Task /\ now \in Seconds /\ "Failed" \in Phases
  BY DEF CopiesTyped, Phases, Terminal
<1>1. ASSUME task'.spec.valid = task.spec.valid, task'.meta.longName = task.meta.longName,
             "reconciler" \in current' => obj'.meta.longName = task'.meta.longName
      PROVE  Settled' /\ (Sound(task') => Sound(task))
  BY <1>1 DEF Settled, Sound
<1>2. CASE Stays \/ Ends \/ Learns \/ Restarts
  BY <1>1, <1>2 DEF Stays, Ends, Learns, Restarts, Settled
<1>3. CASE Begins
  <2>1. pc = "idle" /\ UNCHANGED <<task, taskCache>>
        /\ current' = IF "cache" \in current THEN current \cup {"reconciler"} ELSE current
    BY <1>3 DEF Begins
  <2>2. "reconciler" \in current' => taskCache = task
    BY <2>1 DEF Versions
  <2> QED
    BY <1>1, <1>3, <2>1, <2>2, NameFollows
<1>4. CASE Moves
  <2>1. UNCHANGED <<task, current>>
    BY <1>4 DEF Moves
  <2> QED
    BY <1>1, <1>4, <2>1, NameFollows DEF Settled
<1>5. CASE WritesLast
  <2>1. Accepted /\ task' = (IF pc = "record" THEN StartedTask(obj) ELSE obj)
        /\ "reconciler" \notin current'
    BY <1>5 DEF WritesLast
  <2>2. task'.meta = obj.meta /\ task'.spec = obj.spec
    BY <1>0, <2>1, StartedSet
  <2>3. obj.spec = task.spec /\ obj.meta.longName = task.meta.longName
    BY <2>1 DEF Accepted, Versions, Settled
  <2> QED
    BY <1>1, <2>1, <2>2, <2>3
<1>6. CASE WritesOn
  <2>1. Accepted /\ task' = obj
    BY <1>6 DEF WritesOn
  <2>2. obj.spec = task.spec /\ obj.meta.longName = task.meta.longName
    BY <2>1 DEF Accepted, Versions, Settled
  <2>3. "reconciler" \in current' => obj'.meta = obj.meta
    BY <1>6, WritesOnKeep
  <2> QED
    BY <1>1, <2>1, <2>2, <2>3
<1>7. CASE Serves /\ (UserStep \/ TriggerStatus)
  <2>1. Handles(task') /\ UNCHANGED <<pc, obj>>
    BY <1>7, ServesFit DEF Handles
  <2>2. "reconciler" \in current' => task' = task /\ "reconciler" \in current
    BY <2>1, HandlesCurrent
  <2>3. "reconciler" \in current' => obj'.meta.longName = task'.meta.longName
    BY <2>1, <2>2 DEF Settled
  <2>4. CASE task'.spec.valid = task.spec.valid
    BY <1>1, <1>7, <2>3, <2>4, RequestKeeps
  <2>5. CASE "update" \in Requests /\ \E s \in Specs : task'.spec.valid = s.valid
    <3>1. task.spec.valid /\ task'.spec.valid
      BY <2>5 DEF Settled, SpecsStand
    <3> QED
      BY <1>1, <1>7, <2>3, <3>1, RequestKeeps
  <2> QED
    BY <1>7, <2>4, <2>5, RequestKeeps
<1> QED
  BY <1>2, <1>3, <1>4, <1>5, <1>6, <1>7, StepSources
\* Only an unsound Task gets phase Failed from the checks; the other write
\* that ends a reconcile early stores Suspended.
LEMMA FailsUnsound ==
    ASSUME CopiesTyped, [Next]_vars, pc' = "write", pc # "write"
    PROVE  obj'.status.phase \notin Terminal \/ ~Sound(obj')
<1>1. obj \in Task /\ taskCache \in Task /\ {"Failed", "Suspended"} \subseteq Phases
      /\ "Suspended" \notin Terminal
  BY DEF CopiesTyped, Phases, Terminal
<1>2. ASSUME NEW t \in Task, NEW copies, Dispatch(t, copies)
      PROVE  ~Sound(obj')
  <2>1. obj' = WithPhase(t, "Failed") /\ ~Sound(t)
    BY <1>2 DEF Dispatch, Return, Continue, Sound
  <2> QED
    BY <1>1, <2>1, PhaseSet DEF Sound
<1>3. CASE Reconcile
  <2> DEFINE copies == IF "cache" \in current THEN current \cup {"reconciler"} ELSE current
  <2>1. \/ Dispatch(taskCache, copies)
        \/ obj' = WithPhase(taskCache, "Suspended")
    BY <1>3 DEF Reconcile, HandleSuspend, Continue, recVars
  <2> HIDE DEF copies
  <2>2. WithPhase(taskCache, "Suspended").status.phase = "Suspended"
    BY <1>1, PhaseSet
  <2> QED
    BY <1>1, <1>2, <2>1, <2>2
<1>4. CASE WriteResume
  BY <1>1, <1>2, <1>4 DEF WriteResume
<1>5. CASE Schedule
  <2>1. obj' = WithPhase(obj, "Failed") /\ ~obj.spec.valid
    BY <1>5 DEF Schedule, Continue, Return
  <2> QED
    BY <1>1, <2>1, PhaseSet DEF Sound
<1>6. ~WriteRejected /\ ~WriteAndReturn /\ ~WriteCronSync /\ ~JobExists /\ ~SyncJobStatus
      /\ ~ReplaceJob /\ ~CreateJob /\ ~RecordStart /\ ~ListForDeletion /\ ~DeleteJob
      /\ ~FinishDeletion
  BY SMTT(30) DEF WriteRejected, WriteAndReturn, WriteCronSync, JobExists, SyncJobStatus, ReplaceJob,
         CreateJob, RecordStart, ListForDeletion, DeleteJob, FinishDeletion,
         ReturnError, Return, Continue, GoOn
<1>7. ~UserStep /\ ~TriggerStatus
  BY DEF UserStep, SuspendTask, ResumeTask, UpdateTask, DeleteTask, TriggerTask, Request,
         TriggerStatus, recVars
<1>8. ~JobStep
  BY DEF JobStep, PodStarts, PodFails, JobCompletes, JobFails, TTLExpires, CollectJob,
         JobChange, recVars
<1>9. ~RefreshTask /\ ~RefreshJobs /\ ~TimerFires /\ ~Tick /\ ~CallFails /\ ~Crash
  BY DEF RefreshTask, RefreshJobs, TimerFires, Tick, CallFails, Crash, ReturnError, Return,
         recVars
<1>10. [Next]_vars => Next
  BY DEF vars
<1> QED
  BY <1>3, <1>4, <1>5, <1>6, <1>7, <1>8, <1>9, <1>10 DEF Next, ReconcilerStep

\* What a reconcile may store says that an ended execution has no active Job.
LEMMA PhaseClearedStep ==
    ASSUME SpecsStand, CopiesTyped, Versions, Versions', Settled, PhaseCleared, [Next]_vars
    PROVE  PhaseCleared'
<1>0. Settled' /\ (Sound(task') => Sound(task))
  BY SettledStep
<1> SUFFICES ASSUME Sound(task')
             PROVE  /\ Cleared(task')
                    /\ ("reconciler" \in current' /\ pc' # "record") => Cleared(obj')
  BY DEF PhaseCleared
<1>1. /\ obj \in Task /\ taskCache \in Task /\ task \in Task /\ now \in Seconds
      /\ jobCache \in [Seconds -> Job]
      /\ {"Failed", "Suspended", "Pending"} \subseteq Phases
      /\ {"Suspended", "Pending", "Running"} \cap Terminal = {}
  BY DEF CopiesTyped, Phases, Terminal
<1>2. /\ Cleared(task)
      /\ ("reconciler" \in current /\ pc # "record") => Cleared(obj)
  BY <1>0 DEF PhaseCleared
<1>3. "reconciler" \in current' /\ pc' = "write" /\ pc # "write" => Cleared(obj')
  <2> SUFFICES ASSUME "reconciler" \in current', pc' = "write", pc # "write" PROVE Cleared(obj')
    OBVIOUS
  <2>1. obj'.spec = task'.spec /\ obj'.meta.longName = task'.meta.longName
    BY <1>0 DEF Versions, Settled
  <2>2. Sound(obj')
    BY <2>1 DEF Sound
  <2> QED
    BY <2>2, FailsUnsound DEF Cleared
<1>4. CASE Stays \/ Ends \/ Learns \/ Restarts
  BY <1>2, <1>4 DEF Stays, Ends, Learns, Restarts
<1>5. CASE Begins
  <2>1. pc = "idle" /\ UNCHANGED <<task, taskCache>>
        /\ current' = IF "cache" \in current THEN current \cup {"reconciler"} ELSE current
    BY <1>5 DEF Begins
  <2>2. "reconciler" \in current' => taskCache = task
    BY <2>1 DEF Versions
  <2>3. obj' \in {taskCache, [taskCache EXCEPT !.meta.finalizer = TRUE],
                  WithPhase(taskCache, "Pending")} \/ pc' = "write"
    BY <1>5 DEF Begins
  <2>4. [taskCache EXCEPT !.meta.finalizer = TRUE].status = taskCache.status
    BY <1>1, FinalizerSet
  <2>5. WithPhase(taskCache, "Pending").status.phase = "Pending"
    BY <1>1, PhaseSet
  <2>6. "reconciler" \in current' /\ pc' # "write" => Cleared(obj')
    BY <1>1, <1>2, <2>2, <2>3, <2>4, <2>5 DEF Cleared
  <2> QED
    BY <1>2, <1>3, <2>1, <2>6
<1>6. CASE Moves
  <2>1. UNCHANGED <<task, current>> /\ pc \notin {"record", "write"}
    BY <1>6 DEF Moves
  <2>2. CASE obj' = obj
    BY <1>2, <2>1, <2>2
  <2>3. CASE pc' = "write" \/ pc' = "record"
    BY <1>2, <1>3, <2>1, <2>3
  <2>4. CASE obj' = [obj EXCEPT !.meta.finalizer = FALSE]
    <3>1. obj'.status = obj.status
      BY <1>1, <2>4, FinalizerSet
    <3> QED
      BY <1>2, <2>1, <3>1 DEF Cleared
  <2>5. CASE \E fresh \in SetToSeqs(Unrecorded(obj, jobCache)),
                active \in SetToSeqs(Unfinished(jobCache)) :
             \E completion \in Completions(obj, jobCache, fresh) :
                obj' = SyncedTask(obj, jobCache, fresh, active, completion)
    <3>1. PICK fresh \in SetToSeqs(Unrecorded(obj, jobCache)),
               active \in SetToSeqs(Unfinished(jobCache)) :
             \E completion \in Completions(obj, jobCache, fresh) :
                obj' = SyncedTask(obj, jobCache, fresh, active, completion)
      BY <2>5
    <3>2. PICK completion \in Completions(obj, jobCache, fresh) :
                obj' = SyncedTask(obj, jobCache, fresh, active, completion)
      BY <3>1
    <3>3. Cleared(SyncedTask(obj, jobCache, fresh, active, completion))
      BY <1>1, SyncedActive
    <3> QED
      BY <1>2, <2>1, <3>2, <3>3
  <2> QED
    BY <1>6, <2>2, <2>3, <2>4, <2>5 DEF Moves
<1>7. CASE WritesLast
  <2>1. Accepted /\ task' = (IF pc = "record" THEN StartedTask(obj) ELSE obj)
        /\ "reconciler" \notin current'
    BY <1>7 DEF WritesLast
  <2>2. CASE pc = "record"
    BY <1>1, <2>1, <2>2, StartedSet DEF Cleared
  <2>3. CASE pc # "record"
    BY <1>2, <2>1, <2>3 DEF Accepted
  <2> QED
    BY <2>1, <2>2, <2>3
<1>8. CASE WritesOn
  <2>1. Accepted /\ task' = obj /\ pc \in {"syncWrite", "resume"}
    BY <1>8 DEF WritesOn
  <2>2. \/ "reconciler" \notin current' \/ obj' = obj \/ pc' = "write"
    BY <1>8 DEF WritesOn
  <2> QED
    BY <1>2, <1>3, <2>1, <2>2 DEF Accepted
<1>9. CASE Serves /\ (UserStep \/ TriggerStatus)
  <2>1. Handles(task') /\ UNCHANGED <<pc, obj>>
    BY <1>9, ServesFit DEF Handles
  <2>2. "reconciler" \in current' => "reconciler" \in current
    BY <2>1, HandlesCurrent
  <2>3. Cleared(task')
    BY <1>2, <1>9, RequestKeeps DEF Cleared
  <2> QED
    BY <1>2, <2>1, <2>2, <2>3
<1> QED
  BY <1>4, <1>5, <1>6, <1>7, <1>8, <1>9, StepSources

-----------------------------------------------------------------------------
(* The history and the number of Jobs.                                     *)

\* A history that names Jobs of N once has at most as many records as N.
LEMMA DistinctShort ==
    ASSUME NEW h \in Seq(ExecutionRecord), NEW N \in SUBSET Seconds, Distinct(h, N)
    PROVE  Len(h) <= Cardinality(N)
<1> DEFINE f == [i \in 1..Len(h) |-> h[i].job]
<1>1. IsFiniteSet(N) /\ Cardinality(N) \in Nat
  BY InstantsFinite
<1>2. f \in [1..Len(h) -> N] /\ (\A a, b \in 1..Len(h) : f[a] = f[b] => a = b)
  BY DEF Distinct
<1> HIDE DEF f
<1>3. f \in Injection(1..Len(h), N)
  BY <1>2, Fun_IsInj
<1>4. Cardinality(1..Len(h)) <= Cardinality(N)
  BY <1>1, <1>3, FS_Injection
<1>5. Len(h) \in Nat /\ Len(h) \in Int /\ 1 \in Int
  OBVIOUS
<1>6. Cardinality(1..Len(h)) = IF 1 > Len(h) THEN 0 ELSE Len(h) - 1 + 1
  BY <1>5, FS_Interval
<1> QED
  BY <1>1, <1>4, <1>5, <1>6

\* Records of other Jobs of N may be added.
LEMMA DistinctJoined ==
    ASSUME NEW h \in Seq(ExecutionRecord), NEW s \in Seq(ExecutionRecord), NEW N,
           Distinct(h, N), Distinct(s, N),
           \A i \in DOMAIN h : \A k \in DOMAIN s : h[i].job # s[k].job
    PROVE  Distinct(h \o s, N)
<1> DEFINE g == h \o s
<1>1. /\ Len(h) \in Nat /\ Len(s) \in Nat
      /\ DOMAIN h = 1..Len(h) /\ DOMAIN s = 1..Len(s)
      /\ DOMAIN g = 1..(Len(h) + Len(s))
      /\ \A i \in DOMAIN g : g[i] = IF i <= Len(h) THEN h[i] ELSE s[i - Len(h)]
  OBVIOUS
<1> HIDE DEF g
<1>2. ASSUME NEW i \in DOMAIN g
      PROVE  \/ i \in DOMAIN h /\ g[i] = h[i]
             \/ i \notin DOMAIN h /\ i - Len(h) \in DOMAIN s /\ g[i] = s[i - Len(h)]
  BY <1>1
<1>3. \A i \in DOMAIN g : g[i].job \in N
  BY <1>2 DEF Distinct
<1>4. ASSUME NEW i \in DOMAIN g, NEW k \in DOMAIN g, g[i].job = g[k].job
      PROVE  i = k
  <2>1. CASE i \in DOMAIN h /\ k \in DOMAIN h
    BY <1>2, <1>4, <2>1 DEF Distinct
  <2>2. CASE i \notin DOMAIN h /\ k \notin DOMAIN h
    <3>1. i - Len(h) = k - Len(h)
      BY <1>2, <1>4, <2>2 DEF Distinct
    <3> QED
      BY <1>1, <3>1
  <2>3. CASE i \in DOMAIN h /\ k \notin DOMAIN h
    BY <1>2, <1>4, <2>3
  <2>4. CASE i \notin DOMAIN h /\ k \in DOMAIN h
    BY <1>2, <1>4, <2>4
  <2> QED
    BY <2>1, <2>2, <2>3, <2>4
<1>5. Distinct(g, N)
  BY <1>3, <1>4 DEF Distinct
<1> QED
  BY <1>5 DEF g

\* What is left of a history when old records are dropped.
LEMMA DistinctTrimmed ==
    ASSUME NEW h \in Seq(ExecutionRecord), NEW N, Distinct(h, N)
    PROVE  Distinct(Trim(h), N)
<1>1. CASE Len(h) <= HistoryLimit
  BY <1>1, TaskConstants DEF Trim
<1>2. CASE Len(h) > HistoryLimit
  <2> DEFINE d == Len(h) - HistoryLimit
             g == SubSeq(h, d + 1, Len(h))
  <2>1. HistoryLimit \in Nat \ {0} /\ Len(h) \in Nat /\ DOMAIN h = 1..Len(h)
    BY TaskConstants
  <2>2. d \in Nat /\ d < Len(h) /\ Trim(h) = g
    BY <1>2, <2>1 DEF Trim
  <2>3. DOMAIN g = 1..(Len(h) - d) /\ \A i \in 1..(Len(h) - d) : g[i] = h[d + i]
    <3> HIDE DEF d
    <3> QED
      BY <2>1, <2>2
  <2> HIDE DEF g, d
  <2>4. \A i \in DOMAIN g : i \in Nat /\ d + i \in DOMAIN h /\ g[i] = h[d + i]
    BY <2>1, <2>2, <2>3
  <2>5. \A i \in DOMAIN g : g[i].job \in N
    BY <2>4 DEF Distinct
  <2>6. ASSUME NEW i \in DOMAIN g, NEW k \in DOMAIN g, g[i].job = g[k].job
        PROVE  i = k
    <3>1. d + i = d + k
      BY <2>4, <2>6 DEF Distinct
    <3> QED
      BY <2>2, <2>4, <3>1
  <2> QED
    BY <2>2, <2>5, <2>6 DEF Distinct
<1> QED
  BY <1>1, <1>2, TaskConstants

\* A report keeps the history one of ended Jobs, each named once.
LEMMA ReportDistinct ==
    ASSUME IInv, Distinct(task.status.history, EndedNames), Ledger!Report
    PROVE  Distinct(task'.status.history, EndedNames)
<1> DEFINE h == task.status.history
<1>1. h \in Seq(ExecutionRecord) /\ DOMAIN h = 1..Len(h)
  BY Fields DEF IInv, CopiesTyped
<1>2. PICK R \in SUBSET Ledger!Unreported :
        /\ \A r, s \in R : r.job = s.job => r = s
        /\ \E s \in Ledger!SetToSeqs(R) : task'.status.history = Ledger!Latest(h \o s)
  BY DEF Ledger!Report
<1>3. PICK s \in SetToSeqs(R) : task'.status.history = Ledger!Latest(h \o s)
  BY <1>2, SameOperators
<1>4. \A r \in R : /\ r \in ExecutionRecord /\ r.job \in EndedNames
                   /\ \A i \in DOMAIN h : h[i].job # r.job
  BY DEF Ledger!Unreported, ExecutionRecord, Terminal, EndedNames
<1>5. IsFiniteSet(R)
  <2> DEFINE f == [r \in R |-> r.job]
  <2>1. f \in [R -> Seconds] /\ (\A r, t \in R : f[r] = f[t] => r = t)
    BY <1>2, <1>4 DEF ExecutionRecord
  <2> HIDE DEF f
  <2>2. f \in Injection(R, Seconds)
    BY <2>1, Fun_IsInj
  <2> QED
    BY <2>2, InstantsFinite, FS_Injection
<1>6. Cardinality(R) \in Nat
  BY <1>5, FS_CardinalityType
<1>7. s \in [1..Cardinality(R) -> R]
      /\ \A i, k \in 1..Cardinality(R) : i # k => s[i] # s[k]
  BY DEF SetToSeqs
<1>8. s \in Seq(ExecutionRecord) /\ DOMAIN s = 1..Cardinality(R)
  <2>1. \A i \in 1..Cardinality(R) : s[i] \in ExecutionRecord
    BY <1>4, <1>7
  <2>2. s \in [1..Cardinality(R) -> ExecutionRecord]
    BY <1>7, <2>1
  <2> QED
    BY <1>6, <2>2
<1>9. Distinct(s, EndedNames)
  BY <1>2, <1>4, <1>7, <1>8 DEF Distinct
<1>10. \A i \in DOMAIN h : \A k \in DOMAIN s : h[i].job # s[k].job
  BY <1>4, <1>7, <1>8
<1>11. Distinct(h, EndedNames)
  OBVIOUS
<1> HIDE DEF h
<1>13. h \o s \in Seq(ExecutionRecord)
  BY <1>1, <1>8
<1>14. Distinct(h \o s, EndedNames)
  BY <1>1, <1>8, <1>9, <1>10, <1>11, DistinctJoined
<1>12. task'.status.history = Trim(h \o s)
  BY <1>3 DEF Ledger!Latest, Trim
<1> QED
  BY <1>12, <1>13, <1>14, DistinctTrimmed

\* Every Job that ended or is there was created, and has one record at most.
LEMMA CountedStep ==
    ASSUME IInv, LedgerTrue, Counted, [Next]_vars
    PROVE  Counted'
<1> DEFINE N == EndedNames \cup Present(jobs)
<1>1. CopiesTyped /\ QueueTyped /\ now \in Seconds
      /\ outcomes \in [Seconds -> SUBSET [phase: Terminal, end: Seconds]]
  BY DEF IInv, CopiesTyped, QueueTyped
<1>2. EndedNames \subseteq EndedNames'
  BY <1>1, OutcomesGrow DEF EndedNames
<1>3. N \in SUBSET Seconds /\ N' \in SUBSET Seconds
  BY DEF EndedNames, Present
<1>4. IsFiniteSet(N) /\ Cardinality(N) \in Nat /\ created \in Nat
  BY <1>1, <1>3, InstantsFinite, TaskConstants DEF QueueTyped
<1>5. Cardinality(N') <= created'
  <2>1. ASSUME N' \subseteq N, UNCHANGED created PROVE Cardinality(N') <= created'
    <3>1. Cardinality(N') <= Cardinality(N) /\ Cardinality(N') \in Nat
      BY <1>3, <1>4, <2>1, FS_Subset, InstantsFinite
    <3> QED
      BY <1>4, <2>1, <3>1 DEF Counted
  <2>2. CASE Creates
    <3>1. N' = N \cup {now} /\ created' = created + 1
      BY <1>1, <2>2, PresentAfter DEF Creates, EndedNames
    <3>5. Cardinality(N) <= created
      BY DEF Counted
    <3> HIDE DEF N
    <3>2. Cardinality(N \cup {now}) \in {Cardinality(N), Cardinality(N) + 1}
      BY <1>4, FS_AddElement
    <3>3. Cardinality(N \cup {now}) <= created + 1
      BY <1>4, <3>2, <3>5
    <3> QED
      BY <3>1, <3>3
  <2>3. CASE ~Creates /\ (UNCHANGED <<jobs, created, outcomes>> \/ \E j \in Seconds : Removes(j))
    <3>1. UNCHANGED <<created, outcomes>> /\ Present(jobs') \subseteq Present(jobs)
      BY <1>1, <2>3, PresentAfter DEF Removes
    <3> QED
      BY <2>1, <3>1 DEF EndedNames
  <2>4. CASE ~Creates /\ \E j \in Seconds : Progresses(j)
    <3>1. PICK j \in Seconds : Progresses(j)
      BY <2>4
    <3>2. UNCHANGED created /\ j \in Present(jobs) /\ Present(jobs') \subseteq Present(jobs)
      BY <1>1, <2>4, <3>1, PresentAfter DEF Progresses
    <3>3. UNCHANGED outcomes \/ \E o : outcomes' = [outcomes EXCEPT ![j] = @ \cup {o}]
      BY <3>1 DEF Progresses
    <3>4. EndedNames' \subseteq EndedNames \cup {j}
      BY <1>1, <3>3 DEF EndedNames
    <3> QED
      BY <2>1, <3>2, <3>4
  <2> QED
    BY <1>1, <2>2, <2>3, <2>4, JobKinds DEF QueueTyped
<1>6. Distinct(task'.status.history, EndedNames)
  <2>1. CASE Ledger!Report
    BY <2>1, ReportDistinct DEF Counted
  <2>2. CASE task'.status.history = task.status.history
    BY <2>2 DEF Counted
  <2> QED
    BY <2>1, <2>2, LedgerStep DEF Ledger!Next, Ledger!End, Ledger!status, Ledger!evars
<1>7. Distinct(task'.status.history, EndedNames')
  BY <1>2, <1>6 DEF Distinct
<1> QED
  BY <1>5, <1>7 DEF Counted

\* A listing of a set of instants lists all of it.
LEMMA ListingAll ==
    ASSUME NEW S \in SUBSET Seconds, NEW f \in SetToSeqs(S)
    PROVE  ToSet(f) = S
<1>1. f \in [1..Cardinality(S) -> S] /\ DOMAIN f = 1..Cardinality(S)
      /\ (\A a, b \in DOMAIN f : f[a] = f[b] => a = b)
  BY ListingFits
<1>2. Cardinality(S) \in Nat /\ IsFiniteSet(S)
  BY InstantsFinite
<1>3. f \in Injection(1..Cardinality(S), S)
  BY <1>1, Fun_IsInj
<1>4. Cardinality(1..Cardinality(S)) = Cardinality(S)
  <2>1. Cardinality(S) \in Int /\ 1 \in Int
    BY <1>2
  <2>2. Cardinality(1..Cardinality(S)) = IF 1 > Cardinality(S) THEN 0 ELSE Cardinality(S) - 1 + 1
    BY <2>1, FS_Interval
  <2> QED
    BY <1>2, <2>2
<1>5. f \in Surjection(1..Cardinality(S), S)
  BY <1>2, <1>3, <1>4, FS_Injection
<1>6. \A x \in S : \E i \in DOMAIN f : f[i] = x
  BY <1>1, <1>5 DEF Surjection
<1> QED
  BY <1>1, <1>6 DEF ToSet

\* Joining two histories loses no record.
LEMMA RecordedJoined ==
    ASSUME NEW h \in Seq(ExecutionRecord), NEW s \in Seq(ExecutionRecord), NEW j,
           Recorded(h, j) \/ Recorded(s, j)
    PROVE  Recorded(h \o s, j)
<1> DEFINE g == h \o s
<1>1. /\ Len(h) \in Nat /\ Len(s) \in Nat
      /\ DOMAIN h = 1..Len(h) /\ DOMAIN s = 1..Len(s)
      /\ DOMAIN g = 1..(Len(h) + Len(s))
      /\ \A i \in DOMAIN g : g[i] = IF i <= Len(h) THEN h[i] ELSE s[i - Len(h)]
  OBVIOUS
<1> HIDE DEF g
<1>2. CASE Recorded(h, j)
  <2>1. PICK i \in DOMAIN h : h[i].job = j
    BY <1>2 DEF Recorded
  <2>2. i \in DOMAIN g /\ g[i] = h[i]
    BY <1>1
  <2> QED
    BY <2>1, <2>2 DEF Recorded, g
<1>3. CASE Recorded(s, j)
  <2>1. PICK i \in DOMAIN s : s[i].job = j
    BY <1>3 DEF Recorded
  <2> DEFINE d == Len(h)
             e == Len(s)
  <2>4. d \in Nat /\ e \in Nat /\ i \in 1..e /\ DOMAIN g = 1..(d + e)
    BY <1>1
  <2> HIDE DEF d, e
  <2>5. d + i \in 1..(d + e) /\ ~(d + i <= d) /\ (d + i) - d = i
    BY <2>4
  <2>2. Len(h) + i \in DOMAIN g /\ ~(Len(h) + i <= Len(h)) /\ (Len(h) + i) - Len(h) = i
    BY <2>4, <2>5 DEF d
  <2>3. g[Len(h) + i] = s[i]
    BY <1>1, <2>2
  <2> QED
    BY <2>1, <2>2, <2>3 DEF Recorded, g
<1> QED
  BY <1>2, <1>3

\* While no record has been dropped, syncJobStatus makes the status match the
\* Jobs it lists.
LEMMA SyncMatches ==
    ASSUME IInv, LedgerTrue, Counted, obj = task,
           NEW fresh \in SetToSeqs(Unrecorded(obj, jobCache)),
           NEW active \in SetToSeqs(Unfinished(jobCache)),
           NEW completion \in Completions(obj, jobCache, fresh),
           NEW u, u = SyncedTask(obj, jobCache, fresh, active, completion)
    PROVE  Matches(u, jobCache)
<1> DEFINE h == task.status.history
           added == Added(jobCache, fresh)
           new == Unrecorded(obj, jobCache)
<1>0. obj \in Task /\ jobCache \in [Seconds -> Job]
  BY DEF IInv, CopiesTyped
<1>1. /\ obj \in Task /\ jobCache \in [Seconds -> Job]
      /\ h \in Seq(ExecutionRecord) /\ DOMAIN h = 1..Len(h)
  BY Fields DEF IInv, CopiesTyped
<1>2. u.status.active = active /\ u.status.history = Trim(h \o added)
  <2>1. /\ u.status.active = active
        /\ u.status.history = Trim(obj.status.history \o Added(jobCache, fresh))
    BY <1>0, SyncedActive
  <2> QED
    BY <2>1
<1>3. ToSet(active) = Unfinished(jobCache)
  <2>1. Unfinished(jobCache) \in SUBSET Seconds
    BY DEF Unfinished, Present
  <2> QED
    BY <2>1, ListingAll
<1>4. ASSUME created <= HistoryLimit, NEW j \in Present(jobCache) \ Unfinished(jobCache)
      PROVE  Recorded(u.status.history, j)
  <2>1. new \in SUBSET Seconds
    BY DEF Unrecorded, Present
  <2>2. /\ fresh \in [1..Cardinality(new) -> new] /\ DOMAIN fresh = 1..Cardinality(new)
        /\ \A a, b \in DOMAIN fresh : fresh[a] = fresh[b] => a = b
    BY <2>1, ListingFits
  <2>3. added \in Seq(ExecutionRecord) /\ DOMAIN added = 1..Cardinality(new)
        /\ DOMAIN added = 1..Len(added)
        /\ \A i \in DOMAIN added : added[i].job = fresh[i]
    <3>1. added \in Seq(ExecutionRecord)
      BY <1>1, AddedFits
    <3>2. DOMAIN added = DOMAIN fresh /\ \A i \in DOMAIN added : added[i].job = fresh[i]
      BY DEF Added
    <3> HIDE DEF added, new
    <3> QED
      BY <2>2, <3>1, <3>2
  <2>4. \A k \in new : k \in EndedNames /\ \A i \in DOMAIN h : h[i].job # k
    <3> SUFFICES ASSUME NEW k \in new
                 PROVE  k \in EndedNames /\ \A i \in DOMAIN h : h[i].job # k
      OBVIOUS
    <3>1. k \in Seconds /\ JobTransitioned(jobCache[k]) /\ ~Recorded(h, k)
      BY DEF Unrecorded, Present
    <3>2. outcomes[k] # {}
      BY <3>1 DEF LedgerTrue, EndsTrue
    <3> QED
      BY <3>1, <3>2 DEF EndedNames, Recorded
  <2>5. Distinct(added, EndedNames)
    BY <2>2, <2>3, <2>4 DEF Distinct
  <2>6. Distinct(h, EndedNames) /\ Cardinality(EndedNames \cup Present(jobs)) <= created
    BY DEF Counted
  <2>7. \A i \in DOMAIN h : \A k \in DOMAIN added : h[i].job # added[k].job
    BY <2>2, <2>3, <2>4
  <2>8. Recorded(h, j) \/ \E k \in DOMAIN added : added[k].job = j
    <3>1. Recorded(h, j) \/ j \in new
      BY DEF Unrecorded, Unfinished
    <3>2. ToSet(fresh) = new
      BY <2>1, ListingAll
    <3> QED
      BY <2>3, <2>2, <3>1, <3>2 DEF ToSet
  <2> HIDE DEF h, added, new
  <2>9. Distinct(h \o added, EndedNames) /\ h \o added \in Seq(ExecutionRecord)
    <3>1. h \o added \in Seq(ExecutionRecord)
      BY <1>1, <2>3
    <3>2. Distinct(h \o added, EndedNames)
      BY <1>1, <2>3, <2>5, <2>6, <2>7, DistinctJoined
    <3> QED
      BY <3>1, <3>2
  <2>10. Len(h \o added) <= HistoryLimit
    <3>1. EndedNames \in SUBSET Seconds /\ EndedNames \cup Present(jobs) \in SUBSET Seconds
      BY DEF EndedNames, Present
    <3>2. Len(h \o added) <= Cardinality(EndedNames)
      BY <2>9, <3>1, DistinctShort
    <3>3. Cardinality(EndedNames) <= Cardinality(EndedNames \cup Present(jobs))
          /\ Cardinality(EndedNames) \in Nat /\ Cardinality(EndedNames \cup Present(jobs)) \in Nat
      BY <3>1, InstantsFinite, FS_Subset
    <3>4. created \in Nat /\ HistoryLimit \in Nat /\ Len(h \o added) \in Nat
      BY <2>9, TaskConstants DEF IInv, QueueTyped
    <3> QED
      BY <1>4, <2>6, <3>2, <3>3, <3>4
  <2>11. u.status.history = h \o added
    <3>1. Len(h \o added) \in Nat /\ HistoryLimit \in Nat
      BY <2>9, TaskConstants
    <3> QED
      BY <1>2, <2>10, <3>1 DEF Trim, h, added
  <2>12. Recorded(h \o added, j)
    BY <1>1, <2>3, <2>8, RecordedJoined, ZenonT(40) DEF Recorded
  <2> QED
    BY <2>11, <2>12
<1> QED
  BY <1>2, <1>3, <1>4 DEF Matches

-----------------------------------------------------------------------------
(* What wakes up the reconciler.                                           *)

\* A delayed requeue leaves a deadline.
LEMMA RequeueSets ==
    ASSUME NEW t \in Nat, timer \in Nat \cup {None}, RequeueAt(t)
    PROVE  timer' # None
BY DEF RequeueAt, None

\* Unless a reconcile starts, whoever changes the Task, the Job cache or the
\* deadline leaves a key in the queue, a deadline, or an old Task cache.
LEMMA WakesUp ==
    ASSUME IInv, [Next]_vars, ~Reconcile, Unprompted'
    PROVE  /\ ~queued /\ timer = None /\ "cache" \in current
           /\ UNCHANGED <<task, jobCache>>
           /\ ReconcilerStep \/ UNCHANGED <<pc, obj>>
<1>1. ~queued' /\ timer' = None /\ "cache" \in current'
  BY DEF Unprompted
<1>2. /\ obj \in Task /\ now \in Nat /\ timer \in Nat \cup {None} /\ Delay \in Nat
      /\ CopiesTyped
  BY TaskConstants DEF IInv, CopiesTyped, QueueTyped, Seconds
<1>3. CASE RefreshTask \/ RefreshJobs \/ TimerFires \/ Crash
  BY <1>1, <1>3 DEF RefreshTask, RefreshJobs, TimerFires, Crash
<1>4. CASE Tick
  BY <1>1, <1>4 DEF Tick, serverVars, cacheVars, recVars, queueVars
<1>5. CASE JobStep
  <2>1. PICK j \in Seconds : \E job : JobChange(j, job)
    BY <1>5 DEF JobStep, PodStarts, PodFails, JobCompletes, JobFails, TTLExpires, CollectJob
  <2> QED
    BY <1>1, <2>1 DEF JobChange, cacheVars, recVars, queueVars
<1>6. CASE CallFails
  BY <1>1, <1>6 DEF CallFails, ReturnError, cacheVars, queueVars
<1>7. CASE UNCHANGED vars
  BY <1>1, <1>7 DEF vars
<1>8. CASE UserStep \/ TriggerStatus
  <2>1. UNCHANGED <<queued, timer, jobCache, pc, obj>>
    BY <1>8 DEF UserStep, SuspendTask, ResumeTask, UpdateTask, DeleteTask, TriggerTask,
                Request, TriggerStatus, cacheVars, recVars, queueVars
  <2>2. CASE Stays
    BY <1>1, <2>1, <2>2 DEF Stays
  <2>3. CASE Serves
    <3>1. Handles(task')
      BY <1>2, <2>3, ServesFit
    <3> QED
      BY <1>1, <2>1, <3>1, HandlesCurrent
  <2> QED
    BY <1>8, <2>2, <2>3, UserLeads, SMTT(30)
<1>9. CASE ReconcilerStep
  <2>1. UNCHANGED jobCache
    BY <1>9 DEF ReconcilerStep, Reconcile, WriteRejected, WriteAndReturn, WriteResume,
                WriteCronSync, JobExists, SyncJobStatus, Schedule, ReplaceJob, CreateJob,
                RecordStart, ListForDeletion, DeleteJob, FinishDeletion, cacheVars
  <2>2. ~queued
    BY <1>1, <1>9 DEF ReconcilerStep, WriteRejected, WriteAndReturn, WriteResume,
                WriteCronSync, JobExists, SyncJobStatus, Schedule, ReplaceJob, CreateJob,
                RecordStart, ListForDeletion, DeleteJob, FinishDeletion, ReturnError, queueVars
  <2>3. timer = None
    <3>1. CASE Schedule
      <4>1. NextTime(obj) \in Nat /\ NextFiring(now) \in Nat
        BY <1>2, NextTimeFits, FiringFits
      <4>2. UNCHANGED timer \/ RequeueAt(NextTime(obj)) \/ RequeueAt(NextFiring(now))
        BY <3>1 DEF Schedule
      <4> QED
        BY <1>1, <1>2, <4>1, <4>2, RequeueSets
    <3>2. CASE FinishDeletion
      <4>1. now + 2 \in Nat
        BY <1>2
      <4>2. UNCHANGED timer \/ RequeueAt(now + 2)
        BY <3>2 DEF FinishDeletion
      <4> QED
        BY <1>1, <1>2, <4>1, <4>2, RequeueSets
    <3>3. CASE WriteResume
      <4>1. UNCHANGED timer \/ RequeueAt(Delay)
        BY <3>3 DEF WriteResume, Dispatch
      <4> QED
        BY <1>1, <1>2, <4>1, RequeueSets
    <3> QED
      BY <1>1, <1>9, <3>1, <3>2, <3>3 DEF ReconcilerStep, WriteRejected, WriteAndReturn,
                WriteCronSync, JobExists, SyncJobStatus, ReplaceJob, CreateJob,
                RecordStart, ListForDeletion, DeleteJob, ReturnError, queueVars
  <2>4. "cache" \in current /\ UNCHANGED task
    <3>1. Stays \/ Ends \/ Moves \/ WritesLast \/ WritesOn
      BY <1>9, WriteLeads, StepLeads DEF ReconcilerStep
    <3>2. CASE Stays \/ Ends \/ Moves
      BY <1>1, <3>2 DEF Stays, Ends, Moves
    <3>3. CASE WritesLast
      <4>1. "cache" \in CopiesAfter(task', {})
        BY <1>1, <3>3 DEF WritesLast
      <4> QED
        BY <4>1, CurrentAfter
    <3>4. CASE WritesOn
      <4>1. "cache" \in CopiesAfter(task', {"reconciler"})
        BY <1>1, <3>4 DEF WritesOn
      <4> QED
        BY <4>1, CurrentAfter
    <3> QED
      BY <3>1, <3>2, <3>3, <3>4
  <2> QED
    BY <1>9, <2>1, <2>2, <2>3, <2>4
<1> QED
  BY <1>3, <1>4, <1>5, <1>6, <1>7, <1>8, <1>9 DEF Next

\* A reconcile that starts with nothing else pending works on the stored Task.
LEMMA StartsUpToDate ==
    ASSUME IInv, Reconcile, Unprompted'
    PROVE  UpToDate'
<1> DEFINE copies == IF "cache" \in current THEN current \cup {"reconciler"} ELSE current
<1>1. /\ timer' = None /\ "cache" \in current' /\ LeftAlone' /\ Sound(task')
  BY DEF Unprompted
<1>2. UNCHANGED task /\ timer \in Nat \cup {None} /\ Delay \in Nat
  BY TaskConstants DEF Reconcile, serverVars, IInv, QueueTyped
<1>3. "cache" \in current
  <2>1. \A c : Dispatch(taskCache, c) => current' \subseteq c
    BY DEF Dispatch, Return
  <2>2. current' \subseteq copies
    BY <2>1 DEF Reconcile, HandleSuspend, recVars
  <2> QED
    BY <1>1, <2>2
<1>4. taskCache = task /\ task \in Task
  BY <1>3 DEF IInv, Versions, CopiesTyped
<1>5. ~task.meta.deleting /\ ~task.spec.suspend /\ Sound(task)
  BY <1>1, <1>2 DEF LeftAlone
<1>6. \/ /\ ~task.meta.finalizer
         /\ pc' = "update" /\ obj' = [task EXCEPT !.meta.finalizer = TRUE]
      \/ /\ task.status.phase = "Suspended"
         /\ pc' = "resume" /\ obj' = WithPhase(task, "Pending")
      \/ Dispatch(task, copies)
  BY <1>4, <1>5 DEF Reconcile, Exists, BeingDeleted, LacksFinalizer, IsSuspended, Continue
<1>7. CASE ~task.meta.finalizer /\ pc' = "update" /\ obj' = [task EXCEPT !.meta.finalizer = TRUE]
  <2>1. obj'.meta.finalizer
    BY <1>4, <1>7, FinalizerSet
  <2> QED
    BY <1>2, <1>7, <2>1 DEF UpToDate
<1>8. CASE task.status.phase = "Suspended" /\ pc' = "resume" /\ obj' = WithPhase(task, "Pending")
  <2>1. obj'.status.phase = "Pending"
    BY <1>4, <1>8, PhaseSet DEF Phases
  <2> QED
    BY <1>2, <1>8, <2>1 DEF UpToDate
<1>9. CASE Dispatch(task, copies)
  <2>1. ~RequeueAt(Delay)
    BY <1>1, <1>2, RequeueSets
  <2>2. pc' = "exists" /\ obj' = task
    BY <1>5, <1>9, <2>1 DEF Dispatch, Sound, Continue
  <2> QED
    BY <1>2, <2>2 DEF UpToDate
<1> QED
  BY <1>6, <1>7, <1>8, <1>9

\* A reconcile under way, with nothing else pending, stays up to date.
LEMMA UpToDateStep ==
    ASSUME IInv, LedgerTrue, Counted, PhaseCleared, UpToDate, [Next]_vars
    PROVE  UpToDate'
<1> SUFFICES ASSUME Unprompted', ~Reconcile
             PROVE  UpToDate'
  BY StartsUpToDate DEF UpToDate
<1>1. /\ ~queued /\ timer = None /\ "cache" \in current
      /\ UNCHANGED <<task, jobCache>>
      /\ ReconcilerStep \/ UNCHANGED <<pc, obj>>
  BY WakesUp
<1>2. Sound(task) /\ Unprompted /\ ~queued' /\ timer' = None
  BY <1>1 DEF Unprompted, LeftAlone, Exists, Sound
<1>3. /\ pc = "idle" => Matches(task, jobCache)
      /\ pc \in {"exists", "sync", "schedule", "create"} => obj = task
      /\ pc = "syncWrite" => Matches(obj, jobCache)
      /\ pc \in {"update", "resume"} => obj # task
      /\ pc = "record" => Len(obj.status.active) = Len(task.status.active) + 1
      /\ pc \notin {"write", "delete", "deleting"}
  BY <1>2 DEF UpToDate
<1>4. \A t, js : Matches(t, js) => Matches(t, js)'
  <2>1. created \in Nat /\ created' \in {created, created + 1} /\ HistoryLimit \in Nat
    <3>1. UNCHANGED created \/ Creates \/ \E j \in Seconds : Removes(j) \/ Progresses(j)
      BY JobKinds DEF IInv, QueueTyped
    <3> QED
      BY <3>1, TaskConstants DEF IInv, QueueTyped, Creates, Removes, Progresses
  <2>2. created' <= HistoryLimit => created <= HistoryLimit
    BY <2>1
  <2> QED
    BY <2>2 DEF Matches
<1>5. /\ obj \in Task /\ task \in Task /\ now \in Seconds /\ now \in Nat /\ jobCache \in [Seconds -> Job]
      /\ timer \in Nat \cup {None}
  BY TaskConstants DEF IInv, CopiesTyped, QueueTyped, Seconds
<1>6. CASE UNCHANGED <<pc, obj>>
  BY <1>1, <1>3, <1>4, <1>6 DEF UpToDate
<1>7. CASE WriteRejected
  BY <1>2, <1>7 DEF WriteRejected, ReturnError
<1>8. CASE WriteAndReturn
  <2>1. task' = obj /\ pc' = "idle" /\ pc \in {"write", "update", "syncWrite"}
    BY <1>8 DEF WriteAndReturn, Return
  <2>2. pc = "syncWrite" /\ Matches(task, jobCache)
    BY <1>1, <1>3, <2>1
  <2> QED
    BY <1>1, <1>4, <2>1, <2>2 DEF UpToDate
<1>9. CASE WriteResume
  BY <1>1, <1>3, <1>9 DEF WriteResume
<1>10. CASE WriteCronSync
  BY <1>1, <1>10 DEF WriteCronSync, Continue, UpToDate
<1>11. CASE JobExists
  <2>1. obj = task /\ pc = "exists"
    BY <1>3, <1>11 DEF JobExists
  <2>2. CASE pc' \in {"sync", "schedule", "create"} /\ obj' = obj
    BY <1>1, <2>1, <2>2 DEF UpToDate
  <2>3. CASE Return(current) /\ Present(jobCache) = {} /\ ExecutionFinished(obj)
    <3>1. task.status.active = <<>>
      BY <1>2, <2>1, <2>3 DEF PhaseCleared, Cleared, ExecutionFinished
    <3>2. DOMAIN <<>> = {}
      OBVIOUS
    <3>3. ToSet(task.status.active) = {}
      BY <3>1, <3>2 DEF ToSet
    <3>4. Matches(task, jobCache)
      BY <2>3, <3>3 DEF Matches, Unfinished
    <3> QED
      BY <1>1, <1>4, <2>3, <3>4 DEF Return, UpToDate
  <2> QED
    BY <1>11, <2>2, <2>3 DEF JobExists, AnyJob, GoOn
<1>12. CASE SyncJobStatus
  <2>1. obj = task /\ pc = "sync"
    BY <1>3, <1>12 DEF SyncJobStatus
  <2>2. PICK fresh \in SetToSeqs(Unrecorded(obj, jobCache)),
             active \in SetToSeqs(Unfinished(jobCache)) :
          \E completion \in Completions(obj, jobCache, fresh) :
            LET synced == SyncedTask(obj, jobCache, fresh, active, completion)
            IN  \/ pc' = "syncWrite" /\ obj' = synced
                \/ pc' = "schedule" /\ obj' = obj
                \/ pc' = "idle" /\ synced = obj
    BY <1>12 DEF SyncJobStatus, Continue, Return, Dirty
  <2>3. PICK completion \in Completions(obj, jobCache, fresh) :
            LET synced == SyncedTask(obj, jobCache, fresh, active, completion)
            IN  \/ pc' = "syncWrite" /\ obj' = synced
                \/ pc' = "schedule" /\ obj' = obj
                \/ pc' = "idle" /\ synced = obj
    BY <2>2
  <2> DEFINE u == SyncedTask(obj, jobCache, fresh, active, completion)
  <2>4. Matches(u, jobCache)
    BY <2>1, SyncMatches
  <2>5. \/ pc' = "syncWrite" /\ obj' = u
        \/ pc' = "schedule" /\ obj' = obj
        \/ pc' = "idle" /\ u = obj
    BY <2>3
  <2> HIDE DEF u
  <2> QED
    BY <1>1, <1>4, <2>1, <2>4, <2>5 DEF UpToDate
<1>13. CASE Schedule
  <2>1. obj = task /\ pc = "schedule" /\ obj.spec.valid
    BY <1>2, <1>3, <1>13 DEF Schedule, Sound
  <2>2. NextTime(obj) \in Nat /\ NextFiring(now) \in Nat
    BY <1>5, NextTimeFits, FiringFits
  <2>3. ~RequeueAt(NextTime(obj)) /\ ~RequeueAt(NextFiring(now))
    BY <1>2, <1>5, <2>2, RequeueSets
  <2>4. pc' = "create" /\ obj' = obj
    BY <1>13, <2>1, <2>3 DEF Schedule
  <2> QED
    BY <1>1, <2>1, <2>4 DEF UpToDate
<1>14. CASE CreateJob
  <2>1. obj = task /\ pc' = "record" /\ obj' = [obj EXCEPT !.status.active = Append(@, now)]
    BY <1>2, <1>3, <1>14 DEF CreateJob, ReturnError, Continue
  <2> DEFINE u == [obj EXCEPT !.status.active = Append(@, now)]
  <2>2. Len(u.status.active) = Len(obj.status.active) + 1
    BY <1>5, ActiveGrows
  <2>3. obj' = u
    BY <2>1
  <2> HIDE DEF u
  <2> QED
    BY <1>1, <2>1, <2>2, <2>3 DEF UpToDate
<1>15. CASE RecordStart
  <2>1. task' = StartedTask(obj) /\ pc = "record"
    BY <1>15 DEF RecordStart
  <2>2. task'.status.active = obj.status.active
    BY <1>5, <2>1, StartedActive
  <2>3. Len(task.status.active) \in Nat
    BY <1>5, Fields
  <2> QED
    BY <1>1, <1>3, <2>1, <2>2, <2>3
<1>16. CASE ReplaceJob
  BY <1>6, <1>16 DEF ReplaceJob
<1>17. CASE ListForDeletion \/ DeleteJob \/ FinishDeletion
  BY <1>3, <1>17 DEF ListForDeletion, DeleteJob, FinishDeletion
<1> QED
  BY <1>1, <1>6, <1>7, <1>8, <1>9, <1>10, <1>11, <1>12, <1>13, <1>14, <1>15, <1>16, <1>17
     DEF ReconcilerStep

\* With a Task that has just been stored the reconciler is in the queue.
LEMMA StatusInit ==
    ASSUME SpecsStand, Init
    PROVE  StatusInv
<1>1. PICK s \in Specs, b \in BOOLEAN, l \in LongNames : task = NewTask(Suspending(s, b), l)
  BY DEF Init
<1>2. l \in BOOLEAN /\ Suspending(s, b) \in Spec_ /\ Suspending(s, b).valid = s.valid
  BY TaskConstants, SubmittedFits DEF Suspending
<1>3. /\ task.spec.valid = s.valid /\ task.status.phase = "" /\ task.status.history = <<>>
  BY <1>1, <1>2, NewTaskFits
<1>4. LedgerTrue
  BY LedgerTrueInit
<1>5. Settled
  BY <1>3 DEF Init, Settled, SpecsStand
<1>6. PhaseCleared
  BY <1>3 DEF Init, PhaseCleared, Cleared, Terminal
<1>7. Counted
  <2>1. EndedNames = {} /\ Present(jobs) = {}
    BY JobFits DEF Init, EndedNames, Present
  <2>2. DOMAIN <<>> = {}
    OBVIOUS
  <2>3. Distinct(task.status.history, EndedNames)
    BY <1>3, <2>2 DEF Distinct
  <2>4. Cardinality(EndedNames \cup Present(jobs)) = 0
    BY <2>1, FS_EmptySet
  <2> QED
    BY <2>3, <2>4 DEF Counted, Init
<1>8. UpToDate
  BY DEF Init, UpToDate, Unprompted
<1> QED
  BY <1>4, <1>5, <1>6, <1>7, <1>8 DEF StatusInv

\* What the two theorems below share, for Tasks whose specs stay valid: the
\* reconciler is up to date whenever nothing is there to wake it up.
THEOREM StatusInductive ==
    ASSUME SpecsStand
    PROVE  Spec => [](IInv /\ StatusInv)
<1>1. Init => IInv /\ StatusInv
  BY TypedInit, InvariantsInit, StatusInit DEF IInv
<1>2. IInv /\ StatusInv /\ [Next]_vars => (IInv /\ StatusInv)'
  <2> SUFFICES ASSUME IInv, StatusInv, [Next]_vars PROVE (IInv /\ StatusInv)'
    OBVIOUS
  <2>1. IInv'
    BY CopiesTypedStep, QueueTypedStep, VersionsStep, AcknowledgedStep DEF IInv
  <2>2. LedgerTrue'
    BY LedgerTrueStep DEF IInv, StatusInv
  <2>3. Settled' /\ PhaseCleared'
    BY <2>1, SettledStep, PhaseClearedStep DEF IInv, StatusInv
  <2>4. Counted' /\ UpToDate'
    BY CountedStep, UpToDateStep DEF StatusInv
  <2> QED
    BY <2>1, <2>2, <2>3, <2>4 DEF StatusInv
<1> QED
  BY <1>1, <1>2, PTL DEF Spec

\* syncJobStatus: when no reconcile runs, no key is queued, no deadline pends and
\* the caches are up to date, the status of a running Task names exactly its
\* unfinished Jobs and has a record of every finished one, whatever writes,
\* events, requests, failed calls and crashes came before; as long as no more
\* Jobs were created than the history keeps.
THEOREM QuietStatusHolds ==
    ASSUME SpecsStand
    PROVE  Spec => [](created <= HistoryLimit => QuietStatusTrue)
<1>1. IInv /\ StatusInv => (created <= HistoryLimit => QuietStatusTrue)
  <2> SUFFICES ASSUME UpToDate, created <= HistoryLimit, Quiet, LeftAlone, Sound(task)
               PROVE  /\ ToSet(task.status.active) = Unfinished(jobs)
                      /\ \A j \in Present(jobs) \ Unfinished(jobs) :
                            Recorded(task.status.history, j)
    BY DEF StatusInv, QuietStatusTrue, Sound
  <2> QED
    BY DEF UpToDate, Unprompted, Quiet, Matches
<1> QED
  BY <1>1, StatusInductive, PTL

\* syncJobStatus: the half of it about activeJobs holds however many Jobs were
\* created, and so however many records were dropped.
THEOREM QuietActiveHolds ==
    ASSUME SpecsStand
    PROVE  Spec => []((Quiet /\ LeftAlone /\ Sound(task))
                        => ToSet(task.status.active) = Unfinished(jobs))
<1>1. IInv /\ StatusInv => ((Quiet /\ LeftAlone /\ Sound(task))
                               => ToSet(task.status.active) = Unfinished(jobs))
  BY DEF StatusInv, UpToDate, Unprompted, Quiet, Matches
<1> QED
  BY <1>1, StatusInductive, PTL
=============================================================================
