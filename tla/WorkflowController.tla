------------------------- MODULE WorkflowController -------------------------
(***************************************************************************)
(* The Workflow reconciler of internal/controller/workflow_controller.go   *)
(* and its environment: the API server, the informer caches the client     *)
(* reads Workflows and Tasks from, the work queue, users, and the child    *)
(* Tasks, which the Task reconciler runs (here: they end, one way or the   *)
(* other).                                                                 *)
(*                                                                         *)
(* One Workflow is followed through its life.  The child Task of a node is *)
(* named after it, so children are indexed by node.  A reconcile is a      *)
(* sequence of steps, at most one call to the API server in each.          *)
(***************************************************************************)
EXTENDS Dag

CONSTANTS
    Specs,           \* the specs users submit: records [tasks, maxParallel]
    Foreign,         \* nodes whose child name a Task of someone else may have
    UserActs,        \* what users do: "delete", "update", "deleteChild", "rerunChild", "takeName"
    MaxUserActs,     \* bound on the number of user actions
    MaxFaults        \* bound on the number of crashes and failed calls

Nodes == UNION {Names(s.tasks) : s \in Specs}
Phases == {"", "Running", "Succeeded", "Failed"}
Terminal == {"Succeeded", "Failed"}
NodePhases == {"Pending", "Running", "Skipped"} \cup Terminal
Settled == {"Skipped"} \cup Terminal

ASSUME WorkflowConstants ==
    /\ IsFiniteSet(Specs)
    /\ \A s \in Specs :
         /\ s.maxParallel \in Nat
         /\ s.tasks \in Seq(ToSet(s.tasks)) /\ Names(s.tasks) \subseteq Nat
         /\ \A i \in DOMAIN s.tasks : s.tasks[i].deps \in Seq(Nat)
         /\ \A i, j \in DOMAIN s.tasks : s.tasks[i].name = s.tasks[j].name => i = j
    /\ Foreign \subseteq Nodes
    /\ UserActs \subseteq {"delete", "update", "deleteChild", "rerunChild", "takeName"}
    /\ MaxUserActs \in Nat
    /\ MaxFaults \in Nat

VARIABLES
    wf,          \* the Workflow stored by the API server
    children,    \* the Tasks stored under the child names, by node
    wfCache,     \* the Workflow informer's copy
    childCache,  \* the Task informer's copy
    current,     \* the copies holding the stored Workflow's resourceVersion
    pc,          \* what the running reconcile does next
    obj,         \* its local copy of the Workflow
    graph,       \* the graph it has built: the order and the dependencies
    listed,      \* the children it listed
    left,        \* the positions of status.nodes it has yet to visit, or the children to delete
    slots,       \* its count of running nodes
    changed,     \* it has a status to write, or (in a deletion) children to wait for
    queued,      \* the Workflow's key is in the work queue
    timer,       \* a delayed requeue is pending
    userActs,    \* user actions so far
    faults,      \* crashes and failed calls so far
    born,        \* history variable: how often each child was created
    ended        \* history variable: the outcomes each child has had

recVars == <<pc, obj, graph, listed, left, slots, changed>>
cacheVars == <<wfCache, childCache>>
ghostVars == <<born, ended>>
queueVars == <<queued, timer>>
vars == <<wf, children, wfCache, childCache, current, pc, obj, graph, listed, left,
          slots, changed, queued, timer, userActs, faults, born, ended>>

-----------------------------------------------------------------------------
(* Data.                                                                   *)

\* A Task under a child name.  Every phase that is not terminal counts as
\* Running: the Workflow controller does not tell them apart.
NoChild == [owner |-> "none", uid |-> 0, phase |-> "Running", deleting |-> FALSE]
NewChild(owner, uid) == [owner |-> owner, uid |-> uid, phase |-> "Running", deleting |-> FALSE]

\* listChildTasks keeps the Tasks this Workflow controls.
Own(cs) == {n \in Nodes : cs[n].owner = "self"}

NewWorkflow(spec) ==
    [finalizer |-> FALSE, deleting |-> FALSE, spec |-> spec, generation |-> 1,
     status |-> [phase |-> "", observed |-> 0, nodes |-> <<>>]]

\* The API server drops an object once it is being deleted and has no finalizer.
Exists(w) == ~w.deleting \/ w.finalizer

\* The specs Build and ValidateChildTaskNames accept, and their graphs.
ValidSpecs == {s \in Specs : Accepted(s.tasks)}
GraphOf == [s \in ValidSpecs |-> [order |-> Order(s.tasks), deps |-> Dependencies(s.tasks)]]
NoGraph == [order |-> <<>>, deps |-> <<>>]

RunOnFailure(spec, n) ==
    \E i \in DOMAIN spec.tasks : spec.tasks[i].name = n /\ spec.tasks[i].runOnFailure

WithPhase(w, phase) == [w EXCEPT !.status.phase = phase]
WithNode(w, n, phase) == [w EXCEPT !.status.nodes[n] = phase]

-----------------------------------------------------------------------------
(* The pure parts of the reconciler.                                       *)

IsWorkflowTerminal(phase) == phase \in Terminal

\* Mutant: a Workflow that has ended is not cleaned up.
BeingDeletedUnlessOver(w) == w.deleting /\ ~IsWorkflowTerminal(w.status.phase)

BeingDeleted(w) == w.deleting

\* Mutant: any failed Workflow may be retried.
CanRetryAnyFailure(w) == w.status.phase = "Failed"

CanRetryAfterValidationFailure(w) == w.status.phase = "Failed" /\ DOMAIN w.status.nodes = {}

\* markWorkflowFailed.
MarkedFailed(w) == [w EXCEPT !.status.phase = "Failed", !.status.observed = w.generation]

\* initializeStatus: nodes that stay keep their phase, others come and go.
Initialized(w) ==
    LET old == w.status.nodes
    IN  [w EXCEPT !.status.phase = "Running",
                  !.status.observed = w.generation,
                  !.status.nodes = [n \in Names(w.spec.tasks) |->
                                        IF n \in DOMAIN old THEN old[n] ELSE "Pending"]]

\* Mutant: one dependency that succeeded is enough.
DecideNodeAny(w, n) ==
    LET ds == graph.deps[n]
        bad == \E d \in ds : w.status.nodes[d] \in {"Failed", "Skipped"}
    IN  IF bad THEN (IF RunOnFailure(w.spec, n) THEN "ready" ELSE "skip")
        ELSE IF ds = {} \/ \E d \in ds : w.status.nodes[d] = "Succeeded" THEN "ready"
        ELSE "wait"

\* decideNode.
DecideNode(w, n) ==
    LET phase(d) == w.status.nodes[d]
        ds == graph.deps[n]
        blocked == \E d \in ds : phase(d) \in {"Failed", "Skipped"}
        waiting == \E d \in ds : phase(d) \notin Settled
    IN  IF RunOnFailure(w.spec, n)
        THEN IF waiting THEN "wait" ELSE IF blocked THEN "ready" ELSE "skip"
        ELSE IF blocked THEN "skip" ELSE IF waiting THEN "wait" ELSE "ready"

\* syncNodeFromTask.
SyncNodeFromTask(phase, c) == IF c.phase \in Terminal THEN c.phase ELSE phase

\* summarize: a conclusion once every node is settled.
Summarized(w) ==
    LET phases == {w.status.nodes[n] : n \in DOMAIN w.status.nodes}
    IN  IF IsWorkflowTerminal(w.status.phase) \/ ~(phases \subseteq Settled) THEN w
        ELSE WithPhase(w, IF "Failed" \in phases THEN "Failed" ELSE "Succeeded")

\* Mutants: the running nodes are not counted, or one too many is let through.
RunningUncounted(w) == 0
FullLate(w, running) == w.spec.maxParallel > 0 /\ running > w.spec.maxParallel

\* The count of running nodes, and maxParallel against it.
RunningNodes(w) ==
    Cardinality({n \in DOMAIN w.status.nodes : w.status.nodes[n] = "Running"})
Full(w, running) == w.spec.maxParallel > 0 /\ running >= w.spec.maxParallel

-----------------------------------------------------------------------------
NoObject == NewWorkflow(CHOOSE s \in Specs : TRUE)
NothingListed == [n \in Nodes |-> NoChild]

Init ==
    /\ \E s \in Specs : wf = NewWorkflow(s)
    /\ \E F \in SUBSET Foreign :
        children = [n \in Nodes |-> IF n \in F THEN NewChild("other", 0) ELSE NoChild]
    /\ wfCache = wf
    /\ childCache = children
    /\ current = {"cache"}
    /\ pc = "idle" /\ obj = NoObject /\ graph = NoGraph /\ listed = NothingListed
    /\ left = {} /\ slots = 0 /\ changed = FALSE
    /\ queued = TRUE /\ timer = FALSE
    /\ userActs = 0 /\ faults = 0
    /\ born = [n \in Nodes |-> 0]
    /\ ended = [n \in Nodes |-> {}]

-----------------------------------------------------------------------------
(* The reconciler.                                                         *)

\* Return from Reconcile.
Return(copies) ==
    /\ pc' = "idle" /\ obj' = NoObject /\ graph' = NoGraph /\ listed' = NothingListed
    /\ left' = {} /\ slots' = 0 /\ changed' = FALSE
    /\ current' = copies \ {"reconciler"}

\* Return an error: controller-runtime puts the key back.
ReturnError ==
    /\ Return(current)
    /\ queued' = TRUE
    /\ UNCHANGED timer

\* Go on to a single write of the local copy w.
Call(p, w) ==
    /\ pc' = p /\ obj' = w /\ graph' = NoGraph
    /\ listed' = NothingListed /\ left' = {} /\ slots' = 0 /\ changed' = FALSE

\* reconcileGraph up to its first node: initializeStatus and listChildTasks.
Begin(t) ==
    LET w == Initialized(t)
    IN  /\ pc' = "sync" /\ obj' = w
        /\ listed' = [n \in Nodes |-> IF n \in Own(childCache) THEN childCache[n] ELSE NoChild]
        /\ graph' = GraphOf[w.spec]
        /\ left' = 1..Cardinality(Names(w.spec.tasks))
        /\ slots' = RunningNodes(w)
        /\ changed' = (w.status # t.status)

\* handleDeletion up to its first Delete.
BeginDeletion(t) ==
    /\ pc' = "delete" /\ obj' = t /\ graph' = NoGraph
    /\ listed' = [n \in Nodes |-> IF n \in Own(childCache) THEN childCache[n] ELSE NoChild]
    /\ left' = {n \in Own(childCache) : ~childCache[n].deleting}
    /\ slots' = 0
    /\ changed' = (\E n \in Own(childCache) : childCache[n].deleting)

\* Reconcile, up to its first call after Get and List.
Reconcile ==
    LET t == wfCache
        over == IsWorkflowTerminal(t.status.phase)
        retry == CanRetryAfterValidationFailure(t)
        seen == t.status.observed = t.generation
        managed == Exists(t) /\ ~BeingDeleted(t) /\ t.finalizer
        schedules == managed /\ (~over \/ (~seen /\ retry))
    IN  /\ pc = "idle" /\ queued
        /\ queued' = FALSE
        /\ current' = IF "cache" \in current THEN current \cup {"reconciler"} ELSE current
        /\ \/ Exists(t) /\ BeingDeleted(t) /\ BeginDeletion(t)
           \/ Exists(t) /\ ~BeingDeleted(t) /\ ~t.finalizer /\ Call("update", [t EXCEPT !.finalizer = TRUE])
           \/ managed /\ over /\ ~seen /\ ~retry
              /\ Call("write", [t EXCEPT !.status.observed = t.generation])
           \/ schedules /\ t.spec \notin ValidSpecs /\ Call("write", MarkedFailed(t))
           \/ schedules /\ t.spec \in ValidSpecs /\ Begin(t)
        /\ UNCHANGED <<wf, children, cacheVars, ghostVars, timer, userActs, faults>>

\* Reconcile finds no Workflow, or a finished one.
ReconcileNothing ==
    LET t == wfCache
    IN  /\ pc = "idle" /\ queued
        /\ \/ ~Exists(t)
           \/ /\ ~BeingDeleted(t) /\ t.finalizer
              /\ IsWorkflowTerminal(t.status.phase) /\ t.status.observed = t.generation
        /\ queued' = FALSE
        /\ UNCHANGED <<wf, children, cacheVars, current, recVars, ghostVars, timer,
                       userActs, faults>>

\* The node at the current position.
Here == graph.order[Min(left)]

\* Leave the node with the local copy w: on to the next node, to the second
\* pass, or to summarize and the one write of reconcileGraph.
Advance(w, running, touched) ==
    LET rest == left \ {Min(left)}
        summary == Summarized(w)
    IN  \/ /\ rest # {}
           /\ pc' = (IF pc \in {"sync", "syncGet"} THEN "sync" ELSE "schedule")
           /\ obj' = w /\ left' = rest /\ slots' = running /\ changed' = touched
           /\ UNCHANGED <<graph, listed, current>>
        \/ /\ rest = {} /\ pc \in {"sync", "syncGet"}
           /\ pc' = "schedule"
           /\ obj' = w /\ left' = DOMAIN graph.order /\ slots' = running /\ changed' = touched
           /\ UNCHANGED <<graph, listed, current>>
        \/ /\ rest = {} /\ pc \in {"schedule", "scheduleGet"}
           /\ IF touched \/ summary # w
              THEN Call("write", summary) /\ UNCHANGED current
              ELSE Return(current)

\* createChildTask gave the child c: the first pass goes on, the second pass
\* marks the node, with the outcome at once if the child has one.
Placed(c) ==
    IF pc \in {"sync", "syncGet"} THEN Advance(obj, slots, changed)
    ELSE LET phase == SyncNodeFromTask("Running", c)
         IN  Advance(WithNode(obj, Here, phase),
                     IF phase = "Running" THEN slots + 1 ELSE slots, TRUE)

\* createChildTask: the Create, which finds the name free or taken.
CreateChild ==
    LET n == Here
        c == NewChild("self", born[n] + 1)
    IN  \/ /\ children[n] = NoChild
           /\ children' = [children EXCEPT ![n] = c]
           /\ born' = [born EXCEPT ![n] = @ + 1]
           /\ Placed(c)
        \/ /\ children[n] # NoChild
           /\ pc' = (IF pc = "sync" THEN "syncGet" ELSE "scheduleGet")
           /\ UNCHANGED <<children, born, current, obj, graph, listed, left, slots, changed>>

\* The current visit creates a child: a running node lost its own, or a pending
\* node is ready and has a slot.
Recreates == obj.status.nodes[Here] = "Running" /\ listed[Here] = NoChild
Schedules ==
    /\ obj.status.nodes[Here] = "Pending"
    /\ DecideNode(obj, Here) = "ready"
    /\ ~Full(obj, slots)

\* The first pass of advanceNodes.
SyncNode ==
    LET n == Here
        running == obj.status.nodes[n] = "Running"
        child == listed[n]
        phase == SyncNodeFromTask("Running", child)
    IN  /\ pc = "sync"
        /\ \/ /\ ~running \/ (child # NoChild /\ phase = "Running")
              /\ Advance(obj, slots, changed)
              /\ UNCHANGED <<children, born>>
           \/ /\ running /\ child # NoChild /\ phase # "Running"
              /\ Advance(WithNode(obj, n, phase), slots - 1, TRUE)
              /\ UNCHANGED <<children, born>>
           \/ Recreates /\ CreateChild
        /\ UNCHANGED <<wf, cacheVars, ended, queueVars, userActs, faults>>

\* The second pass of advanceNodes.
ScheduleNode ==
    LET n == Here
        pending == obj.status.nodes[n] = "Pending"
        action == DecideNode(obj, n)
    IN  /\ pc = "schedule"
        /\ \/ /\ ~pending \/ action = "wait" \/ (action = "ready" /\ Full(obj, slots))
              /\ Advance(obj, slots, changed)
              /\ UNCHANGED <<children, born>>
           \/ /\ pending /\ action = "skip"
              /\ Advance(WithNode(obj, n, "Skipped"), slots, TRUE)
              /\ UNCHANGED <<children, born>>
           \/ Schedules /\ CreateChild
        /\ UNCHANGED <<wf, cacheVars, ended, queueVars, userActs, faults>>

\* Mutant: whatever Task has the name is taken for the node's own.
GetAnyone ==
    LET c == childCache[Here]
    IN  /\ pc \in {"syncGet", "scheduleGet"}
        /\ \/ c = NoChild /\ ReturnError
           \/ c # NoChild /\ Placed(c) /\ UNCHANGED queueVars
        /\ UNCHANGED <<wf, children, cacheVars, ghostVars, userActs, faults>>

\* createChildTask after AlreadyExists: Get reads the cache.  A Task of someone
\* else fails the Workflow as it stands.
GetExisting ==
    LET c == childCache[Here]
    IN  /\ pc \in {"syncGet", "scheduleGet"}
        /\ \/ c = NoChild /\ ReturnError
           \/ /\ c # NoChild /\ c.owner # "self"
              /\ Call("write", WithPhase(obj, "Failed"))
              /\ UNCHANGED <<current, queueVars>>
           \/ c.owner = "self" /\ Placed(c) /\ UNCHANGED queueVars
        /\ UNCHANGED <<wf, children, cacheVars, ghostVars, userActs, faults>>

\* A write by the reconciler is accepted when no other write came between.
WriteAccepted == "reconciler" \in current

\* The copies that are current after the API server stored w.
CopiesAfter(w) == IF w = wf THEN current ELSE {}

\* Status().Update, or Update of the finalizers: the last call of a reconcile.
Write ==
    /\ pc \in {"write", "update"} /\ WriteAccepted
    /\ wf' = obj
    /\ Return(CopiesAfter(obj))
    /\ UNCHANGED <<children, cacheVars, ghostVars, queueVars, userActs, faults>>

\* A conflict, or NotFound.
WriteRejected ==
    /\ pc \in {"write", "update"} /\ ~WriteAccepted
    /\ ReturnError
    /\ UNCHANGED <<wf, children, cacheVars, ghostVars, userActs, faults>>

\* A Task that is deleted disappears at once or waits for its own finalizer.
Deleted(c) == {NoChild, [c EXCEPT !.deleting = TRUE]}

\* handleDeletion: one Delete with the listed UID as precondition.
DeleteChild ==
    /\ pc = "delete"
    /\ \E n \in left :
        LET c == children[n]
        IN  \/ /\ c = NoChild
               /\ left' = left \ {n}
               /\ UNCHANGED <<children, current, pc, obj, graph, listed, slots, changed, queueVars>>
            \/ /\ c # NoChild /\ c.uid # listed[n].uid
               /\ ReturnError
               /\ UNCHANGED children
            \/ /\ c # NoChild /\ c.uid = listed[n].uid
               /\ \E d \in Deleted(c) : children' = [children EXCEPT ![n] = d]
               /\ left' = left \ {n} /\ changed' = TRUE
               /\ UNCHANGED <<current, pc, obj, graph, listed, slots, queueVars>>
    /\ UNCHANGED <<wf, cacheVars, ghostVars, userActs, faults>>

\* Mutant: the finalizer goes as soon as the Deletes are sent.
RemainingIgnored == FALSE

\* Some listed child was there and may still be.
Remaining == changed

\* handleDeletion: the wait for remaining children, or the finalizer.
FinishDeletion ==
    /\ pc = "delete" /\ left = {}
    /\ \/ Remaining /\ timer' = TRUE /\ Return(current)
       \/ /\ ~Remaining /\ pc' = "update" /\ obj' = [obj EXCEPT !.finalizer = FALSE]
          /\ UNCHANGED <<graph, listed, left, slots, changed, current, timer>>
    /\ UNCHANGED <<wf, children, cacheVars, ghostVars, queued, userActs, faults>>

ReconcilerStep ==
    \/ Reconcile \/ ReconcileNothing \/ SyncNode \/ ScheduleNode \/ GetExisting
    \/ Write \/ WriteRejected \/ DeleteChild \/ FinishDeletion

-----------------------------------------------------------------------------
(* The environment.                                                        *)

\* The Workflow informer catches up; its event enqueues the key.
RefreshWorkflow ==
    /\ "cache" \notin current
    /\ wfCache' = wf
    /\ current' = current \cup {"cache"}
    /\ queued' = TRUE
    /\ UNCHANGED <<wf, children, childCache, recVars, ghostVars, timer, userActs, faults>>

\* Mutant: the controller does not watch the Tasks it owns.
RefreshChildrenSilently ==
    /\ childCache # children
    /\ childCache' = children
    /\ UNCHANGED <<queued, wf, children, wfCache, current, recVars, ghostVars, timer,
                   userActs, faults>>

\* The Task informer catches up; events of owned Tasks enqueue the key.
RefreshChildren ==
    /\ childCache # children
    /\ childCache' = children
    /\ queued' = (queued \/ \E n \in Own(children) \cup Own(childCache) :
                                children[n] # childCache[n])
    /\ UNCHANGED <<wf, children, wfCache, current, recVars, ghostVars, timer, userActs, faults>>

TimerFires ==
    /\ timer
    /\ timer' = FALSE
    /\ queued' = TRUE
    /\ UNCHANGED <<wf, children, cacheVars, current, recVars, ghostVars, userActs, faults>>

ChildChange(n, c) ==
    /\ children' = [children EXCEPT ![n] = c]
    /\ UNCHANGED <<wf, cacheVars, current, recVars, born, queueVars, faults>>

\* The Task reconciler: a Task ends, and a deleted one goes away.
ChildEnds(n) ==
    /\ children[n] # NoChild /\ children[n].phase = "Running" /\ ~children[n].deleting
    /\ \E phase \in Terminal :
        /\ ChildChange(n, [children[n] EXCEPT !.phase = phase])
        /\ ended' = IF n \in Own(children) THEN [ended EXCEPT ![n] = @ \cup {phase}] ELSE ended
    /\ UNCHANGED userActs

ChildGone(n) ==
    /\ children[n].deleting
    /\ ChildChange(n, NoChild)
    /\ UNCHANGED <<ended, userActs>>

\* The garbage collector removes the children of a Workflow that is gone.
CollectChild(n) ==
    /\ ~Exists(wf) /\ children[n].owner = "self" /\ ~children[n].deleting
    /\ \E d \in Deleted(children[n]) : ChildChange(n, d)
    /\ UNCHANGED <<ended, userActs>>

UserAct(kind) ==
    /\ kind \in UserActs
    /\ userActs < MaxUserActs
    /\ userActs' = userActs + 1

\* A user deletes the Task under a child name, triggers a finished one again, or
\* creates one of his own under a free name.
UserDeletesChild(n) ==
    /\ UserAct("deleteChild")
    /\ children[n] # NoChild /\ ~children[n].deleting
    /\ \E d \in Deleted(children[n]) : ChildChange(n, d)
    /\ UNCHANGED ended

UserRerunsChild(n) ==
    /\ UserAct("rerunChild")
    /\ children[n].phase \in Terminal
    /\ ChildChange(n, [children[n] EXCEPT !.phase = "Running"])
    /\ UNCHANGED ended

UserTakesName(n) ==
    /\ UserAct("takeName")
    /\ n \in Foreign /\ children[n] = NoChild
    /\ ChildChange(n, NewChild("other", 0))
    /\ UNCHANGED ended

UserWrites(w) ==
    /\ Exists(wf)
    /\ wf' = w
    /\ current' = CopiesAfter(w)
    /\ UNCHANGED <<children, cacheVars, recVars, ghostVars, queueVars, faults>>

\* kubectl apply: a new spec has a new generation.
UpdateSpec ==
    /\ UserAct("update")
    /\ \E s \in Specs : s # wf.spec /\ UserWrites([wf EXCEPT !.spec = s, !.generation = @ + 1])

\* DELETE /api/v1/workflows/:name.
DeleteWorkflow ==
    /\ UserAct("delete")
    /\ UserWrites([wf EXCEPT !.deleting = TRUE])

\* A call to the API server fails in transit, without effect.
CallFails ==
    /\ faults < MaxFaults
    /\ faults' = faults + 1
    /\ \/ pc \in {"write", "update"}
       \/ pc = "sync" /\ Recreates
       \/ pc = "schedule" /\ Schedules
       \/ pc = "delete" /\ left # {}
    /\ ReturnError
    /\ UNCHANGED <<wf, children, cacheVars, ghostVars, userActs>>

\* The process dies and another starts with freshly listed caches.
Crash ==
    /\ faults < MaxFaults
    /\ faults' = faults + 1
    /\ pc' = "idle" /\ obj' = NoObject /\ graph' = NoGraph /\ listed' = NothingListed
    /\ left' = {} /\ slots' = 0 /\ changed' = FALSE
    /\ wfCache' = wf /\ childCache' = children
    /\ current' = {"cache"}
    /\ queued' = TRUE /\ timer' = FALSE
    /\ UNCHANGED <<wf, children, ghostVars, userActs>>

ChildStep == \E n \in Nodes : ChildEnds(n) \/ ChildGone(n) \/ CollectChild(n)
UserStep == \/ \E n \in Nodes : UserDeletesChild(n) \/ UserRerunsChild(n) \/ UserTakesName(n)
            \/ UpdateSpec
            \/ DeleteWorkflow

Next ==
    \/ ReconcilerStep
    \/ RefreshWorkflow
    \/ RefreshChildren
    \/ TimerFires
    \/ ChildStep
    \/ UserStep
    \/ CallFails
    \/ Crash

Spec == Init /\ [][Next]_vars

\* What keeps going on its own: reconciles, informers, the delaying queue, the
\* Task reconciler and the garbage collector.
FairSpec ==
    /\ Spec
    /\ WF_vars(ReconcilerStep)
    /\ WF_vars(RefreshWorkflow) /\ WF_vars(RefreshChildren) /\ WF_vars(TimerFires)
    /\ WF_vars(ChildStep)

-----------------------------------------------------------------------------
(* Properties.                                                             *)

Pcs == {"idle", "update", "write", "sync", "syncGet", "schedule", "scheduleGet", "delete"}
Child == [owner: {"none", "self", "other"}, uid: 0..(1 + MaxUserActs),
          phase: {"Running"} \cup Terminal, deleting: BOOLEAN]
Status == [phase: Phases, observed: 0..(1 + MaxUserActs),
           nodes: UNION {[N -> NodePhases] : N \in SUBSET Nodes}]
Workflow == [finalizer: BOOLEAN, deleting: BOOLEAN, spec: Specs,
             generation: 1..(1 + MaxUserActs), status: Status]

\* Every variable has its type: the count of running nodes is never negative
\* and a child is created again only after a user deleted it.
TypeOK ==
    /\ wf \in Workflow /\ wfCache \in Workflow /\ obj \in Workflow
    /\ children \in [Nodes -> Child] /\ childCache \in [Nodes -> Child]
    /\ listed \in [Nodes -> Child]
    /\ current \subseteq {"cache", "reconciler"}
    /\ pc \in Pcs /\ left \subseteq Nat
    /\ slots \in 0..Cardinality(Nodes)
    /\ changed \in BOOLEAN /\ queued \in BOOLEAN /\ timer \in BOOLEAN
    /\ userActs \in 0..MaxUserActs /\ faults \in 0..MaxFaults
    /\ born \in [Nodes -> 0..(1 + MaxUserActs)]
    /\ ended \in [Nodes -> SUBSET Terminal]

\* advanceNodes: at no time are more child Tasks unfinished than maxParallel.
Unfinished == {n \in Own(children) : children[n].phase = "Running"}
ParallelBound ==
    wf.spec.maxParallel > 0 => Cardinality(Unfinished) <= wf.spec.maxParallel

\* isWorkflowTerminal: whatever users do to the child Tasks and the spec, the
\* phase of a Workflow that has ended stays.  (One that failed before it had
\* nodes may be retried.)
Over == wf.status.phase \in Terminal /\ DOMAIN wf.status.nodes # {}
EndIsFinal == [][Over => wf'.status.phase = wf.status.phase]_vars

\* handleDeletion: the child Tasks left by a Workflow that disappears are those
\* the deletion's list did not show: none when it never had the finalizer, and
\* after it is gone no child is created.
NoOrphan ==
    [][~Exists(wf') =>
         Own(children') \subseteq CASE ~Exists(wf) -> Own(children)
                                   [] Exists(wf) /\ wf.deleting ->
                                        {n \in Own(children) : listed[n] = NoChild}
                                   [] OTHER -> {}]_vars

\* advanceNodes: a write that makes the status show more running nodes than
\* before shows no more than maxParallel, whatever was adopted, edited, retried
\* or lost in between: what the limit can miss are only child Tasks that the
\* stored status does not show as running.
StatusWithinLimit ==
    [][RunningNodes(wf') > RunningNodes(wf)
         => wf'.spec.maxParallel = 0 \/ RunningNodes(wf') <= wf'.spec.maxParallel]_vars

\* handleDeletion: a deleted Workflow goes away, and its child Tasks with it.
DeletionCompletes == wf.deleting ~> (~Exists(wf) /\ Own(children) = {})

\* advanceNodes and summarize: a Workflow that nobody deletes comes to an end;
\* no event that should wake the reconciler is lost.
WorkflowEnds == <>[](Exists(wf) /\ ~wf.deleting) => <>[](wf.status.phase \in Terminal)

\* The reconciler implements PlanRun for a valid plan that users leave alone:
\* with stale copies, conflicts, failed calls and crashes at any point, every
\* node is started at most once and in order, or skipped for a reason that the
\* child Tasks really give, and the phase of the Workflow is the right verdict.
\* A node whose stored phase its child Task belies has no place in PlanRun.
Stored(n) == IF n \in DOMAIN wf.status.nodes THEN wf.status.nodes[n] ELSE "Pending"
Belied(n) ==
    \/ Stored(n) = "Skipped" /\ born[n] > 0
    \/ Stored(n) \in Terminal \ ended[n]
Life == [n \in Nodes |->
            IF Belied(n) THEN "belied"
            ELSE IF ended[n] # {} THEN CHOOSE phase \in ended[n] : TRUE
            ELSE IF born[n] > 0 THEN "running"
            ELSE IF Stored(n) = "Skipped" THEN "skipped" ELSE "waiting"]
Needs == [n \in Nodes |-> GraphOf[wf.spec].deps[n]]
Rescues == {n \in Nodes : RunOnFailure(wf.spec, n)}
Judgement == IF wf.status.phase \in Terminal THEN wf.status.phase ELSE "none"
Promise == INSTANCE PlanRun WITH
    needs <- Needs, rescues <- Rescues, life <- Life, verdict <- Judgement
RunsPlan == Promise!Spec

-----------------------------------------------------------------------------
(* The graph that GET /api/v1/workflows/:name adds to a Workflow.          *)

\* buildWorkflowGraph: the nodes of the spec with their stored phase, then the
\* stored nodes that the spec has no more.
GraphNodes(w) ==
    LET removed == DOMAIN w.status.nodes \ Names(w.spec.tasks)
        entry(n) == [name |-> n, phase |-> IF n \in DOMAIN w.status.nodes
                                           THEN w.status.nodes[n] ELSE "Pending"]
    IN  [i \in DOMAIN w.spec.tasks |-> entry(w.spec.tasks[i].name)]
          \o SetToSeq({entry(n) : n \in removed})

\* buildWorkflowGraph, on the copy the handler reads: although the spec may
\* have been edited since the status was written, every node that was declared
\* or that the Workflow has kept account of is shown, once, and an outcome it
\* is shown with is one its child Task really had.
ViewTrue ==
    LET view == GraphNodes(wfCache)
    IN  /\ {view[i].name : i \in DOMAIN view} =
              Names(wfCache.spec.tasks) \cup DOMAIN wfCache.status.nodes
        /\ \A i, j \in DOMAIN view : view[i].name = view[j].name => i = j
        /\ \A i \in DOMAIN view :
              view[i].phase \in Terminal => view[i].phase \in ended[view[i].name]
=============================================================================
