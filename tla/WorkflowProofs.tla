--------------------------- MODULE WorkflowProofs ---------------------------
(***************************************************************************)
(* Proofs about the Workflow reconciler, for every set of specs, every     *)
(* behaviour of the caches and any number of user actions, failed calls    *)
(* and crashes.                                                            *)
(***************************************************************************)
EXTENDS WorkflowController, DagLemmas

\* The steps of reconcileGraph between its List and its last write.
Scheduling == {"sync", "syncGet", "schedule", "scheduleGet"}

\* Two copies of the Workflow that differ in their status only.
SameBut(v, w) ==
    /\ v.finalizer = w.finalizer /\ v.deleting = w.deleting
    /\ v.spec = w.spec /\ v.generation = w.generation

NodeMaps == UNION {[N -> NodePhases] : N \in SUBSET Nodes}
Generations == 1..(1 + MaxUserActs)
Observations == 0..(1 + MaxUserActs)

-----------------------------------------------------------------------------
(* The operators on a copy of the Workflow.                                *)

\* The fields of a stored Workflow.
LEMMA WorkflowIs ==
    Workflow = [finalizer: BOOLEAN, deleting: BOOLEAN, spec: Specs,
                generation: Generations,
                status: [phase: Phases, observed: Observations, nodes: NodeMaps]]
BY DEF Workflow, Status, Generations, Observations, NodeMaps

\* Generations are counted from one, and an observed generation of zero means none was
\* observed.
LEMMA BoundsFit == /\ MaxUserActs \in Nat
                   /\ 1 \in Generations /\ 0 \in Observations
                   /\ Generations \subseteq Observations
BY WorkflowConstants DEF Generations, Observations

\* The type of each field of a Workflow.
LEMMA Fields ==
    ASSUME NEW w \in Workflow
    PROVE  /\ w.finalizer \in BOOLEAN /\ w.deleting \in BOOLEAN
           /\ w.spec \in Specs /\ w.generation \in Generations
           /\ w.status \in [phase: Phases, observed: Observations, nodes: NodeMaps]
           /\ w.status.phase \in Phases /\ w.status.observed \in Observations
           /\ w.status.nodes \in NodeMaps
BY WorkflowIs

\* Replacing the status leaves the rest of a Workflow alone.
LEMMA NewStatus ==
    ASSUME NEW w \in Workflow,
           NEW st \in [phase: Phases, observed: Observations, nodes: NodeMaps]
    PROVE  /\ [w EXCEPT !.status = st] \in Workflow
           /\ [w EXCEPT !.status = st].status = st
           /\ SameBut([w EXCEPT !.status = st], w)
BY WorkflowIs DEF SameBut

\* Setting the phase keeps the nodes and all outside the status.
LEMMA PhaseSet ==
    ASSUME NEW w \in Workflow, NEW phase \in Phases
    PROVE  /\ WithPhase(w, phase) \in Workflow /\ SameBut(WithPhase(w, phase), w)
           /\ WithPhase(w, phase).status.nodes = w.status.nodes
           /\ WithPhase(w, phase).status.phase = phase
<1> DEFINE st == [w.status EXCEPT !.phase = phase]
<1>1. st \in [phase: Phases, observed: Observations, nodes: NodeMaps]
      /\ st.nodes = w.status.nodes /\ st.phase = phase
  BY Fields
<1>2. WithPhase(w, phase) = [w EXCEPT !.status = st]
  BY Fields, WorkflowIs DEF WithPhase
<1> HIDE DEF st
<1> QED
  BY <1>1, <1>2, NewStatus

\* Recording the observed generation keeps nodes, phase and all outside the status.
LEMMA ObservedSet ==
    ASSUME NEW w \in Workflow
    PROVE  LET v == [w EXCEPT !.status.observed = w.generation]
           IN  /\ v \in Workflow /\ SameBut(v, w)
               /\ v.status.nodes = w.status.nodes /\ v.status.phase = w.status.phase
<1> DEFINE st == [w.status EXCEPT !.observed = w.generation]
<1>1. st \in [phase: Phases, observed: Observations, nodes: NodeMaps]
      /\ st.nodes = w.status.nodes /\ st.phase = w.status.phase
  <2>1. w.generation \in Observations
    BY Fields, BoundsFit
  <2> QED
    BY <2>1, Fields
<1>2. [w EXCEPT !.status.observed = w.generation] = [w EXCEPT !.status = st]
  BY Fields, WorkflowIs
<1> HIDE DEF st
<1> QED
  BY <1>1, <1>2, NewStatus

\* markFailed keeps the nodes and all outside the status.
LEMMA FailedSet ==
    ASSUME NEW w \in Workflow
    PROVE  /\ MarkedFailed(w) \in Workflow /\ SameBut(MarkedFailed(w), w)
           /\ MarkedFailed(w).status.nodes = w.status.nodes
<1> DEFINE st == [w.status EXCEPT !.phase = "Failed", !.observed = w.generation]
<1>1. st \in [phase: Phases, observed: Observations, nodes: NodeMaps]
      /\ st.nodes = w.status.nodes
  <2>1. w.generation \in Observations /\ "Failed" \in Phases
    BY Fields, BoundsFit DEF Phases
  <2> QED
    BY <2>1, Fields
<1>2. MarkedFailed(w) = [w EXCEPT !.status = st]
  BY Fields, WorkflowIs DEF MarkedFailed
<1> HIDE DEF st
<1> QED
  BY <1>1, <1>2, NewStatus

\* Setting one node's phase changes that entry of the node list and nothing else.
LEMMA NodeSet ==
    ASSUME NEW w \in Workflow, NEW n, NEW phase \in NodePhases
    PROVE  /\ WithNode(w, n, phase) \in Workflow /\ SameBut(WithNode(w, n, phase), w)
           /\ WithNode(w, n, phase).status.nodes = [w.status.nodes EXCEPT ![n] = phase]
<1> DEFINE map == [w.status.nodes EXCEPT ![n] = phase]
           st == [w.status EXCEPT !.nodes = map]
<1>1. map \in NodeMaps
  <2>1. PICK N \in SUBSET Nodes : w.status.nodes \in [N -> NodePhases]
    BY Fields DEF NodeMaps
  <2>2. map \in [N -> NodePhases]
    BY <2>1
  <2> QED
    BY <2>2 DEF NodeMaps
<1> HIDE DEF map
<1>2. st \in [phase: Phases, observed: Observations, nodes: NodeMaps] /\ st.nodes = map
  BY <1>1, Fields
<1>3. WithNode(w, n, phase) = [w EXCEPT !.status = st]
  BY Fields, WorkflowIs DEF WithNode, map
<1> HIDE DEF st
<1> QED
  BY <1>2, <1>3, NewStatus DEF map

\* The names of a plan are names of the model.
LEMMA SpecNames ==
    ASSUME NEW s \in Specs
    PROVE  Names(s.tasks) \subseteq Nodes
BY DEF Nodes

\* initializeNodes: one entry per task of the spec, old phases kept, new ones Pending.
LEMMA InitializedSet ==
    ASSUME NEW w \in Workflow
    PROVE  /\ Initialized(w) \in Workflow /\ SameBut(Initialized(w), w)
           /\ Initialized(w).status.nodes =
                [n \in Names(w.spec.tasks) |->
                    IF n \in DOMAIN w.status.nodes THEN w.status.nodes[n] ELSE "Pending"]
           /\ Initialized(w).status.phase = "Running"
<1> DEFINE map == [n \in Names(w.spec.tasks) |->
                     IF n \in DOMAIN w.status.nodes THEN w.status.nodes[n] ELSE "Pending"]
           st == [w.status EXCEPT !.phase = "Running", !.observed = w.generation,
                                  !.nodes = map]
<1>1. map \in NodeMaps
  <2>1. PICK N \in SUBSET Nodes : w.status.nodes \in [N -> NodePhases]
    BY Fields DEF NodeMaps
  <2>2. "Pending" \in NodePhases
    BY DEF NodePhases
  <2>3. map \in [Names(w.spec.tasks) -> NodePhases]
    BY <2>1, <2>2
  <2>4. Names(w.spec.tasks) \in SUBSET Nodes
    BY Fields, SpecNames
  <2> QED
    BY <2>3, <2>4 DEF NodeMaps
<1>2. w.generation \in Observations /\ "Running" \in Phases
  BY Fields, BoundsFit DEF Phases
<1>3. Initialized(w) = [w EXCEPT !.status = st]
  BY Fields, WorkflowIs DEF Initialized
<1> HIDE DEF map
<1>4. /\ st \in [phase: Phases, observed: Observations, nodes: NodeMaps]
      /\ st.nodes = map /\ st.phase = "Running"
  BY <1>1, <1>2, Fields
<1> HIDE DEF st
<1> QED
  BY <1>3, <1>4, NewStatus DEF map

\* summarize keeps the nodes and all outside the status.
LEMMA SummarizedSet ==
    ASSUME NEW w \in Workflow
    PROVE  /\ Summarized(w) \in Workflow /\ SameBut(Summarized(w), w)
           /\ Summarized(w).status.nodes = w.status.nodes
<1> DEFINE phases == {w.status.nodes[n] : n \in DOMAIN w.status.nodes}
           phase == IF "Failed" \in phases THEN "Failed" ELSE "Succeeded"
<1>1. phase \in Phases
  BY DEF Phases
<1>2. Summarized(w) = w \/ Summarized(w) = WithPhase(w, phase)
  BY DEF Summarized
<1> HIDE DEF phase
<1> QED
  BY <1>1, <1>2, PhaseSet DEF SameBut

\* Adding or removing the finalizer changes nothing else.
LEMMA FinalizerSet ==
    ASSUME NEW w \in Workflow, NEW b \in BOOLEAN
    PROVE  LET v == [w EXCEPT !.finalizer = b]
           IN  /\ v \in Workflow /\ v.finalizer = b /\ v.deleting = w.deleting
               /\ v.spec = w.spec /\ v.generation = w.generation /\ v.status = w.status
BY WorkflowIs

\* A deletion timestamp changes nothing else.
LEMMA DeletingSet ==
    ASSUME NEW w \in Workflow
    PROVE  LET v == [w EXCEPT !.deleting = TRUE]
           IN  /\ v \in Workflow /\ v.deleting /\ v.finalizer = w.finalizer
               /\ v.spec = w.spec /\ v.generation = w.generation /\ v.status = w.status
BY WorkflowIs

\* A new spec raises the generation by one and keeps the status.
LEMMA SpecSet ==
    ASSUME NEW w \in Workflow, NEW s \in Specs, w.generation <= MaxUserActs
    PROVE  LET v == [w EXCEPT !.spec = s, !.generation = @ + 1]
           IN  /\ v \in Workflow /\ v.finalizer = w.finalizer /\ v.deleting = w.deleting
               /\ v.spec = s /\ v.generation = w.generation + 1 /\ v.status = w.status
<1>1. w.generation + 1 \in Generations
  BY Fields, BoundsFit DEF Generations
<1> QED
  BY <1>1, WorkflowIs

\* A Workflow as the REST handler creates it: generation 1, no finalizer, empty status.
LEMMA NewWorkflowFits ==
    ASSUME NEW s \in Specs
    PROVE  /\ NewWorkflow(s) \in Workflow /\ NewWorkflow(s).generation = 1
           /\ ~NewWorkflow(s).finalizer /\ ~NewWorkflow(s).deleting
           /\ NewWorkflow(s).status.nodes = <<>> /\ NewWorkflow(s).status.phase = ""
<1>1. <<>> \in NodeMaps
  <2>1. <<>> \in [{} -> NodePhases]
    OBVIOUS
  <2> QED
    BY <2>1 DEF NodeMaps
<1>2. "" \in Phases
  BY DEF Phases
<1> QED
  BY <1>1, <1>2, BoundsFit, WorkflowIs DEF NewWorkflow

-----------------------------------------------------------------------------
(* What a step of reconcileGraph does, whichever it is.                    *)

\* The reconcile is over.
Idle == pc' = "idle" /\ obj' = NoObject /\ current' = current \ {"reconciler"}

\* A terminal phase is only given to a node that a copy of its child has.
Told(n, phase) ==
    /\ phase \in NodePhases
    /\ phase \in Terminal => \/ listed[n].phase = phase
                             \/ childCache[n].owner = "self" /\ childCache[n].phase = phase

\* The reconcile goes on with the copy w, or with one that is summarized.
GoesOn(w) ==
    /\ pc' \in Scheduling \cup {"write"} /\ current' = current
    /\ obj' \in Workflow /\ SameBut(obj', w) /\ obj'.status.nodes = w.status.nodes

\* The reconcile goes on with its copy, or with one node of it marked.
Works ==
    \/ GoesOn(obj)
    \/ \E n, phase : Told(n, phase) /\ GoesOn(WithNode(obj, n, phase))

\* No child is created, or one under a free name.
Creates ==
    \/ children' = children /\ born' = born
    \/ \E n : /\ children[n] = NoChild
              /\ children' = [children EXCEPT ![n] = NewChild("self", born[n] + 1)]
              /\ born' = [born EXCEPT ![n] = @ + 1]

\* Leaving a node with the copy w.
LEMMA AdvanceLeads ==
    ASSUME NEW w \in Workflow, NEW running, NEW touched, pc \in Scheduling,
           Advance(w, running, touched)
    PROVE  /\ Idle \/ GoesOn(w)
           /\ listed' \in {listed, NothingListed}
<1>1. Summarized(w) \in Workflow /\ SameBut(Summarized(w), w)
      /\ Summarized(w).status.nodes = w.status.nodes /\ SameBut(w, w)
  BY SummarizedSet DEF SameBut
<1>2. CASE left \ {Min(left)} # {}
  BY <1>1, <1>2 DEF Advance, Scheduling, GoesOn
<1>3. CASE left \ {Min(left)} = {} /\ pc \in {"sync", "syncGet"}
  BY <1>1, <1>3 DEF Advance, Scheduling, GoesOn
<1>4. CASE left \ {Min(left)} = {} /\ pc \in {"schedule", "scheduleGet"}
  <2>1. CASE touched \/ Summarized(w) # w
    BY <1>1, <1>4, <2>1 DEF Advance, GoesOn, Call
  <2>2. CASE ~(touched \/ Summarized(w) # w)
    BY <1>4, <2>2 DEF Advance, Return, Idle
  <2> QED
    BY <2>1, <2>2
<1> QED
  BY <1>2, <1>3, <1>4 DEF Scheduling

\* Going on with the child c.
LEMMA PlacedLeads ==
    ASSUME obj \in Workflow, NEW c, pc \in Scheduling, Placed(c),
           c.phase \in Terminal => childCache[Here] = c /\ c.owner = "self"
    PROVE  (Idle \/ Works) /\ listed' \in {listed, NothingListed}
<1>1. CASE pc \in {"sync", "syncGet"}
  <2>1. Advance(obj, slots, changed)
    BY <1>1 DEF Placed
  <2> QED
    BY <2>1, AdvanceLeads DEF Works
<1>2. CASE pc \notin {"sync", "syncGet"}
  <2> DEFINE phase == SyncNodeFromTask("Running", c)
  <2>1. phase \in NodePhases /\ (phase \in Terminal => phase = c.phase)
    BY DEF SyncNodeFromTask, NodePhases, Terminal
  <2>2. Told(Here, phase)
    BY <2>1 DEF Told
  <2>3. PICK running : Advance(WithNode(obj, Here, phase), running, TRUE)
    BY <1>2 DEF Placed
  <2> HIDE DEF phase
  <2>4. WithNode(obj, Here, phase) \in Workflow
    BY <2>1, NodeSet
  <2>5. (Idle \/ GoesOn(WithNode(obj, Here, phase))) /\ listed' \in {listed, NothingListed}
    BY <2>3, <2>4, AdvanceLeads
  <2> QED
    BY <2>2, <2>5 DEF Works
<1> QED
  BY <1>1, <1>2

\* Where createChildTask leads: on with the pass, to the lookup of an existing child, or
\* to an error.
LEMMA CreateLeads ==
    ASSUME obj \in Workflow, pc \in {"sync", "schedule"}, CreateChild
    PROVE  (Idle \/ Works) /\ Creates /\ listed' \in {listed, NothingListed}
<1> DEFINE c == NewChild("self", born[Here] + 1)
<1>1. c.phase \notin Terminal
  BY DEF NewChild, Terminal
<1>2. pc \in Scheduling
  BY DEF Scheduling
<1>3. CASE children[Here] = NoChild
  <2>1. Placed(c) /\ Creates
    BY <1>3 DEF CreateChild, Creates
  <2> HIDE DEF c
  <2> QED
    BY <1>1, <1>2, <2>1, PlacedLeads
<1>4. CASE children[Here] # NoChild
  BY <1>4, <1>2 DEF CreateChild, Creates, Works, GoesOn, Scheduling, SameBut
<1> QED
  BY <1>3, <1>4

\* Every step of reconcileGraph.
LEMMA SchedulingLeads ==
    ASSUME obj \in Workflow, SyncNode \/ ScheduleNode \/ GetExisting
    PROVE  /\ pc \in Scheduling
           /\ Idle \/ Works
           /\ Creates
           /\ listed' \in {listed, NothingListed}
           /\ UNCHANGED <<wf, wfCache, childCache, ended, userActs, faults>>
<1>1. CASE SyncNode
  <2>1. /\ pc = "sync" /\ pc \in Scheduling
        /\ UNCHANGED <<wf, wfCache, childCache, ended, userActs, faults>>
    BY <1>1 DEF SyncNode, cacheVars, queueVars, Scheduling
  <2> DEFINE phase == SyncNodeFromTask("Running", listed[Here])
  <2>2. CASE Advance(obj, slots, changed) /\ UNCHANGED <<children, born>>
    BY <2>1, <2>2, AdvanceLeads DEF Works, Creates
  <2>3. CASE Advance(WithNode(obj, Here, phase), slots - 1, TRUE) /\ UNCHANGED <<children, born>>
    <3>1. phase \in NodePhases /\ Told(Here, phase)
      BY DEF SyncNodeFromTask, NodePhases, Terminal, Told
    <3> HIDE DEF phase
    <3>2. WithNode(obj, Here, phase) \in Workflow
      BY <3>1, NodeSet
    <3> QED
      BY <2>1, <2>3, <3>1, <3>2, AdvanceLeads DEF Works, Creates
  <2>4. CASE CreateChild
    BY <2>1, <2>4, CreateLeads
  <2> QED
    BY <1>1, <2>1, <2>2, <2>3, <2>4 DEF SyncNode
<1>2. CASE ScheduleNode
  <2>1. /\ pc = "schedule" /\ pc \in Scheduling
        /\ UNCHANGED <<wf, wfCache, childCache, ended, userActs, faults>>
    BY <1>2 DEF ScheduleNode, cacheVars, queueVars, Scheduling
  <2>2. CASE Advance(obj, slots, changed) /\ UNCHANGED <<children, born>>
    BY <2>1, <2>2, AdvanceLeads DEF Works, Creates
  <2>3. CASE Advance(WithNode(obj, Here, "Skipped"), slots, TRUE) /\ UNCHANGED <<children, born>>
    <3>1. "Skipped" \in NodePhases /\ Told(Here, "Skipped")
      BY DEF NodePhases, Terminal, Told
    <3>2. WithNode(obj, Here, "Skipped") \in Workflow
      BY <3>1, NodeSet
    <3> QED
      BY <2>1, <2>3, <3>1, <3>2, AdvanceLeads DEF Works, Creates
  <2>4. CASE CreateChild
    BY <2>1, <2>4, CreateLeads
  <2> QED
    BY <1>2, <2>1, <2>2, <2>3, <2>4 DEF ScheduleNode
<1>3. CASE GetExisting
  <2> DEFINE c == childCache[Here]
  <2>1. /\ pc \in Scheduling /\ children' = children /\ born' = born
        /\ UNCHANGED <<wf, wfCache, childCache, ended, userActs, faults>>
    BY <1>3 DEF GetExisting, cacheVars, ghostVars, Scheduling
  <2>2. CASE ReturnError
    BY <2>1, <2>2 DEF ReturnError, Return, Idle, Creates
  <2>3. CASE Call("write", WithPhase(obj, "Failed")) /\ UNCHANGED current
    <3>1. "Failed" \in Phases
      BY DEF Phases
    <3> QED
      BY <2>1, <2>3, <3>1, PhaseSet DEF Call, GoesOn, Works, Creates
  <2>4. CASE c.owner = "self" /\ Placed(c)
    BY <2>1, <2>4, PlacedLeads DEF Creates
  <2> QED
    BY <1>3, <2>1, <2>2, <2>3, <2>4 DEF GetExisting
<1> QED
  BY <1>1, <1>2, <1>3

-----------------------------------------------------------------------------
(* What the other steps do.                                                *)

\* A copy w of the Workflow has ended, for good.
Finished(w) == w.status.phase \in Terminal /\ DOMAIN w.status.nodes # {}

\* listChildTasks, on the Task cache.
ListedNow == [n \in Nodes |-> IF n \in Own(childCache) THEN childCache[n] ELSE NoChild]

\* Reconcile comes to its first call with a copy of the cached Workflow.
Enters ==
    \/ /\ BeingDeleted(wfCache) /\ pc' = "delete" /\ obj' = wfCache
       /\ listed' = ListedNow
       /\ left' = {n \in Own(childCache) : ~childCache[n].deleting}
       /\ changed' = (\E n \in Own(childCache) : childCache[n].deleting)
    \/ /\ ~wfCache.deleting /\ pc' = "update" /\ listed' = NothingListed
       /\ obj' = [wfCache EXCEPT !.finalizer = TRUE]
    \/ /\ ~wfCache.deleting /\ wfCache.finalizer /\ pc' = "write" /\ listed' = NothingListed
       /\ obj' \in Workflow /\ SameBut(obj', wfCache)
       /\ obj'.status.nodes = wfCache.status.nodes
       /\ Finished(wfCache) => obj'.status.phase = wfCache.status.phase
    \/ /\ ~wfCache.deleting /\ wfCache.finalizer /\ pc' = "sync" /\ listed' = ListedNow
       /\ ~Finished(wfCache) /\ Begin(wfCache)

\* Where the start of a reconcile leads, with what Get found in the cache as the local
\* copy.
LEMMA ReconcileLeads ==
    ASSUME wfCache \in Workflow, Reconcile
    PROVE  /\ pc = "idle" /\ Enters
           /\ current' = IF "cache" \in current THEN current \cup {"reconciler"} ELSE current
           /\ UNCHANGED <<wf, children, wfCache, childCache, born, ended, userActs, faults>>
<1> DEFINE t == wfCache
           over == IsWorkflowTerminal(t.status.phase)
           retry == CanRetryAfterValidationFailure(t)
           seen == t.status.observed = t.generation
           managed == Exists(t) /\ ~BeingDeleted(t) /\ t.finalizer
           schedules == managed /\ (~over \/ (~seen /\ retry))
<1>1. /\ pc = "idle"
      /\ current' = IF "cache" \in current THEN current \cup {"reconciler"} ELSE current
      /\ UNCHANGED <<wf, children, wfCache, childCache, born, ended, userActs, faults>>
  BY DEF Reconcile, cacheVars, ghostVars
<1>2. schedules => ~Finished(t) /\ ~t.deleting /\ t.finalizer
  BY DEF IsWorkflowTerminal, CanRetryAfterValidationFailure, Finished, BeingDeleted, Terminal
<1>3. CASE Exists(t) /\ BeingDeleted(t) /\ BeginDeletion(t)
  BY <1>1, <1>3 DEF BeginDeletion, Enters, ListedNow
<1>4. CASE Exists(t) /\ ~BeingDeleted(t) /\ ~t.finalizer
           /\ Call("update", [t EXCEPT !.finalizer = TRUE])
  BY <1>1, <1>4 DEF Call, Enters, BeingDeleted
<1>5. CASE managed /\ over /\ ~seen /\ ~retry
           /\ Call("write", [t EXCEPT !.status.observed = t.generation])
  BY <1>1, <1>5, ObservedSet DEF Call, Enters, BeingDeleted
<1>6. CASE schedules /\ t.spec \notin ValidSpecs /\ Call("write", MarkedFailed(t))
  BY <1>1, <1>2, <1>6, FailedSet DEF Call, Enters
<1>7. CASE schedules /\ t.spec \in ValidSpecs /\ Begin(t)
  <2>1. pc' = "sync" /\ listed' = ListedNow
    BY <1>7 DEF Begin, ListedNow
  <2> QED
    BY <1>1, <1>2, <1>7, <2>1 DEF Enters
<1> QED
  BY <1>1, <1>3, <1>4, <1>5, <1>6, <1>7 DEF Reconcile

\* A valid plan leads into the first pass of advanceNodes over the initialized nodes.
LEMMA BeginLeads ==
    ASSUME wfCache \in Workflow, Begin(wfCache)
    PROVE  /\ pc' = "sync" /\ obj' = Initialized(wfCache)
           /\ obj' \in Workflow /\ SameBut(obj', wfCache)
           /\ listed' = ListedNow
BY InitializedSet DEF Begin, ListedNow

\* The Tasks change, through the Task reconciler, the garbage collector or a user.
TaskStep ==
    \/ ChildStep
    \/ \E n \in Nodes : UserDeletesChild(n) \/ UserRerunsChild(n) \/ UserTakesName(n)

\* One Task under a child name ends, restarts, is deleted, goes away or appears.
TaskChange(n) ==
    \/ /\ children[n].owner = "self" /\ userActs' = userActs
       /\ \E phase \in Terminal :
           /\ children' = [children EXCEPT ![n] = [children[n] EXCEPT !.phase = phase]]
           /\ ended' = [ended EXCEPT ![n] = @ \cup {phase}]
    \/ /\ children[n] # NoChild /\ children[n].owner # "self" /\ userActs' = userActs
       /\ \E phase \in Terminal :
           children' = [children EXCEPT ![n] = [children[n] EXCEPT !.phase = phase]]
       /\ ended' = ended
    \/ /\ children[n].deleting /\ children' = [children EXCEPT ![n] = NoChild]
       /\ userActs' = userActs /\ ended' = ended
    \/ /\ children[n].owner = "self" /\ ~Exists(wf)
       /\ \E d \in Deleted(children[n]) : children' = [children EXCEPT ![n] = d]
       /\ userActs' = userActs /\ ended' = ended
    \/ /\ "deleteChild" \in UserActs
       /\ userActs < MaxUserActs /\ userActs' = userActs + 1
       /\ \E d \in Deleted(children[n]) : children' = [children EXCEPT ![n] = d]
       /\ ended' = ended
    \/ /\ "rerunChild" \in UserActs
       /\ userActs < MaxUserActs /\ userActs' = userActs + 1
       /\ children' = [children EXCEPT ![n] = [children[n] EXCEPT !.phase = "Running"]]
       /\ ended' = ended
    \/ /\ n \in Foreign /\ children[n] = NoChild
       /\ userActs < MaxUserActs /\ userActs' = userActs + 1
       /\ children' = [children EXCEPT ![n] = NewChild("other", 0)]
       /\ ended' = ended

\* A child Task ends, disappears or is changed by a user: only children and their
\* history move.
LEMMA TaskStepLeads ==
    ASSUME TaskStep
    PROVE  /\ \E n \in Nodes : TaskChange(n)
           /\ UNCHANGED <<wf, wfCache, childCache, current, pc, obj, graph, listed, left,
                          slots, changed, born, faults>>
<1>1. PICK n \in Nodes : \/ ChildEnds(n) \/ ChildGone(n) \/ CollectChild(n)
                         \/ UserDeletesChild(n) \/ UserRerunsChild(n) \/ UserTakesName(n)
  BY DEF TaskStep, ChildStep
<1>2. CASE ChildEnds(n)
  BY <1>2 DEF ChildEnds, ChildChange, TaskChange, Own, cacheVars, recVars, queueVars
<1>3. CASE ChildGone(n)
  BY <1>3 DEF ChildGone, ChildChange, TaskChange, cacheVars, recVars, queueVars
<1>4. CASE CollectChild(n)
  BY <1>4 DEF CollectChild, ChildChange, TaskChange, cacheVars, recVars, queueVars
<1>5. CASE UserDeletesChild(n)
  BY <1>5 DEF UserDeletesChild, UserAct, ChildChange, TaskChange, cacheVars, recVars, queueVars
<1>6. CASE UserRerunsChild(n)
  BY <1>6 DEF UserRerunsChild, UserAct, ChildChange, TaskChange, cacheVars, recVars, queueVars
<1>7. CASE UserTakesName(n)
  BY <1>7 DEF UserTakesName, UserAct, ChildChange, TaskChange, cacheVars, recVars, queueVars
<1> QED
  BY <1>1, <1>2, <1>3, <1>4, <1>5, <1>6, <1>7

\* A user edits or deletes the Workflow.
EditStep == UpdateSpec \/ DeleteWorkflow

\* A user's edit or deletion of the Workflow: the status stays, the generation is paid
\* for by a user action.
LEMMA EditLeads ==
    ASSUME wf \in Workflow, userActs \in Nat, wf.generation <= 1 + userActs, EditStep
    PROVE  /\ wf' \in Workflow /\ wf'.finalizer = wf.finalizer /\ wf'.status = wf.status
           /\ wf.deleting => wf'.deleting
           /\ wf'.generation <= 1 + userActs'
           /\ userActs' = userActs + 1 /\ userActs < MaxUserActs
           /\ current' = IF wf' = wf THEN current ELSE {}
           /\ UNCHANGED <<children, wfCache, childCache, pc, obj, graph, listed, left,
                          slots, changed, born, ended, faults>>
<1>0. wf.generation \in Nat /\ MaxUserActs \in Nat
  BY Fields, BoundsFit DEF Generations
<1>1. CASE UpdateSpec
  <2>1. PICK s \in Specs : UserWrites([wf EXCEPT !.spec = s, !.generation = @ + 1])
    BY <1>1 DEF UpdateSpec
  <2>2. userActs' = userActs + 1 /\ userActs < MaxUserActs /\ wf.generation <= MaxUserActs
    BY <1>0, <1>1 DEF UpdateSpec, UserAct
  <2>3. /\ wf' \in Workflow /\ wf'.finalizer = wf.finalizer /\ wf'.deleting = wf.deleting
        /\ wf'.generation = wf.generation + 1 /\ wf'.status = wf.status
    BY <2>1, <2>2, SpecSet DEF UserWrites
  <2>4. wf'.generation <= 1 + userActs'
    BY <1>0, <2>2, <2>3
  <2> QED
    BY <2>1, <2>2, <2>3, <2>4 DEF UserWrites, CopiesAfter, cacheVars, recVars, ghostVars, queueVars
<1>2. CASE DeleteWorkflow
  <2>1. UserWrites([wf EXCEPT !.deleting = TRUE])
    BY <1>2 DEF DeleteWorkflow
  <2>2. userActs' = userActs + 1 /\ userActs < MaxUserActs
    BY <1>2 DEF DeleteWorkflow, UserAct
  <2>3. /\ wf' \in Workflow /\ wf'.finalizer = wf.finalizer /\ wf'.deleting
        /\ wf'.generation = wf.generation /\ wf'.status = wf.status
    BY <2>1, DeletingSet DEF UserWrites
  <2>4. wf'.generation <= 1 + userActs'
    BY <1>0, <2>2, <2>3
  <2> QED
    BY <2>1, <2>2, <2>3, <2>4 DEF UserWrites, CopiesAfter, cacheVars, recVars, ghostVars, queueVars
<1> QED
  BY <1>1, <1>2 DEF EditStep

\* The reconcile is given up: a rejected write or a call that fails.
GivesUp == WriteRejected \/ CallFails

\* A failed call or a crash: the reconcile is over and its local variables are gone.
LEMMA GivesUpLeads ==
    ASSUME GivesUp
    PROVE  /\ Idle /\ listed' = NothingListed
           /\ left' = {} /\ slots' = 0 /\ changed' = FALSE
           /\ UNCHANGED <<wf, children, wfCache, childCache, born, ended, userActs>>
<1>1. CASE WriteRejected
  BY <1>1 DEF WriteRejected, ReturnError, Return, Idle, cacheVars, ghostVars
<1>2. CASE CallFails
  BY <1>2 DEF CallFails, ReturnError, Return, Idle, cacheVars, ghostVars
<1> QED
  BY <1>1, <1>2 DEF GivesUp

\* The steps of the module, grouped.
LEMMA StepKinds ==
    ASSUME Next
    PROVE  \/ SyncNode \/ ScheduleNode \/ GetExisting
           \/ Reconcile \/ ReconcileNothing \/ Write \/ GivesUp
           \/ DeleteChild \/ FinishDeletion
           \/ RefreshWorkflow \/ RefreshChildren \/ TimerFires
           \/ TaskStep \/ EditStep \/ Crash
BY DEF Next, ReconcilerStep, GivesUp, TaskStep, UserStep, EditStep

-----------------------------------------------------------------------------
(* The copies of the Workflow.                                             *)

\* Every copy is a Workflow, and no generation was made without a user.
CopiesFit ==
    /\ wf \in Workflow /\ wfCache \in Workflow /\ obj \in Workflow
    /\ current \subseteq {"cache", "reconciler"}
    /\ pc \in Pcs
    /\ userActs \in 0..MaxUserActs
    /\ wf.generation <= 1 + userActs
    /\ wfCache.generation <= 1 + userActs
    /\ obj.generation <= 1 + userActs

\* A copy that is marked as current is what the API server has, up to what the
\* reconcile itself has changed: the finalizer, or the status of a Workflow that
\* had not ended.
CopiesCurrent ==
    /\ "cache" \in current => wfCache = wf
    /\ pc = "idle" => "reconciler" \notin current
    /\ "reconciler" \in current =>
        /\ obj.deleting = wf.deleting
        /\ pc \in Scheduling \cup {"write"} => obj.finalizer = wf.finalizer
        /\ pc \in Scheduling => ~Finished(wf)
        /\ pc = "write" /\ Finished(wf) => obj.status.phase = wf.status.phase
        /\ pc \in {"delete", "update"} => obj.status = wf.status

\* The cleared local variable is a Workflow in type and has no nodes.
LEMMA NoObjectFits ==
    ASSUME wf \in Workflow
    PROVE  /\ NoObject \in Workflow /\ NoObject.generation = 1
           /\ NoObject.status.nodes = <<>>
<1>1. Specs # {}
  BY Fields
<1>2. (CHOOSE s \in Specs : TRUE) \in Specs
  BY <1>1
<1> QED
  BY <1>2, NewWorkflowFits DEF NoObject

\* The stored Workflow, its cached copy and the local copy are well-formed at first.
LEMMA CopiesFitInit == Init => CopiesFit
<1> SUFFICES ASSUME Init PROVE CopiesFit
  OBVIOUS
<1>1. wf \in Workflow /\ wf.generation = 1 /\ wfCache = wf /\ obj = NoObject
  BY NewWorkflowFits DEF Init
<1>2. obj \in Workflow /\ obj.generation = 1
  BY <1>1, NoObjectFits
<1> QED
  BY <1>1, <1>2, BoundsFit DEF CopiesFit, Init, Pcs

\* A copy that differs in its status only has the same generation.
LEMMA CopiesFitStep == CopiesFit /\ [Next]_vars => CopiesFit'
<1> SUFFICES ASSUME CopiesFit, [Next]_vars PROVE CopiesFit'
  OBVIOUS
<1> USE DEF CopiesFit
<1>0. MaxUserActs \in Nat
  BY BoundsFit
<1>1. CASE UNCHANGED vars
  BY <1>1 DEF vars
<1>2. NoObject \in Workflow /\ NoObject.generation <= 1 + userActs
  BY <1>0, NoObjectFits
<1>3. "idle" \in Pcs /\ Scheduling \cup {"write"} \subseteq Pcs /\ {"delete", "update"} \subseteq Pcs
  BY DEF Pcs, Scheduling
<1>4. CASE SyncNode \/ ScheduleNode \/ GetExisting
  <2>1. Idle \/ (GoesOn(obj) \/ \E n, phase : Told(n, phase) /\ GoesOn(WithNode(obj, n, phase)))
    BY <1>4, SchedulingLeads DEF Works
  <2>2. UNCHANGED <<wf, wfCache, userActs>>
    BY <1>4, SchedulingLeads
  <2>3. CASE Idle
    BY <1>2, <1>3, <2>2, <2>3 DEF Idle
  <2>4. CASE GoesOn(obj)
    BY <1>3, <2>2, <2>4 DEF GoesOn, SameBut
  <2>5. CASE \E n, phase : Told(n, phase) /\ GoesOn(WithNode(obj, n, phase))
    <3>1. PICK n, phase : phase \in NodePhases /\ GoesOn(WithNode(obj, n, phase))
      BY <2>5 DEF Told
    <3>2. SameBut(WithNode(obj, n, phase), obj)
      BY <3>1, NodeSet
    <3> QED
      BY <1>3, <2>2, <3>1, <3>2 DEF GoesOn, SameBut
  <2> QED
    BY <2>1, <2>3, <2>4, <2>5
<1>5. CASE Reconcile
  <2>1. Enters /\ UNCHANGED <<wf, wfCache, userActs>> /\ current' \subseteq {"cache", "reconciler"}
    BY <1>5, ReconcileLeads
  <2>2. pc' \in Pcs /\ obj' \in Workflow /\ obj'.generation = wfCache.generation
    BY <1>3, <2>1, FinalizerSet, BeginLeads DEF Enters, SameBut, Scheduling
  <2> QED
    BY <2>1, <2>2
<1>6. CASE ReconcileNothing \/ TimerFires \/ RefreshChildren
  BY <1>6 DEF ReconcileNothing, TimerFires, RefreshChildren, cacheVars, recVars
<1>7. CASE Write
  <2>1. /\ wf' = obj /\ UNCHANGED <<wfCache, userActs>> /\ pc' = "idle" /\ obj' = NoObject
        /\ current' \subseteq current
    BY <1>7 DEF Write, Return, CopiesAfter, cacheVars
  <2> QED
    BY <1>2, <1>3, <2>1
<1>8. CASE GivesUp
  BY <1>2, <1>3, <1>8, GivesUpLeads DEF Idle
<1>9. CASE DeleteChild
  <2>1. /\ UNCHANGED <<wf, wfCache, userActs>>
        /\ \/ UNCHANGED <<pc, obj, current>>
           \/ pc' = "idle" /\ obj' = NoObject /\ current' \subseteq current
    BY <1>9 DEF DeleteChild, ReturnError, Return, cacheVars
  <2> QED
    BY <1>2, <1>3, <2>1
<1>10. CASE FinishDeletion
  <2>1. UNCHANGED <<wf, wfCache, userActs>> /\ current' \subseteq current
    BY <1>10 DEF FinishDeletion, Return, cacheVars
  <2>2. \/ pc' = "idle" /\ obj' = NoObject
        \/ pc' = "update" /\ obj' = [obj EXCEPT !.finalizer = FALSE]
    BY <1>10 DEF FinishDeletion, Return, Call
  <2>3. obj' \in Workflow /\ obj'.generation <= 1 + userActs
    BY <1>2, <2>2, FinalizerSet
  <2> QED
    BY <1>3, <2>1, <2>2, <2>3
<1>11. CASE RefreshWorkflow
  BY <1>11 DEF RefreshWorkflow, recVars
<1>12. CASE TaskStep
  <2>1. PICK n \in Nodes : TaskChange(n)
    BY <1>12, TaskStepLeads
  <2>2. userActs' = userActs \/ (userActs < MaxUserActs /\ userActs' = userActs + 1)
    BY <2>1 DEF TaskChange
  <2>3. \A g \in Generations : g <= 1 + userActs => g <= 1 + userActs'
    BY <1>0, <2>2 DEF Generations
  <2>4. UNCHANGED <<wf, wfCache, current, pc, obj>>
    BY <1>12, TaskStepLeads
  <2> QED
    BY <1>0, <2>2, <2>3, <2>4, Fields
<1>13. CASE EditStep
  <2>1. /\ wf' \in Workflow /\ wf'.generation <= 1 + userActs'
        /\ userActs' = userActs + 1 /\ userActs < MaxUserActs
        /\ current' \subseteq current
        /\ UNCHANGED <<wfCache, pc, obj>>
    BY <1>0, <1>13, EditLeads
  <2>2. \A g \in Generations : g <= 1 + userActs => g <= 1 + userActs'
    BY <1>0, <2>1 DEF Generations
  <2> QED
    BY <1>0, <2>1, <2>2, Fields
<1>14. CASE Crash
  BY <1>2, <1>3, <1>14 DEF Crash
<1> QED
  BY <1>1, <1>4, <1>5, <1>6, <1>7, <1>8, <1>9, <1>10, <1>11, <1>12, <1>13, <1>14, StepKinds

\* Copies called current at first are equal to what is stored.
LEMMA CopiesCurrentInit == Init => CopiesCurrent
BY DEF Init, CopiesCurrent

\* No write is accepted without making the other copies old, so that current copies stay
\* equal to what is stored.
LEMMA CopiesCurrentStep ==
    CopiesFit /\ CopiesCurrent /\ [Next]_vars => CopiesCurrent'
<1> SUFFICES ASSUME CopiesFit, CopiesCurrent, [Next]_vars PROVE CopiesCurrent'
  OBVIOUS
<1>0. wf \in Workflow /\ wfCache \in Workflow /\ obj \in Workflow
  BY DEF CopiesFit
<1>1. CASE UNCHANGED vars
  BY <1>1 DEF vars, CopiesCurrent, Finished
<1>2. ASSUME "cache" \in current' => wfCache' = wf', "reconciler" \notin current'
      PROVE  CopiesCurrent'
  BY <1>2 DEF CopiesCurrent
<1>3. ASSUME Idle, UNCHANGED <<wf, wfCache>> PROVE CopiesCurrent'
  BY <1>2, <1>3 DEF Idle, CopiesCurrent
<1>4. CASE SyncNode \/ ScheduleNode \/ GetExisting
  <2>1. pc \in Scheduling /\ (Idle \/ Works) /\ UNCHANGED <<wf, wfCache>>
    BY <1>0, <1>4, SchedulingLeads
  <2>2. CASE Works
    <3>1. /\ pc' \in Scheduling \cup {"write"} /\ current' = current
          /\ obj'.finalizer = obj.finalizer /\ obj'.deleting = obj.deleting
      <4>1. CASE GoesOn(obj)
        BY <4>1 DEF GoesOn, SameBut
      <4>2. CASE \E n, phase : Told(n, phase) /\ GoesOn(WithNode(obj, n, phase))
        <5>1. PICK n, phase : phase \in NodePhases /\ GoesOn(WithNode(obj, n, phase))
          BY <4>2 DEF Told
        <5>2. SameBut(WithNode(obj, n, phase), obj)
          BY <1>0, <5>1, NodeSet
        <5> QED
          BY <5>1, <5>2 DEF GoesOn, SameBut
      <4> QED
        BY <2>2, <4>1, <4>2 DEF Works
    <3>2. "reconciler" \in current =>
            obj.deleting = wf.deleting /\ obj.finalizer = wf.finalizer /\ ~Finished(wf)
      BY <2>1 DEF CopiesCurrent
    <3>3. pc' # "idle" /\ pc' \notin {"delete", "update"} /\ Finished(wf') = Finished(wf)
      BY <2>1, <3>1 DEF Scheduling, Finished
    <3> QED
      BY <2>1, <3>1, <3>2, <3>3 DEF CopiesCurrent
  <2> QED
    BY <1>3, <2>1, <2>2
<1>5. CASE Reconcile
  <2>1. /\ pc = "idle" /\ Enters /\ UNCHANGED <<wf, wfCache>>
        /\ current' = IF "cache" \in current THEN current \cup {"reconciler"} ELSE current
    BY <1>0, <1>5, ReconcileLeads
  <2>2. CASE "cache" \notin current
    BY <1>2, <2>1, <2>2 DEF CopiesCurrent
  <2>3. CASE "cache" \in current
    <3>1. wfCache = wf /\ wfCache' = wf' /\ Finished(wf') = Finished(wf)
      BY <2>1, <2>3 DEF CopiesCurrent, Finished
    <3>2. CASE pc' = "delete" /\ obj' = wfCache
      BY <2>1, <3>1, <3>2 DEF CopiesCurrent, Scheduling
    <3>3. CASE pc' = "update" /\ obj' = [wfCache EXCEPT !.finalizer = TRUE]
      BY <1>0, <2>1, <3>1, <3>3, FinalizerSet DEF CopiesCurrent, Scheduling
    <3>4. CASE /\ pc' = "write" /\ SameBut(obj', wfCache)
               /\ Finished(wfCache) => obj'.status.phase = wfCache.status.phase
      BY <2>1, <3>1, <3>4 DEF CopiesCurrent, Scheduling, SameBut
    <3>5. CASE pc' = "sync" /\ ~Finished(wfCache) /\ Begin(wfCache)
      BY <1>0, <2>1, <3>1, <3>5, BeginLeads DEF CopiesCurrent, SameBut
    <3> QED
      BY <2>1, <3>2, <3>3, <3>4, <3>5 DEF Enters
  <2> QED
    BY <2>2, <2>3
<1>6. CASE ReconcileNothing \/ TimerFires \/ RefreshChildren
  BY <1>6 DEF ReconcileNothing, TimerFires, RefreshChildren, cacheVars, recVars, CopiesCurrent,
     Finished
<1>7. CASE Write
  <2>1. wf' = obj /\ wfCache' = wfCache /\ current' = CopiesAfter(obj) \ {"reconciler"}
    BY <1>7 DEF Write, Return, cacheVars
  <2>2. "cache" \in current' => wfCache' = wf'
    BY <2>1 DEF CopiesAfter, CopiesCurrent
  <2> QED
    BY <1>2, <2>1, <2>2
<1>8. CASE GivesUp
  BY <1>3, <1>8, GivesUpLeads
<1>9. CASE DeleteChild
  <2>1. UNCHANGED <<wf, wfCache>> /\ (UNCHANGED <<pc, obj, current>> \/ Idle)
    BY <1>9 DEF DeleteChild, ReturnError, Return, Idle, cacheVars
  <2> QED
    BY <1>3, <2>1 DEF CopiesCurrent, Finished
<1>10. CASE FinishDeletion
  <2>1. pc = "delete" /\ UNCHANGED <<wf, wfCache>>
    BY <1>10 DEF FinishDeletion, cacheVars
  <2>2. \/ Idle
        \/ pc' = "update" /\ obj' = [obj EXCEPT !.finalizer = FALSE] /\ current' = current
    BY <1>10 DEF FinishDeletion, Return, Call, Idle
  <2>3. CASE pc' = "update" /\ obj' = [obj EXCEPT !.finalizer = FALSE] /\ current' = current
    <3>1. obj'.deleting = obj.deleting /\ obj'.status = obj.status
      BY <1>0, <2>3, FinalizerSet
    <3> QED
      BY <2>1, <2>3, <3>1 DEF CopiesCurrent, Scheduling
  <2> QED
    BY <1>3, <2>1, <2>2, <2>3
<1>11. CASE RefreshWorkflow
  BY <1>11 DEF RefreshWorkflow, recVars, CopiesCurrent, Finished
<1>12. CASE TaskStep
  BY <1>12, TaskStepLeads DEF CopiesCurrent, Finished
<1>13. CASE EditStep
  <2>1. wf.generation <= 1 + userActs /\ userActs \in Nat
    BY BoundsFit DEF CopiesFit
  <2>2. /\ current' = IF wf' = wf THEN current ELSE {}
        /\ UNCHANGED <<wfCache, pc, obj>>
    BY <1>0, <1>13, <2>1, EditLeads
  <2>3. CASE wf' = wf
    BY <2>2, <2>3 DEF CopiesCurrent, Finished
  <2>4. CASE wf' # wf
    BY <1>2, <2>2, <2>4
  <2> QED
    BY <2>3, <2>4
<1>14. CASE Crash
  BY <1>2, <1>14 DEF Crash
<1> QED
  BY <1>1, <1>4, <1>5, <1>6, <1>7, <1>8, <1>9, <1>10, <1>11, <1>12, <1>13, <1>14, StepKinds

\* The only steps that store a Workflow are the reconciler's write and a user's.
LEMMA OnlyWritten ==
    ASSUME CopiesFit, [Next]_vars
    PROVE  wf' = wf \/ Write \/ EditStep
<1>0. wf \in Workflow /\ wfCache \in Workflow /\ obj \in Workflow
  BY DEF CopiesFit
<1>1. CASE UNCHANGED vars
  BY <1>1 DEF vars
<1>2. CASE SyncNode \/ ScheduleNode \/ GetExisting
  BY <1>0, <1>2, SchedulingLeads
<1>3. CASE Reconcile
  BY <1>0, <1>3, ReconcileLeads
<1>4. CASE ReconcileNothing \/ TimerFires \/ RefreshChildren \/ RefreshWorkflow \/ Crash
  BY <1>4 DEF ReconcileNothing, TimerFires, RefreshChildren, RefreshWorkflow, Crash
<1>5. CASE GivesUp
  BY <1>5, GivesUpLeads
<1>6. CASE DeleteChild \/ FinishDeletion
  BY <1>6 DEF DeleteChild, FinishDeletion
<1>7. CASE TaskStep
  BY <1>7, TaskStepLeads
<1> QED
  BY <1>1, <1>2, <1>3, <1>4, <1>5, <1>6, <1>7, StepKinds

\* isWorkflowTerminal: the phase of a Workflow that has ended stays.  A write
\* of the reconciler is accepted only if its copy is current, and then it was
\* made from the ended Workflow.
THEOREM EndStays == Spec => EndIsFinal
<1>1. CopiesFit /\ CopiesCurrent /\ [Next]_vars
        => [Over => wf'.status.phase = wf.status.phase]_vars
  <2> SUFFICES ASSUME CopiesFit, CopiesCurrent, [Next]_vars, Over
               PROVE  wf'.status.phase = wf.status.phase
    OBVIOUS
  <2>1. CASE wf' = wf
    BY <2>1
  <2>2. CASE Write
    <3>1. wf' = obj /\ "reconciler" \in current /\ pc \in {"write", "update"}
      BY <2>2 DEF Write, WriteAccepted
    <3>2. Finished(wf)
      BY DEF Over, Finished
    <3> QED
      BY <3>1, <3>2 DEF CopiesCurrent
  <2>3. CASE EditStep
    <3>1. wf \in Workflow /\ wf.generation <= 1 + userActs /\ userActs \in Nat
      BY BoundsFit DEF CopiesFit
    <3> QED
      BY <2>3, <3>1, EditLeads
  <2> QED
    BY <2>1, <2>2, <2>3, OnlyWritten
<1> QED
  BY <1>1, CopiesFitInit, CopiesFitStep, CopiesCurrentInit, CopiesCurrentStep, PTL
     DEF Spec, EndIsFinal

-----------------------------------------------------------------------------
(* The child Tasks.                                                        *)

\* A Task under a child name, however often it was created.
AnyChild == [owner: {"none", "self", "other"}, uid: Nat, phase: {"Running"} \cup Terminal,
             deleting: BOOLEAN]

\* Every copy of the children is a function of the nodes, and a listed child
\* is one of the Workflow's own or none.
ChildrenFit ==
    /\ children \in [Nodes -> AnyChild] /\ childCache \in [Nodes -> AnyChild]
    /\ listed \in [Nodes -> AnyChild]
    /\ born \in [Nodes -> Nat]
    /\ ended \in [Nodes -> SUBSET Terminal]

\* The type of each field of a child Task.
LEMMA ChildFields ==
    ASSUME NEW c \in AnyChild
    PROVE  /\ c.owner \in {"none", "self", "other"} /\ c.uid \in Nat
           /\ c.phase \in {"Running"} \cup Terminal /\ c.deleting \in BOOLEAN
BY DEF AnyChild

\* A child that ends or is marked for deletion remains a child of the same owner.
LEMMA ChildUpdates ==
    ASSUME NEW c \in AnyChild
    PROVE  /\ \A phase \in {"Running"} \cup Terminal :
               /\ [c EXCEPT !.phase = phase] \in AnyChild
               /\ [c EXCEPT !.phase = phase].phase = phase
               /\ [c EXCEPT !.phase = phase].owner = c.owner
               /\ [c EXCEPT !.phase = phase].uid = c.uid
               /\ [c EXCEPT !.phase = phase].deleting = c.deleting
           /\ [c EXCEPT !.deleting = TRUE] \in AnyChild
           /\ [c EXCEPT !.deleting = TRUE].phase = c.phase
           /\ [c EXCEPT !.deleting = TRUE].owner = c.owner
           /\ [c EXCEPT !.deleting = TRUE].uid = c.uid
           /\ [c EXCEPT !.deleting = TRUE].deleting
BY DEF AnyChild

\* The absence of a child, as a record.
LEMMA NoChildFits ==
    /\ NoChild \in AnyChild /\ NoChild.owner = "none" /\ NoChild.phase = "Running"
    /\ NoChild.uid = 0 /\ ~NoChild.deleting
    /\ NothingListed \in [Nodes -> AnyChild]
<1>1. NoChild \in AnyChild /\ NoChild.owner = "none" /\ NoChild.phase = "Running"
      /\ NoChild.uid = 0 /\ ~NoChild.deleting
  BY DEF NoChild, AnyChild
<1> QED
  BY <1>1 DEF NothingListed

\* A child as createChildTask creates it: running, owned, not being deleted.
LEMMA NewChildFits ==
    ASSUME NEW owner \in {"self", "other"}, NEW uid \in Nat
    PROVE  /\ NewChild(owner, uid) \in AnyChild
           /\ NewChild(owner, uid).owner = owner /\ NewChild(owner, uid).uid = uid
           /\ NewChild(owner, uid).phase = "Running" /\ ~NewChild(owner, uid).deleting
BY DEF NewChild, AnyChild

\* What listChildTasks returns from the cache is children or absences of them.
LEMMA ListedNowFits ==
    ASSUME childCache \in [Nodes -> AnyChild]
    PROVE  ListedNow \in [Nodes -> AnyChild]
BY NoChildFits DEF ListedNow

\* Deleting a child removes it or marks it, and changes nothing else of it.
LEMMA DeletedFits ==
    ASSUME NEW c \in AnyChild, NEW d \in Deleted(c)
    PROVE  /\ d \in AnyChild
           /\ d = NoChild \/ (d.owner = c.owner /\ d.uid = c.uid /\ d.phase = c.phase /\ d.deleting)
BY NoChildFits, ChildUpdates DEF Deleted

\* Changing one value of a function keeps its domain and range.
LEMMA UpdateFits ==
    ASSUME NEW D, NEW R, NEW f \in [D -> R], NEW x, NEW v, x \in D => v \in R
    PROVE  [f EXCEPT ![x] = v] \in [D -> R]
OBVIOUS

\* Children, cache and list are well-formed at first.
LEMMA ChildrenFitInit == Init => ChildrenFit
<1> SUFFICES ASSUME Init PROVE ChildrenFit
  OBVIOUS
<1>1. NewChild("other", 0) \in AnyChild /\ NoChild \in AnyChild
  BY NewChildFits, NoChildFits
<1>2. children \in [Nodes -> AnyChild] /\ childCache = children
  BY <1>1 DEF Init
<1> QED
  BY <1>2, NoChildFits DEF Init, ChildrenFit

\* Every step keeps children, Task cache, the list and the history of births and ends
\* well-formed.
LEMMA ChildrenFitStep == CopiesFit /\ ChildrenFit /\ [Next]_vars => ChildrenFit'
<1> SUFFICES ASSUME CopiesFit, ChildrenFit, [Next]_vars PROVE ChildrenFit'
  OBVIOUS
<1> USE DEF ChildrenFit
<1>0. wf \in Workflow /\ wfCache \in Workflow /\ obj \in Workflow
  BY DEF CopiesFit
<1>1. CASE UNCHANGED vars
  BY <1>1 DEF vars
<1>2. ASSUME listed' \in {listed, NothingListed, ListedNow} PROVE listed' \in [Nodes -> AnyChild]
  BY <1>2, NoChildFits, ListedNowFits
<1>3. CASE SyncNode \/ ScheduleNode \/ GetExisting
  <2>1. Creates /\ listed' \in {listed, NothingListed} /\ UNCHANGED <<childCache, ended>>
    BY <1>0, <1>3, SchedulingLeads
  <2>2. children' \in [Nodes -> AnyChild] /\ born' \in [Nodes -> Nat]
    <3>1. CASE \E n : /\ children' = [children EXCEPT ![n] = NewChild("self", born[n] + 1)]
                      /\ born' = [born EXCEPT ![n] = @ + 1]
      <4>1. PICK n : /\ children' = [children EXCEPT ![n] = NewChild("self", born[n] + 1)]
                     /\ born' = [born EXCEPT ![n] = @ + 1]
        BY <3>1
      <4>2. n \in Nodes => NewChild("self", born[n] + 1) \in AnyChild /\ born[n] + 1 \in Nat
        BY NewChildFits
      <4> QED
        BY <4>1, <4>2, UpdateFits
    <3> QED
      BY <2>1, <3>1 DEF Creates
  <2> QED
    BY <1>2, <2>1, <2>2
<1>4. CASE Reconcile
  <2>1. UNCHANGED <<children, childCache, born, ended>> /\ Enters
    BY <1>0, <1>4, ReconcileLeads
  <2>2. listed' \in {NothingListed, ListedNow}
    BY <2>1 DEF Enters
  <2> QED
    BY <1>2, <2>1, <2>2
<1>5. CASE ReconcileNothing \/ TimerFires \/ RefreshWorkflow
  BY <1>5 DEF ReconcileNothing, TimerFires, RefreshWorkflow, cacheVars, recVars, ghostVars
<1>6. CASE Write
  BY <1>2, <1>6 DEF Write, Return, cacheVars, ghostVars
<1>7. CASE GivesUp
  BY <1>2, <1>7, GivesUpLeads
<1>8. CASE DeleteChild
  <2>1. UNCHANGED <<childCache, born, ended>> /\ listed' \in {listed, NothingListed}
    BY <1>8 DEF DeleteChild, ReturnError, Return, cacheVars, ghostVars
  <2>2. \/ children' = children
        \/ \E n : \E d \in Deleted(children[n]) : children' = [children EXCEPT ![n] = d]
    BY <1>8 DEF DeleteChild
  <2>3. children' \in [Nodes -> AnyChild]
    <3>1. CASE \E n : \E d \in Deleted(children[n]) : children' = [children EXCEPT ![n] = d]
      <4>1. PICK n : \E d \in Deleted(children[n]) : children' = [children EXCEPT ![n] = d]
        BY <3>1
      <4>2. PICK d \in Deleted(children[n]) : children' = [children EXCEPT ![n] = d]
        BY <4>1
      <4>3. n \in Nodes => d \in AnyChild
        BY DeletedFits
      <4> QED
        BY <4>2, <4>3, UpdateFits
    <3> QED
      BY <2>2, <3>1
  <2> QED
    BY <1>2, <2>1, <2>3
<1>9. CASE FinishDeletion
  BY <1>2, <1>9 DEF FinishDeletion, Return, cacheVars, ghostVars
<1>10. CASE RefreshChildren
  BY <1>10 DEF RefreshChildren, recVars, ghostVars
<1>11. CASE TaskStep
  <2>1. PICK n \in Nodes : TaskChange(n)
    BY <1>11, TaskStepLeads
  <2>2. UNCHANGED <<childCache, listed, born>>
    BY <1>11, TaskStepLeads
  <2>3. children' \in [Nodes -> AnyChild]
    <3>1. PICK d \in AnyChild : children' = [children EXCEPT ![n] = d]
      <4> DEFINE c == children[n]
      <4>0. c \in AnyChild
        OBVIOUS
      <4> HIDE DEF c
      <4>1. CASE \E phase \in Terminal : children' = [children EXCEPT ![n] = [c EXCEPT !.phase = phase]]
        BY <4>0, <4>1, ChildUpdates
      <4>2. CASE children' = [children EXCEPT ![n] = NoChild]
        BY <4>2, NoChildFits
      <4>3. CASE \E d \in Deleted(c) : children' = [children EXCEPT ![n] = d]
        BY <4>0, <4>3, DeletedFits
      <4>4. CASE children' = [children EXCEPT ![n] = [c EXCEPT !.phase = "Running"]]
        BY <4>0, <4>4, ChildUpdates
      <4>5. CASE children' = [children EXCEPT ![n] = NewChild("other", 0)]
        BY <4>5, NewChildFits
      <4> QED
        BY <2>1, <4>1, <4>2, <4>3, <4>4, <4>5 DEF TaskChange, c
    <3> QED
      BY <3>1
  <2>4. ended' \in [Nodes -> SUBSET Terminal]
    BY <2>1 DEF TaskChange
  <2> QED
    BY <2>2, <2>3, <2>4
<1>12. CASE EditStep
  <2>1. wf.generation <= 1 + userActs /\ userActs \in Nat
    BY BoundsFit DEF CopiesFit
  <2> QED
    BY <1>0, <1>12, <2>1, EditLeads
<1>13. CASE Crash
  BY <1>2, <1>13 DEF Crash, ghostVars
<1> QED
  BY <1>1, <1>3, <1>4, <1>5, <1>6, <1>7, <1>8, <1>9, <1>10, <1>11, <1>12, <1>13, StepKinds

\* Only a create adds to the Workflow's own children, and only under a free name.
LEMMA OwnShrinks ==
    ASSUME ChildrenFit, TaskStep
    PROVE  Own(children') \subseteq Own(children)
<1>1. PICK n \in Nodes : TaskChange(n)
  BY TaskStepLeads
<1>2. \A m \in Nodes \ {n} : children'[m] = children[m]
  BY <1>1 DEF TaskChange, ChildrenFit
<1>3. children'[n].owner = "self" => children[n].owner = "self"
  <2> DEFINE c == children[n]
  <2>1. c \in AnyChild /\ children \in [Nodes -> AnyChild]
    BY DEF ChildrenFit
  <2>2. \E d : children' = [children EXCEPT ![n] = d] /\ (d.owner = "self" => c.owner = "self")
    <3> HIDE DEF c
    <3>1. CASE \E phase \in {"Running"} \cup Terminal :
                 children' = [children EXCEPT ![n] = [c EXCEPT !.phase = phase]]
      <4>1. PICK phase \in {"Running"} \cup Terminal :
                   children' = [children EXCEPT ![n] = [c EXCEPT !.phase = phase]]
        BY <3>1
      <4>2. [c EXCEPT !.phase = phase].owner = c.owner
        BY <2>1, ChildUpdates
      <4> QED
        BY <4>1, <4>2
    <3>2. CASE children' = [children EXCEPT ![n] = NoChild]
      BY <3>2, NoChildFits
    <3>3. CASE \E d \in Deleted(c) : children' = [children EXCEPT ![n] = d]
      BY <2>1, <3>3, DeletedFits, NoChildFits
    <3>4. CASE children' = [children EXCEPT ![n] = NewChild("other", 0)]
      BY <3>4, NewChildFits
    <3> QED
      BY <1>1, <3>1, <3>2, <3>3, <3>4 DEF TaskChange, c
  <2> QED
    BY <2>1, <2>2
<1> QED
  BY <1>2, <1>3 DEF Own

\* Outside reconcileGraph the Workflow gets no child.
LEMMA OwnGrows ==
    ASSUME CopiesFit, ChildrenFit, Next, pc \notin Scheduling
    PROVE  Own(children') \subseteq Own(children)
<1>0. wf \in Workflow /\ wfCache \in Workflow /\ obj \in Workflow
  BY DEF CopiesFit
<1>1. CASE SyncNode \/ ScheduleNode \/ GetExisting
  BY <1>0, <1>1, SchedulingLeads
<1>2. CASE Reconcile
  BY <1>0, <1>2, ReconcileLeads
<1>3. CASE ReconcileNothing \/ Write \/ FinishDeletion
  BY <1>3 DEF ReconcileNothing, Write, FinishDeletion
<1>4. CASE RefreshWorkflow \/ RefreshChildren \/ TimerFires \/ Crash
  BY <1>4 DEF RefreshWorkflow, RefreshChildren, TimerFires, Crash
<1>5. CASE GivesUp
  BY <1>5, GivesUpLeads
<1>6. CASE DeleteChild
  <2>1. CASE children' = children
    BY <2>1
  <2>2. CASE \E n : \E d \in Deleted(children[n]) : children' = [children EXCEPT ![n] = d]
    <3>1. PICK n : \E d \in Deleted(children[n]) : children' = [children EXCEPT ![n] = d]
      BY <2>2
    <3>2. PICK d \in Deleted(children[n]) : children' = [children EXCEPT ![n] = d]
      BY <3>1
    <3>3. n \in Nodes => (d.owner = "self" => children[n].owner = "self")
      BY DeletedFits, NoChildFits DEF ChildrenFit
    <3> QED
      BY <3>2, <3>3 DEF Own, ChildrenFit
  <2> QED
    BY <1>6, <2>1, <2>2 DEF DeleteChild
<1>7. CASE TaskStep
  BY <1>7, OwnShrinks
<1>8. CASE EditStep
  <2>1. wf.generation <= 1 + userActs /\ userActs \in Nat
    BY BoundsFit DEF CopiesFit
  <2> QED
    BY <1>0, <1>8, <2>1, EditLeads
<1> QED
  BY <1>1, <1>2, <1>3, <1>4, <1>5, <1>6, <1>7, <1>8, StepKinds

-----------------------------------------------------------------------------
(* The finalizer.                                                          *)

\* The Workflow's own child Tasks that the reconcile has listed.
SeenChildren == {n \in Own(children) : listed[n] # NoChild}

\* While a reconcile schedules, the stored Workflow has its finalizer.  A
\* deletion that has seen nothing to wait for has yet to delete every child that
\* it listed; the copy that drops the finalizer was made when none of those was
\* left; and a Workflow has no child of its own before it has the finalizer.
FinalizerHolds ==
    /\ wfCache.deleting => wf.deleting
    /\ wfCache.finalizer /\ ~wfCache.deleting => wf.finalizer
    /\ pc \in Scheduling \cup {"write"} => wf.finalizer
    /\ pc = "delete" => /\ wfCache.deleting /\ obj.deleting
                        /\ changed \/ SeenChildren \subseteq left
    /\ pc = "update" /\ ~obj.finalizer => /\ wfCache.deleting /\ obj.deleting
                                          /\ SeenChildren = {}
    /\ wf.finalizer \/ wfCache.deleting \/ Own(children) = {}

\* A child name is used again only after a user deleted its Task: the Tasks
\* that the controller and the garbage collector delete are not created again,
\* because from then on the cached Workflow is being deleted.
Spent(n) ==
    IF \/ children[n].owner = "self" /\ ~children[n].deleting
       \/ wfCache.deleting /\ pc \notin Scheduling
    THEN 1 ELSE 0
BirthsBounded ==
    /\ \A n \in Nodes : born[n] <= userActs + Spent(n)
    /\ \A n \in Nodes : /\ children[n].uid <= born[n] /\ childCache[n].uid <= born[n]
                        /\ listed[n].uid <= born[n]

\* At first no child belongs to the Workflow, so that no finalizer is needed.
LEMMA FinalizerHoldsInit == Init => FinalizerHolds
<1> SUFFICES ASSUME Init PROVE FinalizerHolds
  OBVIOUS
<1>1. ~wf.finalizer /\ ~wf.deleting /\ wfCache = wf /\ pc = "idle"
  BY NewWorkflowFits DEF Init
<1>2. Own(children) = {}
  <2>1. NewChild("other", 0).owner = "other" /\ NoChild.owner = "none"
    BY NewChildFits, NoChildFits
  <2> QED
    BY <2>1 DEF Init, Own
<1> QED
  BY <1>1, <1>2 DEF FinalizerHolds, Scheduling

\* No step creates a child without a stored finalizer, or removes the finalizer while an
\* owned child exists.
LEMMA FinalizerHoldsStep ==
    CopiesFit /\ CopiesCurrent /\ ChildrenFit /\ FinalizerHolds /\ [Next]_vars => FinalizerHolds'
<1> SUFFICES ASSUME CopiesFit, CopiesCurrent, ChildrenFit, FinalizerHolds, [Next]_vars
             PROVE  FinalizerHolds'
  OBVIOUS
<1>0. wf \in Workflow /\ wfCache \in Workflow /\ obj \in Workflow
  BY DEF CopiesFit
<1>1. CASE UNCHANGED vars
  BY <1>1 DEF vars, FinalizerHolds, Own, SeenChildren
<1>2. ASSUME pc' = "idle", UNCHANGED <<wf, wfCache>>, Own(children') \subseteq Own(children)
      PROVE  FinalizerHolds'
  BY <1>2 DEF FinalizerHolds, Scheduling
<1>3. CASE SyncNode \/ ScheduleNode \/ GetExisting
  <2>1. pc \in Scheduling /\ (Idle \/ Works) /\ UNCHANGED <<wf, wfCache>>
    BY <1>0, <1>3, SchedulingLeads
  <2>2. pc' \in Scheduling \cup {"write", "idle"}
    BY <2>1 DEF Idle, Works, GoesOn
  <2>3. wf.finalizer
    BY <2>1 DEF FinalizerHolds
  <2> QED
    BY <2>1, <2>2, <2>3 DEF FinalizerHolds, Scheduling
<1>4. CASE Reconcile
  <2>1. Enters /\ UNCHANGED <<wf, children, wfCache, childCache>>
    BY <1>0, <1>4, ReconcileLeads
  <2>2. CASE pc' = "delete" /\ BeingDeleted(wfCache)
    <3>1. /\ obj' = wfCache
          /\ left' = {n \in Own(childCache) : ~childCache[n].deleting}
          /\ changed' = (\E n \in Own(childCache) : childCache[n].deleting)
      BY <2>1, <2>2 DEF Enters
    <3>2. changed' \/ SeenChildren' \subseteq left'
      <4>1. listed' = ListedNow
        BY <2>1, <2>2 DEF Enters
      <4>2. SeenChildren' \subseteq Own(childCache)
        BY <4>1 DEF SeenChildren, ListedNow, Own
      <4> QED
        BY <3>1, <4>2
    <3> QED
      BY <2>1, <2>2, <3>1, <3>2 DEF FinalizerHolds, BeingDeleted, Scheduling
  <2>3. CASE pc' = "update"
    <3>1. obj' = [wfCache EXCEPT !.finalizer = TRUE]
      BY <2>1, <2>3 DEF Enters
    <3>2. obj'.finalizer
      BY <1>0, <3>1, FinalizerSet
    <3> QED
      BY <2>1, <2>3, <3>2 DEF FinalizerHolds, Scheduling
  <2>4. CASE pc' \in {"write", "sync"} /\ wfCache.finalizer /\ ~wfCache.deleting
    BY <2>1, <2>4 DEF FinalizerHolds
  <2> QED
    BY <2>1, <2>2, <2>3, <2>4 DEF Enters
<1>5. CASE ReconcileNothing \/ TimerFires \/ RefreshChildren
  BY <1>5 DEF ReconcileNothing, TimerFires, RefreshChildren, cacheVars, recVars, FinalizerHolds,
              SeenChildren
<1>6. CASE Write
  <2>1. /\ wf' = obj /\ pc \in {"write", "update"} /\ "reconciler" \in current
        /\ pc' = "idle" /\ UNCHANGED <<wfCache, children>>
    BY <1>6 DEF Write, WriteAccepted, Return, cacheVars
  <2>2. obj.deleting = wf.deleting /\ (pc = "write" => obj.finalizer = wf.finalizer)
    BY <2>1 DEF CopiesCurrent
  <2>3. CASE obj.finalizer
    BY <2>1, <2>2, <2>3 DEF FinalizerHolds, Scheduling
  <2>4. CASE ~obj.finalizer
    <3>1. pc = "update" /\ wfCache.deleting
      BY <2>1, <2>2, <2>4 DEF FinalizerHolds
    <3> QED
      BY <2>1, <2>2, <3>1 DEF FinalizerHolds, Scheduling
  <2> QED
    BY <2>3, <2>4
<1>7. CASE GivesUp
  BY <1>2, <1>7, GivesUpLeads DEF Idle
<1>8. CASE DeleteChild
  <2>1. PICK n \in left :
          \/ /\ children[n] = NoChild /\ left' = left \ {n}
             /\ UNCHANGED <<children, pc, obj, listed, changed>>
          \/ pc' = "idle" /\ UNCHANGED children
          \/ /\ \E d \in Deleted(children[n]) : children' = [children EXCEPT ![n] = d]
             /\ changed' = TRUE /\ UNCHANGED <<pc, obj>>
    BY <1>8 DEF DeleteChild, ReturnError, Return
  <2>2. pc = "delete" /\ UNCHANGED <<wf, wfCache>>
    BY <1>8 DEF DeleteChild, cacheVars
  <2>3. CASE /\ children[n] = NoChild /\ left' = left \ {n}
             /\ UNCHANGED <<children, pc, obj, listed, changed>>
    <3>1. n \notin SeenChildren /\ SeenChildren' = SeenChildren
      BY <2>3, NoChildFits DEF Own, SeenChildren
    <3> QED
      BY <2>2, <2>3, <3>1 DEF FinalizerHolds, Scheduling
  <2>4. CASE pc' = "idle" /\ UNCHANGED children
    BY <1>2, <2>2, <2>4
  <2>5. CASE /\ \E d \in Deleted(children[n]) : children' = [children EXCEPT ![n] = d]
             /\ changed' = TRUE /\ UNCHANGED <<pc, obj>>
    <3>1. PICK d \in Deleted(children[n]) : children' = [children EXCEPT ![n] = d]
      BY <2>5
    <3>2. n \in Nodes => (d.owner = "self" => children[n].owner = "self")
      <4> SUFFICES ASSUME n \in Nodes PROVE d.owner = "self" => children[n].owner = "self"
        OBVIOUS
      <4>1. children[n] \in AnyChild
        BY DEF ChildrenFit
      <4> QED
        BY <4>1, DeletedFits, NoChildFits
    <3>3. Own(children') \subseteq Own(children)
      BY <3>1, <3>2 DEF Own, ChildrenFit
    <3> QED
      BY <2>2, <2>5, <3>3 DEF FinalizerHolds, Scheduling
  <2> QED
    BY <2>1, <2>3, <2>4, <2>5
<1>9. CASE FinishDeletion
  <2>1. pc = "delete" /\ left = {} /\ UNCHANGED <<wf, wfCache, children>>
    BY <1>9 DEF FinishDeletion, cacheVars
  <2>2. \/ pc' = "idle"
        \/ /\ ~changed /\ pc' = "update" /\ obj' = [obj EXCEPT !.finalizer = FALSE]
           /\ listed' = listed
    BY <1>9 DEF FinishDeletion, Return, Remaining
  <2>3. CASE /\ ~changed /\ pc' = "update" /\ obj' = [obj EXCEPT !.finalizer = FALSE]
             /\ listed' = listed
    <3>1. obj'.deleting = obj.deleting
      BY <1>0, <2>3, FinalizerSet
    <3>2. SeenChildren' = SeenChildren
      BY <2>1, <2>3 DEF SeenChildren
    <3> QED
      BY <2>1, <2>3, <3>1, <3>2 DEF FinalizerHolds, Scheduling
  <2> QED
    BY <1>2, <2>1, <2>2, <2>3
<1>10. CASE RefreshWorkflow
  BY <1>10 DEF RefreshWorkflow, recVars, FinalizerHolds, SeenChildren
<1>11. CASE TaskStep
  <2>1. UNCHANGED <<wf, wfCache, pc, obj, left, changed>>
    BY <1>11, TaskStepLeads
  <2>2. Own(children') \subseteq Own(children) /\ SeenChildren' \subseteq SeenChildren
    BY <1>11, TaskStepLeads, OwnShrinks DEF SeenChildren
  <2> QED
    BY <2>1, <2>2 DEF FinalizerHolds
<1>12. CASE EditStep
  <2>1. wf.generation <= 1 + userActs /\ userActs \in Nat
    BY BoundsFit DEF CopiesFit
  <2>2. /\ wf'.finalizer = wf.finalizer /\ (wf.deleting => wf'.deleting)
        /\ UNCHANGED <<wfCache, pc, obj, listed, left, changed, children>>
    BY <1>0, <1>12, <2>1, EditLeads
  <2> QED
    BY <2>2 DEF FinalizerHolds, SeenChildren
<1>13. CASE Crash
  BY <1>13 DEF Crash, FinalizerHolds, Scheduling
<1> QED
  BY <1>1, <1>3, <1>4, <1>5, <1>6, <1>7, <1>8, <1>9, <1>10, <1>11, <1>12, <1>13, StepKinds

\* At first no child was born.
LEMMA BirthsBoundedInit == Init => BirthsBounded
<1> SUFFICES ASSUME Init PROVE BirthsBounded
  OBVIOUS
<1>1. NewChild("other", 0).uid = 0 /\ NoChild.uid = 0
  BY NewChildFits, NoChildFits
<1>2. \A n \in Nodes : born[n] = 0 /\ children[n].uid = 0 /\ childCache[n].uid = 0 /\ listed[n].uid = 0
  BY <1>1 DEF Init, NothingListed
<1>3. userActs = 0 /\ \A n : Spent(n) \in {0, 1}
  BY DEF Init, Spent
<1> QED
  BY <1>2, <1>3 DEF BirthsBounded

\* When no child is created, the bound stays if no right to one more is lost.
LEMMA BoundKept ==
    ASSUME CopiesFit, ChildrenFit, BirthsBounded, born' = born, userActs' \in Nat,
           listed' \in {listed, NothingListed, ListedNow},
           childCache' \in {childCache, children},
           \A n \in Nodes : children'[n].uid \in {0, children[n].uid},
           \A n \in Nodes : userActs + Spent(n) <= userActs' + Spent(n)'
    PROVE  BirthsBounded'
<1>1. userActs \in Nat
  BY BoundsFit DEF CopiesFit
<1>2. \A n \in Nodes : Spent(n) \in {0, 1} /\ Spent(n)' \in {0, 1}
  BY DEF Spent
<1>3. \A n \in Nodes : born'[n] <= userActs' + Spent(n)'
  BY <1>1, <1>2 DEF BirthsBounded, ChildrenFit
<1>4. \A n \in Nodes : born[n] \in Nat /\ children[n].uid \in Nat
  BY ChildFields DEF ChildrenFit
<1>5. \A n \in Nodes : children'[n].uid <= born'[n] /\ childCache'[n].uid <= born'[n]
  BY <1>4 DEF BirthsBounded
<1>6. \A n \in Nodes : NothingListed[n].uid <= born[n] /\ ListedNow[n].uid <= born[n]
  BY <1>4, NoChildFits DEF BirthsBounded, NothingListed, ListedNow
<1> QED
  BY <1>3, <1>5, <1>6 DEF BirthsBounded

\* Each birth after the first of a name is paid for by a user's deletion of the one
\* before.
LEMMA BirthsBoundedStep ==
    CopiesFit /\ ChildrenFit /\ FinalizerHolds /\ BirthsBounded /\ [Next]_vars => BirthsBounded'
<1> SUFFICES ASSUME CopiesFit, ChildrenFit, FinalizerHolds, BirthsBounded, [Next]_vars
             PROVE  BirthsBounded'
  OBVIOUS
<1>0. wf \in Workflow /\ wfCache \in Workflow /\ obj \in Workflow /\ userActs \in Nat
  BY BoundsFit DEF CopiesFit
<1>1. CASE UNCHANGED vars
  BY <1>1 DEF vars, BirthsBounded, Spent
<1>2. ASSUME UNCHANGED <<children, born, userActs>>,
             listed' \in {listed, NothingListed, ListedNow},
             childCache' \in {childCache, children},
             wfCache.deleting => wfCache'.deleting,
             pc \notin Scheduling /\ wfCache.deleting => pc' \notin Scheduling
      PROVE  BirthsBounded'
  <2>1. \A n \in Nodes : userActs + Spent(n) <= userActs' + Spent(n)'
    BY <1>0, <1>2 DEF Spent
  <2> QED
    BY <1>0, <1>2, <2>1, BoundKept
<1>3. CASE SyncNode \/ ScheduleNode \/ GetExisting
  <2>1. /\ pc \in Scheduling /\ Creates
        /\ listed' \in {listed, NothingListed} /\ UNCHANGED <<wfCache, childCache, userActs>>
    BY <1>0, <1>3, SchedulingLeads
  <2>2. CASE children' = children /\ born' = born
    BY <1>2, <2>1, <2>2
  <2>3. CASE \E n : /\ children[n] = NoChild
                    /\ children' = [children EXCEPT ![n] = NewChild("self", born[n] + 1)]
                    /\ born' = [born EXCEPT ![n] = @ + 1]
    <3>1. PICK n : /\ children[n] = NoChild
                   /\ children' = [children EXCEPT ![n] = NewChild("self", born[n] + 1)]
                   /\ born' = [born EXCEPT ![n] = @ + 1]
      BY <2>3
    <3> DEFINE c == NewChild("self", born[n] + 1)
    <3>2. n \in Nodes => /\ born[n] \in Nat /\ Spent(n) = 0
                         /\ c.owner = "self" /\ ~c.deleting /\ c.uid = born[n] + 1
      BY <2>1, <3>1, NewChildFits, NoChildFits DEF Spent, ChildrenFit
    <3> HIDE DEF c
    <3>3. /\ \A m \in Nodes \ {n} : children'[m] = children[m] /\ born'[m] = born[m]
          /\ n \in Nodes => children'[n] = c /\ born'[n] = born[n] + 1
      BY <3>1 DEF ChildrenFit, c
    <3>4. \A m \in Nodes : born'[m] <= userActs' + Spent(m)'
      <4> SUFFICES ASSUME NEW m \in Nodes PROVE born'[m] <= userActs' + Spent(m)'
        OBVIOUS
      <4>1. born[m] <= userActs + Spent(m) /\ born[m] \in Nat
        BY DEF BirthsBounded, ChildrenFit
      <4>2. CASE m = n
        <5>1. Spent(m)' = 1
          BY <3>2, <3>3, <4>2 DEF Spent
        <5> QED
          BY <1>0, <2>1, <3>2, <3>3, <4>1, <4>2, <5>1
      <4>3. CASE m # n
        <5>1. Spent(m)' \in {0, 1} /\ Spent(m) \in {0, 1} /\ (Spent(m) = 1 => Spent(m)' = 1)
          BY <2>1, <3>3, <4>3 DEF Spent
        <5> QED
          BY <1>0, <2>1, <3>3, <4>1, <4>3, <5>1
      <4> QED
        BY <4>2, <4>3
    <3>5. \A m \in Nodes : /\ born[m] \in Nat /\ born'[m] \in Nat /\ born[m] <= born'[m]
                           /\ children[m].uid \in Nat /\ childCache[m].uid \in Nat
                           /\ listed[m].uid \in Nat
      BY <3>2, <3>3, ChildFields DEF ChildrenFit
    <3>6. \A m \in Nodes : children'[m].uid <= born'[m]
      BY <3>2, <3>3, <3>5 DEF BirthsBounded
    <3>7. \A m \in Nodes : childCache'[m].uid <= born'[m] /\ listed'[m].uid <= born'[m]
      <4>1. \A m \in Nodes : NothingListed[m].uid = 0
        BY NoChildFits DEF NothingListed
      <4> QED
        BY <2>1, <3>5, <4>1 DEF BirthsBounded
    <3> QED
      BY <3>4, <3>6, <3>7 DEF BirthsBounded
  <2> QED
    BY <2>1, <2>2, <2>3 DEF Creates
<1>4. CASE Reconcile
  <2>1. Enters /\ UNCHANGED <<children, wfCache, childCache, born, userActs>>
    BY <1>0, <1>4, ReconcileLeads
  <2>2. /\ listed' \in {NothingListed, ListedNow}
        /\ wfCache.deleting => pc' \notin Scheduling
    BY <2>1 DEF Enters, Scheduling
  <2> QED
    BY <1>2, <2>1, <2>2
<1>5. CASE ReconcileNothing \/ TimerFires
  BY <1>2, <1>5 DEF ReconcileNothing, TimerFires, cacheVars, recVars, ghostVars
<1>6. CASE RefreshChildren
  BY <1>2, <1>6 DEF RefreshChildren, recVars, ghostVars
<1>7. CASE Write
  BY <1>2, <1>7 DEF Write, Return, cacheVars, ghostVars, Scheduling
<1>8. CASE GivesUp
  BY <1>2, <1>8, GivesUpLeads DEF Idle, Scheduling
<1>9. CASE DeleteChild
  <2>1. /\ UNCHANGED <<wfCache, childCache, born, userActs>>
        /\ listed' \in {listed, NothingListed}
        /\ pc = "delete" /\ pc' \in {"delete", "idle"}
    BY <1>9 DEF DeleteChild, ReturnError, Return, cacheVars, ghostVars
  <2>2. \A n \in Nodes : Spent(n) = 1 /\ Spent(n)' = 1
    BY <2>1 DEF Spent, FinalizerHolds, Scheduling
  <2>3. \/ children' = children
        \/ \E n : \E d \in Deleted(children[n]) : children' = [children EXCEPT ![n] = d]
    BY <1>9 DEF DeleteChild
  <2>4. \A n \in Nodes : children'[n].uid \in {0, children[n].uid}
    <3>1. CASE \E n : \E d \in Deleted(children[n]) : children' = [children EXCEPT ![n] = d]
      <4>1. PICK n : \E d \in Deleted(children[n]) : children' = [children EXCEPT ![n] = d]
        BY <3>1
      <4>2. PICK d \in Deleted(children[n]) : children' = [children EXCEPT ![n] = d]
        BY <4>1
      <4>3. n \in Nodes => d.uid \in {0, children[n].uid}
        BY DeletedFits, NoChildFits DEF ChildrenFit
      <4> QED
        BY <4>2, <4>3 DEF ChildrenFit
    <3> QED
      BY <2>3, <3>1
  <2> QED
    BY <1>0, <2>1, <2>2, <2>4, BoundKept
<1>10. CASE FinishDeletion
  BY <1>2, <1>10 DEF FinishDeletion, Return, cacheVars, ghostVars, Scheduling
<1>11. CASE RefreshWorkflow
  BY <1>2, <1>11 DEF RefreshWorkflow, recVars, ghostVars, FinalizerHolds
<1>12. CASE TaskStep
  <2>1. PICK n \in Nodes : TaskChange(n)
    BY <1>12, TaskStepLeads
  <2>2. UNCHANGED <<wf, wfCache, childCache, pc, listed, born>>
    BY <1>12, TaskStepLeads
  <2> DEFINE c == children[n]
  <2>3. c \in AnyChild
    BY DEF ChildrenFit
  <2>4. userActs' = userActs \/ userActs' = userActs + 1
    BY <2>1 DEF TaskChange
  <2>5. PICK d : /\ children' = [children EXCEPT ![n] = d]
                 /\ d.uid \in {0, c.uid}
                 /\ \/ d.owner = c.owner /\ d.deleting = c.deleting
                    \/ c.deleting
                    \/ ~Exists(wf) /\ c.owner = "self"
                    \/ userActs' = userActs + 1
    <3> HIDE DEF c
    <3>1. CASE /\ userActs' = userActs
               /\ \E phase \in Terminal : children' = [children EXCEPT ![n] = [c EXCEPT !.phase = phase]]
      <4>1. PICK phase \in Terminal : children' = [children EXCEPT ![n] = [c EXCEPT !.phase = phase]]
        BY <3>1
      <4>2. PICK d : d = [c EXCEPT !.phase = phase]
        OBVIOUS
      <4>3. d.owner = c.owner /\ d.deleting = c.deleting /\ d.uid = c.uid
        BY <2>3, <4>2, ChildUpdates
      <4> QED
        BY <4>1, <4>2, <4>3
    <3>2. CASE c.deleting /\ children' = [children EXCEPT ![n] = NoChild]
      BY <3>2, NoChildFits
    <3>3. CASE /\ c.owner = "self" /\ ~Exists(wf)
               /\ \E d \in Deleted(c) : children' = [children EXCEPT ![n] = d]
      BY <2>3, <3>3, DeletedFits, NoChildFits
    <3>4. CASE /\ userActs' = userActs + 1
               /\ \E d \in Deleted(c) : children' = [children EXCEPT ![n] = d]
      BY <2>3, <3>4, DeletedFits, NoChildFits
    <3>5. CASE /\ userActs' = userActs + 1
               /\ children' = [children EXCEPT ![n] = [c EXCEPT !.phase = "Running"]]
      BY <2>3, <3>5, ChildUpdates
    <3>6. CASE userActs' = userActs + 1 /\ children' = [children EXCEPT ![n] = NewChild("other", 0)]
      BY <3>6, NewChildFits
    <3> QED
      BY <2>1, <3>1, <3>2, <3>3, <3>4, <3>5, <3>6 DEF TaskChange, c
  <2>6. children'[n] = d /\ \A m \in Nodes \ {n} : children'[m] = children[m]
    BY <2>5 DEF ChildrenFit
  <2>7. \A m \in Nodes : Spent(m) \in {0, 1} /\ Spent(m)' \in {0, 1}
    BY DEF Spent
  <2>8. \A m \in Nodes \ {n} : Spent(m)' = Spent(m)
    BY <2>2, <2>6 DEF Spent
  <2>9. Spent(n) = 1 /\ Spent(n)' = 0 => userActs' = userActs + 1
    <3>1. CASE d.owner = c.owner /\ d.deleting = c.deleting
      BY <2>2, <2>6, <3>1 DEF Spent
    <3>2. CASE c.deleting
      BY <2>2, <3>2 DEF Spent
    <3>3. CASE ~Exists(wf) /\ c.owner = "self"
      <4>1. ~wf.finalizer /\ n \in Own(children)
        BY <3>3 DEF Exists, Own
      <4>2. wfCache.deleting /\ pc \notin Scheduling
        BY <4>1 DEF FinalizerHolds
      <4> QED
        BY <2>2, <4>2 DEF Spent
    <3> QED
      BY <2>5, <3>1, <3>2, <3>3
  <2>10. \A m \in Nodes : userActs + Spent(m) <= userActs' + Spent(m)'
    BY <1>0, <2>4, <2>7, <2>8, <2>9
  <2>11. \A m \in Nodes : children'[m].uid \in {0, children[m].uid}
    BY <2>5, <2>6
  <2> HIDE DEF c
  <2> QED
    BY <1>0, <2>2, <2>4, <2>10, <2>11, BoundKept
<1>13. CASE EditStep
  <2>1. wf.generation <= 1 + userActs
    BY DEF CopiesFit
  <2>2. /\ userActs' = userActs + 1
        /\ UNCHANGED <<wfCache, childCache, pc, listed, born, children>>
    BY <1>0, <1>13, <2>1, EditLeads
  <2>3. \A m \in Nodes : Spent(m)' = Spent(m) /\ Spent(m) \in {0, 1}
    BY <2>2 DEF Spent
  <2>4. \A m \in Nodes : userActs + Spent(m) <= userActs' + Spent(m)'
    BY <1>0, <2>2, <2>3
  <2> QED
    BY <1>0, <2>2, <2>4, BoundKept
<1>14. CASE Crash
  BY <1>2, <1>14 DEF Crash, ghostVars, FinalizerHolds, Scheduling
<1> QED
  BY <1>1, <1>3, <1>4, <1>5, <1>6, <1>7, <1>8, <1>9, <1>10, <1>11, <1>12, <1>13, <1>14, StepKinds

-----------------------------------------------------------------------------
(* The outcomes of the nodes.                                              *)

\* Node n has had the outcome, if it is one.
Had(n, phase) == phase \in Terminal => phase \in ended[n]

\* What is stored for the nodes of the copy w has happened.
Honest(w) == \A n \in DOMAIN w.status.nodes : Had(n, w.status.nodes[n])

\* No copy of a child of the Workflow and no copy of the Workflow, however old,
\* has an outcome that the child has not had; the reconcile has listed no Task
\* of anyone else.
HadIfOwn(n, c) == c.owner = "self" => Had(n, c.phase)
OutcomesReal ==
    /\ \A n \in Nodes : /\ HadIfOwn(n, children[n]) /\ HadIfOwn(n, childCache[n])
                        /\ Had(n, listed[n].phase)
    /\ Honest(wf) /\ Honest(wfCache) /\ Honest(obj)

\* The nodes of a copy are nodes.
LEMMA NodesAre ==
    ASSUME NEW w \in Workflow
    PROVE  /\ DOMAIN w.status.nodes \subseteq Nodes
           /\ w.status.nodes \in [DOMAIN w.status.nodes -> NodePhases]
<1>1. PICK N \in SUBSET Nodes : w.status.nodes \in [N -> NodePhases]
  BY Fields DEF NodeMaps
<1> QED
  BY <1>1

\* A child that never ended, or none, is honest.
LEMMA FreshIsReal ==
    /\ NoChild.phase = "Running" /\ \A n : Had(n, "Running")
    /\ \A n \in Nodes : Had(n, NothingListed[n].phase)
    /\ OutcomesReal => \A n \in Nodes : Had(n, ListedNow[n].phase)
<1>1. NoChild.phase = "Running" /\ \A n : Had(n, "Running")
  BY NoChildFits DEF Had, Terminal
<1>2. \A n \in Nodes : NothingListed[n] = NoChild
  BY DEF NothingListed
<1>3. \A n \in Nodes : \/ ListedNow[n] = NoChild
                      \/ (ListedNow[n] = childCache[n] /\ childCache[n].owner = "self")
  BY DEF ListedNow, Own
<1> QED
  BY <1>1, <1>2, <1>3 DEF OutcomesReal, HadIfOwn

\* When no outcome is added, new copies of what was honest are honest.
LEMMA RealKept ==
    ASSUME OutcomesReal, ended' = ended,
           \A n \in Nodes : HadIfOwn(n, children'[n]),
           childCache' \in {childCache, children},
           listed' \in {listed, NothingListed, ListedNow},
           wf' = wf \/ wf'.status = wf.status \/ wf' = obj,
           wfCache' \in {wfCache, wf}, Honest(obj')
    PROVE  OutcomesReal'
<1>1. \A n, phase : Had(n, phase)' <=> Had(n, phase)
  BY DEF Had
<1>2. \A n \in Nodes : HadIfOwn(n, childCache'[n])
  BY DEF OutcomesReal
<1>3. \A n \in Nodes : Had(n, listed'[n].phase)
  BY FreshIsReal DEF OutcomesReal
<1>4. Honest(wf') /\ Honest(wfCache') /\ Honest(obj')
  BY DEF OutcomesReal, Honest
<1> QED
  BY <1>2, <1>3, <1>4 DEF OutcomesReal, Honest, HadIfOwn, Had

\* At first no outcome is recorded.
LEMMA OutcomesRealInit == Init => OutcomesReal
<1> SUFFICES ASSUME Init PROVE OutcomesReal
  OBVIOUS
<1>1. wf.status.nodes = <<>> /\ wfCache = wf /\ wf \in Workflow
  BY NewWorkflowFits DEF Init
<1>2. obj.status.nodes = <<>>
  BY <1>1, NoObjectFits DEF Init
<1>3. Honest(wf) /\ Honest(wfCache) /\ Honest(obj)
  BY <1>1, <1>2 DEF Honest
<1>4. \A n \in Nodes : children[n].phase = "Running" /\ childCache[n].phase = "Running"
  BY NoChildFits, NewChildFits DEF Init
<1>5. \A n \in Nodes : listed[n].phase = "Running"
  BY NoChildFits DEF Init, NothingListed
<1> QED
  BY <1>3, <1>4, <1>5, FreshIsReal DEF OutcomesReal, HadIfOwn

\* Each end that the local copy or the stored status gains is one that some child of
\* that name had.
LEMMA OutcomesRealStep == CopiesFit /\ ChildrenFit /\ OutcomesReal /\ [Next]_vars => OutcomesReal'
<1> SUFFICES ASSUME CopiesFit, ChildrenFit, OutcomesReal, [Next]_vars PROVE OutcomesReal'
  OBVIOUS
<1>0. wf \in Workflow /\ wfCache \in Workflow /\ obj \in Workflow
  BY DEF CopiesFit
<1>1. CASE UNCHANGED vars
  BY <1>1 DEF vars, OutcomesReal, Honest, HadIfOwn, Had
<1>2. Honest(NoObject) /\ Honest(wf) /\ Honest(wfCache) /\ Honest(obj)
  BY <1>0, NoObjectFits DEF Honest, OutcomesReal
<1>3. \A n \in Nodes : HadIfOwn(n, children[n])
  BY DEF OutcomesReal
<1>4. CASE SyncNode \/ ScheduleNode \/ GetExisting
  <2>1. /\ Idle \/ Works
        /\ Creates /\ listed' \in {listed, NothingListed}
        /\ UNCHANGED <<wf, wfCache, childCache, ended, userActs, faults>>
    BY <1>0, <1>4, SchedulingLeads
  <2>2. Honest(obj')
    <3>1. CASE Idle
      BY <1>2, <3>1 DEF Idle
    <3>2. CASE GoesOn(obj)
      BY <1>2, <3>2 DEF GoesOn, Honest
    <3>3. CASE \E n, phase : Told(n, phase) /\ GoesOn(WithNode(obj, n, phase))
      <4>1. PICK n, phase : Told(n, phase) /\ GoesOn(WithNode(obj, n, phase))
        BY <3>3
      <4>2. obj'.status.nodes = [obj.status.nodes EXCEPT ![n] = phase]
        <5>1. phase \in NodePhases
          BY <4>1 DEF Told
        <5>2. obj'.status.nodes = WithNode(obj, n, phase).status.nodes
          BY <4>1 DEF GoesOn
        <5>3. WithNode(obj, n, phase).status.nodes = [obj.status.nodes EXCEPT ![n] = phase]
          BY <1>0, <5>1, NodeSet
        <5> QED
          BY <5>2, <5>3
      <4>3. n \in DOMAIN obj.status.nodes => Had(n, phase)
        <5>1. n \in DOMAIN obj.status.nodes => n \in Nodes
          BY <1>0, NodesAre
        <5> QED
          BY <4>1, <5>1 DEF Told, OutcomesReal, HadIfOwn, Had
      <4> QED
        BY <1>2, <4>2, <4>3 DEF Honest
    <3> QED
      BY <2>1, <3>1, <3>2, <3>3 DEF Works
  <2>3. \A n \in Nodes : HadIfOwn(n, children'[n])
    <3>1. CASE \E n : children' = [children EXCEPT ![n] = NewChild("self", born[n] + 1)]
      <4>1. PICK n : children' = [children EXCEPT ![n] = NewChild("self", born[n] + 1)]
        BY <3>1
      <4>2. NewChild("self", born[n] + 1).phase = "Running"
        BY DEF NewChild
      <4> QED
        BY <1>3, <4>1, <4>2, FreshIsReal DEF ChildrenFit, HadIfOwn
    <3> QED
      BY <1>3, <2>1, <3>1 DEF Creates
  <2> QED
    BY <2>1, <2>2, <2>3, RealKept
<1>5. CASE Reconcile
  <2>1. Enters /\ UNCHANGED <<wf, children, wfCache, childCache, ended>>
    BY <1>0, <1>5, ReconcileLeads
  <2>2. listed' \in {NothingListed, ListedNow}
    BY <2>1 DEF Enters
  <2>3. Honest(obj')
    <3>1. CASE obj' = wfCache
      BY <1>2, <3>1
    <3>2. CASE obj' = [wfCache EXCEPT !.finalizer = TRUE]
      <4>1. obj'.status = wfCache.status
        BY <1>0, <3>2, FinalizerSet
      <4> QED
        BY <1>2, <4>1 DEF Honest
    <3>3. CASE obj'.status.nodes = wfCache.status.nodes
      BY <1>2, <3>3 DEF Honest
    <3>4. CASE Begin(wfCache)
      <4>1. obj'.status.nodes = [n \in Names(wfCache.spec.tasks) |->
                IF n \in DOMAIN wfCache.status.nodes THEN wfCache.status.nodes[n] ELSE "Pending"]
        BY <1>0, <3>4, BeginLeads, InitializedSet
      <4>2. \A n : Had(n, "Pending")
        BY DEF Had, Terminal
      <4> QED
        BY <1>2, <4>1, <4>2 DEF Honest
    <3> QED
      BY <2>1, <3>1, <3>2, <3>3, <3>4 DEF Enters
  <2> QED
    BY <1>3, <2>1, <2>2, <2>3, RealKept
<1>6. CASE ReconcileNothing \/ TimerFires \/ RefreshWorkflow \/ RefreshChildren
  <2>1. /\ UNCHANGED <<wf, children, obj, listed, ended>>
        /\ wfCache' \in {wfCache, wf} /\ childCache' \in {childCache, children}
    BY <1>6 DEF ReconcileNothing, TimerFires, RefreshWorkflow, RefreshChildren, cacheVars,
                recVars, ghostVars
  <2> QED
    BY <1>2, <1>3, <2>1, RealKept
<1>7. CASE Write
  <2>1. /\ wf' = obj /\ obj' = NoObject /\ listed' = NothingListed
        /\ UNCHANGED <<children, wfCache, childCache, ended>>
    BY <1>7 DEF Write, Return, cacheVars, ghostVars
  <2> QED
    BY <1>2, <1>3, <2>1, RealKept
<1>8. CASE GivesUp
  <2>1. /\ obj' = NoObject /\ listed' = NothingListed
        /\ UNCHANGED <<wf, children, wfCache, childCache, ended>>
    BY <1>8, GivesUpLeads DEF Idle
  <2> QED
    BY <1>2, <1>3, <2>1, RealKept
<1>9. CASE DeleteChild
  <2>1. /\ obj' \in {obj, NoObject} /\ listed' \in {listed, NothingListed}
        /\ UNCHANGED <<wf, wfCache, childCache, ended>>
    BY <1>9 DEF DeleteChild, ReturnError, Return, cacheVars, ghostVars
  <2>2. \/ children' = children
        \/ \E n : \E d \in Deleted(children[n]) : children' = [children EXCEPT ![n] = d]
    BY <1>9 DEF DeleteChild
  <2>3. \A n \in Nodes : HadIfOwn(n, children'[n])
    <3>1. CASE \E n : \E d \in Deleted(children[n]) : children' = [children EXCEPT ![n] = d]
      <4>1. PICK n : \E d \in Deleted(children[n]) : children' = [children EXCEPT ![n] = d]
        BY <3>1
      <4>2. PICK d \in Deleted(children[n]) : children' = [children EXCEPT ![n] = d]
        BY <4>1
      <4>3. n \in Nodes => HadIfOwn(n, d)
        <5> SUFFICES ASSUME n \in Nodes PROVE HadIfOwn(n, d)
          OBVIOUS
        <5>1. children[n] \in AnyChild /\ HadIfOwn(n, children[n])
          BY <1>3 DEF ChildrenFit
        <5> QED
          BY <4>2, <5>1, DeletedFits, NoChildFits DEF HadIfOwn
      <4> QED
        BY <1>3, <4>2, <4>3 DEF ChildrenFit
    <3> QED
      BY <1>3, <2>2, <3>1
  <2> QED
    BY <1>2, <2>1, <2>3, RealKept
<1>10. CASE FinishDeletion
  <2>1. /\ obj' \in {NoObject, [obj EXCEPT !.finalizer = FALSE]}
        /\ listed' \in {listed, NothingListed}
        /\ UNCHANGED <<wf, children, wfCache, childCache, ended>>
    BY <1>10 DEF FinishDeletion, Return, cacheVars, ghostVars
  <2>2. Honest(obj')
    <3>1. [obj EXCEPT !.finalizer = FALSE].status = obj.status
      BY <1>0, FinalizerSet
    <3> QED
      BY <1>2, <2>1, <3>1 DEF Honest
  <2> QED
    BY <1>3, <2>1, <2>2, RealKept
<1>11. CASE TaskStep
  <2>1. PICK n \in Nodes : TaskChange(n)
    BY <1>11, TaskStepLeads
  <2>2. UNCHANGED <<wf, wfCache, obj, childCache, listed>>
    BY <1>11, TaskStepLeads
  <2>3. CASE \E phase \in Terminal :
                /\ children' = [children EXCEPT ![n] = [children[n] EXCEPT !.phase = phase]]
                /\ ended' = [ended EXCEPT ![n] = @ \cup {phase}]
    <3>1. PICK phase \in Terminal :
                /\ children' = [children EXCEPT ![n] = [children[n] EXCEPT !.phase = phase]]
                /\ ended' = [ended EXCEPT ![n] = @ \cup {phase}]
      BY <2>3
    <3>2. \A m : m \in Nodes => ended[m] \subseteq ended'[m]
      BY <3>1 DEF ChildrenFit
    <3>3. \A m \in Nodes : \A p : Had(m, p) => Had(m, p)'
      BY <3>2 DEF Had
    <3>4. children'[n].phase = phase /\ phase \in ended'[n]
      BY <3>1, ChildUpdates DEF ChildrenFit
    <3>5. \A m \in Nodes \ {n} : children'[m] = children[m]
      BY <3>1 DEF ChildrenFit
    <3>6. \A m \in Nodes : HadIfOwn(m, children[m])'
      BY <1>3, <3>3, <3>4, <3>5 DEF HadIfOwn, Had
    <3>7. Honest(wf)' /\ Honest(wfCache)' /\ Honest(obj)'
      BY <1>0, <1>2, <2>2, <3>3, NodesAre DEF Honest
    <3> QED
      BY <2>2, <3>3, <3>6, <3>7 DEF OutcomesReal, HadIfOwn
  <2>4. CASE ended' = ended /\ \E d : HadIfOwn(n, d) /\ children' = [children EXCEPT ![n] = d]
    <3>1. \A m \in Nodes : HadIfOwn(m, children'[m])
      BY <1>3, <2>4 DEF ChildrenFit
    <3> QED
      BY <1>2, <2>2, <2>4, <3>1, RealKept
  <2>5. children[n] \in AnyChild /\ HadIfOwn(n, children[n])
    BY <1>3 DEF ChildrenFit
  <2>6. \A d \in Deleted(children[n]) : HadIfOwn(n, d)
    BY <2>5, DeletedFits, NoChildFits DEF HadIfOwn
  <2>7. /\ HadIfOwn(n, [children[n] EXCEPT !.phase = "Running"])
        /\ HadIfOwn(n, NoChild) /\ HadIfOwn(n, NewChild("other", 0))
    BY <2>5, ChildUpdates, NoChildFits, NewChildFits, FreshIsReal DEF HadIfOwn
  <2>8. \A phase \in Terminal :
          children[n].owner # "self" => HadIfOwn(n, [children[n] EXCEPT !.phase = phase])
    BY <2>5, ChildUpdates DEF HadIfOwn
  <2> QED
    BY <2>1, <2>3, <2>4, <2>6, <2>7, <2>8 DEF TaskChange
<1>12. CASE EditStep
  <2>1. userActs \in Nat /\ wf.generation <= 1 + userActs
    BY WorkflowConstants DEF CopiesFit
  <2>2. /\ wf'.status = wf.status
        /\ UNCHANGED <<children, wfCache, childCache, obj, listed, ended>>
    BY <1>0, <1>12, <2>1, EditLeads
  <2> QED
    BY <1>2, <1>3, <2>2, RealKept
<1>13. CASE Crash
  <2>1. /\ obj' = NoObject /\ listed' = NothingListed /\ wfCache' = wf /\ childCache' = children
        /\ UNCHANGED <<wf, children, ended>>
    BY <1>13 DEF Crash, ghostVars
  <2> QED
    BY <1>2, <1>3, <2>1, RealKept
<1> QED
  BY <1>1, <1>4, <1>5, <1>6, <1>7, <1>8, <1>9, <1>10, <1>11, <1>12, <1>13, StepKinds

\* Only finitely many nodes are ever declared.
LEMMA FiniteNodes == IsFiniteSet(Nodes)
<1> DEFINE D(s) == Names(s.tasks)
           F == {D(s) : s \in Specs}
<1>1. \A s \in Specs : IsFiniteSet(D(s))
  <2> SUFFICES ASSUME NEW s \in Specs PROVE IsFiniteSet(D(s))
    OBVIOUS
  <2>1. s.tasks \in Seq(ToSet(s.tasks))
    BY WorkflowConstants
  <2>2. Len(s.tasks) \in Nat /\ DOMAIN s.tasks = 1..Len(s.tasks)
    BY <2>1
  <2>3. IsFiniteSet(1..Len(s.tasks))
    BY <2>2, FS_Interval
  <2> DEFINE f == [i \in 1..Len(s.tasks) |-> s.tasks[i].name]
  <2>4. f \in Surjection(1..Len(s.tasks), D(s))
    BY <2>2 DEF Names, Surjection
  <2> HIDE DEF f, D
  <2> QED
    BY <2>3, <2>4, FS_Surjection
<1>2. IsFiniteSet(F)
  <2> DEFINE g == [s \in Specs |-> D(s)]
  <2>1. g \in Surjection(Specs, F)
    BY DEF Surjection
  <2> HIDE DEF g, F, D
  <2> QED
    BY <2>1, WorkflowConstants, FS_Surjection
<1>3. \A T \in F : IsFiniteSet(T)
  BY <1>1
<1>4. IsFiniteSet(UNION F)
  <2> HIDE DEF F
  <2> QED
    BY <1>2, <1>3, FS_UNION
<1> QED
  BY <1>4 DEF Nodes

\* buildWorkflowGraph: the view has an entry for each declared and each stored
\* node, one only, with the stored phase.
LEMMA ViewIs ==
    ASSUME NEW w \in Workflow
    PROVE  LET view == GraphNodes(w)
               all == Names(w.spec.tasks) \cup DOMAIN w.status.nodes
           IN  /\ {view[i].name : i \in DOMAIN view} = all
               /\ \A i, j \in DOMAIN view : view[i].name = view[j].name => i = j
               /\ \A i \in DOMAIN view :
                    /\ view[i].name \in all
                    /\ view[i].phase \in {"Pending"} \cup
                         (IF view[i].name \in DOMAIN w.status.nodes
                          THEN {w.status.nodes[view[i].name]} ELSE {})
<1> DEFINE ts == w.spec.tasks
           nodes == w.status.nodes
           removed == DOMAIN nodes \ Names(ts)
           entry(n) == [name |-> n, phase |-> IF n \in DOMAIN nodes THEN nodes[n] ELSE "Pending"]
           R == {entry(n) : n \in removed}
           A == [i \in DOMAIN ts |-> entry(ts[i].name)]
           B == SetToSeq(R)
           view == A \o B
<1>1. GraphNodes(w) = view
  BY DEF GraphNodes
<1>2. /\ ts \in Seq(ToSet(ts)) /\ Len(ts) \in Nat /\ DOMAIN ts = 1..Len(ts)
      /\ \A i, j \in DOMAIN ts : ts[i].name = ts[j].name => i = j
  <2>1. w.spec \in Specs
    BY Fields
  <2>2. /\ ts \in Seq(ToSet(ts))
        /\ \A i, j \in DOMAIN ts : ts[i].name = ts[j].name => i = j
    BY <2>1, WorkflowConstants
  <2> HIDE DEF ts
  <2> QED
    BY <2>2
<1>3. IsFiniteSet(R)
  <2>1. IsFiniteSet(removed)
    BY NodesAre, FiniteNodes, FS_Subset
  <2> DEFINE h == [n \in removed |-> entry(n)]
  <2>2. h \in Surjection(removed, R)
    BY DEF Surjection
  <2> HIDE DEF h, R, removed
  <2> QED
    BY <2>1, <2>2, FS_Surjection
<1>4. /\ B \in Seq(R) /\ ToSet(B) = R
      /\ \A i, j \in DOMAIN B : B[i] = B[j] => i = j
  <2> HIDE DEF R
  <2> QED
    BY <1>3, SetToSeqIs
<1>5. \A n : entry(n).name = n
  OBVIOUS
<1>6. /\ Len(B) \in Nat /\ DOMAIN B = 1..Len(B)
      /\ \A j \in 1..Len(B) : \E n \in removed : B[j] = entry(n)
      /\ \A n \in removed : \E j \in 1..Len(B) : B[j] = entry(n)
      /\ \A i, j \in 1..Len(B) : B[i] = B[j] => i = j
  <2>1. Len(B) \in Nat /\ DOMAIN B = 1..Len(B)
    <3> HIDE DEF B, R
    <3> QED
      BY <1>4
  <2>2. \A j \in 1..Len(B) : B[j] \in R
    <3> HIDE DEF B, R
    <3> QED
      BY <1>4
  <2>3. \A x \in R : \E j \in 1..Len(B) : B[j] = x
    <3> HIDE DEF B, R
    <3> QED
      BY <1>4, <2>1 DEF ToSet
  <2> HIDE DEF B, entry
  <2> QED
    BY <1>4, <2>1, <2>2, <2>3
<1>7. A \in Seq({entry(ts[i].name) : i \in DOMAIN ts}) /\ Len(A) = Len(ts)
  <2> HIDE DEF entry, ts
  <2> QED
    BY <1>2
<1>8. /\ DOMAIN view = 1..(Len(ts) + Len(B))
      /\ \A i \in 1..Len(ts) : view[i] = entry(ts[i].name)
      /\ \A i \in DOMAIN view : i \notin 1..Len(ts) =>
           i - Len(ts) \in 1..Len(B) /\ view[i] = B[i - Len(ts)]
      /\ \A j \in 1..Len(B) : Len(ts) + j \in DOMAIN view /\ view[Len(ts) + j] = B[j]
  <2>1. \A i \in 1..Len(ts) : A[i] = entry(ts[i].name)
    BY <1>2
  <2> DEFINE E == {entry(ts[i].name) : i \in DOMAIN ts}
             S == E \cup R
  <2>2. A \in Seq(E)
    BY <1>7
  <2> HIDE DEF A, B, entry, ts, R, E
  <2>3. A \in Seq(S) /\ B \in Seq(S)
    BY <1>4, <2>2
  <2> HIDE DEF S
  <2>4. /\ DOMAIN view = 1..(Len(A) + Len(B)) /\ Len(A) \in Nat /\ Len(B) \in Nat
        /\ \A i \in DOMAIN view : view[i] = IF i <= Len(A) THEN A[i] ELSE B[i - Len(A)]
    BY <2>3
  <2>5. Len(A) = Len(ts)
    BY <1>7
  <2> HIDE DEF view
  <2>6. DOMAIN view = 1..(Len(ts) + Len(B))
    BY <2>4, <2>5
  <2>7. \A i \in 1..Len(ts) : i \in DOMAIN view /\ i <= Len(A)
    BY <2>4, <2>5
  <2>8. \A i \in 1..Len(ts) : view[i] = A[i]
    BY <2>4, <2>7
  <2>9. \A i \in DOMAIN view : i \notin 1..Len(ts) =>
          i - Len(ts) \in 1..Len(B) /\ ~(i <= Len(A))
    BY <2>4, <2>5
  <2>10. \A j \in 1..Len(B) : /\ Len(ts) + j \in DOMAIN view /\ ~(Len(ts) + j <= Len(A))
                              /\ (Len(ts) + j) - Len(ts) = j
    BY <2>4, <2>5
  <2>11. \A i \in DOMAIN view : i \notin 1..Len(ts) => view[i] = B[i - Len(ts)]
    BY <2>4, <2>5, <2>9
  <2>12. \A j \in 1..Len(B) : view[Len(ts) + j] = B[j]
    BY <2>4, <2>5, <2>10
  <2> QED
    BY <2>1, <2>6, <2>8, <2>9, <2>10, <2>11, <2>12
<1> HIDE DEF view, A, B
<1>9. \A i \in DOMAIN view : \E n :
        /\ view[i] = entry(n)
        /\ IF i \in 1..Len(ts) THEN n = ts[i].name ELSE n \in removed /\ B[i - Len(ts)] = entry(n)
  <2> HIDE DEF entry, removed, ts
  <2> QED
    BY <1>6, <1>8
<1>10. \A i \in DOMAIN ts : ts[i].name \in Names(ts)
  BY DEF Names
<1>11. \A n \in Names(ts) : \E i \in 1..Len(ts) : n = ts[i].name
  BY <1>2 DEF Names
<1>12. \A i \in DOMAIN view : /\ view[i].name \in Names(ts) \cup DOMAIN nodes
                              /\ view[i] = entry(view[i].name)
  <2> SUFFICES ASSUME NEW i \in DOMAIN view
               PROVE  view[i].name \in Names(ts) \cup DOMAIN nodes /\ view[i] = entry(view[i].name)
    OBVIOUS
  <2>1. PICK n : /\ view[i] = entry(n)
                 /\ IF i \in 1..Len(ts) THEN n = ts[i].name
                    ELSE n \in removed /\ B[i - Len(ts)] = entry(n)
    BY <1>9
  <2>2. n \in Names(ts) \cup DOMAIN nodes
    BY <1>2, <1>10, <2>1
  <2> HIDE DEF entry
  <2>3. view[i].name = n
    BY <1>5, <2>1
  <2> QED
    BY <2>1, <2>2, <2>3
<1>13. {view[i].name : i \in DOMAIN view} = Names(ts) \cup DOMAIN nodes
  <2>1. \A n \in Names(ts) : \E i \in DOMAIN view : view[i].name = n
    <3>1. 1..Len(ts) \subseteq DOMAIN view
      BY <1>2, <1>6, <1>8
    <3> HIDE DEF entry
    <3> QED
      BY <1>5, <1>8, <1>11, <3>1
  <2>2. \A n \in removed : \E i \in DOMAIN view : view[i].name = n
    <3> HIDE DEF entry, removed
    <3> SUFFICES ASSUME NEW n \in removed PROVE \E i \in DOMAIN view : view[i].name = n
      OBVIOUS
    <3>1. PICK j \in 1..Len(B) : B[j] = entry(n)
      BY <1>6
    <3>2. Len(ts) + j \in DOMAIN view /\ view[Len(ts) + j] = entry(n)
      BY <1>8, <3>1
    <3>3. view[Len(ts) + j].name = n
      BY <1>5, <3>2
    <3> QED
      BY <3>2, <3>3
  <2> HIDE DEF entry, ts, nodes
  <2> QED
    BY <1>12, <2>1, <2>2
<1>14. ASSUME NEW i \in DOMAIN view, NEW j \in DOMAIN view, view[i].name = view[j].name
       PROVE  i = j
  <2>1. PICK m : /\ view[i] = entry(m)
                 /\ IF i \in 1..Len(ts) THEN m = ts[i].name
                    ELSE m \in removed /\ B[i - Len(ts)] = entry(m)
    BY <1>9
  <2>2. PICK n : /\ view[j] = entry(n)
                 /\ IF j \in 1..Len(ts) THEN n = ts[j].name
                    ELSE n \in removed /\ B[j - Len(ts)] = entry(n)
    BY <1>9
  <2>3. m = n
    <3> HIDE DEF entry
    <3> QED
      BY <1>5, <1>14, <2>1, <2>2
  <2>4. CASE i \in 1..Len(ts) /\ j \in 1..Len(ts)
    BY <1>2, <2>1, <2>2, <2>3, <2>4
  <2>5. CASE i \in 1..Len(ts) /\ j \notin 1..Len(ts)
    BY <1>2, <1>10, <2>1, <2>2, <2>3, <2>5
  <2>6. CASE i \notin 1..Len(ts) /\ j \in 1..Len(ts)
    BY <1>2, <1>10, <2>1, <2>2, <2>3, <2>6
  <2>7. CASE i \notin 1..Len(ts) /\ j \notin 1..Len(ts)
    <3>1. i - Len(ts) \in 1..Len(B) /\ j - Len(ts) \in 1..Len(B)
      BY <1>8, <2>7
    <3>2. B[i - Len(ts)] = B[j - Len(ts)]
      BY <2>1, <2>2, <2>3, <2>7
    <3>3. i - Len(ts) = j - Len(ts)
      BY <1>6, <3>1, <3>2
    <3>4. i \in Int /\ j \in Int /\ Len(ts) \in Nat
      BY <1>2, <1>6, <1>8
    <3> QED
      BY <3>3, <3>4
  <2> QED
    BY <2>4, <2>5, <2>6, <2>7
<1>15. \A n : entry(n).phase = IF n \in DOMAIN nodes THEN nodes[n] ELSE "Pending"
  OBVIOUS
<1>16. \A i \in DOMAIN view : view[i].phase \in {"Pending"} \cup
         (IF view[i].name \in DOMAIN nodes THEN {nodes[view[i].name]} ELSE {})
  <2> HIDE DEF entry, nodes
  <2> QED
    BY <1>12, <1>15
<1> QED
  BY <1>1, <1>12, <1>13, <1>14, <1>16

-----------------------------------------------------------------------------
(* The passes over the nodes.                                              *)

\* While a reconcile schedules, its graph is the one of its copy, the copy has
\* exactly the declared nodes, there is a node to visit, and the count of
\* running nodes is right; a second call of createChildTask in the second pass
\* is for a node that is still pending.
PassFits ==
    /\ pc \in Scheduling =>
        /\ obj.spec \in ValidSpecs /\ graph = GraphOf[obj.spec]
        /\ DOMAIN obj.status.nodes = Names(obj.spec.tasks)
        /\ left # {} /\ left \subseteq DOMAIN graph.order
        /\ slots = RunningNodes(obj)
        /\ pc = "scheduleGet" => obj.status.nodes[Here] = "Pending"
    /\ pc \notin Scheduling => slots = 0 /\ left \subseteq Nodes

\* The simple variables.
FlagsFit ==
    /\ changed \in BOOLEAN /\ queued \in BOOLEAN /\ timer \in BOOLEAN
    /\ faults \in 0..MaxFaults

\* The graph of an accepted spec: its order lists names of the spec and has as
\* many entries as there are names.
LEMMA GraphIs ==
    ASSUME NEW s \in ValidSpecs
    PROVE  /\ IsFiniteSet(Names(s.tasks)) /\ Names(s.tasks) \subseteq Nodes /\ Names(s.tasks) # {}
           /\ GraphOf[s].order \in Seq(Names(s.tasks))
           /\ Len(GraphOf[s].order) = Cardinality(Names(s.tasks))
           /\ Cardinality(Names(s.tasks)) \in Nat \ {0}
           /\ DOMAIN GraphOf[s].order = 1..Cardinality(Names(s.tasks))
<1>1. s \in Specs /\ Accepted(s.tasks) /\ GraphOf[s].order = Order(s.tasks)
  BY DEF ValidSpecs, GraphOf
<1>2. Names(s.tasks) \subseteq Nodes /\ Names(s.tasks) \subseteq Nat /\ s.tasks \in Seq(ToSet(s.tasks))
  BY <1>1, SpecNames, WorkflowConstants
<1>3. IsFiniteSet(Names(s.tasks))
  BY <1>2, FiniteNodes, FS_Subset
<1>4. Order(s.tasks) \in Seq(Names(s.tasks))
  BY <1>2, <1>3, OrderIs
<1>5. Len(Order(s.tasks)) = Cardinality(Names(s.tasks)) /\ FirstFault(s.tasks) = NoFault
  BY <1>1 DEF Accepted
<1>6. s.tasks # <<>>
  BY <1>5 DEF FirstFault, NoFault
<1>7. Names(s.tasks) # {}
  <2>1. Len(s.tasks) \in Nat /\ Len(s.tasks) # 0 /\ DOMAIN s.tasks = 1..Len(s.tasks)
    BY <1>2, <1>6
  <2>2. 1 \in DOMAIN s.tasks
    BY <2>1
  <2> QED
    BY <2>2 DEF Names
<1>8. Cardinality(Names(s.tasks)) \in Nat /\ Cardinality(Names(s.tasks)) # 0
  BY <1>3, <1>7, FS_CardinalityType, FS_EmptySet
<1>9. DOMAIN Order(s.tasks) = 1..Len(Order(s.tasks))
  BY <1>4
<1> QED
  BY <1>1, <1>2, <1>3, <1>4, <1>5, <1>7, <1>8, <1>9

\* The node that is visited is one of the copy's.
LEMMA HereIs ==
    ASSUME PassFits, pc \in Scheduling
    PROVE  Min(left) \in left /\ Here \in DOMAIN obj.status.nodes
<1>1. /\ obj.spec \in ValidSpecs /\ graph = GraphOf[obj.spec]
      /\ DOMAIN obj.status.nodes = Names(obj.spec.tasks)
      /\ left # {} /\ left \subseteq DOMAIN graph.order
  BY DEF PassFits
<1>2. graph.order \in Seq(Names(obj.spec.tasks))
  BY <1>1, GraphIs
<1>3. DOMAIN graph.order \subseteq Nat
  <2>1. DOMAIN graph.order = 1..Len(graph.order) /\ Len(graph.order) \in Nat
    BY <1>2
  <2> QED
    BY <2>1
<1>4. Min(left) \in left
  BY <1>1, <1>3, MinIs
<1> QED
  BY <1>1, <1>2, <1>4 DEF Here

\* What marking a node does to the count of running nodes.
LEMMA RunningAfter ==
    ASSUME NEW w \in Workflow, NEW n \in DOMAIN w.status.nodes, NEW phase \in NodePhases
    PROVE  LET v == WithNode(w, n, phase)
               was == w.status.nodes[n] = "Running"
               is == phase = "Running"
           IN  /\ v \in Workflow /\ v.spec = w.spec
               /\ DOMAIN v.status.nodes = DOMAIN w.status.nodes
               /\ RunningNodes(w) \in Nat
               /\ was /\ ~is => RunningNodes(v) = RunningNodes(w) - 1
               /\ ~was /\ is => RunningNodes(v) = RunningNodes(w) + 1
               /\ ~was /\ ~is => RunningNodes(v) = RunningNodes(w)
<1> DEFINE v == WithNode(w, n, phase)
           D == DOMAIN w.status.nodes
           A == {m \in D : w.status.nodes[m] = "Running"}
           B == {m \in D : v.status.nodes[m] = "Running"}
<1>1. /\ v \in Workflow /\ SameBut(v, w)
      /\ v.status.nodes = [w.status.nodes EXCEPT ![n] = phase]
  BY NodeSet
<1>2. IsFiniteSet(A)
  <2>1. D \subseteq Nodes
    BY NodesAre
  <2> QED
    BY <2>1, FiniteNodes, FS_Subset
<1>3. DOMAIN v.status.nodes = D
  BY <1>1
<1>4. RunningNodes(w) = Cardinality(A) /\ RunningNodes(v) = Cardinality(B)
  BY <1>3 DEF RunningNodes
<1>5. B = IF phase = "Running" THEN A \cup {n} ELSE A \ {n}
  BY <1>1
<1>6. Cardinality(A) \in Nat
  BY <1>2, FS_CardinalityType
<1>7. n \in A <=> w.status.nodes[n] = "Running"
  OBVIOUS
<1>8. n \notin A => Cardinality(A \cup {n}) = Cardinality(A) + 1 /\ A \ {n} = A
  BY <1>2, FS_AddElement
<1>9. n \in A => Cardinality(A \ {n}) = Cardinality(A) - 1
  BY <1>2, FS_RemoveElement
<1> HIDE DEF A, B, v
<1> QED
  BY <1>1, <1>3, <1>4, <1>5, <1>6, <1>7, <1>8, <1>9 DEF SameBut, v

\* Leaving a node with a copy whose running nodes were counted.
LEMMA AdvanceFits ==
    ASSUME PassFits, pc \in Scheduling, NEW w \in Workflow, w.spec = obj.spec,
           DOMAIN w.status.nodes = DOMAIN obj.status.nodes,
           NEW touched \in BOOLEAN, Advance(w, RunningNodes(w), touched)
    PROVE  PassFits' /\ changed' \in BOOLEAN
<1>1. /\ obj.spec \in ValidSpecs /\ graph = GraphOf[obj.spec]
      /\ DOMAIN obj.status.nodes = Names(obj.spec.tasks)
      /\ left # {} /\ left \subseteq DOMAIN graph.order
  BY DEF PassFits
<1>2. DOMAIN graph.order # {}
  BY <1>1
<1>3. CASE /\ pc' \in {"sync", "schedule"} /\ obj' = w /\ slots' = RunningNodes(w)
           /\ changed' = touched /\ graph' = graph
           /\ left' # {} /\ left' \subseteq DOMAIN graph.order
  BY <1>1, <1>3 DEF PassFits, Scheduling, RunningNodes
<1>4. CASE pc' \in {"write", "idle"} /\ slots' = 0 /\ left' = {} /\ changed' = FALSE
  BY <1>4 DEF PassFits, Scheduling
<1>5. CASE left \ {Min(left)} # {}
  BY <1>1, <1>3, <1>5 DEF Advance
<1>6. CASE left \ {Min(left)} = {} /\ pc \in {"sync", "syncGet"}
  BY <1>2, <1>3, <1>6 DEF Advance
<1>7. CASE left \ {Min(left)} = {} /\ pc \in {"schedule", "scheduleGet"}
  BY <1>4, <1>7 DEF Advance, Call, Return
<1> QED
  BY <1>5, <1>6, <1>7 DEF Scheduling

\* Going on with a child, of a node that the second pass found pending.
LEMMA PlacedFits ==
    ASSUME obj \in Workflow, PassFits, pc \in Scheduling, changed \in BOOLEAN, NEW c, Placed(c),
           pc = "schedule" => obj.status.nodes[Here] = "Pending"
    PROVE  PassFits' /\ changed' \in BOOLEAN
<1>0. slots = RunningNodes(obj)
  BY DEF PassFits
<1>1. CASE pc \in {"sync", "syncGet"}
  <2>1. Advance(obj, RunningNodes(obj), changed)
    BY <1>0, <1>1 DEF Placed
  <2> QED
    BY <2>1, AdvanceFits
<1>2. CASE pc \notin {"sync", "syncGet"}
  <2> DEFINE phase == SyncNodeFromTask("Running", c)
             w == WithNode(obj, Here, phase)
  <2>1. phase \in NodePhases
    BY DEF SyncNodeFromTask, NodePhases, Terminal
  <2>2. Here \in DOMAIN obj.status.nodes
    BY HereIs
  <2>3. obj.status.nodes[Here] = "Pending"
    BY <1>2 DEF PassFits, Scheduling
  <2>4. Advance(w, IF phase = "Running" THEN slots + 1 ELSE slots, TRUE)
    BY <1>2 DEF Placed
  <2> HIDE DEF phase
  <2>5. /\ w \in Workflow /\ w.spec = obj.spec
        /\ DOMAIN w.status.nodes = DOMAIN obj.status.nodes
        /\ RunningNodes(w) = IF phase = "Running" THEN slots + 1 ELSE slots
    BY <1>0, <2>1, <2>2, <2>3, RunningAfter
  <2> HIDE DEF w
  <2>6. Advance(w, RunningNodes(w), TRUE)
    BY <2>4, <2>5
  <2> QED
    BY <2>5, <2>6, AdvanceFits
<1> QED
  BY <1>1, <1>2

\* createChildTask, from either pass.
LEMMA CreateFits ==
    ASSUME obj \in Workflow, PassFits, pc \in {"sync", "schedule"}, changed \in BOOLEAN,
           CreateChild, pc = "schedule" => obj.status.nodes[Here] = "Pending"
    PROVE  PassFits' /\ changed' \in BOOLEAN
<1>0. pc \in Scheduling
  BY DEF Scheduling
<1>1. CASE children[Here] = NoChild
  <2>1. PICK c : Placed(c)
    BY <1>1 DEF CreateChild
  <2> QED
    BY <1>0, <2>1, PlacedFits
<1>2. CASE children[Here] # NoChild
  <2>1. /\ pc' = (IF pc = "sync" THEN "syncGet" ELSE "scheduleGet")
        /\ UNCHANGED <<obj, graph, left, slots, changed>>
    BY <1>2 DEF CreateChild
  <2>2. Here' = Here /\ RunningNodes(obj)' = RunningNodes(obj)
    BY <2>1 DEF Here, RunningNodes
  <2>3. pc' \in Scheduling /\ (pc' = "scheduleGet" => pc = "schedule")
    BY <2>1 DEF Scheduling
  <2> QED
    BY <1>0, <2>1, <2>2, <2>3 DEF PassFits
<1> QED
  BY <1>1, <1>2

\* Every step of reconcileGraph.
LEMMA SchedulingFits ==
    ASSUME obj \in Workflow, PassFits, changed \in BOOLEAN,
           SyncNode \/ ScheduleNode \/ GetExisting
    PROVE  PassFits' /\ changed' \in BOOLEAN
<1>0. pc \in Scheduling
  BY SchedulingLeads
<1>1. slots = RunningNodes(obj) /\ Here \in DOMAIN obj.status.nodes
  BY <1>0, HereIs DEF PassFits
<1>2. CASE Advance(obj, slots, changed)
  BY <1>0, <1>1, <1>2, AdvanceFits
<1>3. ASSUME NEW phase \in NodePhases, NEW running,
             Advance(WithNode(obj, Here, phase), running, TRUE),
             RunningNodes(WithNode(obj, Here, phase)) = running
      PROVE  PassFits' /\ changed' \in BOOLEAN
  <2> DEFINE w == WithNode(obj, Here, phase)
  <2>1. w \in Workflow /\ w.spec = obj.spec /\ DOMAIN w.status.nodes = DOMAIN obj.status.nodes
    BY <1>1, RunningAfter
  <2>2. Advance(w, RunningNodes(w), TRUE)
    BY <1>3
  <2> HIDE DEF w
  <2> QED
    BY <1>0, <2>1, <2>2, AdvanceFits
<1>4. CASE SyncNode
  <2> DEFINE phase == SyncNodeFromTask("Running", listed[Here])
  <2>1. CASE /\ obj.status.nodes[Here] = "Running" /\ phase # "Running"
             /\ Advance(WithNode(obj, Here, phase), slots - 1, TRUE)
    <3>1. phase \in NodePhases
      BY DEF SyncNodeFromTask, NodePhases, Terminal
    <3> HIDE DEF phase
    <3>2. RunningNodes(WithNode(obj, Here, phase)) = slots - 1
      BY <1>1, <2>1, <3>1, RunningAfter
    <3> QED
      BY <1>3, <2>1, <3>1, <3>2
  <2>2. CASE CreateChild
    <3>1. pc = "sync"
      BY <1>4 DEF SyncNode
    <3> QED
      BY <2>2, <3>1, CreateFits
  <2> QED
    BY <1>2, <1>4, <2>1, <2>2 DEF SyncNode
<1>5. CASE ScheduleNode
  <2>1. CASE /\ obj.status.nodes[Here] = "Pending"
             /\ Advance(WithNode(obj, Here, "Skipped"), slots, TRUE)
    <3>1. "Skipped" \in NodePhases
      BY DEF NodePhases
    <3>2. RunningNodes(WithNode(obj, Here, "Skipped")) = slots
      BY <1>1, <2>1, <3>1, RunningAfter
    <3> QED
      BY <1>3, <2>1, <3>1, <3>2
  <2>2. CASE Schedules /\ CreateChild
    <3>1. pc = "schedule" /\ obj.status.nodes[Here] = "Pending"
      BY <1>5, <2>2 DEF ScheduleNode, Schedules
    <3> QED
      BY <2>2, <3>1, CreateFits
  <2> QED
    BY <1>2, <1>5, <2>1, <2>2 DEF ScheduleNode
<1>6. CASE GetExisting
  <2>0. pc \in {"syncGet", "scheduleGet"}
    BY <1>6 DEF GetExisting
  <2>1. CASE pc' \in {"idle", "write"} /\ slots' = 0 /\ left' = {} /\ changed' = FALSE
    BY <2>1 DEF PassFits, Scheduling
  <2>2. CASE Placed(childCache[Here])
    BY <1>0, <2>0, <2>2, PlacedFits
  <2> QED
    BY <1>6, <2>1, <2>2 DEF GetExisting, ReturnError, Return, Call
<1> QED
  BY <1>4, <1>5, <1>6

\* At first no pass over the nodes is under way.
LEMMA PassFitsInit == Init => PassFits /\ FlagsFit
<1> SUFFICES ASSUME Init PROVE PassFits /\ FlagsFit
  OBVIOUS
<1>1. MaxFaults \in Nat
  BY WorkflowConstants
<1>2. 0 \in 0..MaxFaults
  BY <1>1
<1>3. changed = FALSE /\ queued = TRUE /\ timer = FALSE /\ faults = 0
  BY <1>1 DEF Init
<1>4. pc = "idle" /\ slots = 0 /\ left = {}
  BY DEF Init
<1>5. PassFits
  BY <1>4 DEF PassFits, Scheduling
<1>6. FlagsFit
  BY <1>2, <1>3 DEF FlagsFit
<1> QED
  BY <1>5, <1>6

\* What is left of a pass, the graph and the free slots remain those of the local copy's
\* plan.
LEMMA PassFitsStep ==
    CopiesFit /\ PassFits /\ FlagsFit /\ [Next]_vars => PassFits' /\ changed' \in BOOLEAN
<1> SUFFICES ASSUME CopiesFit, PassFits, FlagsFit, [Next]_vars
             PROVE  PassFits' /\ changed' \in BOOLEAN
  OBVIOUS
<1>0. wf \in Workflow /\ wfCache \in Workflow /\ obj \in Workflow /\ changed \in BOOLEAN
  BY DEF CopiesFit, FlagsFit
<1>1. ASSUME UNCHANGED <<pc, obj, graph, left, slots, changed>>
      PROVE  PassFits' /\ changed' \in BOOLEAN
  <2>1. Here' = Here /\ RunningNodes(obj)' = RunningNodes(obj)
    BY <1>1 DEF Here, RunningNodes
  <2> QED
    BY <1>0, <1>1, <2>1 DEF PassFits
<1>2. ASSUME pc' \notin Scheduling, slots' = 0, left' \subseteq Nodes, changed' \in BOOLEAN
      PROVE  PassFits' /\ changed' \in BOOLEAN
  BY <1>2 DEF PassFits
<1>3. {"idle", "write", "update", "delete"} \cap Scheduling = {}
  BY DEF Scheduling
<1>4. CASE SyncNode \/ ScheduleNode \/ GetExisting
  BY <1>0, <1>4, SchedulingFits
<1>5. CASE Reconcile
  <2>1. CASE BeginDeletion(wfCache)
    <3>1. pc' = "delete" /\ slots' = 0 /\ changed' \in BOOLEAN
          /\ left' \subseteq Own(childCache)
      BY <2>1 DEF BeginDeletion
    <3>2. Own(childCache) \subseteq Nodes
      BY DEF Own
    <3> QED
      BY <1>2, <1>3, <3>1, <3>2
  <2>2. CASE \E p \in {"update", "write"} : \E w : Call(p, w)
    <3>1. pc' \in {"update", "write"} /\ slots' = 0 /\ left' = {} /\ changed' = FALSE
      BY <2>2 DEF Call
    <3> QED
      BY <1>2, <1>3, <3>1
  <2>3. CASE wfCache.spec \in ValidSpecs /\ Begin(wfCache)
    <3> DEFINE w == Initialized(wfCache)
    <3>1. w.spec = wfCache.spec /\ w \in Workflow
          /\ DOMAIN w.status.nodes = Names(wfCache.spec.tasks)
      BY <1>0, InitializedSet DEF SameBut
    <3>2. /\ pc' = "sync" /\ obj' = w /\ graph' = GraphOf[w.spec]
          /\ left' = 1..Cardinality(Names(w.spec.tasks))
          /\ slots' = RunningNodes(w) /\ changed' \in BOOLEAN
      BY <2>3 DEF Begin
    <3> HIDE DEF w
    <3>3. /\ DOMAIN graph'.order = 1..Cardinality(Names(w.spec.tasks))
          /\ Cardinality(Names(w.spec.tasks)) \in Nat \ {0}
      BY <2>3, <3>1, <3>2, GraphIs
    <3>4. left' # {} /\ left' \subseteq DOMAIN graph'.order
      BY <3>2, <3>3
    <3> QED
      BY <2>3, <3>1, <3>2, <3>4 DEF PassFits, Scheduling, RunningNodes
  <2> QED
    BY <1>5, <2>1, <2>2, <2>3 DEF Reconcile
<1>6. CASE ReconcileNothing \/ TimerFires \/ RefreshWorkflow \/ RefreshChildren
  BY <1>1, <1>6 DEF ReconcileNothing, TimerFires, RefreshWorkflow, RefreshChildren, recVars
<1>7. CASE Write
  BY <1>2, <1>3, <1>7 DEF Write, Return
<1>8. CASE GivesUp
  BY <1>2, <1>3, <1>8, GivesUpLeads DEF Idle
<1>9. CASE DeleteChild
  <2>1. CASE Return(current)
    BY <1>2, <1>3, <2>1 DEF Return
  <2>2. CASE pc' = pc /\ slots' = slots /\ left' \subseteq left /\ changed' \in {changed, TRUE}
    <3>1. pc = "delete"
      BY <1>9 DEF DeleteChild
    <3>2. slots = 0 /\ left \subseteq Nodes
      BY <1>3, <3>1 DEF PassFits
    <3> QED
      BY <1>0, <1>2, <1>3, <2>2, <3>1, <3>2
  <2> QED
    BY <1>9, <2>1, <2>2 DEF DeleteChild, ReturnError
<1>10. CASE FinishDeletion
  <2>1. CASE Return(current)
    BY <1>2, <1>3, <2>1 DEF Return
  <2>2. CASE pc' = "update" /\ UNCHANGED <<left, slots, changed>>
    <3>1. slots = 0 /\ left \subseteq Nodes
      BY <1>3, <1>10 DEF FinishDeletion, PassFits
    <3> QED
      BY <1>0, <1>2, <1>3, <2>2, <3>1
  <2> QED
    BY <1>10, <2>1, <2>2 DEF FinishDeletion
<1>11. CASE TaskStep
  BY <1>1, <1>11, TaskStepLeads
<1>12. CASE EditStep
  <2>1. UNCHANGED <<pc, obj, graph, left, slots, changed>>
    BY <1>12 DEF EditStep, UpdateSpec, DeleteWorkflow, UserWrites, recVars
  <2> QED
    BY <1>1, <2>1
<1>13. CASE Crash
  BY <1>2, <1>3, <1>13 DEF Crash
<1>14. CASE UNCHANGED vars
  BY <1>1, <1>14 DEF vars
<1> QED
  BY <1>4, <1>5, <1>6, <1>7, <1>8, <1>9, <1>10, <1>11, <1>12, <1>13, <1>14, StepKinds

\* No step gives a flag another value than TRUE or FALSE, and the counted faults
\* stay within their bound.
LEMMA FlagsFitStep == CopiesFit /\ PassFits /\ FlagsFit /\ [Next]_vars => FlagsFit'
<1> SUFFICES ASSUME CopiesFit, PassFits, FlagsFit, [Next]_vars PROVE FlagsFit'
  OBVIOUS
<1>1. changed' \in BOOLEAN
  BY PassFitsStep
<1>2. faults' \in 0..MaxFaults
  <2>1. faults \in 0..MaxFaults /\ MaxFaults \in Nat
    BY WorkflowConstants DEF FlagsFit
  <2>2. faults' = faults \/ (faults < MaxFaults /\ faults' = faults + 1)
    BY DEF Next, ReconcilerStep, Reconcile, ReconcileNothing, SyncNode, ScheduleNode,
           GetExisting, Write, WriteRejected, DeleteChild, FinishDeletion, RefreshWorkflow,
           RefreshChildren, TimerFires, ChildStep, ChildEnds, ChildGone, CollectChild,
           ChildChange, UserStep, UserDeletesChild, UserRerunsChild, UserTakesName,
           UpdateSpec,
           DeleteWorkflow, UserWrites, CallFails, Crash, vars
  <2> QED
    BY <2>1, <2>2
<1>3. queued' \in BOOLEAN /\ timer' \in BOOLEAN
  <2>0. queued \in BOOLEAN /\ timer \in BOOLEAN
    BY DEF FlagsFit
  <2>1. CASE ReconcilerStep
    BY <2>0, <2>1 DEF ReconcilerStep, Reconcile, ReconcileNothing, SyncNode, ScheduleNode,
           GetExisting, Write, WriteRejected, DeleteChild, FinishDeletion, ReturnError, queueVars
  <2>2. CASE RefreshWorkflow \/ RefreshChildren \/ TimerFires \/ CallFails \/ Crash
    BY <2>0, <2>2 DEF RefreshWorkflow, RefreshChildren, TimerFires, CallFails, ReturnError, Crash
  <2>3. CASE ChildStep \/ UserStep \/ UNCHANGED vars
    BY <2>0, <2>3 DEF ChildStep, ChildEnds, ChildGone, CollectChild, ChildChange, UserStep,
           UserDeletesChild, UserRerunsChild, UserTakesName,
           UpdateSpec, DeleteWorkflow, UserWrites, queueVars,
           vars
  <2> QED
    BY <2>1, <2>2, <2>3 DEF Next
<1> QED
  BY <1>1, <1>2, <1>3 DEF FlagsFit

-----------------------------------------------------------------------------
\* Everything so far, as one invariant.
IInv == CopiesFit /\ CopiesCurrent /\ ChildrenFit /\ FinalizerHolds /\ BirthsBounded
        /\ OutcomesReal /\ PassFits /\ FlagsFit

\* The invariant is inductive and holds of every behaviour.
THEOREM ReconcilerInductive == Spec => []IInv
<1>1. Init => IInv
  BY CopiesFitInit, CopiesCurrentInit, ChildrenFitInit, FinalizerHoldsInit, BirthsBoundedInit,
     OutcomesRealInit, PassFitsInit DEF IInv
<1>2. IInv /\ [Next]_vars => IInv'
  BY CopiesFitStep, CopiesCurrentStep, ChildrenFitStep, FinalizerHoldsStep, BirthsBoundedStep,
     OutcomesRealStep, PassFitsStep, FlagsFitStep DEF IInv
<1> QED
  BY <1>1, <1>2, PTL DEF Spec

\* handleDeletion: the child Tasks a Workflow leaves when it disappears are those
\* that the list of its last reconcile did not show, however old the caches were;
\* one that never had the finalizer leaves none, and none is created later.
THEOREM NoChildLeftBehind == Spec => NoOrphan
<1> DEFINE Spared == CASE ~Exists(wf) -> Own(children)
                       [] Exists(wf) /\ wf.deleting -> {n \in Own(children) : listed[n] = NoChild}
                       [] OTHER -> {}
<1>1. IInv /\ [Next]_vars => [~Exists(wf') => Own(children') \subseteq Spared]_vars
  <2> SUFFICES ASSUME IInv, Next, ~Exists(wf') PROVE Own(children') \subseteq Spared
    OBVIOUS
  <2>0. wf \in Workflow /\ obj \in Workflow /\ wf.finalizer \in BOOLEAN
    BY Fields DEF IInv, CopiesFit
  <2>1. CASE ~Exists(wf)
    <3>1. ~wf.finalizer /\ pc \notin Scheduling
      BY <2>1 DEF Exists, IInv, FinalizerHolds
    <3>2. Own(children') \subseteq Own(children)
      BY <3>1, OwnGrows DEF IInv
    <3> QED
      BY <2>1, <3>2
  <2>2. CASE Exists(wf) /\ wf' # wf /\ Write
    <3>1. wf' = obj /\ children' = children /\ "reconciler" \in current
          /\ pc \in {"write", "update"}
      BY <2>2 DEF Write, WriteAccepted
    <3>2. ~obj.finalizer /\ obj.deleting = wf.deleting /\ obj.deleting
      BY <3>1 DEF Exists, IInv, CopiesCurrent
    <3>3. wf.finalizer
      BY <2>2, <3>2 DEF Exists
    <3>4. pc = "update"
      BY <3>1, <3>2, <3>3 DEF IInv, CopiesCurrent
    <3>5. SeenChildren = {}
      BY <3>2, <3>4 DEF IInv, FinalizerHolds
    <3>6. Own(children) \subseteq {n \in Own(children) : listed[n] = NoChild}
      BY <3>5 DEF SeenChildren
    <3> QED
      BY <2>2, <3>1, <3>2, <3>6
  <2>3. CASE Exists(wf) /\ EditStep
    <3>1. wf.generation <= 1 + userActs /\ userActs \in Nat
      BY BoundsFit DEF IInv, CopiesFit
    <3>2. wf'.finalizer = wf.finalizer /\ children' = children
      BY <2>0, <2>3, <3>1, EditLeads
    <3>3. ~wf.finalizer /\ ~wf.deleting
      BY <2>3, <3>2 DEF Exists
    <3>4. Own(children) = {}
      BY <3>3 DEF IInv, FinalizerHolds
    <3> QED
      BY <2>3, <3>2, <3>3, <3>4
  <2> QED
    BY <2>1, <2>2, <2>3, OnlyWritten DEF IInv
<1> QED
  BY <1>1, ReconcilerInductive, PTL DEF Spec, NoOrphan

\* buildWorkflowGraph: the view of a Workflow shows every node that it declares
\* or keeps account of, once, and only outcomes that the child Tasks had,
\* however old the copy is and however the spec was edited meanwhile.
THEOREM ViewFaithful == Spec => []ViewTrue
<1>1. ASSUME IInv PROVE ViewTrue
  <2> DEFINE view == GraphNodes(wfCache)
             nodes == wfCache.status.nodes
  <2>1. wfCache \in Workflow /\ Honest(wfCache)
    BY <1>1 DEF IInv, CopiesFit, OutcomesReal
  <2>2. /\ {view[i].name : i \in DOMAIN view} = Names(wfCache.spec.tasks) \cup DOMAIN nodes
        /\ \A i, j \in DOMAIN view : view[i].name = view[j].name => i = j
        /\ \A i \in DOMAIN view : view[i].phase \in {"Pending"} \cup
             (IF view[i].name \in DOMAIN nodes THEN {nodes[view[i].name]} ELSE {})
    BY <2>1, ViewIs
  <2> HIDE DEF view
  <2>3. ASSUME NEW i \in DOMAIN view, view[i].phase \in Terminal
        PROVE  view[i].phase \in ended[view[i].name]
    <3>1. view[i].name \in DOMAIN nodes /\ view[i].phase = nodes[view[i].name]
      BY <2>2, <2>3 DEF Terminal
    <3> QED
      BY <2>1, <2>3, <3>1 DEF Honest, Had
  <2> QED
    BY <2>2, <2>3 DEF ViewTrue, view
<1> QED
  BY <1>1, ReconcilerInductive, PTL

\* Type correctness of the reconciler: the count of running nodes is between
\* zero and the number of nodes, and a child name is used at most once more
\* than users act.
THEOREM ReconcilerTyped == Spec => []TypeOK
<1>1. ASSUME IInv PROVE TypeOK
  <2> DEFINE M == 1 + MaxUserActs
  <2>0. MaxUserActs \in Nat
    BY WorkflowConstants
  <2>1. /\ wf \in Workflow /\ wfCache \in Workflow /\ obj \in Workflow
        /\ current \subseteq {"cache", "reconciler"} /\ pc \in Pcs /\ userActs \in 0..MaxUserActs
    BY <1>1 DEF IInv, CopiesFit
  <2>2. \A n \in Nodes : born[n] \in 0..M
    <3> SUFFICES ASSUME NEW n \in Nodes PROVE born[n] \in 0..M
      OBVIOUS
    <3>1. born[n] \in Nat /\ born[n] <= userActs + Spent(n) /\ Spent(n) \in {0, 1}
      BY <1>1 DEF IInv, ChildrenFit, BirthsBounded, Spent
    <3> QED
      BY <2>0, <2>1, <3>1
  <2>3. \A c \in AnyChild : c.uid \in 0..M => c \in Child
    BY DEF AnyChild, Child
  <2>4. \A n \in Nodes : /\ children[n] \in AnyChild /\ children[n].uid \in 0..M
                         /\ childCache[n] \in AnyChild /\ childCache[n].uid \in 0..M
                         /\ listed[n] \in AnyChild /\ listed[n].uid \in 0..M
    <3> SUFFICES ASSUME NEW n \in Nodes
                 PROVE  /\ children[n] \in AnyChild /\ children[n].uid \in 0..M
                        /\ childCache[n] \in AnyChild /\ childCache[n].uid \in 0..M
                        /\ listed[n] \in AnyChild /\ listed[n].uid \in 0..M
      OBVIOUS
    <3>1. children[n] \in AnyChild /\ childCache[n] \in AnyChild /\ listed[n] \in AnyChild
      BY <1>1 DEF IInv, ChildrenFit
    <3>2. children[n].uid \in Nat /\ childCache[n].uid \in Nat /\ listed[n].uid \in Nat
      BY <3>1, ChildFields
    <3>3. children[n].uid <= born[n] /\ childCache[n].uid <= born[n] /\ listed[n].uid <= born[n]
      BY <1>1 DEF IInv, BirthsBounded
    <3> QED
      BY <2>0, <2>2, <3>1, <3>2, <3>3
  <2>5. /\ children \in [Nodes -> Child] /\ childCache \in [Nodes -> Child]
        /\ listed \in [Nodes -> Child]
    <3>1. /\ children \in [Nodes -> AnyChild] /\ childCache \in [Nodes -> AnyChild]
          /\ listed \in [Nodes -> AnyChild]
      BY <1>1 DEF IInv, ChildrenFit
    <3> HIDE DEF M
    <3> QED
      BY <2>3, <2>4, <3>1
  <2>6. born \in [Nodes -> 0..M] /\ ended \in [Nodes -> SUBSET Terminal]
    <3>1. born \in [Nodes -> Nat] /\ ended \in [Nodes -> SUBSET Terminal]
      BY <1>1 DEF IInv, ChildrenFit
    <3> QED
      BY <2>2, <3>1
  <2>7. slots \in 0..Cardinality(Nodes)
    <3>1. Cardinality(Nodes) \in Nat
      BY FiniteNodes, FS_CardinalityType
    <3>2. CASE pc \in Scheduling
      <4> DEFINE A == {n \in DOMAIN obj.status.nodes : obj.status.nodes[n] = "Running"}
      <4>1. slots = Cardinality(A)
        BY <1>1, <3>2 DEF IInv, PassFits, RunningNodes
      <4>2. A \subseteq Nodes
        BY <2>1, NodesAre
      <4>3. IsFiniteSet(A) /\ Cardinality(A) <= Cardinality(Nodes)
        BY <4>2, FiniteNodes, FS_Subset
      <4>4. Cardinality(A) \in Nat
        BY <4>3, FS_CardinalityType
      <4> QED
        BY <3>1, <4>1, <4>3, <4>4
    <3>3. CASE pc \notin Scheduling
      BY <1>1, <3>1, <3>3 DEF IInv, PassFits
    <3> QED
      BY <3>2, <3>3
  <2>8. left \subseteq Nat
    <3>1. CASE pc \in Scheduling
      <4>1. /\ obj.spec \in ValidSpecs /\ graph = GraphOf[obj.spec]
            /\ left \subseteq DOMAIN graph.order
        BY <1>1, <3>1 DEF IInv, PassFits
      <4>2. /\ DOMAIN graph.order = 1..Cardinality(Names(obj.spec.tasks))
            /\ Cardinality(Names(obj.spec.tasks)) \in Nat
        BY <4>1, GraphIs
      <4> QED
        BY <4>1, <4>2
    <3>2. CASE pc \notin Scheduling
      <4>1. left \subseteq Nodes
        BY <1>1, <3>2 DEF IInv, PassFits
      <4>2. Nodes \subseteq Nat
        BY WorkflowConstants DEF Nodes
      <4> QED
        BY <4>1, <4>2
    <3> QED
      BY <3>1, <3>2
  <2>9. /\ changed \in BOOLEAN /\ queued \in BOOLEAN /\ timer \in BOOLEAN
        /\ faults \in 0..MaxFaults
    BY <1>1 DEF IInv, FlagsFit
  <2> QED
    BY <2>1, <2>5, <2>6, <2>7, <2>8, <2>9 DEF TypeOK
<1> QED
  BY <1>1, ReconcilerInductive, PTL

-----------------------------------------------------------------------------
(* The plan.                                                               *)

\* Users submit valid plans of the same nodes, may delete the Workflow but leave
\* its spec and its child Tasks alone, and no other Task has a child's name.
PlanStands ==
    /\ UserActs \subseteq {"delete"}
    /\ Foreign = {}
    /\ \A s \in Specs : s \in ValidSpecs /\ Names(s.tasks) = Nodes

\* The nodes a copy of the Workflow has skipped.
SkippedIn(w) == {n \in DOMAIN w.status.nodes : w.status.nodes[n] = "Skipped"}

\* With the nodes in S never to run, n has no reason to run any more.
Lost(S, n) == IF n \in Rescues THEN \A d \in Needs[n] : "Succeeded" \in ended[d]
              ELSE \E d \in Needs[n] : "Failed" \in ended[d] \/ d \in S

\* The nodes in S were never started, and with all of them lost none has a
\* reason to be: outcomes yet to come cannot change that.
Fate(S) == \A n \in S : n \in Nodes /\ born[n] = 0 /\ Lost(S, n)
Fated(n) == \E S \in SUBSET Nodes : n \in S /\ Fate(S)

\* n had a reason to start.
Due(n) == IF n \in Rescues THEN \E d \in Needs[n] : "Failed" \in ended[d] \/ Fated(d)
          ELSE \A d \in Needs[n] : "Succeeded" \in ended[d]

\* Every copy of the Workflow has the one spec.
OneSpec == wfCache.spec = wf.spec /\ (pc # "idle" => obj.spec = wf.spec)

\* No reconcile will ever schedule a node again.
Ending == wfCache.deleting /\ pc \notin Scheduling

\* Every child is created once and ends once; it is there until a deletion.
OneChild(n) ==
    /\ born[n] \in {0, 1} /\ ended[n] \in {{}, {"Succeeded"}, {"Failed"}}
    /\ ended[n] # {} => born[n] = 1
    /\ children[n] # NoChild => children[n].owner = "self" /\ born[n] = 1
    /\ childCache[n] # NoChild => childCache[n].owner = "self" /\ born[n] = 1
    /\ children[n] # NoChild /\ children[n].phase = "Running" => ended[n] = {}
    /\ born[n] = 1 => children[n] # NoChild \/ Ending
    /\ children[n].deleting => Ending

\* A terminal phase of the copy w is the verdict on its nodes.
Judged(w) ==
    w.status.phase \in Terminal =>
        /\ DOMAIN w.status.nodes = Nodes
        /\ \A n \in Nodes : w.status.nodes[n] \in Settled
        /\ w.status.phase = "Failed" <=> \E n \in Nodes : w.status.nodes[n] = "Failed"

\* What the copy w says of its nodes is borne out, however old it is.
BorneOut(w) ==
    /\ \A n \in DOMAIN w.status.nodes : w.status.nodes[n] = "Running" => born[n] = 1
    /\ Fate(SkippedIn(w))
    /\ Judged(w)

\* A copy that may still be stored has forgotten no skipped node.
SkipsKept ==
    /\ "reconciler" \in current /\ pc \in Scheduling \cup {"write"}
         => SkippedIn(wf) \subseteq SkippedIn(obj)
    /\ pc \in Scheduling => obj.status.phase = "Running"

\* All of it together.
PlanInv ==
    /\ OneSpec
    /\ \A n \in Nodes : OneChild(n)
    /\ \A n \in Nodes : born[n] = 1 => Due(n)
    /\ BorneOut(wf) /\ BorneOut(wfCache) /\ BorneOut(obj)
    /\ SkipsKept

-----------------------------------------------------------------------------
\* The dependencies of a node of an accepted plan are nodes of the plan.
LEMMA DepsDeclared ==
    ASSUME NEW s \in ValidSpecs
    PROVE  GraphOf[s].deps \in [Names(s.tasks) -> SUBSET Names(s.tasks)]
<1> DEFINE ts == s.tasks
           badTasks == {i \in DOMAIN ts : TaskFault(ts, i) # NoFault}
           badDeps(i) == {k \in DOMAIN ts[i].deps : DependencyFault(ts, i, k) # NoFault}
           badLists == {i \in DOMAIN ts : badDeps(i) # {}}
<1>1. /\ FirstFault(ts) = NoFault /\ GraphOf[s].deps = Dependencies(ts)
      /\ ts \in Seq(ToSet(ts)) /\ \A i \in DOMAIN ts : ts[i].deps \in Seq(Nat)
  BY WorkflowConstants DEF ValidSpecs, GraphOf, Accepted
<1>2. DOMAIN ts \subseteq Nat /\ \A i \in DOMAIN ts : DOMAIN ts[i].deps \subseteq Nat
  <2>1. \A a \in Nat : 1..a \subseteq Nat
    OBVIOUS
  <2>2. Len(ts) \in Nat /\ DOMAIN ts = 1..Len(ts)
    BY <1>1
  <2>3. ASSUME NEW i \in DOMAIN ts
        PROVE  Len(ts[i].deps) \in Nat /\ DOMAIN ts[i].deps = 1..Len(ts[i].deps)
    BY <1>1
  <2> QED
    BY <2>1, <2>2, <2>3
<1>3. badTasks = {}
  <2> SUFFICES ASSUME badTasks # {} PROVE FALSE
    OBVIOUS
  <2>1. Min(badTasks) \in badTasks
    <3>1. badTasks \in SUBSET Nat
      BY <1>2
    <3> HIDE DEF badTasks
    <3> QED
      BY <3>1, MinIs
  <2>2. ts # <<>>
    BY <2>1
  <2>3. FirstFault(ts) = TaskFault(ts, Min(badTasks))
    BY <2>2 DEF FirstFault
  <2> QED
    BY <1>1, <2>1, <2>3
<1>4. badLists = {}
  <2> SUFFICES ASSUME badLists # {} PROVE FALSE
    OBVIOUS
  <2>1. Min(badLists) \in badLists
    <3>1. badLists \in SUBSET Nat
      BY <1>2
    <3> HIDE DEF badLists
    <3> QED
      BY <3>1, MinIs
  <2>2. PICK i : i = Min(badLists)
    OBVIOUS
  <2>3. i \in DOMAIN ts /\ badDeps(i) # {}
    BY <2>1, <2>2
  <2>4. ts # <<>>
    BY <2>3
  <2>5. Min(badDeps(i)) \in badDeps(i)
    <3>1. badDeps(i) \in SUBSET Nat
      BY <1>2, <2>3
    <3> HIDE DEF badDeps
    <3> QED
      BY <2>3, <3>1, MinIs
  <2>6. FirstFault(ts) = DependencyFault(ts, i, Min(badDeps(i)))
    BY <1>3, <2>2, <2>3, <2>4 DEF FirstFault
  <2> QED
    BY <1>1, <2>5, <2>6
<1>5. ASSUME NEW i \in DOMAIN ts PROVE ToSet(ts[i].deps) \subseteq Names(ts)
  <2> SUFFICES ASSUME NEW k \in DOMAIN ts[i].deps PROVE ts[i].deps[k] \in Names(ts)
    BY DEF ToSet
  <2>1. DependencyFault(ts, i, k) = NoFault
    BY <1>4
  <2> QED
    BY <2>1 DEF DependencyFault, NoFault
<1>6. ASSUME NEW n \in Names(ts) PROVE Dependencies(ts)[n] \subseteq Names(ts)
  <2>1. \E i \in DOMAIN ts : ts[i].name = n
    BY DEF Names
  <2> DEFINE i == CHOOSE i \in DOMAIN ts : ts[i].name = n
  <2>2. i \in DOMAIN ts
    BY <2>1
  <2>3. Dependencies(ts)[n] = ToSet(ts[i].deps)
    BY DEF Dependencies
  <2> HIDE DEF i
  <2> QED
    BY <1>5, <2>2, <2>3
<1>7. Dependencies(ts) = [n \in Names(ts) |-> Dependencies(ts)[n]]
  BY DEF Dependencies
<1> HIDE DEF ts
<1> QED
  BY <1>1, <1>6, <1>7 DEF ts

\* The plan that is stored is one of the accepted plans of all nodes.
LEMMA PlanIs ==
    ASSUME PlanStands, wf \in Workflow
    PROVE  /\ wf.spec \in ValidSpecs /\ Names(wf.spec.tasks) = Nodes
           /\ Needs \in [Nodes -> SUBSET Nodes] /\ Needs = GraphOf[wf.spec].deps
           /\ Rescues \subseteq Nodes
<1>1. wf.spec \in ValidSpecs /\ Names(wf.spec.tasks) = Nodes
  BY Fields DEF PlanStands
<1>2. GraphOf[wf.spec].deps \in [Nodes -> SUBSET Nodes]
  BY <1>1, DepsDeclared
<1>3. Needs = GraphOf[wf.spec].deps
  BY <1>2 DEF Needs
<1> QED
  BY <1>1, <1>2, <1>3 DEF Rescues

\* What a pass over the nodes of the plan works with.
LEMMA PassWorksOn ==
    ASSUME PlanStands, IInv, OneSpec, pc \in Scheduling
    PROVE  /\ graph.deps = Needs /\ obj \in Workflow
           /\ \A n \in Nodes : RunOnFailure(obj.spec, n) <=> n \in Rescues
           /\ DOMAIN obj.status.nodes = Nodes /\ Here \in Nodes
           /\ \A n \in Nodes : obj.status.nodes[n] \in NodePhases
           /\ \A n \in Nodes : Had(n, obj.status.nodes[n])
<1>1. wf \in Workflow /\ obj \in Workflow
  BY DEF IInv, CopiesFit
<1>2. obj.spec = wf.spec
  BY DEF OneSpec, Scheduling
<1>3. graph = GraphOf[obj.spec] /\ DOMAIN obj.status.nodes = Names(obj.spec.tasks)
  BY DEF IInv, PassFits
<1>4. DOMAIN obj.status.nodes = Nodes /\ graph.deps = Needs
  BY <1>1, <1>2, <1>3, PlanIs
<1>5. Here \in Nodes
  BY <1>4, HereIs DEF IInv
<1>6. \A n \in Nodes : obj.status.nodes[n] \in NodePhases
  BY <1>1, <1>4, NodesAre
<1>7. \A n \in Nodes : Had(n, obj.status.nodes[n])
  BY <1>4 DEF IInv, OutcomesReal, Honest
<1> QED
  BY <1>1, <1>2, <1>4, <1>5, <1>6, <1>7 DEF Rescues

\* A node that decideNode lets run had a reason to, and is not lost by any fate.
LEMMA ReadyIsDue ==
    ASSUME PlanStands, IInv, PlanInv, pc \in Scheduling, NEW n \in Nodes,
           DecideNode(obj, n) = "ready"
    PROVE  Due(n) /\ \A S \in SUBSET Nodes : Fate(S) => n \notin S
<1> DEFINE phase(d) == obj.status.nodes[d]
<1>1. /\ graph.deps = Needs /\ DOMAIN obj.status.nodes = Nodes
      /\ RunOnFailure(obj.spec, n) <=> n \in Rescues
      /\ \A d \in Nodes : phase(d) \in NodePhases /\ Had(d, phase(d))
  BY PassWorksOn DEF PlanInv
<1>2. Needs[n] \subseteq Nodes
  BY PlanIs DEF IInv, CopiesFit
<1>3. /\ \A d \in Nodes : OneChild(d)
      /\ Fate(SkippedIn(obj))
  BY DEF PlanInv, BorneOut
<1>4. SkippedIn(obj) \in SUBSET Nodes
  BY <1>1 DEF SkippedIn
<1>5. CASE n \in Rescues
  <2>1. PICK d \in Needs[n] : phase(d) \in {"Failed", "Skipped"}
    BY <1>1, <1>5 DEF DecideNode
  <2>2. "Failed" \in ended[d] \/ d \in SkippedIn(obj)
    BY <1>1, <1>2, <2>1 DEF Had, Terminal, SkippedIn
  <2>3. "Succeeded" \notin ended[d]
    BY <1>2, <1>3, <2>2 DEF Fate, OneChild
  <2>4. Due(n)
    BY <1>3, <1>4, <1>5, <2>2 DEF Due, Fated
  <2> QED
    BY <1>5, <2>3, <2>4 DEF Fate, Lost
<1>6. CASE n \notin Rescues
  <2>1. \A d \in Needs[n] : phase(d) = "Succeeded"
    BY <1>1, <1>6 DEF DecideNode, Settled, Terminal
  <2>2. \A d \in Needs[n] : "Succeeded" \in ended[d]
    BY <1>1, <1>2, <2>1 DEF Had, Terminal
  <2>3. \A d \in Needs[n] : born[d] # 0 /\ "Failed" \notin ended[d]
    BY <1>2, <1>3, <2>2 DEF OneChild
  <2> QED
    BY <1>6, <2>2, <2>3 DEF Due, Fate, Lost
<1> QED
  BY <1>5, <1>6

\* A pending node that decideNode skips was never started, though an earlier
\* reconcile may have been lost, and it joins the fate of the skipped ones.
LEMMA SkipIsFate ==
    ASSUME PlanStands, IInv, PlanInv, pc \in Scheduling, NEW n \in Nodes,
           DecideNode(obj, n) = "skip"
    PROVE  born[n] = 0 /\ Fate(SkippedIn(obj) \cup {n})
<1> DEFINE phase(d) == obj.status.nodes[d]
           S == SkippedIn(obj)
<1>1. /\ graph.deps = Needs /\ DOMAIN obj.status.nodes = Nodes
      /\ RunOnFailure(obj.spec, n) <=> n \in Rescues
      /\ \A d \in Nodes : phase(d) \in NodePhases /\ Had(d, phase(d))
  BY PassWorksOn DEF PlanInv
<1>2. Needs[n] \subseteq Nodes
  BY PlanIs DEF IInv, CopiesFit
<1>3. /\ \A d \in Nodes : OneChild(d)
      /\ Fate(S)
      /\ born[n] = 1 => Due(n)
  BY DEF PlanInv, BorneOut
<1>4. Lost(S, n)
  <2>1. CASE n \in Rescues
    <3>1. \A d \in Needs[n] : phase(d) = "Succeeded"
      BY <1>1, <2>1 DEF DecideNode, Settled, Terminal
    <3> QED
      BY <1>1, <1>2, <2>1, <3>1 DEF Lost, Had, Terminal
  <2>2. CASE n \notin Rescues
    <3>1. PICK d \in Needs[n] : phase(d) \in {"Failed", "Skipped"}
      BY <1>1, <2>2 DEF DecideNode
    <3> QED
      BY <1>1, <1>2, <2>2, <3>1 DEF Lost, Had, Terminal, SkippedIn
  <2> QED
    BY <2>1, <2>2
<1>5. born[n] = 0
  <2> SUFFICES ASSUME Due(n) PROVE FALSE
    BY <1>3 DEF OneChild
  <2> HIDE DEF S
  <2>1. CASE n \in Rescues
    <3>1. PICK d \in Needs[n] : "Failed" \in ended[d] \/ Fated(d)
      BY <2>1 DEF Due
    <3>2. "Succeeded" \in ended[d] /\ born[d] # 0
      BY <1>2, <1>3, <1>4, <2>1 DEF Lost, OneChild
    <3> QED
      BY <1>2, <1>3, <3>1, <3>2 DEF OneChild, Fated, Fate
  <2>2. CASE n \notin Rescues
    <3>1. PICK d \in Needs[n] : "Failed" \in ended[d] \/ d \in S
      BY <1>4, <2>2 DEF Lost
    <3>2. "Succeeded" \in ended[d] /\ born[d] # 0
      BY <1>2, <1>3, <2>2 DEF Due, OneChild
    <3> QED
      BY <1>2, <1>3, <3>1, <3>2 DEF OneChild, Fate
  <2> QED
    BY <2>1, <2>2
<1> HIDE DEF S
<1> QED
  BY <1>3, <1>4, <1>5 DEF Fate, Lost, S

\* The spec of the Workflow stays, and every copy has it.
LEMMA OneSpecStep ==
    ASSUME PlanStands, CopiesFit, OneSpec, [Next]_vars
    PROVE  OneSpec' /\ wf'.spec = wf.spec
<1>0. wf \in Workflow /\ wfCache \in Workflow /\ obj \in Workflow
  BY DEF CopiesFit
<1>1. CASE SyncNode \/ ScheduleNode \/ GetExisting
  <2>1. wf' = wf /\ wfCache' = wfCache /\ obj.spec = wf.spec /\ (Idle \/ Works)
    BY <1>0, <1>1, SchedulingLeads DEF OneSpec, Scheduling
  <2>2. CASE Idle
    BY <2>1, <2>2 DEF OneSpec, Idle
  <2>3. CASE GoesOn(obj)
    BY <2>1, <2>3 DEF OneSpec, GoesOn, SameBut
  <2>4. CASE \E n, phase : Told(n, phase) /\ GoesOn(WithNode(obj, n, phase))
    <3>1. PICK n, phase : Told(n, phase) /\ GoesOn(WithNode(obj, n, phase))
      BY <2>4
    <3>2. phase \in NodePhases
      BY <3>1 DEF Told
    <3>3. SameBut(WithNode(obj, n, phase), obj)
      BY <1>0, <3>2, NodeSet
    <3> QED
      BY <2>1, <3>1, <3>3 DEF OneSpec, GoesOn, SameBut
  <2> QED
    BY <2>1, <2>2, <2>3, <2>4 DEF Works
<1>2. CASE Reconcile
  <2>1. wf' = wf /\ wfCache' = wfCache /\ Enters
    BY <1>0, <1>2, ReconcileLeads
  <2>2. obj'.spec = wfCache.spec
    BY <1>0, <2>1, BeginLeads, FinalizerSet DEF Enters, SameBut
  <2> QED
    BY <2>1, <2>2 DEF OneSpec
<1>3. CASE Write
  <2>1. wf' = obj /\ pc # "idle" /\ pc' = "idle" /\ wfCache' = wfCache
    BY <1>3 DEF Write, Return, cacheVars
  <2> QED
    BY <2>1 DEF OneSpec
<1>4. CASE GivesUp
  BY <1>4, GivesUpLeads DEF OneSpec, Idle
<1>5. CASE DeleteChild
  BY <1>5 DEF DeleteChild, ReturnError, Return, OneSpec, cacheVars
<1>6. CASE FinishDeletion
  <2>1. pc = "delete" /\ wf' = wf /\ wfCache' = wfCache
    BY <1>6 DEF FinishDeletion, cacheVars
  <2>2. pc' = "idle" \/ obj' = [obj EXCEPT !.finalizer = FALSE]
    BY <1>6 DEF FinishDeletion, Return, Call
  <2> QED
    BY <1>0, <2>1, <2>2, FinalizerSet DEF OneSpec
<1>7. CASE RefreshWorkflow \/ Crash
  BY <1>7 DEF RefreshWorkflow, Crash, OneSpec, recVars
<1>8. CASE EditStep
  <2>1. DeleteWorkflow
    BY <1>8 DEF EditStep, UpdateSpec, UserAct, PlanStands
  <2>2. wf' = [wf EXCEPT !.deleting = TRUE] /\ UNCHANGED <<wfCache, pc, obj>>
    BY <2>1 DEF DeleteWorkflow, UserWrites, cacheVars, recVars
  <2> QED
    BY <1>0, <2>2, DeletingSet DEF OneSpec
<1>9. CASE TaskStep
  BY <1>9, TaskStepLeads DEF OneSpec
<1>10. CASE UNCHANGED <<wf, wfCache, pc, obj>>
  BY <1>10 DEF OneSpec
<1>11. ReconcileNothing \/ RefreshChildren \/ TimerFires \/ UNCHANGED vars
         => UNCHANGED <<wf, wfCache, pc, obj>>
  BY DEF ReconcileNothing, RefreshChildren, TimerFires, vars, cacheVars, recVars
<1> QED
  BY <1>1, <1>2, <1>3, <1>4, <1>5, <1>6, <1>7, <1>8, <1>9, <1>10, <1>11, StepKinds

\* A child is created only for a pending node that is ready, and it is the first.
Births ==
    \/ children' = children /\ born' = born
    \/ /\ pc = "schedule" /\ Schedules
       /\ Here \in Nodes /\ children[Here] = NoChild /\ born[Here] = 0
       /\ children' = [children EXCEPT ![Here] = NewChild("self", 1)]
       /\ born' = [born EXCEPT ![Here] = 1]

\* The child of a running node is found where it was, so the first pass creates none.
LEMMA FirstBirths ==
    ASSUME PlanStands, IInv, PlanInv, SyncNode \/ ScheduleNode \/ GetExisting
    PROVE  Births /\ UNCHANGED <<wf, wfCache, childCache, ended>> /\ pc \in Scheduling
<1>1. obj \in Workflow /\ born \in [Nodes -> Nat]
  BY DEF IInv, CopiesFit, ChildrenFit
<1>2. pc \in Scheduling /\ UNCHANGED <<wf, wfCache, childCache, ended>>
  BY <1>1, SchedulingLeads
<1>3. Here \in Nodes /\ DOMAIN obj.status.nodes = Nodes
  BY <1>2, PassWorksOn DEF PlanInv
<1>4. /\ OneChild(Here) /\ ~Ending
      /\ obj.status.nodes[Here] = "Running" => born[Here] = 1
  BY <1>2, <1>3 DEF PlanInv, BorneOut, Ending
<1>5. CASE SyncNode
  <2>1. ~(Recreates /\ children[Here] = NoChild)
    BY <1>4 DEF Recreates, OneChild
  <2>2. UNCHANGED <<children, born>> \/ (Recreates /\ CreateChild)
    BY <1>5 DEF SyncNode
  <2>3. UNCHANGED <<children, born>>
    BY <2>1, <2>2 DEF CreateChild
  <2> QED
    BY <1>2, <2>3 DEF Births
<1>6. CASE ScheduleNode
  <2>1. CASE Schedules /\ CreateChild /\ children[Here] = NoChild
    <3>1. born[Here] = 0
      BY <1>4, <2>1 DEF OneChild
    <3>2. born[Here] + 1 = 1
      BY <3>1
    <3>3. pc = "schedule" /\ Schedules
      BY <1>6, <2>1 DEF ScheduleNode
    <3>4. /\ children' = [children EXCEPT ![Here] = NewChild("self", born[Here] + 1)]
          /\ born' = [born EXCEPT ![Here] = born[Here] + 1]
      BY <2>1 DEF CreateChild
    <3> QED
      BY <1>2, <1>3, <2>1, <3>1, <3>2, <3>3, <3>4 DEF Births
  <2>2. CASE Schedules /\ CreateChild /\ children[Here] # NoChild
    BY <1>2, <2>2 DEF CreateChild, Births
  <2>3. CASE UNCHANGED <<children, born>>
    BY <1>2, <2>3 DEF Births
  <2>4. UNCHANGED <<children, born>> \/ (Schedules /\ CreateChild)
    BY <1>6 DEF ScheduleNode
  <2> QED
    BY <2>1, <2>2, <2>3, <2>4
<1>7. CASE GetExisting
  BY <1>2, <1>7 DEF GetExisting, ghostVars, Births
<1> QED
  BY <1>2, <1>5, <1>6, <1>7

\* What a step may do to the histories: a node that is ready is started for the
\* first time, or a child ends.
HistoryGrows ==
    /\ \/ born' = born
       \/ /\ pc = "schedule" /\ Schedules /\ Here \in Nodes /\ born[Here] = 0
          /\ born' = [born EXCEPT ![Here] = 1]
    /\ \A n \in Nodes : ended[n] \subseteq ended'[n]

\* Every step is of that kind.
LEMMA HistoryStep ==
    ASSUME PlanStands, IInv, PlanInv, [Next]_vars
    PROVE  HistoryGrows
<1>0. ended \in [Nodes -> SUBSET Terminal] /\ wfCache \in Workflow /\ wf \in Workflow
  BY DEF IInv, ChildrenFit, CopiesFit
<1>1. CASE SyncNode \/ ScheduleNode \/ GetExisting
  BY <1>1, FirstBirths DEF Births, HistoryGrows
<1>2. CASE born' = born /\ ended' = ended
  BY <1>2 DEF HistoryGrows
<1>3. CASE TaskStep
  <2>1. PICK n \in Nodes : TaskChange(n) /\ born' = born
    BY <1>3, TaskStepLeads
  <2>2. ended' = ended \/ \E phase : ended' = [ended EXCEPT ![n] = @ \cup {phase}]
    BY <2>1 DEF TaskChange
  <2> QED
    BY <1>0, <2>1, <2>2 DEF HistoryGrows
<1>4. CASE GivesUp
  BY <1>2, <1>4, GivesUpLeads
<1>5. CASE EditStep
  BY <1>2, <1>5 DEF EditStep, UpdateSpec, DeleteWorkflow, UserWrites, ghostVars
<1>6. Reconcile => born' = born /\ ended' = ended
  BY <1>0, ReconcileLeads
<1>7. Write \/ DeleteChild \/ FinishDeletion => born' = born /\ ended' = ended
  BY DEF Write, DeleteChild, FinishDeletion, ghostVars
<1>8. ReconcileNothing \/ RefreshWorkflow \/ RefreshChildren \/ TimerFires \/ Crash \/ UNCHANGED vars
        => born' = born /\ ended' = ended
  BY DEF ReconcileNothing, RefreshWorkflow, RefreshChildren, TimerFires, Crash, vars, ghostVars
<1> QED
  <2>1. CASE UNCHANGED vars
    BY <1>2, <1>8, <2>1
  <2>2. CASE Next
    BY <1>1, <1>2, <1>3, <1>4, <1>5, <1>6, <1>7, <1>8, <2>2, StepKinds
  <2> QED
    BY <2>1, <2>2

\* The plan and its fates stay: what is lost is lost for good, and a reason to
\* start does not go away.
LEMMA FatesStay ==
    ASSUME PlanStands, IInv, PlanInv, [Next]_vars
    PROVE  /\ Needs' = Needs /\ Rescues' = Rescues
           /\ Needs \in [Nodes -> SUBSET Nodes]
           /\ \A S \in SUBSET Nodes : Fate(S) => Fate(S)'
           /\ \A n \in Nodes : Due(n) => Due(n)'
<1>1. wf'.spec = wf.spec
  BY OneSpecStep DEF IInv, PlanInv
<1>2. Needs' = Needs /\ Rescues' = Rescues
  BY <1>1 DEF Needs, Rescues
<1>3. HistoryGrows
  BY HistoryStep
<1>4. Needs \in [Nodes -> SUBSET Nodes]
  BY PlanIs DEF IInv, CopiesFit
<1>5. ASSUME NEW S \in SUBSET Nodes, Fate(S) PROVE Fate(S)'
  <2>1. ASSUME NEW n \in S PROVE born'[n] = born[n]
    <3>1. CASE born' = born
      BY <3>1
    <3>2. CASE pc = "schedule" /\ Schedules /\ Here \in Nodes
               /\ born' = [born EXCEPT ![Here] = 1]
      <4>1. Here \notin S
        BY <1>5, <3>2, ReadyIsDue DEF Schedules, Scheduling
      <4> QED
        BY <3>2, <4>1
    <3> QED
      BY <1>3, <3>1, <3>2 DEF HistoryGrows
  <2>2. \A n \in S : Lost(S, n) => Lost(S, n)'
    BY <1>2, <1>3, <1>4 DEF Lost, HistoryGrows
  <2> QED
    BY <1>5, <2>1, <2>2 DEF Fate
<1>6. ASSUME NEW n \in Nodes, Due(n) PROVE Due(n)'
  <2>1. \A d \in Nodes : Fated(d) => Fated(d)'
    BY <1>5 DEF Fated
  <2>2. CASE n \in Rescues
    BY <1>2, <1>3, <1>4, <1>6, <2>1, <2>2 DEF Due, HistoryGrows
  <2>3. CASE n \notin Rescues
    BY <1>2, <1>3, <1>4, <1>6, <2>3 DEF Due, HistoryGrows
  <2> QED
    BY <2>2, <2>3
<1> QED
  BY <1>2, <1>4, <1>5, <1>6

\* Nothing happens to the children, or the Task cache catches up with them.
LEMMA ChildKept ==
    ASSUME NEW n \in Nodes, OneChild(n), born' = born, ended' = ended, children' = children,
           childCache' \in {childCache, children}, Ending => Ending'
    PROVE  OneChild(n)'
BY DEF OneChild

\* Every step keeps the one child of each node.
LEMMA OneChildStep ==
    ASSUME PlanStands, IInv, PlanInv, [Next]_vars
    PROVE  \A n \in Nodes : OneChild(n)'
<1>0. /\ wf \in Workflow /\ wfCache \in Workflow /\ FinalizerHolds
      /\ children \in [Nodes -> AnyChild] /\ childCache \in [Nodes -> AnyChild]
      /\ ended \in [Nodes -> SUBSET Terminal] /\ born \in [Nodes -> Nat]
      /\ \A n \in Nodes : OneChild(n)
  BY DEF IInv, CopiesFit, ChildrenFit, PlanInv
<1> DEFINE Quiet == /\ born' = born /\ ended' = ended /\ children' = children
                    /\ childCache' \in {childCache, children}
                    /\ Ending => Ending'
<1>1. Quiet => \A n \in Nodes : OneChild(n)'
  BY <1>0, ChildKept
<1>2. CASE SyncNode \/ ScheduleNode \/ GetExisting
  <2>1. Births /\ UNCHANGED <<wf, wfCache, childCache, ended>> /\ ~Ending
    BY <1>2, FirstBirths DEF Ending
  <2>2. CASE children' = children /\ born' = born
    BY <1>1, <2>1, <2>2
  <2>3. CASE /\ Here \in Nodes /\ children[Here] = NoChild /\ born[Here] = 0
             /\ children' = [children EXCEPT ![Here] = NewChild("self", 1)]
             /\ born' = [born EXCEPT ![Here] = 1]
    <3> SUFFICES ASSUME NEW n \in Nodes PROVE OneChild(n)'
      OBVIOUS
    <3>1. CASE n = Here
      <4>1. born'[n] = 1 /\ children'[n] = NewChild("self", 1)
        BY <1>0, <2>3, <3>1
      <4>2. /\ NewChild("self", 1).owner = "self" /\ ~NewChild("self", 1).deleting
            /\ NewChild("self", 1) # NoChild
        BY NewChildFits, NoChildFits
      <4>3. ended[n] = {} /\ (childCache[n] # NoChild => FALSE)
        BY <1>0, <2>3, <3>1 DEF OneChild
      <4> QED
        BY <2>1, <4>1, <4>2, <4>3 DEF OneChild
    <3>2. CASE n # Here
      BY <1>0, <2>1, <2>3, <3>2 DEF OneChild
    <3> QED
      BY <3>1, <3>2
  <2> QED
    BY <2>1, <2>2, <2>3 DEF Births
<1>3. CASE Reconcile
  <2>1. /\ born' = born /\ ended' = ended /\ children' = children /\ childCache' = childCache
        /\ wfCache' = wfCache /\ Enters
    BY <1>0, <1>3, ReconcileLeads
  <2>2. Ending => Ending'
    BY <2>1 DEF Ending, Enters, Scheduling, BeingDeleted
  <2> QED
    BY <1>1, <2>1, <2>2
<1>4. CASE DeleteChild
  <2>1. /\ pc = "delete" /\ wfCache' = wfCache /\ wfCache.deleting
        /\ born' = born /\ ended' = ended /\ childCache' = childCache
    BY <1>0, <1>4 DEF DeleteChild, cacheVars, ghostVars, FinalizerHolds
  <2>2. pc' \in {"delete", "idle"}
    BY <1>4, <2>1 DEF DeleteChild, ReturnError, Return
  <2>3. Ending'
    BY <2>1, <2>2 DEF Ending, Scheduling
  <2>4. CASE children' = children
    BY <1>1, <2>1, <2>3, <2>4
  <2>5. ASSUME NEW n \in left, NEW d \in Deleted(children[n]), children[n] # NoChild,
               children' = [children EXCEPT ![n] = d]
        PROVE  \A m \in Nodes : OneChild(m)'
    <3> SUFFICES ASSUME NEW m \in Nodes PROVE OneChild(m)'
      OBVIOUS
    <3>1. CASE m = n
      <4>1. children'[m] = d /\ children[m] \in AnyChild
        BY <1>0, <2>5, <3>1
      <4>2. d = NoChild \/ (d.owner = children[m].owner /\ d.phase = children[m].phase)
        BY <2>5, <3>1, <4>1, DeletedFits
      <4> QED
        BY <1>0, <2>1, <2>3, <2>5, <3>1, <4>1, <4>2 DEF OneChild
    <3>2. CASE m # n
      <4>1. children'[m] = children[m]
        BY <1>0, <2>5, <3>2
      <4> QED
        BY <1>0, <2>1, <2>3, <4>1 DEF OneChild
    <3> QED
      BY <3>1, <3>2
  <2>6. \/ children' = children
        \/ \E n \in left : \E d \in Deleted(children[n]) :
              children[n] # NoChild /\ children' = [children EXCEPT ![n] = d]
    BY <1>4 DEF DeleteChild
  <2> QED
    BY <2>4, <2>5, <2>6
<1>5. CASE RefreshWorkflow \/ RefreshChildren \/ Crash
  <2>1. /\ born' = born /\ ended' = ended /\ children' = children
        /\ childCache' \in {childCache, children}
    BY <1>5 DEF RefreshWorkflow, RefreshChildren, Crash, ghostVars
  <2>2. wfCache' \in {wfCache, wf} /\ pc' \in {pc, "idle"}
    BY <1>5 DEF RefreshWorkflow, RefreshChildren, Crash, recVars
  <2>3. Ending => Ending'
    BY <1>0, <2>2 DEF Ending, FinalizerHolds, Scheduling
  <2> QED
    BY <1>1, <2>1, <2>3
<1>6. CASE Write \/ GivesUp \/ FinishDeletion
  <2>1. /\ born' = born /\ ended' = ended /\ children' = children /\ childCache' = childCache
        /\ wfCache' = wfCache
    BY <1>6, GivesUpLeads DEF Write, FinishDeletion, cacheVars, ghostVars
  <2>2. pc' \in {"idle", "update"}
    BY <1>6, GivesUpLeads DEF Write, FinishDeletion, Return, Call, Idle
  <2> QED
    BY <1>1, <2>1, <2>2 DEF Ending, Scheduling
<1>7. CASE ReconcileNothing \/ TimerFires \/ EditStep \/ UNCHANGED vars
  <2>1. UNCHANGED <<born, ended, children, childCache, wfCache, pc>>
    BY <1>7 DEF ReconcileNothing, TimerFires, EditStep, UpdateSpec, DeleteWorkflow, UserWrites,
                vars, cacheVars, recVars, ghostVars
  <2> QED
    BY <1>1, <2>1 DEF Ending
<1>8. CASE TaskStep
  <2>1. UNCHANGED <<childCache, wfCache, pc, born>>
    BY <1>8, TaskStepLeads
  <2>2. PICK n \in Nodes : ChildEnds(n) \/ ChildGone(n) \/ CollectChild(n)
    BY <1>8 DEF TaskStep, ChildStep, UserDeletesChild, UserRerunsChild, UserTakesName, UserAct,
                PlanStands
  <2>3. ASSUME NEW m \in Nodes, children'[m] = children[m], ended'[m] = ended[m]
        PROVE  OneChild(m)'
    BY <1>0, <2>1, <2>3 DEF OneChild, Ending
  <2>4. CASE ChildEnds(n)
    <3>1. PICK phase \in Terminal :
            /\ children' = [children EXCEPT ![n] = [children[n] EXCEPT !.phase = phase]]
            /\ ended' = [ended EXCEPT ![n] = @ \cup {phase}]
            /\ children[n].owner = "self" /\ children[n].phase = "Running"
      <4>1. children[n] # NoChild /\ children[n].owner = "self"
        BY <1>0, <2>4 DEF ChildEnds, OneChild
      <4> QED
        BY <2>4, <4>1 DEF ChildEnds, ChildChange, Own
    <3>2. children[n] # NoChild
      BY <3>1, NoChildFits
    <3>3. ended[n] = {} /\ ended'[n] = {phase} /\ born[n] = 1
      BY <1>0, <3>1, <3>2 DEF OneChild
    <3>4. /\ children'[n].owner = "self" /\ children'[n].phase = phase
          /\ children'[n].deleting = children[n].deleting
      BY <1>0, <3>1, ChildUpdates
    <3>5. OneChild(n)'
      BY <1>0, <2>1, <3>2, <3>3, <3>4, NoChildFits DEF OneChild, Ending, Terminal
    <3>6. \A m \in Nodes : m # n => children'[m] = children[m] /\ ended'[m] = ended[m]
      BY <1>0, <3>1
    <3> QED
      BY <2>3, <3>5, <3>6
  <2>5. CASE ChildGone(n) \/ CollectChild(n)
    <3>1. Ending /\ Ending'
      <4>1. CASE ChildGone(n)
        BY <1>0, <2>1, <4>1 DEF ChildGone, OneChild, Ending
      <4>2. CASE CollectChild(n)
        <5>1. ~wf.finalizer /\ n \in Own(children)
          BY <4>2 DEF CollectChild, Exists, Own
        <5>2. wfCache.deleting /\ pc \notin Scheduling
          BY <1>0, <5>1 DEF FinalizerHolds
        <5> QED
          BY <2>1, <5>2 DEF Ending
      <4> QED
        BY <2>5, <4>1, <4>2
    <3>2. PICK d : /\ children' = [children EXCEPT ![n] = d] /\ ended' = ended
                   /\ d = NoChild \/ (d \in Deleted(children[n]) /\ children[n].owner = "self")
      BY <2>5 DEF ChildGone, CollectChild, ChildChange
    <3>3. d = NoChild \/ (d.owner = "self" /\ d.phase = children[n].phase)
      BY <1>0, <3>2, DeletedFits
    <3>4. OneChild(n)'
      BY <1>0, <2>1, <3>1, <3>2, <3>3, NoChildFits DEF OneChild
    <3>5. \A m \in Nodes : m # n => children'[m] = children[m] /\ ended'[m] = ended[m]
      BY <1>0, <3>2
    <3> QED
      BY <2>3, <3>4, <3>5
  <2> QED
    BY <2>2, <2>4, <2>5
<1> HIDE DEF Quiet
<1>9. CASE Next
  BY <1>2, <1>3, <1>4, <1>5, <1>6, <1>7, <1>8, <1>9, StepKinds
<1> QED
  BY <1>7, <1>9

\* Whatever was started had a reason.
LEMMA DueStep ==
    ASSUME PlanStands, IInv, PlanInv, [Next]_vars
    PROVE  \A n \in Nodes : born'[n] = 1 => Due(n)'
<1> SUFFICES ASSUME NEW n \in Nodes, born'[n] = 1 PROVE Due(n)
  BY FatesStay
<1>1. HistoryGrows
  BY HistoryStep
<1>2. born[n] = 1 => Due(n)
  BY DEF PlanInv
<1>3. CASE born' = born
  BY <1>2, <1>3
<1>4. CASE /\ pc = "schedule" /\ Schedules /\ Here \in Nodes
           /\ born' = [born EXCEPT ![Here] = 1]
  <2>1. n = Here \/ born'[n] = born[n]
    BY <1>4
  <2>2. Due(Here)
    BY <1>4, ReadyIsDue DEF Schedules, Scheduling
  <2> QED
    BY <1>2, <2>1, <2>2
<1> QED
  BY <1>1, <1>3, <1>4 DEF HistoryGrows

\* Copies with the status of a copy that is borne out are borne out, now and later.
LEMMA CopyStays ==
    ASSUME PlanStands, IInv, PlanInv, [Next]_vars, NEW w \in Workflow, BorneOut(w)
    PROVE  /\ wf'.status = w.status => BorneOut(wf)'
           /\ wfCache'.status = w.status => BorneOut(wfCache)'
           /\ obj'.status.nodes = w.status.nodes /\ obj'.status.phase = w.status.phase
                => BorneOut(obj)'
<1>1. /\ DOMAIN w.status.nodes \subseteq Nodes /\ SkippedIn(w) \in SUBSET Nodes
      /\ Needs' = Needs /\ Rescues' = Rescues
  BY NodesAre, FatesStay DEF SkippedIn
<1>2. Fate(SkippedIn(w))'
  BY <1>1, FatesStay DEF BorneOut
<1>3. \A n \in DOMAIN w.status.nodes : w.status.nodes[n] = "Running" => born'[n] = 1
  <2> SUFFICES ASSUME NEW n \in DOMAIN w.status.nodes, w.status.nodes[n] = "Running"
               PROVE  born'[n] = 1
    OBVIOUS
  <2>1. n \in Nodes /\ born[n] = 1 /\ born \in [Nodes -> Nat]
    BY <1>1 DEF BorneOut, IInv, ChildrenFit
  <2> QED
    BY <2>1, HistoryStep DEF HistoryGrows
<1>4. Judged(w)
  BY DEF BorneOut
<1>5. ASSUME wf'.status = w.status PROVE BorneOut(wf)'
  <2>1. SkippedIn(wf)' = SkippedIn(w)
    BY <1>5 DEF SkippedIn
  <2>2. Judged(wf)'
    BY <1>4, <1>5 DEF Judged
  <2>3. Fate(SkippedIn(wf))'
    BY <1>2, <2>1 DEF Fate, Lost
  <2> QED
    BY <1>3, <1>5, <2>2, <2>3 DEF BorneOut
<1>6. ASSUME wfCache'.status = w.status PROVE BorneOut(wfCache)'
  <2>1. SkippedIn(wfCache)' = SkippedIn(w)
    BY <1>6 DEF SkippedIn
  <2>2. Judged(wfCache)'
    BY <1>4, <1>6 DEF Judged
  <2>3. Fate(SkippedIn(wfCache))'
    BY <1>2, <2>1 DEF Fate, Lost
  <2> QED
    BY <1>3, <1>6, <2>2, <2>3 DEF BorneOut
<1>7. ASSUME obj'.status.nodes = w.status.nodes, obj'.status.phase = w.status.phase
      PROVE  BorneOut(obj)'
  <2>1. SkippedIn(obj)' = SkippedIn(w)
    BY <1>7 DEF SkippedIn
  <2>2. Judged(obj)'
    BY <1>4, <1>7 DEF Judged
  <2>3. Fate(SkippedIn(obj))'
    BY <1>2, <2>1 DEF Fate, Lost
  <2> QED
    BY <1>3, <1>7, <2>2, <2>3 DEF BorneOut
<1> QED
  BY <1>5, <1>6, <1>7

\* Between two reconciles the local copy says nothing.
LEMMA NothingBorne ==
    ASSUME wf \in Workflow
    PROVE  /\ NoObject \in Workflow /\ BorneOut(NoObject)
           /\ NoObject.status.phase = "" /\ SkippedIn(NoObject) = {}
<1>1. NoObject \in Workflow /\ NoObject.status.nodes = <<>>
  BY NoObjectFits
<1>2. NoObject.status.phase = ""
  <2>1. (CHOOSE s \in Specs : TRUE) \in Specs
    BY Fields
  <2> QED
    BY <2>1, NewWorkflowFits DEF NoObject
<1>3. DOMAIN NoObject.status.nodes = {}
  BY <1>1
<1> QED
  BY <1>1, <1>2, <1>3 DEF BorneOut, SkippedIn, Fate, Judged, Terminal

\* initializeStatus says of the nodes what the cached copy does.
LEMMA BegunBorne ==
    ASSUME PlanStands, IInv, PlanInv
    PROVE  /\ BorneOut(Initialized(wfCache)) /\ SkippedIn(Initialized(wfCache)) = SkippedIn(wfCache)
           /\ Initialized(wfCache) \in Workflow /\ Initialized(wfCache).status.phase = "Running"
<1> DEFINE v == Initialized(wfCache)
           old == wfCache.status.nodes
<1>1. wf \in Workflow /\ wfCache \in Workflow /\ wfCache.spec = wf.spec /\ BorneOut(wfCache)
  BY DEF IInv, CopiesFit, PlanInv, OneSpec
<1>2. DOMAIN old \subseteq Nodes
  BY <1>1, NodesAre
<1>3. /\ v \in Workflow /\ v.status.phase = "Running"
      /\ v.status.nodes = [n \in Nodes |-> IF n \in DOMAIN old THEN old[n] ELSE "Pending"]
  BY <1>1, PlanIs, InitializedSet
<1> HIDE DEF v
<1>4. SkippedIn(v) = SkippedIn(wfCache)
  BY <1>2, <1>3 DEF SkippedIn
<1>5. \A n \in Nodes : v.status.nodes[n] = "Running" => born[n] = 1
  BY <1>1, <1>3 DEF BorneOut
<1> QED
  BY <1>1, <1>3, <1>4, <1>5 DEF BorneOut, Judged, Terminal, v

\* Where Reconcile leads when the plan is valid.
LEMMA PlanEnters ==
    ASSUME PlanStands, IInv, PlanInv, Reconcile
    PROVE  \/ /\ pc' \in {"delete", "update", "write"}
              /\ obj'.status.nodes = wfCache.status.nodes
              /\ obj'.status.phase = wfCache.status.phase
           \/ Begin(wfCache)
<1>1. wf \in Workflow /\ wfCache \in Workflow /\ wfCache.spec = wf.spec
  BY DEF IInv, CopiesFit, PlanInv, OneSpec
<1>2. wfCache.spec \in ValidSpecs
  BY <1>1, PlanIs
<1>3. CASE BeginDeletion(wfCache)
  BY <1>3 DEF BeginDeletion
<1>4. CASE Call("update", [wfCache EXCEPT !.finalizer = TRUE])
  BY <1>1, <1>4, FinalizerSet DEF Call
<1>5. CASE Call("write", [wfCache EXCEPT !.status.observed = wfCache.generation])
  BY <1>1, <1>5, ObservedSet DEF Call
<1> QED
  BY <1>2, <1>3, <1>4, <1>5 DEF Reconcile

-----------------------------------------------------------------------------
\* The reconcile goes on with the copy w, or with its summary.
Proceeds(w) ==
    /\ current' = current
    /\ (pc' \in Scheduling /\ obj' = w) \/ (pc' = "write" /\ obj' = Summarized(w))

\* The copy w says of the nodes what the local copy does, and perhaps one thing
\* more that is true after this step.
MarkedRight(w) ==
    /\ w \in Workflow /\ w.status.phase = "Running" /\ DOMAIN w.status.nodes = Nodes
    /\ \A n \in Nodes : w.status.nodes[n] = "Running" => born'[n] = 1
    /\ Fate(SkippedIn(w))
    /\ SkippedIn(obj) \subseteq SkippedIn(w)

\* Leaving a node.
LEMMA AdvanceProceeds ==
    ASSUME NEW w, NEW running, NEW touched, pc \in Scheduling, Advance(w, running, touched)
    PROVE  Idle \/ Proceeds(w)
<1>1. CASE left \ {Min(left)} # {}
  BY <1>1 DEF Advance, Scheduling, Proceeds
<1>2. CASE left \ {Min(left)} = {} /\ pc \in {"sync", "syncGet"}
  BY <1>2 DEF Advance, Scheduling, Proceeds
<1>3. CASE left \ {Min(left)} = {} /\ pc \in {"schedule", "scheduleGet"}
  <2>1. CASE touched \/ Summarized(w) # w
    BY <1>3, <2>1 DEF Advance, Proceeds, Call
  <2>2. CASE ~(touched \/ Summarized(w) # w)
    BY <1>3, <2>2 DEF Advance, Return, Idle
  <2> QED
    BY <2>1, <2>2
<1> QED
  BY <1>1, <1>2, <1>3 DEF Scheduling

\* The local copy as it is, or with the visited node marked.
LEMMA MarkIsRight ==
    ASSUME PlanStands, IInv, PlanInv, [Next]_vars, pc \in Scheduling
    PROVE  /\ MarkedRight(obj)
           /\ \A phase \in {"Running"} \cup Terminal :
                /\ obj.status.nodes[Here] \in {"Running", "Pending"}
                /\ phase = "Running" => born'[Here] = 1
                => MarkedRight(WithNode(obj, Here, phase))
           /\ DecideNode(obj, Here) = "skip" => MarkedRight(WithNode(obj, Here, "Skipped"))
<1>1. /\ obj \in Workflow /\ DOMAIN obj.status.nodes = Nodes /\ Here \in Nodes
      /\ obj.status.phase = "Running" /\ BorneOut(obj) /\ born \in [Nodes -> Nat]
  BY PassWorksOn DEF PlanInv, SkipsKept, IInv, ChildrenFit
<1>2. \A n \in Nodes : obj.status.nodes[n] = "Running" => born'[n] = 1
  BY <1>1, HistoryStep DEF BorneOut, HistoryGrows
<1>3. MarkedRight(obj)
  BY <1>1, <1>2 DEF MarkedRight, BorneOut
<1>4. ASSUME NEW phase \in NodePhases
      PROVE  LET w == WithNode(obj, Here, phase)
             IN  /\ w \in Workflow /\ w.status.phase = "Running" /\ DOMAIN w.status.nodes = Nodes
                 /\ \A n \in Nodes : w.status.nodes[n] =
                                       IF n = Here THEN phase ELSE obj.status.nodes[n]
  <2> DEFINE w == WithNode(obj, Here, phase)
  <2>1. w \in Workflow /\ w.status.nodes = [obj.status.nodes EXCEPT ![Here] = phase]
    BY <1>1, NodeSet
  <2>2. w.status.phase = "Running"
    BY <1>1, Fields DEF WithNode
  <2> HIDE DEF w
  <2> QED
    BY <1>1, <2>1, <2>2 DEF w
<1>5. ASSUME NEW phase \in {"Running"} \cup Terminal,
             obj.status.nodes[Here] \in {"Running", "Pending"},
             phase = "Running" => born'[Here] = 1
      PROVE  MarkedRight(WithNode(obj, Here, phase))
  <2> DEFINE w == WithNode(obj, Here, phase)
  <2>0. phase \in NodePhases
    BY DEF NodePhases, Terminal
  <2>1. /\ w \in Workflow /\ w.status.phase = "Running" /\ DOMAIN w.status.nodes = Nodes
        /\ \A n \in Nodes : w.status.nodes[n] = IF n = Here THEN phase ELSE obj.status.nodes[n]
    BY <1>4, <2>0
  <2> HIDE DEF w
  <2>2. SkippedIn(w) = SkippedIn(obj)
    BY <1>1, <1>5, <2>1 DEF SkippedIn, Terminal
  <2> QED
    BY <1>1, <1>2, <1>5, <2>1, <2>2 DEF MarkedRight, BorneOut, w
<1>6. ASSUME DecideNode(obj, Here) = "skip" PROVE MarkedRight(WithNode(obj, Here, "Skipped"))
  <2> DEFINE w == WithNode(obj, Here, "Skipped")
  <2>0. "Skipped" \in NodePhases
    BY DEF NodePhases
  <2>1. /\ w \in Workflow /\ w.status.phase = "Running" /\ DOMAIN w.status.nodes = Nodes
        /\ \A n \in Nodes : w.status.nodes[n] = IF n = Here THEN "Skipped" ELSE obj.status.nodes[n]
    BY <1>4, <2>0
  <2> HIDE DEF w
  <2>2. SkippedIn(w) = SkippedIn(obj) \cup {Here}
    BY <1>1, <2>1 DEF SkippedIn
  <2>3. Fate(SkippedIn(w))
    BY <1>1, <1>6, <2>2, SkipIsFate
  <2> QED
    BY <1>2, <2>1, <2>2, <2>3 DEF MarkedRight, w
<1> QED
  BY <1>3, <1>5, <1>6

\* Going on with a child that is the node's own.
LEMMA PlacedProceeds ==
    ASSUME PlanStands, IInv, PlanInv, [Next]_vars, pc \in Scheduling, NEW c, Placed(c),
           born'[Here] = 1,
           pc \in {"schedule", "scheduleGet"} => obj.status.nodes[Here] = "Pending"
    PROVE  Idle \/ \E w : MarkedRight(w) /\ Proceeds(w)
<1>1. CASE pc \in {"sync", "syncGet"}
  <2>1. Advance(obj, slots, changed)
    BY <1>1 DEF Placed
  <2> QED
    BY <2>1, AdvanceProceeds, MarkIsRight
<1>2. CASE pc \in {"schedule", "scheduleGet"}
  <2> DEFINE phase == SyncNodeFromTask("Running", c)
  <2>1. PICK running : Advance(WithNode(obj, Here, phase), running, TRUE)
    BY <1>2 DEF Placed
  <2>2. phase \in {"Running"} \cup Terminal
    BY DEF SyncNodeFromTask
  <2> HIDE DEF phase
  <2>3. MarkedRight(WithNode(obj, Here, phase))
    BY <1>2, <2>2, MarkIsRight
  <2> QED
    BY <2>1, <2>3, AdvanceProceeds
<1> QED
  BY <1>1, <1>2 DEF Scheduling

\* Every step of reconcileGraph.
LEMMA PassProceeds ==
    ASSUME PlanStands, IInv, PlanInv, SyncNode \/ ScheduleNode \/ GetExisting
    PROVE  Idle \/ \E w : MarkedRight(w) /\ Proceeds(w)
<1>1. Next /\ [Next]_vars
  BY DEF Next, ReconcilerStep
<1>2. /\ pc \in Scheduling /\ born \in [Nodes -> Nat] /\ Here \in Nodes
      /\ OneChild(Here) /\ ~Ending
  BY FirstBirths, PassWorksOn DEF IInv, ChildrenFit, PlanInv, Ending
<1>3. MarkedRight(obj)
  BY <1>1, <1>2, MarkIsRight
<1>4. ASSUME Advance(obj, slots, changed) PROVE Idle \/ \E w : MarkedRight(w) /\ Proceeds(w)
  BY <1>2, <1>3, <1>4, AdvanceProceeds
<1>5. ASSUME pc \in {"sync", "schedule"}, CreateChild,
             pc = "schedule" => obj.status.nodes[Here] = "Pending"
      PROVE  Idle \/ \E w : MarkedRight(w) /\ Proceeds(w)
  <2>1. CASE children[Here] = NoChild
    <3>1. Placed(NewChild("self", born[Here] + 1)) /\ born' = [born EXCEPT ![Here] = @ + 1]
      BY <1>5, <2>1 DEF CreateChild
    <3>2. born[Here] = 0
      BY <1>2, <2>1 DEF OneChild
    <3>3. born'[Here] = 1
      BY <1>2, <3>1, <3>2
    <3> QED
      BY <1>1, <1>2, <1>5, <3>1, <3>3, PlacedProceeds
  <2>2. CASE children[Here] # NoChild
    <3>1. pc' \in Scheduling /\ obj' = obj /\ current' = current
      BY <1>5, <2>2 DEF CreateChild, Scheduling
    <3> QED
      BY <1>3, <3>1 DEF Proceeds
  <2> QED
    BY <2>1, <2>2
<1>6. CASE SyncNode
  <2> DEFINE phase == SyncNodeFromTask("Running", listed[Here])
  <2>1. CASE Advance(obj, slots, changed)
    BY <1>4, <2>1
  <2>2. CASE /\ obj.status.nodes[Here] = "Running" /\ phase # "Running"
             /\ Advance(WithNode(obj, Here, phase), slots - 1, TRUE)
    <3>1. phase \in Terminal
      BY <2>2 DEF SyncNodeFromTask
    <3> HIDE DEF phase
    <3>2. phase # "Running"
      BY <2>2
    <3>3. MarkedRight(WithNode(obj, Here, phase))
      BY <1>1, <1>2, <2>2, <3>1, <3>2, MarkIsRight
    <3> QED
      BY <1>2, <2>2, <3>3, AdvanceProceeds
  <2>3. CASE pc = "sync" /\ CreateChild
    BY <1>5, <2>3
  <2> QED
    BY <1>6, <2>1, <2>2, <2>3 DEF SyncNode
<1>7. CASE ScheduleNode
  <2>1. CASE Advance(obj, slots, changed)
    BY <1>4, <2>1
  <2>2. CASE /\ DecideNode(obj, Here) = "skip"
             /\ Advance(WithNode(obj, Here, "Skipped"), slots, TRUE)
    <3>1. MarkedRight(WithNode(obj, Here, "Skipped"))
      BY <1>1, <1>2, <2>2, MarkIsRight
    <3> QED
      BY <1>2, <2>2, <3>1, AdvanceProceeds
  <2>3. CASE pc = "schedule" /\ Schedules /\ CreateChild
    BY <1>5, <2>3 DEF Schedules
  <2> QED
    BY <1>7, <2>1, <2>2, <2>3 DEF ScheduleNode
<1>8. CASE GetExisting
  <2> DEFINE c == childCache[Here]
  <2>1. born' = born /\ pc \in {"syncGet", "scheduleGet"}
    BY <1>8 DEF GetExisting, ghostVars
  <2>2. CASE ReturnError
    BY <2>2 DEF ReturnError, Return, Idle
  <2>3. CASE c # NoChild /\ Placed(c)
    <3>1. born'[Here] = 1
      BY <1>2, <2>1, <2>3 DEF OneChild
    <3>2. pc \in {"schedule", "scheduleGet"} => obj.status.nodes[Here] = "Pending"
      BY <1>2, <2>1 DEF IInv, PassFits
    <3> HIDE DEF c
    <3> QED
      BY <1>1, <1>2, <2>3, <3>1, <3>2, PlacedProceeds
  <2>4. c # NoChild => c.owner = "self"
    BY <1>2 DEF OneChild
  <2>5. c.owner = "self" => c # NoChild
    BY NoChildFits
  <2> HIDE DEF c
  <2> QED
    BY <1>8, <2>2, <2>3, <2>4, <2>5 DEF GetExisting, c
<1> QED
  BY <1>6, <1>7, <1>8

\* summarize gives a phase that is the verdict.
LEMMA SummaryJudged ==
    ASSUME NEW w \in Workflow, w.status.phase = "Running", DOMAIN w.status.nodes = Nodes
    PROVE  /\ Judged(Summarized(w)) /\ Summarized(w).status.nodes = w.status.nodes
<1>1. Summarized(w).status.nodes = w.status.nodes
  BY SummarizedSet
<1> DEFINE phases == {w.status.nodes[n] : n \in DOMAIN w.status.nodes}
           end == IF "Failed" \in phases THEN "Failed" ELSE "Succeeded"
<1>2. CASE ~(phases \subseteq Settled)
  <2>1. Summarized(w) = w
    BY <1>2 DEF Summarized
  <2> QED
    BY <1>1, <2>1 DEF Judged, Terminal
<1>3. CASE phases \subseteq Settled
  <2>1. Summarized(w) = WithPhase(w, end)
    BY <1>3 DEF Summarized, IsWorkflowTerminal, Terminal
  <2>2. end \in Phases
    BY DEF Phases
  <2>3. WithPhase(w, end).status.phase = end
    BY <2>2, PhaseSet
  <2>4. Summarized(w).status.phase = end
    BY <2>1, <2>3
  <2>5. (end = "Failed") <=> \E n \in Nodes : w.status.nodes[n] = "Failed"
    OBVIOUS
  <2>6. \A n \in Nodes : w.status.nodes[n] \in Settled
    BY <1>3
  <2> HIDE DEF end
  <2> QED
    BY <1>1, <2>4, <2>5, <2>6 DEF Judged
<1> QED
  BY <1>2, <1>3

\* What a reconcile in its passes makes of its copy is borne out.
LEMMA WorkBorne ==
    ASSUME PlanStands, IInv, PlanInv, [Next]_vars, NEW w, MarkedRight(w), Proceeds(w)
    PROVE  /\ BorneOut(obj)' /\ current' = current
           /\ pc' \in Scheduling => obj'.status.phase = "Running"
           /\ SkippedIn(obj) \subseteq SkippedIn(obj)'
<1>1. /\ w \in Workflow /\ w.status.phase = "Running" /\ DOMAIN w.status.nodes = Nodes
      /\ \A n \in Nodes : w.status.nodes[n] = "Running" => born'[n] = 1
      /\ SkippedIn(w) \in SUBSET Nodes
  BY DEF MarkedRight, SkippedIn
<1>2. Fate(SkippedIn(w))' /\ Needs' = Needs /\ Rescues' = Rescues
  BY <1>1, FatesStay DEF MarkedRight
<1>3. obj'.status.nodes = w.status.nodes /\ Judged(obj)'
  <2>1. CASE pc' \in Scheduling /\ obj' = w
    BY <1>1, <2>1 DEF Judged, Terminal
  <2>2. CASE pc' = "write" /\ obj' = Summarized(w)
    BY <1>1, <2>2, SummaryJudged DEF Judged
  <2> QED
    BY <2>1, <2>2 DEF Proceeds
<1>4. SkippedIn(obj)' = SkippedIn(w)
  BY <1>3 DEF SkippedIn
<1>5. Fate(SkippedIn(obj))'
  BY <1>2, <1>4 DEF Fate, Lost
<1>6. BorneOut(obj)'
  BY <1>1, <1>3, <1>5 DEF BorneOut
<1>7. pc' \in Scheduling => obj'.status.phase = "Running"
  BY <1>1 DEF Proceeds, Scheduling
<1> QED
  BY <1>4, <1>6, <1>7 DEF MarkedRight, Proceeds

\* Every step leaves the copies borne out, and what may still be stored has
\* forgotten no skipped node.
LEMMA BorneOutStep ==
    ASSUME PlanStands, IInv, PlanInv, [Next]_vars
    PROVE  BorneOut(wf)' /\ BorneOut(wfCache)' /\ BorneOut(obj)' /\ SkipsKept'
<1>0. /\ wf \in Workflow /\ wfCache \in Workflow /\ obj \in Workflow
      /\ BorneOut(wf) /\ BorneOut(wfCache) /\ BorneOut(obj) /\ SkipsKept
      /\ "cache" \in current => wfCache = wf
      /\ pc = "idle" => "reconciler" \notin current
  BY DEF IInv, CopiesFit, CopiesCurrent, PlanInv
<1>1. /\ NoObject \in Workflow /\ BorneOut(NoObject)
      /\ NoObject.status.phase = "" /\ SkippedIn(NoObject) = {}
  BY <1>0, NothingBorne
<1> DEFINE KeptWf == wf'.status = wf.status
           KeptCache == wfCache' = wfCache \/ wfCache' = wf
           KeptObj == \/ obj' = NoObject
                      \/ obj'.status = obj.status
\* Copies that hold what some copy held.
<1>2. KeptWf \/ wf' = obj => BorneOut(wf)'
  BY <1>0, CopyStays
<1>3. KeptCache => BorneOut(wfCache)'
  BY <1>0, CopyStays
<1>4. KeptObj => BorneOut(obj)'
  BY <1>0, <1>1, CopyStays
<1>5. wf'.status = wf.status => SkippedIn(wf)' = SkippedIn(wf)
  BY DEF SkippedIn
<1>6. obj'.status = obj.status => SkippedIn(obj)' = SkippedIn(obj)
  BY DEF SkippedIn
<1>7. pc' \notin Scheduling \cup {"write"} => SkipsKept'
  BY DEF SkipsKept
<1>8. CASE SyncNode \/ ScheduleNode \/ GetExisting
  <2>1. wf' = wf /\ wfCache' = wfCache /\ pc \in Scheduling
    BY <1>8, FirstBirths
  <2>2. CASE Idle
    <3>1. BorneOut(obj)'
      BY <1>4, <2>2 DEF Idle
    <3>2. SkipsKept'
      BY <1>7, <2>2 DEF Idle, Scheduling
    <3> QED
      BY <1>2, <1>3, <2>1, <3>1, <3>2
  <2>3. CASE \E w : MarkedRight(w) /\ Proceeds(w)
    <3>1. /\ BorneOut(obj)' /\ current' = current
          /\ pc' \in Scheduling => obj'.status.phase = "Running"
          /\ SkippedIn(obj) \subseteq SkippedIn(obj)'
      BY <2>3, WorkBorne
    <3>2. "reconciler" \in current' => SkippedIn(wf)' \subseteq SkippedIn(obj)'
      BY <1>0, <1>5, <2>1, <3>1 DEF SkipsKept
    <3>3. SkipsKept'
      BY <3>1, <3>2 DEF SkipsKept
    <3> QED
      BY <1>2, <1>3, <2>1, <3>1, <3>3
  <2> QED
    BY <1>8, <2>2, <2>3, PassProceeds
<1>9. CASE Reconcile
  <2>1. /\ wf' = wf /\ wfCache' = wfCache /\ pc = "idle"
        /\ current' = IF "cache" \in current THEN current \cup {"reconciler"} ELSE current
    BY <1>0, <1>9, ReconcileLeads
  <2>2. "reconciler" \in current' => wfCache = wf
    BY <1>0, <2>1
  <2>3. CASE /\ pc' \in {"delete", "update", "write"}
             /\ obj'.status.nodes = wfCache.status.nodes
             /\ obj'.status.phase = wfCache.status.phase
    <3>1. BorneOut(obj)'
      BY <1>0, <2>3, CopyStays
    <3>2. SkippedIn(obj)' = SkippedIn(wfCache)
      BY <2>3 DEF SkippedIn
    <3>3. SkipsKept'
      BY <1>5, <2>1, <2>2, <2>3, <3>2 DEF SkipsKept, Scheduling
    <3> QED
      BY <1>2, <1>3, <2>1, <3>1, <3>3
  <2>4. CASE Begin(wfCache)
    <3> DEFINE v == Initialized(wfCache)
    <3>1. pc' = "sync" /\ obj' = v
      BY <1>0, <2>4, BeginLeads
    <3>2. /\ v \in Workflow /\ BorneOut(v) /\ v.status.phase = "Running"
          /\ SkippedIn(v) = SkippedIn(wfCache)
      BY BegunBorne
    <3> HIDE DEF v
    <3>3. BorneOut(obj)'
      BY <3>1, <3>2, CopyStays
    <3>4. SkippedIn(obj)' = SkippedIn(wfCache)
      BY <3>1, <3>2 DEF SkippedIn
    <3>5. SkipsKept'
      BY <1>5, <2>1, <2>2, <3>1, <3>2, <3>4 DEF SkipsKept
    <3> QED
      BY <1>2, <1>3, <2>1, <3>3, <3>5
  <2> QED
    BY <1>9, <2>3, <2>4, PlanEnters
<1>10. CASE Write
  <2>1. wf' = obj /\ wfCache' = wfCache /\ obj' = NoObject /\ pc' = "idle"
    BY <1>10 DEF Write, Return, cacheVars
  <2> QED
    BY <1>2, <1>3, <1>4, <1>7, <2>1 DEF Scheduling
<1>11. CASE GivesUp
  <2>1. wf' = wf /\ wfCache' = wfCache /\ obj' = NoObject /\ pc' = "idle"
    BY <1>11, GivesUpLeads DEF Idle
  <2> QED
    BY <1>2, <1>3, <1>4, <1>7, <2>1 DEF Scheduling
<1>12. CASE DeleteChild
  <2>1. wf' = wf /\ wfCache' = wfCache /\ (obj' = NoObject \/ obj' = obj) /\ pc' \in {"idle", "delete"}
    BY <1>12 DEF DeleteChild, ReturnError, Return, cacheVars
  <2> QED
    BY <1>2, <1>3, <1>4, <1>7, <2>1 DEF Scheduling
<1>13. CASE FinishDeletion
  <2>1. /\ wf' = wf /\ wfCache' = wfCache /\ pc' \in {"idle", "update"}
        /\ obj' = NoObject \/ obj' = [obj EXCEPT !.finalizer = FALSE]
    BY <1>13 DEF FinishDeletion, Return, Call, cacheVars
  <2>2. [obj EXCEPT !.finalizer = FALSE].status = obj.status
    BY <1>0, FinalizerSet
  <2> QED
    BY <1>2, <1>3, <1>4, <1>7, <2>1, <2>2 DEF Scheduling
<1>14. CASE Crash
  <2>1. wf' = wf /\ wfCache' = wf /\ obj' = NoObject /\ pc' = "idle"
    BY <1>14 DEF Crash
  <2> QED
    BY <1>2, <1>3, <1>4, <1>7, <2>1 DEF Scheduling
<1>15. CASE /\ wf'.status = wf.status /\ KeptCache /\ obj' = obj /\ pc' = pc
            /\ "reconciler" \in current' => "reconciler" \in current
  <2>1. SkippedIn(wf)' = SkippedIn(wf) /\ SkippedIn(obj)' = SkippedIn(obj)
    BY <1>5, <1>6, <1>15
  <2>2. SkipsKept'
    BY <1>0, <1>15, <2>1 DEF SkipsKept
  <2> QED
    BY <1>2, <1>3, <1>4, <1>15, <2>2
<1>16. CASE EditStep
  <2>1. DeleteWorkflow
    BY <1>16 DEF EditStep, UpdateSpec, UserAct, PlanStands
  <2>2. /\ wf' = [wf EXCEPT !.deleting = TRUE] /\ UNCHANGED <<wfCache, pc, obj>>
        /\ current' \subseteq current
    BY <2>1 DEF DeleteWorkflow, UserWrites, CopiesAfter, cacheVars, recVars
  <2>3. wf'.status = wf.status
    BY <1>0, <2>2, DeletingSet
  <2> QED
    BY <1>15, <2>2, <2>3
<1>17. CASE RefreshWorkflow
  BY <1>15, <1>17 DEF RefreshWorkflow, recVars
<1>18. CASE ReconcileNothing \/ RefreshChildren \/ TimerFires \/ TaskStep \/ UNCHANGED vars
  <2>1. UNCHANGED <<wf, wfCache, obj, pc, current>>
    BY <1>18, TaskStepLeads DEF ReconcileNothing, RefreshChildren, TimerFires, vars, cacheVars, recVars
  <2> QED
    BY <1>15, <2>1
<1> HIDE DEF KeptWf, KeptCache, KeptObj
<1>19. CASE Next
  BY <1>8, <1>9, <1>10, <1>11, <1>12, <1>13, <1>14, <1>16, <1>17, <1>18, <1>19, StepKinds
<1> QED
  BY <1>18, <1>19

\* At first nothing has started and nothing is said.
LEMMA PlanInvInit == PlanStands /\ Init => PlanInv
<1> SUFFICES ASSUME PlanStands, Init PROVE PlanInv
  OBVIOUS
<1>1. PICK s \in Specs : wf = NewWorkflow(s)
  BY DEF Init
<1>2. /\ wf \in Workflow /\ wf.status.nodes = <<>> /\ wf.status.phase = "" /\ wfCache = wf
      /\ obj = NoObject /\ pc = "idle"
  BY <1>1, NewWorkflowFits DEF Init
<1>3. \A n \in Nodes : /\ born[n] = 0 /\ ended[n] = {}
                       /\ children[n] = NoChild /\ childCache[n] = NoChild
  BY DEF Init, PlanStands
<1>4. \A n \in Nodes : OneChild(n)
  BY <1>3, NoChildFits DEF OneChild
<1>5. DOMAIN wf.status.nodes = {}
  <2>1. DOMAIN <<>> = {}
    OBVIOUS
  <2> QED
    BY <1>2, <2>1
<1>6. BorneOut(wf)
  BY <1>2, <1>5 DEF BorneOut, SkippedIn, Fate, Judged, Terminal
<1>7. BorneOut(obj)
  BY <1>2, NothingBorne
<1>8. OneSpec /\ SkipsKept
  BY <1>2 DEF OneSpec, SkipsKept, Scheduling
<1>9. BorneOut(wfCache)
  <2>1. wfCache = wf
    BY <1>2
  <2> QED
    BY <1>6, <2>1 DEF BorneOut, Judged, SkippedIn
<1>10. \A n \in Nodes : born[n] # 1
  BY <1>3
<1> QED
  BY <1>4, <1>6, <1>7, <1>8, <1>9, <1>10 DEF PlanInv

\* Together with the invariant of the reconciler, it is inductive.
LEMMA PlanInvStep == PlanStands /\ IInv /\ PlanInv /\ [Next]_vars => PlanInv'
<1> SUFFICES ASSUME PlanStands, IInv, PlanInv, [Next]_vars PROVE PlanInv'
  OBVIOUS
<1>1. OneSpec'
  BY OneSpecStep DEF IInv, PlanInv
<1>2. Nodes' = Nodes
  OBVIOUS
<1> QED
  BY <1>1, OneChildStep, DueStep, BorneOutStep DEF PlanInv

-----------------------------------------------------------------------------
(* The refinement of PlanRun.                                              *)

\* What PlanRun sees of a node.
LifeOf(n) ==
    IF "Succeeded" \in ended[n] THEN "Succeeded"
    ELSE IF "Failed" \in ended[n] THEN "Failed"
    ELSE IF born[n] = 1 THEN "running"
    ELSE IF n \in SkippedIn(wf) THEN "skipped" ELSE "waiting"
Fares == Life = [n \in Nodes |-> LifeOf(n)]

\* No stored phase is belied by a child Task.
LEMMA NodesFare == PlanStands /\ IInv /\ PlanInv => Fares
<1> SUFFICES ASSUME IInv, PlanInv, NEW n \in Nodes PROVE Life[n] = LifeOf(n)
  BY DEF Fares, Life
<1>1. OneChild(n) /\ BorneOut(wf) /\ Honest(wf)
  BY DEF PlanInv, IInv, OutcomesReal
<1>2. ~Belied(n)
  <2>1. Stored(n) = "Skipped" => n \in SkippedIn(wf)
    BY DEF Stored, SkippedIn
  <2>2. Stored(n) \in Terminal => Stored(n) \in ended[n]
    BY <1>1 DEF Stored, Honest, Had, Terminal
  <2>3. n \in SkippedIn(wf) => born[n] = 0
    BY <1>1 DEF BorneOut, Fate
  <2> QED
    BY <2>1, <2>2, <2>3 DEF Belied
<1>3. (Stored(n) = "Skipped") <=> n \in SkippedIn(wf)
  BY DEF Stored, SkippedIn
<1>4. CASE ended[n] # {}
  <2>1. PICK phase \in {"Succeeded", "Failed"} : ended[n] = {phase}
    BY <1>1, <1>4 DEF OneChild
  <2>2. Life[n] = CHOOSE p \in ended[n] : TRUE
    BY <1>2, <1>4 DEF Life
  <2>3. \A p \in ended[n] : p = phase
    BY <2>1
  <2>4. (CHOOSE p \in ended[n] : TRUE) \in ended[n]
    BY <1>4
  <2>5. Life[n] = phase
    BY <2>2, <2>3, <2>4
  <2> QED
    BY <2>1, <2>5 DEF LifeOf
<1>5. CASE ended[n] = {} /\ born[n] = 1
  <2>1. Life[n] = "running"
    BY <1>2, <1>5 DEF Life
  <2> QED
    BY <1>5, <2>1 DEF LifeOf
<1>6. CASE ended[n] = {} /\ born[n] = 0
  <2>1. Life[n] = IF Stored(n) = "Skipped" THEN "skipped" ELSE "waiting"
    BY <1>2, <1>6 DEF Life
  <2> QED
    BY <1>3, <1>6, <2>1 DEF LifeOf
<1> QED
  BY <1>1, <1>4, <1>5, <1>6 DEF OneChild

\* The nodes that the local copy has skipped and the stored one has not are
\* doomed in PlanRun.
LEMMA SkipsAreDoomed ==
    ASSUME PlanStands, IInv, PlanInv, Fares, NEW S, S = SkippedIn(obj) \ SkippedIn(wf)
    PROVE  /\ S \in SUBSET Nodes /\ Promise!Doomed(S)
           /\ \A n \in Nodes : Promise!Skipping(S)[n] =
                IF n \in SkippedIn(obj) THEN "skipped" ELSE Life[n]
<1>1. /\ SkippedIn(obj) \in SUBSET Nodes /\ SkippedIn(wf) \in SUBSET Nodes
      /\ Fate(SkippedIn(obj)) /\ Fate(SkippedIn(wf)) /\ \A n \in Nodes : OneChild(n)
      /\ Needs \in [Nodes -> SUBSET Nodes]
  <2>1. wf \in Workflow /\ obj \in Workflow
    BY DEF IInv, CopiesFit
  <2> QED
    BY <2>1, NodesAre, PlanIs DEF PlanInv, BorneOut, SkippedIn
<1>2. \A n \in Nodes : Life[n] = LifeOf(n)
  BY DEF Fares
<1>3. \A n \in SkippedIn(obj) \cup SkippedIn(wf) : born[n] = 0 /\ ended[n] = {} /\ n \in Nodes
  BY <1>1 DEF Fate, OneChild
<1>4. \A n \in Nodes : Promise!Skipping(S)[n] =
                IF n \in SkippedIn(obj) THEN "skipped" ELSE Life[n]
  <2>1. \A n \in SkippedIn(wf) : Life[n] = "skipped"
    BY <1>2, <1>3 DEF LifeOf
  <2> QED
    BY <1>3, <2>1 DEF Promise!Skipping
<1>5. ASSUME NEW n \in S PROVE Life[n] = "waiting"
  BY <1>2, <1>3 DEF LifeOf
<1>6. ASSUME NEW n \in S PROVE Promise!Hopeless(Promise!Skipping(S), n)
  <2>1. n \in Nodes /\ Lost(SkippedIn(obj), n)
    BY <1>1 DEF Fate
  <2>2. Needs[n] \subseteq Nodes
    BY <1>1, <2>1
  <2>3. ASSUME NEW d \in Needs[n], ended[d] # {}
        PROVE  Promise!Skipping(S)[d] \in Terminal /\ Promise!Skipping(S)[d] \in ended[d]
    <3>1. d \in Nodes /\ d \notin SkippedIn(obj) /\ ended[d] \in {{"Succeeded"}, {"Failed"}}
      BY <1>1, <1>3, <2>2, <2>3 DEF OneChild
    <3> QED
      BY <1>2, <1>4, <3>1 DEF LifeOf, Terminal
  <2>4. CASE n \in Rescues
    <3>1. \A d \in Needs[n] : "Succeeded" \in ended[d]
      BY <2>1, <2>4 DEF Lost
    <3>2. \A d \in Needs[n] : ended[d] = {"Succeeded"}
      BY <1>1, <2>2, <3>1 DEF OneChild
    <3>3. \A d \in Needs[n] : Promise!Skipping(S)[d] = "Succeeded"
      BY <2>3, <3>2
    <3> QED
      BY <2>4, <3>3 DEF Promise!Hopeless, Promise!AllWell
  <2>5. CASE n \notin Rescues
    <3>1. PICK d \in Needs[n] : "Failed" \in ended[d] \/ d \in SkippedIn(obj)
      BY <2>1, <2>5 DEF Lost
    <3>2. CASE "Failed" \in ended[d]
      <4>1. ended[d] = {"Failed"}
        BY <1>1, <2>2, <3>2 DEF OneChild
      <4>2. Promise!Skipping(S)[d] = "Failed"
        BY <2>3, <4>1
      <4> QED
        BY <2>5, <4>2 DEF Promise!Hopeless
    <3>3. CASE d \in SkippedIn(obj)
      BY <1>3, <1>4, <2>5, <3>3 DEF Promise!Hopeless
    <3> QED
      BY <3>1, <3>2, <3>3
  <2> QED
    BY <2>4, <2>5
<1> QED
  BY <1>1, <1>4, <1>5, <1>6 DEF Promise!Doomed

\* The first state of a Workflow is one of PlanRun.
LEMMA InitFollows == PlanStands /\ Init => Promise!Init
<1> SUFFICES ASSUME PlanStands, Init PROVE Promise!Init
  OBVIOUS
<1>1. PICK s \in Specs : wf = NewWorkflow(s)
  BY DEF Init
<1>2. wf \in Workflow /\ wf.status.nodes = <<>> /\ wf.status.phase = ""
  BY <1>1, NewWorkflowFits
<1>3. Needs \in [Nodes -> SUBSET Nodes] /\ Rescues \subseteq Nodes
  BY <1>2, PlanIs
<1>4. \A n \in Nodes : born[n] = 0 /\ ended[n] = {}
  BY DEF Init
<1>5. Judgement = "none"
  BY <1>2 DEF Judgement, Terminal
<1>6. Life = [n \in Nodes |-> "waiting"]
  <2> SUFFICES ASSUME NEW n \in Nodes PROVE Life[n] = "waiting"
    BY DEF Life
  <2>1. Stored(n) = "Pending"
    <3>1. DOMAIN <<>> = {}
      OBVIOUS
    <3> QED
      BY <1>2, <3>1 DEF Stored
  <2>2. ~Belied(n)
    BY <2>1 DEF Belied, Terminal
  <2>3. ended[n] = {} /\ ~(born[n] > 0)
    BY <1>4
  <2> QED
    BY <2>1, <2>2, <2>3 DEF Life
<1> QED
  BY <1>3, <1>5, <1>6 DEF Promise!Init

\* A step that writes no status, creates no child and ends none stutters.
LEMMA OthersFollow ==
    ASSUME Needs' = Needs, Rescues' = Rescues, wf'.status = wf.status, born' = born, ended' = ended
    PROVE  UNCHANGED Promise!pvars
<1>1. Judgement' = Judgement
  BY DEF Judgement
<1>2. \A n \in Nodes : Stored(n)' = Stored(n)
  BY DEF Stored
<1>3. \A n \in Nodes : Belied(n)' = Belied(n)
  BY <1>2 DEF Belied
<1>4. Life' = Life
  BY <1>2, <1>3 DEF Life
<1> QED
  BY <1>1, <1>4 DEF Promise!pvars

\* The creation of a child is a start.
LEMMA BirthFollows ==
    ASSUME PlanStands, IInv, PlanInv, Fares, Fares', [Next]_vars,
           pc = "schedule", Schedules, Here \in Nodes, born[Here] = 0,
           born' = [born EXCEPT ![Here] = 1], ended' = ended, wf' = wf
    PROVE  Promise!Start(Here)
<1> DEFINE S == SkippedIn(obj) \ SkippedIn(wf)
           n == Here
<1>1. S \in SUBSET Nodes /\ Promise!Doomed(S)
      /\ \A d \in Nodes : Promise!Skipping(S)[d] =
            IF d \in SkippedIn(obj) THEN "skipped" ELSE Life[d]
  BY SkipsAreDoomed
<1>2. /\ graph.deps = Needs /\ obj \in Workflow
      /\ RunOnFailure(obj.spec, n) <=> n \in Rescues
      /\ DOMAIN obj.status.nodes = Nodes
      /\ \A d \in Nodes : obj.status.nodes[d] \in NodePhases /\ Had(d, obj.status.nodes[d])
  BY PassWorksOn DEF PlanInv, Scheduling
<1>3. /\ \A d \in Nodes : OneChild(d) /\ Life[d] = LifeOf(d)
      /\ born \in [Nodes -> Nat] /\ BorneOut(wf)
      /\ SkippedIn(wf) \in SUBSET Nodes /\ Needs[n] \subseteq Nodes
      /\ Honest(wf)
  <2>1. wf \in Workflow
    BY DEF IInv, CopiesFit
  <2> QED
    BY <2>1, NodesAre, PlanIs DEF Fares, PlanInv, IInv, ChildrenFit, SkippedIn, OutcomesReal
<1>4. n \notin SkippedIn(wf)
  BY <1>3, ReadyIsDue DEF Schedules, Scheduling, BorneOut
<1>5. Life[n] = "waiting"
  BY <1>3, <1>4 DEF LifeOf, OneChild
<1>6. ASSUME NEW d \in Nodes, obj.status.nodes[d] \in Settled
      PROVE  Promise!Skipping(S)[d] = IF obj.status.nodes[d] = "Skipped" THEN "skipped"
                                      ELSE obj.status.nodes[d]
  <2>1. (d \in SkippedIn(obj)) <=> obj.status.nodes[d] = "Skipped"
    BY <1>2 DEF SkippedIn
  <2>2. CASE obj.status.nodes[d] = "Skipped"
    BY <1>1, <2>1, <2>2
  <2>3. CASE obj.status.nodes[d] \in Terminal
    <3>1. obj.status.nodes[d] \in ended[d]
      BY <1>2, <2>3 DEF Had
    <3>2. ended[d] = {obj.status.nodes[d]}
      BY <1>3, <3>1 DEF OneChild
    <3>3. Life[d] = obj.status.nodes[d]
      BY <1>3, <2>3, <3>2 DEF LifeOf, Terminal
    <3> QED
      BY <1>1, <2>1, <2>3, <3>3 DEF Terminal
  <2> QED
    BY <1>6, <2>2, <2>3 DEF Settled
<1>7. Promise!Ready(Promise!Skipping(S), n)
  <2>1. DecideNode(obj, n) = "ready"
    BY DEF Schedules
  <2>2. \A d \in Needs[n] : obj.status.nodes[d] \in Settled
    BY <1>2, <2>1 DEF DecideNode
  <2>3. \A d \in Needs[n] : d \in Nodes /\ obj.status.nodes[d] \in Settled
    BY <1>3, <2>2
  <2>4. \A d \in Needs[n] : Promise!Skipping(S)[d] =
            IF obj.status.nodes[d] = "Skipped" THEN "skipped" ELSE obj.status.nodes[d]
    BY <1>6, <2>3
  <2> HIDE DEF S
  <2>5. CASE n \in Rescues
    <3>1. PICK d \in Needs[n] : obj.status.nodes[d] \in {"Failed", "Skipped"}
      BY <1>2, <2>1, <2>5 DEF DecideNode
    <3>2. ~Promise!AllWell(Promise!Skipping(S), n)
      BY <2>4, <3>1 DEF Promise!AllWell
    <3>3. Promise!AllEnded(Promise!Skipping(S), n)
      BY <2>3, <2>4 DEF Promise!AllEnded, Promise!Ended, Settled, Terminal
    <3> QED
      BY <2>5, <3>2, <3>3 DEF Promise!Ready
  <2>6. CASE n \notin Rescues
    <3>1. \A d \in Needs[n] : obj.status.nodes[d] = "Succeeded"
      BY <1>2, <2>1, <2>2, <2>6 DEF DecideNode, Settled, Terminal
    <3> QED
      BY <2>4, <2>6, <3>1 DEF Promise!Ready, Promise!AllWell
  <2> QED
    BY <2>5, <2>6
<1>8. Judgement = "none"
  <2> SUFFICES ASSUME wf.status.phase \in Terminal PROVE FALSE
    BY DEF Judgement
  <2>1. n \in DOMAIN wf.status.nodes /\ wf.status.nodes[n] \in Settled
    BY <1>3 DEF BorneOut, Judged
  <2>2. wf.status.nodes[n] \in Terminal
    BY <1>4, <2>1 DEF SkippedIn, Settled
  <2>3. ended[n] # {}
    BY <1>3, <2>1, <2>2 DEF Honest, Had
  <2> QED
    BY <1>3, <2>3 DEF OneChild
<1>9. UNCHANGED <<Needs, Rescues, Judgement>>
  BY FatesStay DEF Judgement
<1>10. Life' = [Life EXCEPT ![n] = "running"]
  <2>1. Life = [d \in Nodes |-> LifeOf(d)] /\ Life' = [d \in Nodes |-> LifeOf(d)']
    BY DEF Fares
  <2>2. SkippedIn(wf)' = SkippedIn(wf)
    BY DEF SkippedIn
  <2>3. ASSUME NEW d \in Nodes PROVE LifeOf(d)' = IF d = n THEN "running" ELSE LifeOf(d)
    <3>1. CASE d = n
      <4>1. born'[n] = 1 /\ ended'[n] = {}
        BY <1>3 DEF OneChild
      <4> QED
        BY <3>1, <4>1 DEF LifeOf
    <3>2. CASE d # n
      <4>1. born'[d] = born[d]
        BY <1>3, <3>2
      <4> QED
        BY <2>2, <3>2, <4>1 DEF LifeOf
    <3> QED
      BY <3>1, <3>2
  <2> HIDE DEF n
  <2> QED
    BY <2>1, <2>3
<1> HIDE DEF S
<1> QED
  BY <1>1, <1>5, <1>7, <1>8, <1>9, <1>10 DEF Promise!Start

\* The end of a child is the end of its node.
LEMMA EndFollows ==
    ASSUME PlanStands, IInv, PlanInv, Fares, Fares', [Next]_vars, NEW n \in Nodes, ChildEnds(n)
    PROVE  \E outcome \in {"Succeeded", "Failed"} : Promise!Finish(n, outcome)
<1>0. children[n] # NoChild /\ children[n].owner = "self"
  BY DEF ChildEnds, PlanInv, OneChild
<1>1. PICK phase \in Terminal : ended' = [ended EXCEPT ![n] = @ \cup {phase}]
  BY <1>0 DEF ChildEnds, Own
<1>2. /\ children[n].owner = "self" /\ children[n].phase = "Running"
      /\ wf' = wf /\ born' = born
  BY <1>0 DEF ChildEnds, ChildChange
<1>3. /\ OneChild(n) /\ ended \in [Nodes -> SUBSET Terminal] /\ BorneOut(wf)
      /\ \A d \in Nodes : Life[d] = LifeOf(d)
  BY DEF PlanInv, IInv, ChildrenFit, Fares
<1>4. ended[n] = {} /\ born[n] = 1
  BY <1>2, <1>3, NoChildFits DEF OneChild
<1>5. Life[n] = "running"
  BY <1>3, <1>4 DEF LifeOf
<1>6. Life' = [Life EXCEPT ![n] = phase]
  <2>1. Life = [d \in Nodes |-> LifeOf(d)] /\ Life' = [d \in Nodes |-> LifeOf(d)']
    BY DEF Fares
  <2>2. SkippedIn(wf)' = SkippedIn(wf)
    BY <1>2 DEF SkippedIn
  <2>3. ASSUME NEW d \in Nodes PROVE LifeOf(d)' = IF d = n THEN phase ELSE LifeOf(d)
    <3>1. CASE d = n
      <4>1. ended'[n] = {phase}
        BY <1>1, <1>3, <1>4
      <4> QED
        BY <3>1, <4>1 DEF LifeOf, Terminal
    <3>2. CASE d # n
      <4>1. ended'[d] = ended[d]
        BY <1>1, <1>3, <3>2
      <4> QED
        BY <1>2, <2>2, <3>2, <4>1 DEF LifeOf
    <3> QED
      BY <3>1, <3>2
  <2> QED
    BY <2>1, <2>3
<1>7. UNCHANGED <<Needs, Rescues, Judgement>>
  BY <1>2, FatesStay DEF Judgement
<1> QED
  BY <1>5, <1>6, <1>7 DEF Promise!Finish, Terminal

\* The write of a reconcile is a report, with the verdict if the copy has one;
\* when the run is over already it says nothing new.
LEMMA WriteFollows ==
    ASSUME PlanStands, IInv, PlanInv, Fares, Fares', [Next]_vars, Write
    PROVE  Promise!Report \/ UNCHANGED Promise!pvars
<1> DEFINE S == SkippedIn(obj) \ SkippedIn(wf)
<1>1. /\ wf' = obj /\ born' = born /\ ended' = ended
      /\ pc \in {"write", "update"} /\ "reconciler" \in current
  BY DEF Write, WriteAccepted, ghostVars
<1>2. /\ Needs' = Needs /\ Rescues' = Rescues
      /\ \A n \in Nodes : OneChild(n) /\ Life[n] = LifeOf(n)
      /\ BorneOut(wf) /\ BorneOut(obj) /\ CopiesCurrent /\ Honest(wf) /\ Honest(obj)
      /\ SkippedIn(wf) \in SUBSET Nodes /\ SkippedIn(obj) \in SUBSET Nodes
  <2>1. wf \in Workflow /\ obj \in Workflow
    BY DEF IInv, CopiesFit
  <2> QED
    BY <2>1, NodesAre, FatesStay DEF PlanInv, IInv, Fares, OutcomesReal, SkippedIn
<1>3. CASE pc = "update"
  <2>1. wf'.status = wf.status
    BY <1>1, <1>2, <1>3 DEF CopiesCurrent
  <2> QED
    BY <1>1, <1>2, <2>1, OthersFollow
<1>4. CASE pc = "write"
  <2>1. SkippedIn(wf) \subseteq SkippedIn(obj)
    BY <1>1, <1>4 DEF PlanInv, SkipsKept
  <2>2. SkippedIn(wf)' = SkippedIn(obj)
    BY <1>1 DEF SkippedIn
  <2>3. /\ Promise!Doomed(S) /\ S \in SUBSET Nodes
        /\ \A n \in Nodes : Promise!Skipping(S)[n] =
             IF n \in SkippedIn(obj) THEN "skipped" ELSE Life[n]
    BY SkipsAreDoomed
  <2>4. \A n \in SkippedIn(obj) : n \in Nodes /\ born[n] = 0 /\ ended[n] = {}
    BY <1>2 DEF BorneOut, Fate, OneChild
  <2>5. Life = [n \in Nodes |-> LifeOf(n)] /\ Life' = [n \in Nodes |-> LifeOf(n)']
    BY DEF Fares
  <2>6. \A n \in Nodes : LifeOf(n)' = IF n \in SkippedIn(obj) THEN "skipped" ELSE LifeOf(n)
    BY <1>1, <2>1, <2>2, <2>4 DEF LifeOf
  <2>7. Promise!Skipping(S) = [n \in Nodes |-> IF n \in S THEN "skipped" ELSE Life[n]]
    BY DEF Promise!Skipping
  <2>8. Life' = Promise!Skipping(S)
    BY <1>2, <2>3, <2>5, <2>6, <2>7
  <2>9. CASE wf.status.phase \in Terminal
    <3>1. DOMAIN wf.status.nodes = Nodes /\ \A n \in Nodes : wf.status.nodes[n] \in Settled
      BY <1>2, <2>9 DEF BorneOut, Judged
    <3>2. Nodes # {}
      <4>1. wf \in Workflow
        BY DEF IInv, CopiesFit
      <4> QED
        BY <4>1, PlanIs, GraphIs
    <3>3. Finished(wf)
      BY <2>9, <3>1, <3>2 DEF Finished
    <3>4. obj.status.phase = wf.status.phase
      BY <1>1, <1>2, <1>4, <3>3 DEF CopiesCurrent
    <3>5. Judgement' = Judgement
      BY <1>1, <3>4 DEF Judgement
    <3>6. ASSUME NEW n \in SkippedIn(obj) PROVE n \in SkippedIn(wf)
      <4>1. n \in Nodes /\ ended[n] = {}
        BY <2>4
      <4>2. wf.status.nodes[n] \notin Terminal
        BY <1>2, <3>1, <4>1 DEF Honest, Had
      <4> QED
        BY <3>1, <4>1, <4>2 DEF SkippedIn, Settled
    <3>7. \A n \in Nodes : LifeOf(n)' = LifeOf(n)
      BY <2>4, <2>6, <3>6 DEF LifeOf
    <3>8. Life' = Life
      BY <2>5, <3>7
    <3> QED
      BY <1>2, <3>5, <3>8 DEF Promise!pvars
  <2>10. CASE wf.status.phase \notin Terminal
    <3>1. Judgement = "none"
      BY <2>10 DEF Judgement
    <3>2. CASE obj.status.phase \notin Terminal
      <4>1. Judgement' = "none"
        BY <1>1, <3>2 DEF Judgement
      <4> HIDE DEF S
      <4> QED
        BY <1>2, <2>3, <2>8, <3>1, <4>1 DEF Promise!Report
    <3>3. CASE obj.status.phase \in Terminal
      <4>1. /\ \A n \in Nodes : n \in DOMAIN obj.status.nodes /\ obj.status.nodes[n] \in Settled
            /\ obj.status.phase = "Failed" <=> \E n \in Nodes : obj.status.nodes[n] = "Failed"
        BY <1>2, <3>3 DEF BorneOut, Judged
      <4>2. ASSUME NEW n \in Nodes
            PROVE  Life'[n] = IF obj.status.nodes[n] = "Skipped" THEN "skipped"
                              ELSE obj.status.nodes[n]
        <5>1. Life'[n] = IF n \in SkippedIn(obj) THEN "skipped" ELSE LifeOf(n)
          BY <2>5, <2>6
        <5>2. (n \in SkippedIn(obj)) <=> obj.status.nodes[n] = "Skipped"
          BY <4>1 DEF SkippedIn
        <5>3. CASE obj.status.nodes[n] \in Terminal
          <6>1. ended[n] = {obj.status.nodes[n]}
            BY <1>2, <4>1, <5>3 DEF Honest, Had, OneChild
          <6>2. LifeOf(n) = obj.status.nodes[n]
            BY <5>3, <6>1 DEF LifeOf, Terminal
          <6> QED
            BY <5>1, <5>2, <5>3, <6>2 DEF Terminal
        <5>4. CASE obj.status.nodes[n] = "Skipped"
          BY <5>1, <5>2, <5>4
        <5> QED
          BY <4>1, <5>3, <5>4 DEF Settled
      <4>3. \A n \in Nodes : Life'[n] \in Promise!Ended
        BY <4>1, <4>2 DEF Promise!Ended, Settled, Terminal
      <4>4. Judgement' = obj.status.phase
        BY <1>1, <3>3 DEF Judgement
      <4>5. \A n \in Nodes : (Life'[n] = "Failed") <=> obj.status.nodes[n] = "Failed"
        BY <4>2
      <4>6. Judgement' = Promise!Verdict(Life')
        BY <3>3, <4>1, <4>4, <4>5 DEF Promise!Verdict, Terminal
      <4> HIDE DEF S
      <4> QED
        BY <1>2, <2>3, <2>8, <3>1, <4>3, <4>6 DEF Promise!Report
    <3> QED
      BY <3>2, <3>3
  <2> QED
    BY <2>9, <2>10
<1> QED
  BY <1>1, <1>3, <1>4

\* Every step is one of PlanRun, or stutters.
LEMMA StepFollows ==
    ASSUME PlanStands, IInv, PlanInv, Fares, Fares', [Next]_vars
    PROVE  [Promise!Next]_(Promise!pvars)
<1>0. /\ Needs' = Needs /\ Rescues' = Rescues
      /\ wf \in Workflow /\ wfCache \in Workflow
  BY FatesStay DEF IInv, CopiesFit
<1>1. CASE SyncNode \/ ScheduleNode \/ GetExisting
  <2>1. Births /\ wf' = wf /\ ended' = ended
    BY <1>1, FirstBirths
  <2>2. CASE born' = born
    BY <1>0, <2>1, <2>2, OthersFollow
  <2>3. CASE born' # born
    <3>1. Promise!Start(Here) /\ Here \in Nodes
      BY <2>1, <2>3, BirthFollows DEF Births
    <3> QED
      BY <3>1 DEF Promise!Next
  <2> QED
    BY <2>2, <2>3
<1>2. CASE Write
  BY <1>2, WriteFollows DEF Promise!Next
<1>3. CASE TaskStep
  <2>1. UNCHANGED <<wf, born>>
    BY <1>3, TaskStepLeads
  <2>2. PICK n \in Nodes : ChildEnds(n) \/ ChildGone(n) \/ CollectChild(n)
    BY <1>3 DEF TaskStep, ChildStep, UserDeletesChild, UserRerunsChild, UserTakesName, UserAct,
                PlanStands
  <2>3. CASE ChildEnds(n)
    BY <2>3, EndFollows DEF Promise!Next
  <2>4. CASE ChildGone(n) \/ CollectChild(n)
    <3>1. ended' = ended
      BY <2>4 DEF ChildGone, CollectChild
    <3> QED
      BY <1>0, <2>1, <3>1, OthersFollow
  <2> QED
    BY <2>2, <2>3, <2>4
<1>4. CASE EditStep
  <2>1. DeleteWorkflow
    BY <1>4 DEF EditStep, UpdateSpec, UserAct, PlanStands
  <2>2. wf'.status = wf.status /\ born' = born /\ ended' = ended
    BY <1>0, <2>1, DeletingSet DEF DeleteWorkflow, UserWrites, ghostVars
  <2> QED
    BY <1>0, <2>2, OthersFollow
<1>5. CASE Reconcile
  BY <1>0, <1>5, ReconcileLeads, OthersFollow
<1>6. CASE GivesUp
  BY <1>0, <1>6, GivesUpLeads, OthersFollow
<1>7. CASE \/ ReconcileNothing \/ DeleteChild \/ FinishDeletion \/ RefreshWorkflow
           \/ RefreshChildren \/ TimerFires \/ Crash \/ UNCHANGED vars
  <2>1. wf' = wf /\ born' = born /\ ended' = ended
    BY <1>7 DEF ReconcileNothing, DeleteChild, FinishDeletion, RefreshWorkflow, RefreshChildren,
                TimerFires, Crash, vars, ghostVars
  <2> QED
    BY <1>0, <2>1, OthersFollow
<1>8. CASE Next
  BY <1>1, <1>2, <1>3, <1>4, <1>5, <1>6, <1>7, <1>8, StepKinds
<1> QED
  BY <1>7, <1>8

\* The reconciler keeps the promise of PlanRun to a valid plan whose spec and
\* child Tasks users leave alone: with caches of any age, conflicts, failed
\* calls, crashes and a deletion at any point, each node is started at most once
\* and for a reason, a skip is for a reason and is never taken back, and the
\* phase of the Workflow is the right verdict on what the child Tasks really did.
THEOREM FollowsPlan == PlanStands => (Spec => RunsPlan)
<1> SUFFICES ASSUME PlanStands PROVE Spec => RunsPlan
  OBVIOUS
<1>1. Init => PlanInv
  BY PlanInvInit
<1>2. IInv /\ PlanInv /\ [Next]_vars => PlanInv'
  BY PlanInvStep
<1>3. IInv /\ PlanInv => Fares
  BY NodesFare
<1>4. Init => Promise!Init
  BY InitFollows
<1>5. IInv /\ PlanInv /\ Fares /\ Fares' /\ [Next]_vars => [Promise!Next]_(Promise!pvars)
  BY StepFollows
<1> QED
  BY <1>1, <1>2, <1>3, <1>4, <1>5, ReconcilerInductive, PTL DEF Spec, RunsPlan, Promise!Spec

-----------------------------------------------------------------------------
(* The limit in the status.                                                *)

\* The copy w shows no more running nodes than the stored status, or than
\* maxParallel allows.
Within(w) ==
    \/ RunningNodes(w) <= RunningNodes(wf)
    \/ w.spec.maxParallel = 0
    \/ RunningNodes(w) <= w.spec.maxParallel

\* A copy that may still be stored is within the limit, and a child is looked up
\* in the second pass only for a slot that is free.
LimitKept ==
    /\ "reconciler" \in current /\ pc \in Scheduling \cup {"write"} => Within(obj)
    /\ pc = "scheduleGet" => ~Full(obj, slots)

\* The running nodes of a copy can be counted, by a number and against a number.
LEMMA RunningIs ==
    ASSUME NEW w \in Workflow
    PROVE  /\ IsFiniteSet({n \in DOMAIN w.status.nodes : w.status.nodes[n] = "Running"})
           /\ RunningNodes(w) \in Nat /\ w.spec.maxParallel \in Nat
<1>1. DOMAIN w.status.nodes \subseteq Nodes
  BY NodesAre
<1>2. IsFiniteSet({n \in DOMAIN w.status.nodes : w.status.nodes[n] = "Running"})
  BY <1>1, FiniteNodes, FS_Subset
<1>3. w.spec \in Specs
  BY Fields
<1> QED
  BY <1>2, <1>3, FS_CardinalityType, WorkflowConstants DEF RunningNodes

\* initializeStatus adds no running node.
LEMMA InitializedRuns ==
    ASSUME NEW w \in Workflow
    PROVE  RunningNodes(Initialized(w)) <= RunningNodes(w)
<1> DEFINE A == {n \in DOMAIN w.status.nodes : w.status.nodes[n] = "Running"}
           v == Initialized(w)
           B == {n \in DOMAIN v.status.nodes : v.status.nodes[n] = "Running"}
<1>1. v.status.nodes = [n \in Names(w.spec.tasks) |->
                          IF n \in DOMAIN w.status.nodes THEN w.status.nodes[n] ELSE "Pending"]
  BY InitializedSet
<1>2. IsFiniteSet(A)
  BY RunningIs
<1> HIDE DEF v
<1>3. B \subseteq A
  BY <1>1
<1>4. RunningNodes(w) = Cardinality(A) /\ RunningNodes(v) = Cardinality(B)
  BY DEF RunningNodes
<1> HIDE DEF A, B
<1> QED
  BY <1>2, <1>3, <1>4, FS_Subset DEF v

\* Leaving a node with a copy that is within the limit.
LEMMA AdvanceKeeps ==
    ASSUME wf' = wf, pc \in Scheduling, NEW w \in Workflow, NEW running, NEW touched,
           Advance(w, running, touched), "reconciler" \in current => Within(w)
    PROVE  LimitKept'
<1>1. Idle \/ GoesOn(w)
  BY AdvanceLeads
<1>2. pc' # "scheduleGet"
  BY DEF Advance, Call, Return
<1>3. CASE Idle
  BY <1>3 DEF Idle, LimitKept, Scheduling
<1>4. CASE GoesOn(w)
  <2>1. /\ current' = current /\ obj'.spec = w.spec
        /\ obj'.status.nodes = w.status.nodes
    BY <1>4 DEF GoesOn, SameBut
  <2>2. RunningNodes(obj') = RunningNodes(w)
    BY <2>1 DEF RunningNodes
  <2> QED
    BY <1>2, <2>1, <2>2 DEF LimitKept, Within
<1> QED
  BY <1>1, <1>3, <1>4

\* Going on with a child: a node that starts to run had a free slot.
LEMMA PlacedKeeps ==
    ASSUME obj \in Workflow, wf' = wf, PassFits, LimitKept, pc \in Scheduling,
           NEW c, Placed(c),
           pc = "schedule" => obj.status.nodes[Here] = "Pending" /\ ~Full(obj, slots)
    PROVE  LimitKept'
<1>1. "reconciler" \in current => Within(obj)
  BY DEF LimitKept
<1>2. CASE pc \in {"sync", "syncGet"}
  <2>1. Advance(obj, slots, changed)
    BY <1>2 DEF Placed
  <2> QED
    BY <1>1, <2>1, AdvanceKeeps
<1>3. CASE pc \notin {"sync", "syncGet"}
  <2> DEFINE phase == SyncNodeFromTask("Running", c)
             w == WithNode(obj, Here, phase)
  <2>1. phase \in NodePhases
    BY DEF SyncNodeFromTask, NodePhases, Terminal
  <2>2. PICK running : Advance(w, running, TRUE)
    BY <1>3 DEF Placed
  <2>3. Here \in DOMAIN obj.status.nodes
    BY HereIs
  <2>4. obj.status.nodes[Here] = "Pending" /\ ~Full(obj, slots) /\ slots = RunningNodes(obj)
    BY <1>3 DEF PassFits, LimitKept, Scheduling
  <2> HIDE DEF phase
  <2>5. /\ w \in Workflow /\ w.spec = obj.spec
        /\ RunningNodes(w) = IF phase = "Running" THEN slots + 1 ELSE slots
    BY <2>1, <2>3, <2>4, RunningAfter
  <2>6. obj.spec.maxParallel = 0 \/ slots < obj.spec.maxParallel
    <3>1. slots \in Nat /\ obj.spec.maxParallel \in Nat
      BY <2>4, RunningIs
    <3> QED
      BY <2>4, <3>1 DEF Full
  <2> HIDE DEF w
  <2>7. "reconciler" \in current => Within(w)
    <3>1. CASE phase = "Running"
      <4>1. slots \in Nat /\ obj.spec.maxParallel \in Nat
        BY <2>4, RunningIs
      <4>2. w.spec.maxParallel = 0 \/ RunningNodes(w) <= w.spec.maxParallel
        BY <2>5, <2>6, <3>1, <4>1
      <4> QED
        BY <4>2 DEF Within
    <3>2. CASE phase # "Running"
      BY <1>1, <2>4, <2>5, <3>2 DEF Within
    <3> QED
      BY <3>1, <3>2
  <2> QED
    BY <2>2, <2>5, <2>7, AdvanceKeeps
<1> QED
  BY <1>2, <1>3

\* createChildTask, from either pass.
LEMMA CreateKeeps ==
    ASSUME obj \in Workflow, wf' = wf, PassFits, LimitKept, pc \in {"sync", "schedule"},
           CreateChild,
           pc = "schedule" => obj.status.nodes[Here] = "Pending" /\ ~Full(obj, slots)
    PROVE  LimitKept'
<1>0. pc \in Scheduling
  BY DEF Scheduling
<1>1. CASE children[Here] = NoChild
  <2>1. PICK c : Placed(c)
    BY <1>1 DEF CreateChild
  <2> QED
    BY <1>0, <2>1, PlacedKeeps
<1>2. CASE children[Here] # NoChild
  <2>1. /\ pc' = (IF pc = "sync" THEN "syncGet" ELSE "scheduleGet")
        /\ UNCHANGED <<current, obj, slots>>
    BY <1>2 DEF CreateChild
  <2>2. Within(obj)' <=> Within(obj)
    BY <2>1 DEF Within
  <2>3. Full(obj, slots)' <=> Full(obj, slots)
    BY <2>1 DEF Full
  <2> QED
    BY <1>0, <2>1, <2>2, <2>3 DEF LimitKept
<1> QED
  BY <1>1, <1>2

\* Every step of reconcileGraph.
LEMMA PassKeeps ==
    ASSUME obj \in Workflow, wf \in Workflow, PassFits, LimitKept,
           SyncNode \/ ScheduleNode \/ GetExisting
    PROVE  LimitKept'
<1>0. pc \in Scheduling /\ wf' = wf
  BY SchedulingLeads
<1>1. /\ "reconciler" \in current => Within(obj)
      /\ slots = RunningNodes(obj) /\ Here \in DOMAIN obj.status.nodes
  BY <1>0, HereIs DEF LimitKept, PassFits
<1>2. CASE Advance(obj, slots, changed)
  BY <1>0, <1>1, <1>2, AdvanceKeeps
<1>3. ASSUME NEW phase \in NodePhases \ {"Running"}, NEW running,
             Advance(WithNode(obj, Here, phase), running, TRUE)
      PROVE  LimitKept'
  <2> DEFINE w == WithNode(obj, Here, phase)
  <2>1. w \in Workflow /\ w.spec = obj.spec
    BY <1>1, RunningAfter
  <2>2. RunningNodes(w) <= RunningNodes(obj)
    <3>1. RunningNodes(obj) \in Nat /\ RunningNodes(w) \in {RunningNodes(obj), RunningNodes(obj) - 1}
      BY <1>1, RunningAfter
    <3> QED
      BY <3>1
  <2>3. RunningNodes(w) \in Nat /\ RunningNodes(obj) \in Nat /\ RunningNodes(wf) \in Nat
        /\ obj.spec.maxParallel \in Nat
    BY <2>1, RunningIs
  <2> HIDE DEF w
  <2>4. "reconciler" \in current => Within(w)
    BY <1>1, <2>1, <2>2, <2>3 DEF Within
  <2> QED
    BY <1>0, <1>3, <2>1, <2>4, AdvanceKeeps DEF w
<1>4. CASE SyncNode
  <2> DEFINE phase == SyncNodeFromTask("Running", listed[Here])
  <2>1. CASE /\ phase # "Running"
             /\ Advance(WithNode(obj, Here, phase), slots - 1, TRUE)
    <3>1. phase \in NodePhases \ {"Running"}
      BY <2>1 DEF SyncNodeFromTask, NodePhases, Terminal
    <3> HIDE DEF phase
    <3> QED
      BY <1>3, <2>1, <3>1
  <2>2. CASE CreateChild
    <3>1. pc = "sync"
      BY <1>4 DEF SyncNode
    <3> QED
      BY <1>0, <2>2, <3>1, CreateKeeps
  <2> QED
    BY <1>2, <1>4, <2>1, <2>2 DEF SyncNode
<1>5. CASE ScheduleNode
  <2>1. CASE Advance(WithNode(obj, Here, "Skipped"), slots, TRUE)
    <3>1. "Skipped" \in NodePhases \ {"Running"}
      BY DEF NodePhases
    <3> QED
      BY <1>3, <2>1, <3>1
  <2>2. CASE Schedules /\ CreateChild
    <3>1. /\ pc = "schedule" /\ obj.status.nodes[Here] = "Pending"
          /\ ~Full(obj, slots)
      BY <1>5, <2>2 DEF ScheduleNode, Schedules
    <3> QED
      BY <1>0, <2>2, <3>1, CreateKeeps
  <2> QED
    BY <1>2, <1>5, <2>1, <2>2 DEF ScheduleNode
<1>6. CASE GetExisting
  <2>0. pc \in {"syncGet", "scheduleGet"}
    BY <1>6 DEF GetExisting
  <2>1. CASE ReturnError
    BY <2>1 DEF ReturnError, Return, LimitKept, Scheduling
  <2>2. CASE Call("write", WithPhase(obj, "Failed")) /\ UNCHANGED current
    <3>1. /\ pc' = "write" /\ obj' = WithPhase(obj, "Failed") /\ current' = current
      BY <2>2 DEF Call
    <3>2. obj'.spec = obj.spec /\ obj'.status.nodes = obj.status.nodes
      BY <3>1, PhaseSet DEF SameBut, Phases
    <3>3. RunningNodes(obj') = RunningNodes(obj)
      BY <3>2 DEF RunningNodes
    <3> QED
      BY <1>0, <1>1, <3>1, <3>2, <3>3 DEF LimitKept, Within
  <2>3. CASE Placed(childCache[Here])
    BY <1>0, <2>0, <2>3, PlacedKeeps
  <2> QED
    BY <1>6, <2>1, <2>2, <2>3 DEF GetExisting
<1> QED
  BY <1>4, <1>5, <1>6

\* A reconcile begins with no more running nodes than the cache shows.
LEMMA EntersWithin ==
    ASSUME CopiesFit, CopiesCurrent, Reconcile
    PROVE  LimitKept'
<1>1. /\ pc = "idle" /\ Enters /\ UNCHANGED <<wf, wfCache>>
      /\ current' = IF "cache" \in current THEN current \cup {"reconciler"} ELSE current
  BY ReconcileLeads DEF CopiesFit
<1>2. pc' # "scheduleGet"
  BY <1>1, BeginLeads DEF Enters, CopiesFit
<1>3. SUFFICES ASSUME "reconciler" \in current', pc' \in Scheduling \cup {"write"}
               PROVE  Within(obj)'
  BY <1>2 DEF LimitKept
<1>4. wfCache = wf /\ wf \in Workflow
  BY <1>1, <1>3 DEF CopiesCurrent, CopiesFit
<1>5. CASE pc' = "write" /\ obj' \in Workflow /\ obj'.status.nodes = wfCache.status.nodes
  <2>1. RunningNodes(obj') = RunningNodes(wf)
    BY <1>4, <1>5 DEF RunningNodes
  <2>2. RunningNodes(wf) \in Nat
    BY <1>4, RunningIs
  <2> QED
    BY <1>1, <2>1, <2>2 DEF Within
<1>6. CASE pc' = "sync" /\ Begin(wfCache)
  BY <1>1, <1>4, <1>6, BeginLeads, InitializedRuns DEF Within
<1> QED
  BY <1>1, <1>3, <1>5, <1>6 DEF Enters, Scheduling

\* The local copy stays within the limit as long as it may be stored.
LEMMA LimitKeptStep == IInv /\ LimitKept /\ [Next]_vars => LimitKept'
<1> SUFFICES ASSUME IInv, LimitKept, [Next]_vars PROVE LimitKept'
  OBVIOUS
<1>0. /\ CopiesFit /\ CopiesCurrent /\ PassFits
      /\ wf \in Workflow /\ wfCache \in Workflow /\ obj \in Workflow
  BY DEF IInv, CopiesFit
<1>1. ASSUME pc' \in {"idle", "delete", "update"} PROVE LimitKept'
  BY <1>1 DEF LimitKept, Scheduling
<1>2. ASSUME UNCHANGED <<wf, pc, obj, slots>>, "reconciler" \in current' => "reconciler" \in current
      PROVE  LimitKept'
  <2>1. (Within(obj)' <=> Within(obj)) /\ (Full(obj, slots)' <=> Full(obj, slots))
    BY <1>2 DEF Within, Full
  <2> QED
    BY <1>2, <2>1 DEF LimitKept
<1>3. CASE SyncNode \/ ScheduleNode \/ GetExisting
  BY <1>0, <1>3, PassKeeps
<1>4. CASE Reconcile
  BY <1>0, <1>4, EntersWithin
<1>5. CASE Write \/ GivesUp \/ Crash
  BY <1>1, <1>5, GivesUpLeads DEF Write, Return, Idle, Crash
<1>6. CASE DeleteChild \/ FinishDeletion
  <2>1. pc' \in {"idle", "delete", "update"}
    BY <1>6 DEF DeleteChild, FinishDeletion, ReturnError, Return
  <2> QED
    BY <1>1, <2>1
<1>7. CASE ReconcileNothing \/ RefreshWorkflow \/ RefreshChildren \/ TimerFires \/ UNCHANGED vars
  BY <1>2, <1>7 DEF ReconcileNothing, RefreshWorkflow, RefreshChildren, TimerFires, vars, recVars
<1>8. CASE TaskStep
  BY <1>2, <1>8, TaskStepLeads
<1>9. CASE EditStep
  <2>1. wf.generation <= 1 + userActs /\ userActs \in Nat
    BY <1>0, BoundsFit DEF CopiesFit
  <2>2. /\ current' = IF wf' = wf THEN current ELSE {}
        /\ UNCHANGED <<pc, obj, slots>>
    BY <1>0, <1>9, <2>1, EditLeads
  <2>3. CASE wf' = wf
    BY <1>2, <2>2, <2>3
  <2>4. CASE wf' # wf
    <3>1. Full(obj, slots)' <=> Full(obj, slots)
      BY <2>2 DEF Full
    <3> QED
      BY <2>2, <2>4, <3>1 DEF LimitKept
  <2> QED
    BY <2>3, <2>4
<1> QED
  BY <1>3, <1>4, <1>5, <1>6, <1>7, <1>8, <1>9, StepKinds

\* advanceNodes: a write that makes the status show more running nodes shows no
\* more than maxParallel.  Stale caches, adopted children, edits of the limit,
\* failed calls and crashes cannot change that: what goes beyond the limit is
\* never in the status.
THEOREM LimitInStatus == Spec => StatusWithinLimit
<1>1. Init => LimitKept
  BY DEF Init, LimitKept, Scheduling
<1>2. IInv /\ LimitKept /\ [Next]_vars => LimitKept'
  BY LimitKeptStep
<1>3. IInv /\ LimitKept /\ [Next]_vars
        => [RunningNodes(wf') > RunningNodes(wf)
              => wf'.spec.maxParallel = 0 \/ RunningNodes(wf') <= wf'.spec.maxParallel]_vars
  <2> SUFFICES ASSUME IInv, LimitKept, [Next]_vars, RunningNodes(wf') > RunningNodes(wf)
               PROVE  wf'.spec.maxParallel = 0 \/ RunningNodes(wf') <= wf'.spec.maxParallel
    OBVIOUS
  <2>0. wf \in Workflow /\ obj \in Workflow /\ CopiesFit
    BY DEF IInv, CopiesFit
  <2>1. RunningNodes(wf) \in Nat
    BY <2>0, RunningIs
  <2>2. wf'.status # wf.status
    <3>1. wf'.status = wf.status => RunningNodes(wf') = RunningNodes(wf)
      BY DEF RunningNodes
    <3> QED
      BY <2>1, <3>1
  <2>3. Write
    <3>1. wf.generation <= 1 + userActs /\ userActs \in Nat
      BY <2>0, BoundsFit DEF CopiesFit
    <3> QED
      BY <2>0, <2>2, <3>1, OnlyWritten, EditLeads
  <2>4. wf' = obj /\ pc \in {"write", "update"} /\ "reconciler" \in current
    BY <2>3 DEF Write, WriteAccepted
  <2>5. pc = "write"
    BY <2>2, <2>4 DEF IInv, CopiesCurrent
  <2>6. Within(obj)
    BY <2>4, <2>5 DEF LimitKept
  <2>7. RunningNodes(obj) \in Nat /\ RunningNodes(obj) > RunningNodes(wf)
    BY <2>0, <2>4, RunningIs
  <2>8. ~(RunningNodes(obj) <= RunningNodes(wf))
    BY <2>1, <2>7
  <2> QED
    BY <2>4, <2>6, <2>8 DEF Within
<1> QED
  BY <1>1, <1>2, <1>3, ReconcilerInductive, PTL DEF Spec, StatusWithinLimit
=============================================================================
