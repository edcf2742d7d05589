----------------------------- MODULE Dispatcher -----------------------------
(***************************************************************************)
(* The notification dispatcher of internal/notification/dispatcher.go: a   *)
(* bounded queue of failure events, a ledger of delivery records that      *)
(* suppresses duplicates, workers that send with bounded retries, and the  *)
(* shutdown.  An event is its ID; the mutex makes enqueue, the marking of  *)
(* a record and finish atomic; a worker's other steps interleave freely.   *)
(***************************************************************************)
EXTENDS Integers, Sequences, FiniteSets

CONSTANTS
    Events,             \* event IDs
    Workers,            \* worker goroutines (workerCount, 2 in the code)
    NoEvent,            \* what a worker without an event holds
    QueueCapacity,      \* 128 in the code
    CompletedCapacity,  \* 4096 in the code
    CompletedTTL,       \* 24 hours in the code, in clock ticks
    MaxRetries,         \* webhook-max-retries or smtp-max-retries
    MaxTime             \* horizon of the clock (bound)

ASSUME DispatcherConstants ==
    /\ NoEvent \notin Events
    /\ QueueCapacity \in Nat \ {0}
    /\ CompletedCapacity \in Nat \ {0}
    /\ CompletedTTL \in Nat \ {0}
    /\ MaxRetries \in Nat
    /\ MaxTime \in Nat

VARIABLES
    now,        \* the clock
    queue,      \* the channel
    records,    \* the ledger: the state of each ID, "none" if it has no record
    completed,  \* the list of finished IDs, oldest first
    cancelled,  \* the context is done
    stopped,    \* enqueue refuses events
    pc,         \* what each worker does next
    held,       \* the event each worker has received
    attempt,    \* the loop counter of deliver
    verdict,    \* what deliver returns
    sends       \* history variable: sends of each ID since it was last accepted

workerVars == <<pc, held, attempt, verdict>>
vars == <<now, queue, records, completed, cancelled, stopped, pc, held,
          attempt, verdict, sends>>

Finals == {"delivered", "rejected", "exhausted"}
Open == {"pending", "sending"}
Pcs == {"select", "received", "attempt", "sent", "backoff", "finish", "done"}

Init ==
    /\ now = 0
    /\ queue = <<>>
    /\ records = [e \in Events |-> "none"]
    /\ completed = <<>>
    /\ cancelled = FALSE
    /\ stopped = FALSE
    /\ pc = [w \in Workers |-> "select"]
    /\ held = [w \in Workers |-> NoEvent]
    /\ attempt = [w \in Workers |-> 0]
    /\ verdict = [w \in Workers |-> "none"]
    /\ sends = [e \in Events |-> 0]

-----------------------------------------------------------------------------
(* The ledger.                                                             *)

\* Mutant: an entry expires one tick early.
ExpiredEarly(entry) == now - entry.at >= CompletedTTL - 1

Expired(entry) == now - entry.at >= CompletedTTL

\* prune stops at the first entry that is young enough: it removes k entries.
Prunes(k) ==
    /\ \A i \in 1..k : Expired(completed[i])
    /\ k < Len(completed) => ~Expired(completed[k + 1])

\* Mutants: the entries stay listed, or the whole ledger is emptied.
ListUntouched(k) == completed
LedgerEmptied(k) == IF k = 0 THEN records ELSE [e \in Events |-> "none"]

\* The list and the ledger without the k oldest finished events.
ListWithout(k) == SubSeq(completed, k + 1, Len(completed))
LedgerWithout(k) ==
    [e \in Events |-> IF \E i \in 1..k : completed[i].id = e THEN "none" ELSE records[e]]

\* Mutant: only finished IDs are suppressed.
KnownIfFinished(e, k) == LedgerWithout(k)[e] \in Finals

\* enqueue after prune removed k entries: the ID still has a record.
Known(e, k) == LedgerWithout(k)[e] # "none"

\* enqueue: a stopped dispatcher or a known ID refuses the event; a full
\* queue drops it, after prune has done its work in both cases but the first.
Enqueue(e) ==
    /\ ~stopped
    /\ \E k \in 0..Len(completed) :
        /\ Prunes(k)
        /\ completed' = ListWithout(k)
        /\ IF ~Known(e, k) /\ Len(queue) < QueueCapacity
           THEN /\ queue' = Append(queue, e)
                /\ records' = [LedgerWithout(k) EXCEPT ![e] = "pending"]
                /\ sends' = [sends EXCEPT ![e] = 0]
           ELSE /\ records' = LedgerWithout(k)
                /\ UNCHANGED <<queue, sends>>
    /\ UNCHANGED <<now, cancelled, stopped, workerVars>>

\* Mutant: the list may grow one entry past its capacity.
EvictionsLate ==
    IF Len(completed) > CompletedCapacity THEN Len(completed) - CompletedCapacity + 1 ELSE 0

\* How many of the oldest entries finish evicts before it adds its own.
Evictions ==
    IF Len(completed) >= CompletedCapacity THEN Len(completed) - CompletedCapacity + 1 ELSE 0

\* finish.
Finish(w) ==
    /\ pc[w] = "finish"
    /\ records' = [LedgerWithout(Evictions) EXCEPT ![held[w]] = verdict[w]]
    /\ completed' = Append(ListWithout(Evictions), [id |-> held[w], at |-> now])
    /\ pc' = [pc EXCEPT ![w] = "select"]
    /\ held' = [held EXCEPT ![w] = NoEvent]
    /\ verdict' = [verdict EXCEPT ![w] = "none"]
    /\ UNCHANGED <<now, queue, cancelled, stopped, attempt, sends>>

-----------------------------------------------------------------------------
(* A worker: the loop of run, and deliver.                                 *)

\* The worker's select takes the oldest event, even after cancellation.
Receive(w) ==
    /\ pc[w] = "select" /\ queue # <<>>
    /\ held' = [held EXCEPT ![w] = Head(queue)]
    /\ queue' = Tail(queue)
    /\ pc' = [pc EXCEPT ![w] = "received"]
    /\ UNCHANGED <<now, records, completed, cancelled, stopped, attempt, verdict, sends>>

\* Mutant: a worker that waits in its select does not notice cancellation.
ExitAfterReceive(w) ==
    /\ pc[w] = "received" /\ cancelled
    /\ pc' = [pc EXCEPT ![w] = "done"]
    /\ held' = [held EXCEPT ![w] = NoEvent]
    /\ UNCHANGED <<now, queue, records, completed, cancelled, stopped, attempt, verdict, sends>>

\* The worker returns: from select when the context is done, or because it
\* finds the context done after it received an event, which stays pending.
Exit(w) ==
    /\ pc[w] \in {"select", "received"} /\ cancelled
    /\ pc' = [pc EXCEPT ![w] = "done"]
    /\ held' = [held EXCEPT ![w] = NoEvent]
    /\ UNCHANGED <<now, queue, records, completed, cancelled, stopped, attempt, verdict, sends>>

\* The record is marked, the event enriched and encoded; an event that cannot
\* be encoded is rejected unsent.
MarkSending(w) ==
    /\ pc[w] = "received" /\ ~cancelled
    /\ records' = [records EXCEPT ![held[w]] = "sending"]
    /\ attempt' = [attempt EXCEPT ![w] = 0]
    /\ \/ pc' = [pc EXCEPT ![w] = "attempt"] /\ UNCHANGED verdict
       \/ /\ pc' = [pc EXCEPT ![w] = "finish"]
          /\ verdict' = [verdict EXCEPT ![w] = "rejected"]
    /\ UNCHANGED <<now, queue, completed, cancelled, stopped, held, sends>>

\* The loop body of deliver up to sender.send.
Send(w) ==
    /\ pc[w] = "attempt" /\ ~cancelled
    /\ sends' = [sends EXCEPT ![held[w]] = @ + 1]
    /\ pc' = [pc EXCEPT ![w] = "sent"]
    /\ UNCHANGED <<now, queue, records, completed, cancelled, stopped, held, attempt, verdict>>

\* Mutant: the state deliver returns is dropped.
DecideNothing(w, state) ==
    /\ pc' = [pc EXCEPT ![w] = "select"]
    /\ UNCHANGED verdict

\* deliver has an answer it does not retry.
Decide(w, state) ==
    /\ pc' = [pc EXCEPT ![w] = "finish"]
    /\ verdict' = [verdict EXCEPT ![w] = state]

\* Mutant: one retry too few.
LastAttemptEarly(w) == attempt[w] + 1 >= MaxRetries

LastAttempt(w) == attempt[w] = MaxRetries

\* The result of a send: delivered, refused for good, or worth a retry.
Answer(w) ==
    /\ pc[w] = "sent" /\ ~cancelled
    /\ \/ Decide(w, "delivered")
       \/ Decide(w, "rejected")
       \/ LastAttempt(w) /\ Decide(w, "exhausted")
       \/ /\ ~LastAttempt(w)
          /\ pc' = [pc EXCEPT ![w] = "backoff"]
          /\ UNCHANGED verdict
    /\ UNCHANGED <<now, queue, records, completed, cancelled, stopped, held, attempt, sends>>

\* wait returns after the retry delay.
Retry(w) ==
    /\ pc[w] = "backoff" /\ ~cancelled
    /\ attempt' = [attempt EXCEPT ![w] = @ + 1]
    /\ pc' = [pc EXCEPT ![w] = "attempt"]
    /\ UNCHANGED <<now, queue, records, completed, cancelled, stopped, held, verdict, sends>>

\* deliver finds the context done and returns the empty state; the worker
\* goes back to its select and the record stays in state sending.
Abandon(w) ==
    /\ pc[w] \in {"attempt", "sent", "backoff"} /\ cancelled
    /\ pc' = [pc EXCEPT ![w] = "select"]
    /\ held' = [held EXCEPT ![w] = NoEvent]
    /\ UNCHANGED <<now, queue, records, completed, cancelled, stopped, attempt, verdict, sends>>

WorkerStep(w) ==
    \/ Receive(w) \/ Exit(w) \/ MarkSending(w) \/ Send(w) \/ Answer(w)
    \/ Retry(w) \/ Abandon(w) \/ Finish(w)

-----------------------------------------------------------------------------
\* The manager ends the context; later run's own goroutine stops enqueue.
Cancel ==
    /\ ~cancelled
    /\ cancelled' = TRUE
    /\ UNCHANGED <<now, queue, records, completed, stopped, workerVars, sends>>

Stop ==
    /\ cancelled /\ ~stopped
    /\ stopped' = TRUE
    /\ UNCHANGED <<now, queue, records, completed, cancelled, workerVars, sends>>

Tick ==
    /\ now < MaxTime
    /\ now' = now + 1
    /\ UNCHANGED <<queue, records, completed, cancelled, stopped, workerVars, sends>>

Next ==
    \/ \E e \in Events : Enqueue(e)
    \/ \E w \in Workers : WorkerStep(w)
    \/ Cancel
    \/ Stop
    \/ Tick

Spec == Init /\ [][Next]_vars

\* Every worker keeps running, and run reacts to the end of the context; the
\* HTTP and SMTP clients time out, so every send has an answer.
FairSpec == /\ Spec
            /\ \A w \in Workers : WF_vars(WorkerStep(w))
            /\ WF_vars(Stop)

-----------------------------------------------------------------------------
(* Properties.                                                             *)

\* Every variable has its type, and the list and the queue stay within bounds.
TypeOK ==
    /\ now \in 0..MaxTime
    /\ queue \in Seq(Events) /\ Len(queue) <= QueueCapacity
    /\ records \in [Events -> {"none"} \cup Open \cup Finals]
    /\ completed \in Seq([id: Events, at: 0..MaxTime])
    /\ Len(completed) <= CompletedCapacity
    /\ cancelled \in BOOLEAN /\ stopped \in BOOLEAN
    /\ pc \in [Workers -> Pcs]
    /\ held \in [Workers -> Events \cup {NoEvent}]
    /\ attempt \in [Workers -> 0..MaxRetries]
    /\ verdict \in [Workers -> {"none"} \cup Finals]
    /\ sends \in [Events -> 0..(MaxRetries + 1)]

InQueue(e) == \E i \in DOMAIN queue : queue[i] = e
Holds(w, e) == held[w] = e
InList(e) == \E i \in DOMAIN completed : completed[i].id = e

\* enqueue reserves the ID: an event is in one place only.  It waits in the
\* queue once, or one worker has it, so that two workers never send it at the
\* same time, however often the informer reports the Job.
OneOwner ==
    \A e \in Events :
        /\ \A a, b \in DOMAIN queue : (queue[a] = e /\ queue[b] = e) => a = b
        /\ \A v, w \in Workers : (Holds(v, e) /\ Holds(w, e)) => v = w
        /\ \A w \in Workers : ~(InQueue(e) /\ Holds(w, e))

\* prune and finish evict records of finished events only: an event that is
\* queued or in a worker's hands keeps its open record, so that it is neither
\* accepted a second time nor missing from the unfinished count at shutdown.
OpenIsKept ==
    \A e \in Events :
        /\ InQueue(e) => records[e] = "pending"
        /\ \A w \in Workers : Holds(w, e) => records[e] \in Open

\* The ledger and the list of finished events never drift apart, which is what
\* lets eviction bound the ledger: exactly the finished records are listed, once.
ListMatchesLedger ==
    /\ \A e \in Events : records[e] \in Finals <=> InList(e)
    /\ \A a, b \in DOMAIN completed : completed[a].id = completed[b].id => a = b

\* deliver: an event is recorded as exhausted only after all its sends, and
\* is never sent more often than the configured number of retries allows.
ExhaustedMeansTried ==
    \A e \in Events : records[e] = "exhausted" => sends[e] = MaxRetries + 1

\* enqueue and prune: a finished event is accepted anew only when its entry is
\* older than the time to live (or was evicted), never before.
NoEarlyRepeat ==
    [][\A i \in DOMAIN completed :
         queue' = Append(queue, completed[i].id) => now - completed[i].at >= CompletedTTL]_vars

\* run: an accepted event is finished unless the process is shut down.
AcceptedFinishes ==
    \A e \in Events : records[e] = "pending" ~> (records[e] \notin Open \/ cancelled)

\* run: after cancellation every worker returns, so that Start returns.
ShutdownEnds == cancelled ~> (stopped /\ \A w \in Workers : pc[w] = "done")

\* The dispatcher keeps the promise of Delivery: queue, workers, expiry,
\* eviction and shutdown show an observer of the ledger and of the receiver
\* nothing that Delivery does not allow.
Promise == INSTANCE Delivery WITH
    MaxTries <- MaxRetries + 1,
    status <- [e \in Events |-> IF records[e] \in Open THEN "open" ELSE records[e]],
    tries <- sends
KeepsPromise == Promise!Spec
=============================================================================
