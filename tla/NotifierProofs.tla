--------------------------- MODULE NotifierProofs ---------------------------
(***************************************************************************)
(* Proofs about a notification channel from end to end, for any Jobs,      *)
(* names, workers and bounds: the dispatcher inside it keeps all that was  *)
(* proved about it alone, nobody is alarmed without cause, no failure is   *)
(* overlooked, and no email is sent twice.                                 *)
(***************************************************************************)
EXTENDS Notifier, DeliveryProofs

Jobs == {NoJob} \cup [uid : Events, failed : BOOLEAN, deleting : BOOLEAN]

\* The types of what the dispatcher does not know.
WatchTypes ==
    /\ server \in [Names -> Jobs] /\ seen \in [Names -> Jobs]
    /\ fresh \subseteq Events /\ accepted \subseteq Workers

\* UIDs are used once: what is stored or seen was born, under one name.
UidsUsedOnce ==
    /\ \A n \in Names : {server[n].uid, seen[n].uid} \subseteq born \cup {NoEvent}
    /\ \A m, n \in Names :
        (server[n].uid # NoEvent /\ server[n].uid \in {server[m].uid, seen[m].uid}) => m = n

\* A deletion is not taken back.
DeletionStays ==
    \A n \in Names :
        (seen[n].uid = server[n].uid /\ seen[n].deleting) => server[n].deleting

\* A failure that is not fresh is in the informer's copy.
OldFailures ==
    \A n \in Names :
        server[n].failed => server[n].uid \in fresh \/ Shown(n, server[n])

\* deliver returns a state only to finish.
VerdictsAreFinished == \A w \in Workers : verdict[w] # "none" => pc[w] = "finish"

\* What the receiver may have accepted by email is on its way to finish.
EmailsAreFinished == channel = "smtp" => \A w \in accepted : pc[w] = "finish"

\* The inductive invariant: that of the dispatcher, what the observer relies on
\* in the informer's copy, and what the senders rely on in the workers.
WatchInv == WatchTypes /\ UidsUsedOnce /\ DeletionStays /\ OldFailures
SenderInv == VerdictsAreFinished /\ EmailsAreFinished
NInv == IInv /\ WatchInv /\ SenderInv /\ OnlyNewFailures /\ SeenIsTold

-----------------------------------------------------------------------------
(* The dispatcher inside the channel.                                      *)

\* Every step of the channel is a step of the dispatcher or leaves it alone.
LEMMA DispatcherStep == [NotifierNext]_nvars => [Next]_vars
<1> SUFFICES ASSUME [NotifierNext]_nvars PROVE [Next]_vars
  OBVIOUS
<1>1. ASSUME NEW job, Observe(job) PROVE [Next]_vars
  <2>1. Eligible(job) => job.uid \in Events
    BY NotifierConstants DEF Eligible
  <2> QED
    BY <1>1, <2>1 DEF Observe, Next
<1>2. CASE HandlerStep
  <2>1. ASSUME NEW n \in Names, InitialAdd(n) PROVE [Next]_vars
    BY <2>1 DEF InitialAdd, AddFunc, Ignore
  <2>2. ASSUME NEW n \in Names, Inform(n) PROVE [Next]_vars
    BY <1>1, <2>2 DEF Inform, Ignore
  <2> QED
    BY <1>2, <2>1, <2>2 DEF HandlerStep
<1>3. ASSUME NEW w \in Workers, SenderStep(w) PROVE Next
  BY <1>3 DEF SenderStep, Mark, AnswerAttempt, OtherStep, Next, WorkerStep
<1>4. CASE ClusterStep
  BY <1>4 DEF ClusterStep, CreateJob, FailJob, WithdrawFailure, DeleteJob, JobChange
<1>5. CASE ProcessStep
  BY <1>5 DEF ProcessStep, Next
<1>6. CASE UNCHANGED nvars
  BY <1>6 DEF nvars
<1> QED
  BY <1>2, <1>3, <1>4, <1>5, <1>6 DEF NotifierNext

\* The channel runs the dispatcher as it was proved about alone: whatever holds
\* for Dispatcher holds inside the channel.
THEOREM RunsDispatcher == NotifierSpec => Spec
<1>1. InitNotifier => Init
  BY DEF InitNotifier
<1> QED
  BY <1>1, DispatcherStep, PTL DEF NotifierSpec, Spec

-----------------------------------------------------------------------------
(* What the observer relies on.                                            *)

\* Jobs are told apart from no Job by their UID.
LEMMA JobFacts ==
    ASSUME NEW job \in Jobs
    PROVE  /\ job.uid \in Events \cup {NoEvent}
           /\ job.failed \in BOOLEAN /\ job.deleting \in BOOLEAN
           /\ job.uid = NoEvent <=> job = NoJob
           /\ job = NoJob => ~job.failed
<1>1. CASE job = NoJob
  <2>1. job.uid = NoEvent /\ job.failed = FALSE /\ job.deleting = FALSE
    BY <1>1, Zenon DEF NoJob
  <2> QED
    BY <1>1, <2>1
<1>2. CASE job \in [uid : Events, failed : BOOLEAN, deleting : BOOLEAN]
  <2>1. job.uid \in Events /\ job.failed \in BOOLEAN /\ job.deleting \in BOOLEAN
    BY <1>2
  <2>2. job.uid # NoEvent
    BY <2>1, DispatcherConstants
  <2>3. job # NoJob
    BY <2>2 DEF NoJob
  <2> QED
    BY <2>1, <2>2, <2>3
<1> QED
  BY <1>1, <1>2 DEF Jobs

\* A step that leaves the Jobs and the informer's copy alone.
LEMMA WatchUnchanged ==
    ASSUME WatchInv, UNCHANGED <<server, seen, born, fresh>>, accepted' \subseteq Workers
    PROVE  WatchInv'
  BY DEF WatchInv, WatchTypes, UidsUsedOnce, DeletionStays, OldFailures, Shown

\* The informer's copy becomes the Job that is stored.
LEMMA InformWatch ==
    ASSUME WatchInv, NEW n \in Names, Inform(n)
    PROVE  WatchInv'
<1> USE DEF WatchInv
<1>1. /\ UNCHANGED <<server, born, fresh, accepted>>
      /\ seen' = [seen EXCEPT ![n] = server[n]]
  BY DEF Inform
<1>2. \A m \in Names : seen'[m] = IF m = n THEN server[n] ELSE seen[m]
  BY <1>1 DEF WatchTypes
<1>3. WatchTypes'
  BY <1>1 DEF WatchTypes
<1>4. UidsUsedOnce'
  BY <1>1, <1>2 DEF UidsUsedOnce
<1>5. DeletionStays'
  BY <1>1, <1>2 DEF DeletionStays
<1>6. OldFailures'
  BY <1>1, <1>2 DEF OldFailures, Shown
<1> QED
  BY <1>3, <1>4, <1>5, <1>6

\* A new Job has a UID that was never used.
LEMMA CreateWatch ==
    ASSUME WatchInv, NEW n \in Names, CreateJob(n)
    PROVE  WatchInv'
<1> USE DEF WatchInv
<1>1. PICK e \in Events \ born : /\ server' = [server EXCEPT ![n] = JobOf(e, FALSE)]
                                 /\ born' = born \cup {e}
  BY DEF CreateJob, JobChange
<1>2. UNCHANGED <<seen, fresh, accepted>>
  BY DEF CreateJob, JobChange
<1>3. \A m \in Names : server'[m] = IF m = n THEN JobOf(e, FALSE) ELSE server[m]
  BY <1>1 DEF WatchTypes
<1>4. /\ JobOf(e, FALSE).uid = e /\ ~JobOf(e, FALSE).failed /\ JobOf(e, FALSE) \in Jobs
      /\ e # NoEvent
  <2>1. JobOf(e, FALSE).uid = e /\ ~JobOf(e, FALSE).failed
    BY Zenon DEF JobOf
  <2>2. JobOf(e, FALSE) \in Jobs
    BY Zenon DEF JobOf, Jobs
  <2> QED
    BY <2>1, <2>2, DispatcherConstants
<1>5. \A m \in Names : seen[m].uid # e /\ server[m].uid # e
  BY <1>4 DEF UidsUsedOnce
<1>6. WatchTypes'
  BY <1>1, <1>2, <1>4 DEF WatchTypes
<1>7. UidsUsedOnce'
  <2>1. \A m \in Names : server'[m].uid = IF m = n THEN e ELSE server[m].uid
    BY <1>3, <1>4
  <2>2. \A m \in Names :
          server'[m].uid \in born' \cup {NoEvent} /\ seen'[m].uid \in born' \cup {NoEvent}
    <3>1. \A m \in Names :
            server[m].uid \in born \cup {NoEvent} /\ seen[m].uid \in born \cup {NoEvent}
      BY DEF UidsUsedOnce
    <3>2. born' = born \cup {e} /\ seen' = seen
      BY <1>1, <1>2, Zenon
    <3> QED
      BY <2>1, <3>1, <3>2
  <2>3. ASSUME NEW l \in Names, NEW m \in Names,
               server'[l].uid # NoEvent, server'[l].uid \in {server'[m].uid, seen'[m].uid}
        PROVE  m = l
    BY <1>2, <1>5, <2>1, <2>3 DEF UidsUsedOnce
  <2> QED
    BY <2>2, <2>3 DEF UidsUsedOnce
<1>8. DeletionStays'
  BY <1>2, <1>3, <1>4, <1>5 DEF DeletionStays
<1>9. OldFailures'
  BY <1>2, <1>3, <1>4, <1>5 DEF OldFailures, Shown
<1> QED
  BY <1>6, <1>7, <1>8, <1>9

\* A Job that changes under its UID stays what it is to the observer if it is
\* not deleted less than before, and if a failure of it is fresh or in the
\* informer's copy, or was there before.
LEMMA ChangeWatch ==
    ASSUME WatchInv, NEW n \in Names, NEW job \in Jobs,
           server' = [server EXCEPT ![n] = job],
           UNCHANGED <<seen, born, accepted>>,
           fresh \subseteq fresh', fresh' \subseteq Events,
           job.uid = server[n].uid,
           server[n].deleting => job.deleting,
           job.failed => job.uid \in fresh' \/ Shown(n, job) \/ server[n].failed
    PROVE  WatchInv'
<1> USE DEF WatchInv
<1>1. \A m \in Names : server'[m] = IF m = n THEN job ELSE server[m]
  BY DEF WatchTypes
<1>2. WatchTypes'
  BY DEF WatchTypes
<1>3. \A m \in Names : server'[m].uid = server[m].uid
  BY <1>1
<1>4. UidsUsedOnce'
  BY <1>3 DEF UidsUsedOnce
<1>5. DeletionStays'
  BY <1>1, <1>3 DEF DeletionStays
<1>6. OldFailures'
  BY <1>1, <1>3 DEF OldFailures, Shown
<1> QED
  BY <1>2, <1>4, <1>5, <1>6

\* Setting a condition of a Job keeps the rest of it.
LEMMA WithCondition ==
    ASSUME NEW job \in Jobs, job # NoJob, NEW b \in BOOLEAN
    PROVE  /\ [job EXCEPT !.failed = b] \in Jobs
           /\ [job EXCEPT !.failed = b].uid = job.uid
           /\ [job EXCEPT !.failed = b].deleting = job.deleting
           /\ [job EXCEPT !.failed = b].failed = b
           /\ [job EXCEPT !.deleting = b] \in Jobs
           /\ [job EXCEPT !.deleting = b].uid = job.uid
           /\ [job EXCEPT !.deleting = b].failed = job.failed
           /\ [job EXCEPT !.deleting = b].deleting = b
  BY DEF Jobs

\* A failure condition is set, and is fresh unless the informer shows it already.
LEMMA FailWatch ==
    ASSUME WatchInv, NEW n \in Names, FailJob(n)
    PROVE  WatchInv'
<1> DEFINE job == [server[n] EXCEPT !.failed = TRUE]
<1>1. /\ server' = [server EXCEPT ![n] = job]
      /\ fresh' = IF Shown(n, server[n]) THEN fresh ELSE fresh \cup {server[n].uid}
      /\ UNCHANGED <<seen, born, accepted>>
      /\ server[n] # NoJob
  BY DEF FailJob, JobChange
<1>2. server[n] \in Jobs
  BY DEF WatchInv, WatchTypes
<1>3. job \in Jobs /\ job.uid = server[n].uid /\ job.deleting = server[n].deleting
  BY <1>1, <1>2, WithCondition, Zenon
<1>4. server[n].uid \in Events
  BY <1>1, <1>2, JobFacts
<1> HIDE DEF job
<1>5. fresh \subseteq fresh' /\ fresh' \subseteq Events
  BY <1>1, <1>4 DEF WatchInv, WatchTypes
<1>6. job.uid \in fresh' \/ Shown(n, job)
  BY <1>1, <1>3 DEF Shown
<1> QED
  BY <1>1, <1>3, <1>5, <1>6, ChangeWatch

\* A failure that is taken back was there.
LEMMA WithdrawWatch ==
    ASSUME WatchInv, NEW n \in Names, WithdrawFailure(n)
    PROVE  WatchInv'
<1> DEFINE job == [server[n] EXCEPT !.failed = FALSE]
<1>1. /\ server' = [server EXCEPT ![n] = job]
      /\ UNCHANGED <<seen, born, accepted, fresh>>
      /\ server[n].failed
  BY DEF WithdrawFailure, JobChange
<1>2. server[n] \in Jobs /\ fresh \subseteq Events
  BY DEF WatchInv, WatchTypes
<1>3. server[n] # NoJob
  BY <1>1, <1>2, JobFacts
<1>4. /\ job \in Jobs /\ job.uid = server[n].uid /\ job.deleting = server[n].deleting
      /\ ~job.failed
  BY <1>2, <1>3, WithCondition, Zenon
<1> HIDE DEF job
<1> QED
  BY <1>1, <1>2, <1>4, ChangeWatch

\* A deleted Job is gone, or kept by a finalizer with its UID and condition.
LEMMA DeleteWatch ==
    ASSUME WatchInv, NEW n \in Names, DeleteJob(n)
    PROVE  WatchInv'
<1> USE DEF WatchInv
<1> DEFINE job == [server[n] EXCEPT !.deleting = TRUE]
<1>1. /\ server' = [server EXCEPT ![n] = NoJob] \/ server' = [server EXCEPT ![n] = job]
      /\ UNCHANGED <<seen, born, accepted, fresh>>
      /\ server[n] # NoJob
  BY DEF DeleteJob, JobChange
<1>2. server[n] \in Jobs /\ fresh \subseteq Events
  BY DEF WatchTypes
<1>3. /\ job \in Jobs /\ job.uid = server[n].uid /\ job.failed = server[n].failed
      /\ job.deleting
  BY <1>1, <1>2, WithCondition, Zenon
<1> HIDE DEF job
<1>4. CASE server' = [server EXCEPT ![n] = job]
  BY <1>1, <1>2, <1>3, <1>4, ChangeWatch
<1>5. CASE server' = [server EXCEPT ![n] = NoJob]
  <2>1. /\ \A m \in Names : server'[m] = IF m = n THEN NoJob ELSE server[m]
        /\ NoJob \in Jobs
    BY <1>5 DEF WatchTypes, Jobs
  <2>2. NoJob.uid = NoEvent /\ ~NoJob.failed /\ ~NoJob.deleting
    BY Zenon DEF NoJob
  <2>3. \A m \in Names : server'[m].uid = IF m = n THEN NoEvent ELSE server[m].uid
    BY <2>1, <2>2
  <2>4. seen[n].uid = NoEvent => ~seen[n].failed /\ ~seen[n].deleting
    <3>1. seen[n] \in Jobs
      BY DEF WatchTypes
    <3>2. seen[n].uid = NoEvent => seen[n] = NoJob
      BY <3>1, JobFacts
    <3> QED
      BY <2>2, <3>2
  <2>5. WatchTypes'
    BY <1>1, <1>5, <2>1 DEF WatchTypes
  <2>6. UidsUsedOnce'
    BY <1>1, <2>3 DEF UidsUsedOnce
  <2>7. DeletionStays'
    BY <1>1, <2>1, <2>2, <2>4 DEF DeletionStays
  <2>8. OldFailures'
    BY <1>1, <2>1, <2>2 DEF OldFailures, Shown
  <2> QED
    BY <2>5, <2>6, <2>7, <2>8
<1> QED
  BY <1>1, <1>4, <1>5

\* What an Update or Add leads to: a Job that is not reported although it could
\* be was known to have failed; the failure of one that is handed to enqueue is
\* fresh.
LEMMA InformCases ==
    ASSUME WatchInv, NEW n \in Names, Inform(n)
    PROVE  \/ /\ UNCHANGED <<vars, told>>
              /\ Eligible(server[n]) =>
                   cancelled \/ (seen[n].uid = server[n].uid /\ seen[n].failed)
           \/ /\ Eligible(server[n]) /\ server[n].uid \in fresh \cap OfTasks
              /\ Enqueue(server[n].uid) /\ told' = told \cup {server[n].uid}
<1> DEFINE old == seen[n]
           new == server[n]
           reported == new # NoJob /\ IF old = NoJob THEN AddFunc(FALSE) ELSE UpdateFunc(old, new)
<1>1. IF reported THEN Observe(new) ELSE Ignore
  BY DEF Inform
<1>2. old \in Jobs /\ new \in Jobs
  BY DEF WatchInv, WatchTypes
<1>3. CASE reported
  <2>1. old = NoJob \/ old.uid # new.uid \/ ~old.failed
    BY <1>3 DEF UpdateFunc
  <2>2. Eligible(new) => new.uid \in fresh
    <3> SUFFICES ASSUME Eligible(new), new.uid \notin fresh PROVE FALSE
      OBVIOUS
    <3>1. new.failed
      BY DEF Eligible
    <3>2. old.uid = new.uid /\ old.failed
      BY <3>1 DEF WatchInv, OldFailures, Shown
    <3>3. old # NoJob
      BY <1>2, <3>2, JobFacts
    <3> QED
      BY <2>1, <3>2, <3>3
  <2>3. Observe(new)
    BY <1>1, <1>3
  <2> HIDE DEF new
  <2>4. Eligible(new) => new.uid \in OfTasks
    BY DEF Eligible
  <2>5. \/ UNCHANGED <<vars, told>> /\ (Eligible(new) => cancelled)
        \/ Eligible(new) /\ Enqueue(new.uid) /\ told' = told \cup {new.uid}
    BY <2>3, Zenon DEF Observe
  <2> QED
    BY <2>2, <2>4, <2>5 DEF new
<1>4. CASE ~reported
  <2>1. UNCHANGED <<vars, told>>
    BY <1>1, <1>4 DEF Ignore
  <2>2. ASSUME Eligible(new) PROVE old.uid = new.uid /\ old.failed
    <3>1. new # NoJob
      BY <1>2, <2>2, JobFacts DEF Eligible
    <3>2. old # NoJob /\ ~UpdateFunc(old, new)
      BY <1>4, <3>1 DEF AddFunc
    <3> QED
      BY <3>2 DEF UpdateFunc
  <2> QED
    BY <2>1, <2>2
<1> QED
  BY <1>3, <1>4

-----------------------------------------------------------------------------
(* Nobody is alarmed without cause.                                        *)

\* The event has a record or was sent.
Noticed(e) == records[e] # "none" \/ sends[e] > 0

\* enqueue makes a record for its own event only.
LEMMA EnqueueNotices ==
    ASSUME IInv, NEW e \in Events, Enqueue(e), NEW d \in Events, d # e, Noticed(d)'
    PROVE  Noticed(d)
<1>1. PICK k \in 0..Len(completed) :
        IF ~Known(e, k) /\ Len(queue) < QueueCapacity
        THEN /\ records' = [LedgerWithout(k) EXCEPT ![e] = "pending"]
             /\ sends' = [sends EXCEPT ![e] = 0]
        ELSE /\ records' = LedgerWithout(k)
             /\ UNCHANGED sends
  BY DEF Enqueue
<1>2. sends'[d] = sends[d] /\ records'[d] = LedgerWithout(k)[d]
  BY <1>1 DEF IInv, TypeOK, LedgerWithout
<1>3. LedgerWithout(k)[d] \in {"none", records[d]}
  BY DEF LedgerWithout
<1> QED
  BY <1>2, <1>3 DEF Noticed

\* A worker writes to the ledger, and sends, only what it has received.
LEMMA WorkerNotices ==
    ASSUME IInv, NEW w \in Workers, WorkerStep(w), NEW d \in Events, Noticed(d)'
    PROVE  Noticed(d)
<1>1. pc[w] \in Busy => held[w] \in Events /\ records[held[w]] \in Open
  BY DEF IInv, HeldWhileBusy, OpenIsKept, Holds
<1>2. CASE d = held[w] /\ pc[w] \in Busy
  BY <1>1, <1>2 DEF Noticed, Open
<1>3. CASE ~(d = held[w] /\ pc[w] \in Busy)
  <2>1. CASE MarkSending(w) \/ Send(w)
    <3>1. pc[w] \in Busy
      BY <2>1 DEF MarkSending, Send, Busy
    <3>2. records'[d] = records[d] /\ sends'[d] = sends[d]
      BY <1>3, <2>1, <3>1 DEF MarkSending, Send, IInv, TypeOK
    <3> QED
      BY <3>2 DEF Noticed
  <2>2. CASE Finish(w)
    <3>1. pc[w] \in Busy
      BY <2>2 DEF Finish, Busy
    <3>2. records'[d] = LedgerWithout(Evictions)[d] /\ sends' = sends
      BY <1>3, <2>2, <3>1 DEF Finish, LedgerWithout
    <3>3. LedgerWithout(Evictions)[d] \in {"none", records[d]}
      BY DEF LedgerWithout
    <3> QED
      BY <3>2, <3>3 DEF Noticed
  <2>3. CASE ~(MarkSending(w) \/ Send(w) \/ Finish(w))
    <3>1. UNCHANGED <<records, sends>>
      BY <2>3 DEF WorkerStep, Receive, Exit, Answer, Retry, Abandon
    <3> QED
      BY <3>1 DEF Noticed
  <2> QED
    BY <2>1, <2>2, <2>3
<1> QED
  BY <1>2, <1>3

-----------------------------------------------------------------------------
(* No email is sent twice.                                                 *)

\* smtpFailure: an attempt that left a message is not retried.
LEMMA TakenIsNotRetried ==
    ASSUME channel = "smtp", NEW a \in Attempts, a.taken
    PROVE  a.result \in {"delivered", "stop"}
<1>1. a \in SmtpAttempts
  BY DEF Attempts
<1>2. ASSUME a = Attempt("delivered", TRUE) PROVE a.result = "delivered"
  BY <1>2, Zenon DEF Attempt
<1>3. ASSUME NEW stage, NEW error, a = Attempt(SmtpFailure(stage, error), FALSE)
      PROVE  FALSE
  BY <1>3, Zenon DEF Attempt
<1>4. ASSUME NEW error \in {"network", "other"}, a = Attempt(SmtpFailure("ack", error), TRUE)
      PROVE  a.result = "stop"
  <2>1. SmtpFailure("ack", error) = "stop"
    BY DEF SmtpFailure
  <2>2. a.result = SmtpFailure("ack", error)
    BY <1>4, Zenon DEF Attempt
  <2> QED
    BY <2>1, <2>2
<1> QED
  BY <1>1, <1>2, <1>3, <1>4, Zenon DEF SmtpAttempts

\* deliver's verdict and the receiver's acceptance go to finish together.
LEMMA AnswerSender ==
    ASSUME IInv, SenderInv, accepted \subseteq Workers,
           NEW w \in Workers, AnswerAttempt(w), UNCHANGED channel
    PROVE  SenderInv' /\ accepted' \subseteq Workers
<1> USE DEF SenderInv
<1>1. pc[w] = "sent" /\ verdict[w] = "none"
  BY DEF AnswerAttempt, Answer, VerdictsAreFinished
<1>2. /\ \A v \in Workers : v # w => pc'[v] = pc[v] /\ verdict'[v] = verdict[v]
      /\ pc'[w] = "finish" \/ (pc'[w] = "backoff" /\ verdict'[w] = "none")
  BY <1>1 DEF AnswerAttempt, Answer, Decide, IInv, TypeOK
<1>3. PICK a \in Attempts :
        /\ CASE a.result = "delivered" -> verdict'[w] = "delivered"
             [] a.result = "stop" -> verdict'[w] = "rejected"
             [] a.result = "retry" -> pc'[w] = "backoff" \/ verdict'[w] = "exhausted"
        /\ accepted' = IF a.taken THEN accepted \cup {w} ELSE accepted
  BY Zenon DEF AnswerAttempt
<1>4. accepted' \subseteq accepted \cup {w}
  BY <1>3
<1>5. VerdictsAreFinished'
  BY <1>2 DEF VerdictsAreFinished
<1>6. EmailsAreFinished'
  <2> SUFFICES ASSUME channel = "smtp", NEW v \in accepted'
               PROVE  pc'[v] = "finish"
    BY DEF EmailsAreFinished
  <2>1. CASE v # w
    BY <1>2, <1>4, <2>1 DEF EmailsAreFinished
  <2>2. CASE v = w
    <3>1. w \notin accepted
      BY <1>1 DEF EmailsAreFinished
    <3>2. a.taken
      BY <1>3, <2>2, <3>1
    <3>3. a.result \in {"delivered", "stop"}
      BY <3>2, TakenIsNotRetried
    <3>4. verdict'[w] \in {"delivered", "rejected"}
      BY <1>3, <3>3, Zenon
    <3> QED
      BY <1>2, <2>2, <3>4
  <2> QED
    BY <2>1, <2>2
<1> QED
  BY <1>4, <1>5, <1>6

\* A worker that goes on, or lets go of its event, has no accepted email behind it.
LEMMA OtherSender ==
    ASSUME IInv, SenderInv, accepted \subseteq Workers,
           NEW w \in Workers, Mark(w) \/ OtherStep(w), UNCHANGED channel
    PROVE  SenderInv' /\ accepted' \subseteq Workers
<1> USE DEF SenderInv
<1>1. \A v \in Workers : v # w => pc'[v] = pc[v] /\ verdict'[v] = verdict[v]
  BY DEF Mark, OtherStep, MarkSending, Receive, Exit, Send, Retry, Finish, Abandon, IInv, TypeOK
<1>2. accepted' = accepted \/ (accepted' = accepted \ {w})
  BY DEF Mark, OtherStep
<1>3. verdict'[w] = "none" \/ pc'[w] = "finish"
  <2>1. CASE Finish(w)
    BY <2>1 DEF Finish, IInv, TypeOK
  <2>2. CASE MarkSending(w)
    BY <2>2 DEF MarkSending, IInv, TypeOK, VerdictsAreFinished
  <2>3. CASE Receive(w) \/ Exit(w) \/ Send(w) \/ Retry(w) \/ Abandon(w)
    <3>1. pc[w] # "finish" /\ verdict' = verdict
      BY <2>3 DEF Receive, Exit, Send, Retry, Abandon
    <3> QED
      BY <3>1 DEF VerdictsAreFinished
  <2> QED
    BY <2>1, <2>2, <2>3 DEF Mark, OtherStep
<1>4. VerdictsAreFinished'
  BY <1>1, <1>3 DEF VerdictsAreFinished
<1>5. EmailsAreFinished'
  <2> SUFFICES ASSUME channel = "smtp", NEW v \in accepted'
               PROVE  pc'[v] = "finish"
    BY DEF EmailsAreFinished
  <2>1. v \in accepted /\ pc[v] = "finish" /\ v \in Workers
    BY <1>2 DEF EmailsAreFinished
  <2>2. CASE v # w
    BY <1>1, <2>1, <2>2
  <2>3. CASE v = w
    <3>1. Finish(w) /\ OtherStep(w)
      BY <2>1, <2>3 DEF Mark, OtherStep, MarkSending, Receive, Exit, Send, Retry, Abandon
    <3>2. pc'[w] = "select"
      BY <3>1 DEF Finish, IInv, TypeOK
    <3>3. w \notin accepted'
      BY <3>1, <3>2 DEF OtherStep
    <3> QED
      BY <2>3, <3>3
  <2> QED
    BY <2>2, <2>3
<1> QED
  BY <1>2, <1>4, <1>5

-----------------------------------------------------------------------------
(* Every step preserves the invariant.                                     *)

\* The invariant holds when the handler is registered.
LEMMA InitNInv == InitNotifier => NInv
<1> SUFFICES ASSUME InitNotifier PROVE NInv
  OBVIOUS
<1> USE DEF InitNotifier
<1>1. IInv
  BY InitIInv
<1>2. WatchInv
  <2>1. \A e \in Events, f \in BOOLEAN : JobOf(e, f) \in Jobs
    BY Zenon DEF JobOf, Jobs
  <2>2. server \in [Names -> Jobs] /\ seen \in [Names -> Jobs]
    BY <2>1 DEF Jobs
  <2>3. \A n \in Names : server[n].failed => server[n].uid \in Events
    BY <2>2, JobFacts
  <2>4. WatchTypes
    <3>1. fresh \subseteq Events
      BY <2>3
    <3> QED
      BY <2>2, <3>1 DEF WatchTypes
  <2>5. UidsUsedOnce
    <3> DEFINE uids(n) == {server[n].uid, seen[n].uid}
    <3>1. \A n \in Names : uids(n) \subseteq born \cup {NoEvent}
      OBVIOUS
    <3>2. \A m, n \in Names : uids(m) \cap uids(n) \subseteq {NoEvent} \/ m = n
      OBVIOUS
    <3>3. ASSUME NEW m \in Names, NEW n \in Names,
                 server[n].uid # NoEvent, server[n].uid \in uids(m)
          PROVE  m = n
      <4>1. server[n].uid \in uids(m) \cap uids(n)
        BY <3>3
      <4> HIDE DEF uids, InitNotifier
      <4> QED
        BY <3>2, <3>3, <4>1
    <3> HIDE DEF InitNotifier
    <3> QED
      BY <3>1, <3>3 DEF UidsUsedOnce
  <2>6. DeletionStays
    <3>1. NoJob.deleting = FALSE /\ \A e \in Events, f \in BOOLEAN : JobOf(e, f).deleting = FALSE
      BY Zenon DEF NoJob, JobOf
    <3>2. \A n \in Names : seen[n].deleting = FALSE
      BY <3>1
    <3> QED
      BY <3>2 DEF DeletionStays
  <2>7. OldFailures
    BY DEF OldFailures
  <2> QED
    BY <2>4, <2>5, <2>6, <2>7 DEF WatchInv
<1>3. SenderInv
  BY DEF SenderInv, VerdictsAreFinished, EmailsAreFinished, Init
<1>4. OnlyNewFailures
  BY DEF OnlyNewFailures, Init
<1>5. SeenIsTold
  <2> SUFFICES ASSUME NEW n \in Names, Eligible(seen[n]), seen[n].uid \in fresh
               PROVE  FALSE
    BY DEF SeenIsTold
  <2>1. PICK m \in Names : /\ seen[n].uid = server[m].uid
                           /\ server[m].failed /\ ~Shown(m, server[m])
    OBVIOUS
  <2>2. server[m].uid # NoEvent
    BY <1>2, <2>1, JobFacts DEF WatchInv, WatchTypes
  <2>3. m = n
    BY <1>2, <2>1, <2>2 DEF WatchInv, UidsUsedOnce
  <2> QED
    BY <2>1, <2>3 DEF Shown, Eligible
<1> QED
  BY <1>1, <1>2, <1>3, <1>4, <1>5 DEF NInv

\* Steps that only the dispatcher's clock, context or list may notice.
LEMMA QuietNInv ==
    ASSUME NInv, IInv', cancelled => cancelled',
           UNCHANGED <<channel, server, seen, born, fresh, told, accepted, records, sends, pc,
                       verdict>>
    PROVE  NInv'
<1> USE DEF NInv
<1>1. WatchInv'
  BY WatchUnchanged DEF WatchInv, WatchTypes
<1>2. SenderInv'
  BY DEF SenderInv, VerdictsAreFinished, EmailsAreFinished
<1>3. OnlyNewFailures'
  BY DEF OnlyNewFailures
<1>4. SeenIsTold'
  BY DEF SeenIsTold, Eligible
<1> QED
  BY <1>1, <1>2, <1>3, <1>4

\* The informer brings one name up to date and the observer decides what to report.
LEMMA InformNInv ==
    ASSUME NInv, IInv', NEW n \in Names, Inform(n)
    PROVE  NInv'
<1> USE DEF NInv
<1>1. /\ UNCHANGED <<channel, server, born, fresh, accepted>>
      /\ seen' = [seen EXCEPT ![n] = server[n]]
  BY DEF Inform
<1>2. UNCHANGED <<pc, verdict, cancelled>> /\ told \subseteq told'
  <2>1. \A e \in Events : Enqueue(e) => UNCHANGED <<pc, verdict, cancelled>>
    BY DEF Enqueue, workerVars
  <2>2. OfTasks \subseteq Events
    BY NotifierConstants
  <2> QED
    BY <2>1, <2>2, InformCases DEF vars
<1>3. WatchInv'
  BY InformWatch
<1>4. SenderInv'
  BY <1>1, <1>2 DEF SenderInv, VerdictsAreFinished, EmailsAreFinished
<1>5. OnlyNewFailures'
  <2>1. CASE UNCHANGED vars
    BY <1>1, <2>1 DEF OnlyNewFailures, vars
  <2>2. CASE /\ server[n].uid \in fresh \cap OfTasks /\ Enqueue(server[n].uid)
    <3>1. PICK e \in Events : e = server[n].uid
      BY <2>2, NotifierConstants
    <3>2. \A d \in Events : Noticed(d)' => Noticed(d) \/ d = e
      BY <2>2, <3>1, EnqueueNotices
    <3> QED
      BY <1>1, <2>2, <3>1, <3>2 DEF OnlyNewFailures, Noticed
  <2> QED
    BY <2>1, <2>2, InformCases
<1>6. SeenIsTold'
  <2> SUFFICES ASSUME ~cancelled, NEW m \in Names,
                      Eligible(seen'[m]), seen'[m].uid \in fresh
               PROVE  seen'[m].uid \in told'
    BY <1>1, <1>2 DEF SeenIsTold, Eligible
  <2>1. seen'[m] = IF m = n THEN server[n] ELSE seen[m]
    BY <1>1 DEF WatchInv, WatchTypes
  <2>2. CASE m # n
    BY <1>2, <2>1, <2>2 DEF SeenIsTold
  <2>3. CASE m = n
    <3>1. Eligible(server[n]) /\ server[n].uid \in fresh
      BY <2>1, <2>3
    <3>2. CASE told' = told \cup {server[n].uid}
      BY <2>1, <2>3, <3>2
    <3>3. CASE seen[n].uid = server[n].uid /\ seen[n].failed
      <4>1. Eligible(seen[n])
        BY <3>1, <3>3 DEF WatchInv, DeletionStays, Eligible
      <4> QED
        BY <1>2, <2>1, <2>3, <3>1, <3>3, <4>1 DEF SeenIsTold
    <3> QED
      BY <3>1, <3>2, <3>3, InformCases
  <2> QED
    BY <2>2, <2>3
<1> QED
  BY <1>3, <1>4, <1>5, <1>6

\* A worker's step, with the attempts that webhook.send and smtp.send can make.
LEMMA SenderNInv ==
    ASSUME NInv, IInv', NEW w \in Workers, SenderStep(w)
    PROVE  NInv'
<1> USE DEF NInv
<1>1. UNCHANGED <<channel, server, seen, born, fresh, told>>
  BY DEF SenderStep, watchVars
<1>2. SenderInv' /\ accepted' \subseteq Workers
  <2>1. accepted \subseteq Workers
    BY DEF WatchInv, WatchTypes
  <2> QED
    BY <1>1, <2>1, AnswerSender, OtherSender DEF SenderStep
<1>3. WatchInv'
  BY <1>1, <1>2, WatchUnchanged
<1>4. WorkerStep(w)
  BY DEF SenderStep, Mark, AnswerAttempt, OtherStep, WorkerStep
<1>5. OnlyNewFailures'
  <2>1. \A d \in Events : Noticed(d)' => Noticed(d)
    BY <1>4, WorkerNotices
  <2> QED
    BY <1>1, <2>1 DEF OnlyNewFailures, Noticed
<1>6. SeenIsTold'
  <2>1. cancelled' = cancelled
    BY <1>4 DEF WorkerStep, Receive, Exit, MarkSending, Send, Answer, Retry, Abandon, Finish
  <2> QED
    BY <1>1, <2>1 DEF SeenIsTold, Eligible
<1> QED
  BY <1>2, <1>3, <1>5, <1>6

\* Others create, fail and delete Jobs, or take a failure back.
LEMMA ClusterNInv ==
    ASSUME NInv, IInv', NEW n \in Names,
           CreateJob(n) \/ FailJob(n) \/ WithdrawFailure(n) \/ DeleteJob(n)
    PROVE  NInv'
<1> USE DEF NInv
<1>1. UNCHANGED <<vars, channel, seen, told, accepted>>
  BY DEF CreateJob, FailJob, WithdrawFailure, DeleteJob, JobChange
<1>2. WatchInv'
  BY CreateWatch, FailWatch, WithdrawWatch, DeleteWatch
<1>3. SenderInv'
  BY <1>1 DEF SenderInv, VerdictsAreFinished, EmailsAreFinished, vars
<1>4. fresh \subseteq fresh' /\ (fresh' # fresh => FailJob(n))
  BY DEF CreateJob, FailJob, WithdrawFailure, DeleteJob
<1>5. OnlyNewFailures'
  BY <1>1, <1>4 DEF OnlyNewFailures, vars
<1>6. SeenIsTold'
  <2> SUFFICES ASSUME ~cancelled, NEW m \in Names,
                      Eligible(seen[m]), seen[m].uid \in fresh'
               PROVE  seen[m].uid \in told
    BY <1>1 DEF SeenIsTold, Eligible, vars
  <2>1. CASE seen[m].uid \in fresh
    BY <2>1 DEF SeenIsTold
  <2>2. CASE seen[m].uid \notin fresh
    <3>1. FailJob(n)
      BY <1>4, <2>2
    <3>2. /\ ~Shown(n, server[n]) /\ fresh' = fresh \cup {server[n].uid}
          /\ server[n] # NoJob
      BY <2>2, <3>1 DEF FailJob
    <3>3. seen[m].uid = server[n].uid /\ server[n] \in Jobs
      BY <2>2, <3>2 DEF WatchInv, WatchTypes
    <3>4. m = n
      BY <3>2, <3>3, JobFacts DEF WatchInv, UidsUsedOnce
    <3>5. seen[n].failed
      BY <3>4 DEF Eligible
    <3> QED
      BY <3>2, <3>3, <3>4, <3>5 DEF Shown
  <2> QED
    BY <2>1, <2>2
<1> QED
  BY <1>2, <1>3, <1>5, <1>6

-----------------------------------------------------------------------------
(* The theorems.                                                           *)

\* Every reachable state of the channel satisfies the inductive invariant.
THEOREM NotifierInductive == NotifierSpec => []NInv
<1>1. InitNotifier => NInv
  BY InitNInv
<1>2. NInv /\ IInv' /\ [NotifierNext]_nvars => NInv'
  <2> SUFFICES ASSUME NInv, IInv', [NotifierNext]_nvars PROVE NInv'
    OBVIOUS
  <2>1. ASSUME NEW n \in Names, InitialAdd(n) PROVE NInv'
    <3>1. UNCHANGED <<vars, channel, server, seen, born, fresh, told, accepted>>
      BY <2>1 DEF InitialAdd, AddFunc, Ignore
    <3> QED
      BY <3>1, QuietNInv DEF vars
  <2>2. ASSUME NEW n \in Names, Inform(n) PROVE NInv'
    BY <2>2, InformNInv
  <2>3. ASSUME NEW w \in Workers, SenderStep(w) PROVE NInv'
    BY <2>3, SenderNInv
  <2>4. CASE ClusterStep
    BY <2>4, ClusterNInv DEF ClusterStep
  <2>5. CASE ProcessStep \/ UNCHANGED nvars
    <3>1. /\ UNCHANGED <<channel, server, seen, born, fresh, told, accepted, records, sends, pc,
                         verdict>>
          /\ cancelled => cancelled'
      BY <2>5 DEF ProcessStep, Cancel, Stop, Tick, workerVars, watchVars, nvars, vars
    <3> QED
      BY <3>1, QuietNInv
  <2> QED
    BY <2>1, <2>2, <2>3, <2>4, <2>5 DEF NotifierNext, HandlerStep
<1> QED
  BY <1>1, <1>2, RunsDispatcher, Inductive, PTL DEF NotifierSpec

\* Only Jobs of Tasks whose failure was not in the informer's copy when it
\* happened, or when the handler was registered, are recorded or sent.
THEOREM NoFalseAlarm == NotifierSpec => []OnlyNewFailures
<1>1. NInv => OnlyNewFailures
  BY DEF NInv
<1> QED
  BY <1>1, NotifierInductive, PTL

\* However the informer merges changes, a new failure in its copy has been
\* handed to enqueue.
THEOREM NoFailureMissed == NotifierSpec => []SeenIsTold
<1>1. NInv => SeenIsTold
  BY DEF NInv
<1> QED
  BY <1>1, NotifierInductive, PTL

\* An email that the server may have accepted is not sent again.
THEOREM NoSecondEmail == NotifierSpec => []EmailOnce
<1>1. NInv => EmailOnce
  BY DEF NInv, SenderInv, EmailsAreFinished, EmailOnce
<1> QED
  BY <1>1, NotifierInductive, PTL

\* Inside the channel the dispatcher still implements Delivery and never
\* accepts a finished event again before its time.
THEOREM ChannelDelivers == NotifierSpec => KeepsPromise /\ NoEarlyRepeat
  BY RunsDispatcher, Refinement, NoRepeat, PTL
=============================================================================
