------------------------------ MODULE Notifier ------------------------------
(***************************************************************************)
(* One notification channel from end to end: the Jobs of the API server,   *)
(* the informer and the observer of internal/notification/observer.go and  *)
(* event.go, the dispatcher, and what the senders of webhook.go and        *)
(* smtp.go make of an attempt.  Webhook and SMTP have a dispatcher each,   *)
(* which share nothing, so one channel is followed.                        *)
(*                                                                         *)
(* An event ID is made of the Job's UID: here it is the UID, and UIDs are  *)
(* numbers given out in ascending order.  A behaviour begins when a        *)
(* process has become leader and registers its handler; a restart is a     *)
(* new behaviour over the Jobs there are.                                  *)
(***************************************************************************)
EXTENDS Dispatcher

CONSTANTS
    Channels,        \* the channels looked at: "webhook", "smtp"
    Names,           \* names of Jobs
    OfTasks,         \* UIDs of Jobs that a Task controls
    Lingering,       \* UIDs of Jobs that a finalizer may keep while they are deleted
    Relapsing,       \* UIDs of Jobs whose failure condition may be taken back
    MaxWithdrawals   \* bound on failure conditions that are taken back

ASSUME NotifierConstants ==
    /\ Channels \subseteq {"webhook", "smtp"}
    /\ Events \subseteq Nat
    /\ OfTasks \subseteq Events /\ Lingering \subseteq Events /\ Relapsing \subseteq Events
    /\ MaxWithdrawals \in Nat

VARIABLES
    channel,      \* the channel of this behaviour
    server,       \* the Jobs stored by the API server, by name
    seen,         \* the informer's copy
    initial,      \* names whose Add of the initial list is still to be handled
    born,         \* UIDs in use so far
    withdrawals,  \* failure conditions taken back so far
    fresh,        \* history variable: UIDs that failed when the informer's copy did not show it
    told,         \* history variable: UIDs handed to enqueue
    accepted      \* history variable: workers whose message the receiver may have accepted

watchVars == <<server, seen, initial, born, withdrawals, fresh>>
nvars == <<vars, channel, watchVars, told, accepted>>

-----------------------------------------------------------------------------
(* The observer.                                                           *)

NoJob == [uid |-> NoEvent, failed |-> FALSE, deleting |-> FALSE]
JobOf(uid, failed) == [uid |-> uid, failed |-> failed, deleting |-> FALSE]

\* Mutant: the initial list is reported like any other Add.
AddFuncAlways(isInitial) == TRUE

\* AddFunc reports a Job unless it belongs to the initial list.
AddFunc(isInitial) == ~isInitial

\* Mutant: whichever Job held the name before, its failure silences the next.
UpdateFuncByName(old, new) == ~old.failed

\* UpdateFunc ignores a Job that had failed before.
UpdateFunc(old, new) == old.uid # new.uid \/ ~old.failed

\* snapshot: a true Failed condition, no deletion timestamp, owned by a Task.
Eligible(job) == job.failed /\ ~job.deleting /\ job.uid \in OfTasks

\* observe, with the call of enqueue.  The context is tested some time before
\* enqueue takes the mutex: if it is done by then, the test saw that or did not.
Observe(job) ==
    \/ ~Eligible(job) /\ UNCHANGED <<vars, told>>
    \/ Eligible(job) /\ Enqueue(job.uid) /\ told' = told \cup {job.uid}
    \/ Eligible(job) /\ cancelled /\ UNCHANGED <<vars, told>>

Ignore == UNCHANGED <<vars, told>>

\* What the informer shows for a name may be older than what the server has:
\* since then the Job may have failed, or gone, with a younger one in its place.
MayTrail(old, new) ==
    \/ new = NoJob
    \/ new.uid = old.uid /\ (old.failed => new.failed)
    \/ new # NoJob /\ (old = NoJob \/ new.uid > old.uid)

\* The failure of the Job is in the informer's copy.
Shown(n, job) == seen[n].uid = job.uid /\ seen[n].failed

\* The handler is registered with an informer whose copy may lag behind.
InitNotifier ==
    /\ Init
    /\ channel \in Channels
    /\ server \in [Names -> {NoJob} \cup {JobOf(e, f) : e \in Events, f \in BOOLEAN}]
    /\ seen \in [Names -> {NoJob} \cup {JobOf(e, f) : e \in Events, f \in BOOLEAN}]
    /\ \A n \in Names : MayTrail(seen[n], server[n])
    /\ \A m, n \in Names :
        {server[m].uid, seen[m].uid} \cap {server[n].uid, seen[n].uid} \subseteq {NoEvent} \/ m = n
    /\ initial = {n \in Names : seen[n] # NoJob}
    /\ born = ({server[n].uid : n \in Names} \cup {seen[n].uid : n \in Names}) \ {NoEvent}
    /\ \A e \in born, d \in Events : d < e => d \in born
    /\ withdrawals = 0
    /\ fresh = {server[n].uid : n \in {m \in Names : server[m].failed /\ ~Shown(m, server[m])}}
    /\ told = {}
    /\ accepted = {}

\* The handler is told of a Job that was there when it was registered.
InitialAdd(n) ==
    /\ n \in initial
    /\ initial' = initial \ {n}
    /\ IF AddFunc(TRUE) THEN Observe(seen[n]) ELSE Ignore
    /\ UNCHANGED <<channel, server, seen, born, withdrawals, fresh, accepted>>

\* The informer catches up with one Job and calls the handler: an Add, an
\* Update, or a Delete, which has no handler.  What happened in between is lost.
Inform(n) ==
    LET old == seen[n]
        new == server[n]
        reported == new # NoJob /\ IF old = NoJob THEN AddFunc(FALSE) ELSE UpdateFunc(old, new)
    IN  /\ initial = {} /\ old # new
        /\ seen' = [seen EXCEPT ![n] = new]
        /\ IF reported THEN Observe(new) ELSE Ignore
        /\ UNCHANGED <<channel, server, initial, born, withdrawals, fresh, accepted>>

HandlerStep == \E n \in Names : InitialAdd(n) \/ Inform(n)

-----------------------------------------------------------------------------
(* The senders.  An attempt has a result for deliver and an effect at the  *)
(* receiver: it accepted the message, or not.                              *)

Attempt(result, taken) == [result |-> result, taken |-> taken]

\* webhook.send: 2xx; 429 and 5xx; any other status, or no request at all; an
\* error or a timeout, before or after the receiver has read the request.
WebhookAttempts ==
    {Attempt("delivered", TRUE), Attempt("retry", FALSE), Attempt("stop", FALSE),
     Attempt("retry", TRUE)}

\* How a step of the SMTP dialogue goes wrong: a 4xx or 5xx reply, a bad
\* certificate, a broken connection or timeout, anything else.
SmtpErrors == {"transient", "permanent", "certificate", "network", "other"}

\* Mutant: a lost acknowledgement is retried like any broken connection.
SmtpFailureAckRetried(stage, error) ==
    IF error \in {"transient", "network"} THEN "retry" ELSE "stop"

\* smtpFailure.
SmtpFailure(stage, error) ==
    IF error = "transient" \/ (error = "network" /\ stage # "ack") THEN "retry" ELSE "stop"

\* smtp.send: a failure before the end of DATA leaves no message; after it a
\* reply refuses the message, and without one the server may have taken it.
SmtpAttempts ==
    {Attempt("delivered", TRUE)}
        \cup {Attempt(SmtpFailure("before", error), FALSE) : error \in SmtpErrors}
        \cup {Attempt(SmtpFailure("ack", error), FALSE) : error \in SmtpErrors \ {"certificate"}}
        \cup {Attempt(SmtpFailure("ack", error), TRUE) : error \in {"network", "other"}}

Attempts == IF channel = "smtp" THEN SmtpAttempts ELSE WebhookAttempts

\* deliver reads the result of the attempt.
AnswerAttempt(w) ==
    /\ Answer(w)
    /\ \E a \in Attempts :
        /\ CASE a.result = "delivered" -> verdict'[w] = "delivered"
             [] a.result = "stop" -> verdict'[w] = "rejected"
             [] a.result = "retry" -> pc'[w] = "backoff" \/ verdict'[w] = "exhausted"
        /\ accepted' = IF a.taken THEN accepted \cup {w} ELSE accepted

\* JSON always encodes; a template may not.
Mark(w) == MarkSending(w) /\ (channel = "webhook" => pc'[w] = "attempt") /\ UNCHANGED accepted

OtherStep(w) ==
    /\ Receive(w) \/ Exit(w) \/ Send(w) \/ Retry(w) \/ Finish(w) \/ Abandon(w)
    /\ accepted' = IF pc'[w] = "select" THEN accepted \ {w} ELSE accepted

SenderStep(w) ==
    /\ Mark(w) \/ AnswerAttempt(w) \/ OtherStep(w)
    /\ UNCHANGED <<channel, watchVars, told>>

-----------------------------------------------------------------------------
(* The Jobs, as the Job controller, the Task reconciler and users make them. *)

JobChange(n, job) ==
    /\ server' = [server EXCEPT ![n] = job]
    /\ UNCHANGED <<vars, channel, seen, initial, told, accepted>>

CreateJob(n) ==
    /\ server[n] = NoJob
    /\ \E e \in Events \ born :
        /\ \A f \in Events \ born : e <= f
        /\ JobChange(n, JobOf(e, FALSE))
        /\ born' = born \cup {e}
    /\ UNCHANGED <<withdrawals, fresh>>

FailJob(n) ==
    /\ server[n] # NoJob /\ ~server[n].failed
    /\ JobChange(n, [server[n] EXCEPT !.failed = TRUE])
    /\ fresh' = IF Shown(n, server[n]) THEN fresh ELSE fresh \cup {server[n].uid}
    /\ UNCHANGED <<born, withdrawals>>

\* A status write takes the condition back, so that the Job may fail again.
WithdrawFailure(n) ==
    /\ withdrawals < MaxWithdrawals
    /\ server[n].failed /\ server[n].uid \in Relapsing
    /\ JobChange(n, [server[n] EXCEPT !.failed = FALSE])
    /\ withdrawals' = withdrawals + 1
    /\ UNCHANGED <<born, fresh>>

DeleteJob(n) ==
    /\ server[n] # NoJob
    /\ \/ JobChange(n, NoJob)
       \/ server[n].uid \in Lingering /\ JobChange(n, [server[n] EXCEPT !.deleting = TRUE])
    /\ UNCHANGED <<born, withdrawals, fresh>>

ClusterStep == \E n \in Names : CreateJob(n) \/ FailJob(n) \/ WithdrawFailure(n) \/ DeleteJob(n)

ProcessStep == (Cancel \/ Stop \/ Tick) /\ UNCHANGED <<channel, watchVars, told, accepted>>

NotifierNext ==
    \/ HandlerStep
    \/ \E w \in Workers : SenderStep(w)
    \/ ClusterStep
    \/ ProcessStep

NotifierSpec == InitNotifier /\ [][NotifierNext]_nvars

\* The informer goes on, workers too (their calls have time limits), and run
\* reacts to the end of the context.  Nothing is assumed of Jobs.
NotifierFairSpec ==
    /\ NotifierSpec
    /\ WF_nvars(HandlerStep)
    /\ \A w \in Workers : WF_nvars(SenderStep(w))
    /\ WF_nvars(Stop /\ UNCHANGED <<channel, watchVars, told, accepted>>)
-----------------------------------------------------------------------------
(* Properties.                                                             *)

\* AddFunc, UpdateFunc and snapshot: nobody is alarmed without cause.  Only a
\* Job of a Task whose failure is not in the list the handler was registered
\* with gets a record or is sent: failures of that list are history and stay
\* unsent, unless one is taken back and happens again.
OnlyNewFailures ==
    \A e \in Events : (records[e] # "none" \/ sends[e] > 0) => e \in fresh \cap OfTasks

\* UpdateFunc: no failure is overlooked, though the informer merges changes and
\* may show a Job and its successor under the same name as one Update.  Every
\* new failure in the informer's copy has been handed to enqueue, unless the
\* process is stopping.
SeenIsTold ==
    cancelled \/ \A n \in Names :
        (Eligible(seen[n]) /\ seen[n].uid \in fresh) => seen[n].uid \in told

\* smtp.send: an email that the server may have accepted is not sent again; the
\* comment there says only an explicit transient reply is safe to retry.
EmailOnce ==
    channel = "smtp" => \A w \in accepted : pc[w] \notin {"attempt", "sent", "backoff"}
=============================================================================
