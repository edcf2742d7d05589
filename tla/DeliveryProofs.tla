--------------------------- MODULE DeliveryProofs ---------------------------
(***************************************************************************)
(* The dispatcher implements Delivery, and never accepts a finished event  *)
(* again before its time: what the inductive invariant of DispatcherProofs *)
(* says about two consecutive states.                                      *)
(***************************************************************************)
EXTENDS DispatcherProofs

\* The abstract status of an event.
Status(e) == IF records[e] \in Open THEN "open" ELSE records[e]

\* What the abstraction makes of a ledger that is typed.
LEMMA StatusFacts ==
    ASSUME TypeOK, NEW e \in Events
    PROVE  /\ Status(e) \in {"none", "open"} \cup Finals
           /\ Status(e) = "open" <=> records[e] \in Open
           /\ Status(e) = "none" <=> records[e] = "none"
           /\ Status(e) \in Finals <=> records[e] \in Finals
  BY DEF TypeOK, Status, Open, Finals

\* The events whose records go when the k oldest finished ones are forgotten.
Gone(k) == {e \in Events : \E i \in 1..k : completed[i].id = e}

\* prune and the eviction of finish are the forgetting that Delivery allows.
LEMMA ForgettingIsAllowed ==
    ASSUME IInv, NEW k \in 0..Len(completed)
    PROVE  /\ Gone(k) \in SUBSET Promise!Forgettable
           /\ \A e \in Events : Promise!Forgetting(Gone(k))[e]
                = IF LedgerWithout(k)[e] \in Open THEN "open" ELSE LedgerWithout(k)[e]
<1>1. TypeOK /\ ListMatchesLedger
  BY DEF IInv
<1>2. DOMAIN completed = 1..Len(completed)
  BY <1>1 DEF TypeOK
<1>3. ASSUME NEW e \in Gone(k)
      PROVE  e \in Promise!Forgettable
  <2>1. records[e] \in Finals /\ e \in Events
    BY <1>1, <1>2 DEF Gone, ListMatchesLedger, InList
  <2> QED
    BY <2>1 DEF Promise!Forgettable, Promise!FinalStates, Open, Finals
<1>4. ASSUME NEW e \in Events
      PROVE  Promise!Forgetting(Gone(k))[e]
               = IF LedgerWithout(k)[e] \in Open THEN "open" ELSE LedgerWithout(k)[e]
  BY DEF Promise!Forgetting, LedgerWithout, Gone, Open
<1> QED
  BY <1>3, <1>4

\* A dispatcher that has just been made, with nothing queued or recorded, is an initial
\* state of the promise.
LEMMA InitPromise == Init => Promise!Init
  BY DEF Init, Promise!Init, Open

\* A step that keeps every status and every count of sends is a stutter.
LEMMA QuietStep ==
    ASSUME \A e \in Events : Status(e)' = Status(e), UNCHANGED sends
    PROVE  UNCHANGED Promise!dvars
  BY DEF Promise!dvars, Status

\* enqueue refuses, drops or accepts: Forget or Accept.
LEMMA EnqueuePromise ==
    ASSUME IInv, NEW e \in Events, Enqueue(e)
    PROVE  Promise!Next
<1>1. PICK k \in 0..Len(completed) :
        IF ~Known(e, k) /\ Len(queue) < QueueCapacity
        THEN /\ records' = [LedgerWithout(k) EXCEPT ![e] = "pending"]
             /\ sends' = [sends EXCEPT ![e] = 0]
        ELSE /\ records' = LedgerWithout(k)
             /\ UNCHANGED sends
  BY DEF Enqueue
<1>2. /\ Gone(k) \in SUBSET Promise!Forgettable
      /\ \A d \in Events : Promise!Forgetting(Gone(k))[d]
           = IF LedgerWithout(k)[d] \in Open THEN "open" ELSE LedgerWithout(k)[d]
  BY ForgettingIsAllowed
<1>3. Promise!Forgetting(Gone(k)) = [d \in Events |-> Promise!Forgetting(Gone(k))[d]]
  BY DEF Promise!Forgetting
<1>4. CASE ~(~Known(e, k) /\ Len(queue) < QueueCapacity)
  <2>1. [d \in Events |-> Status(d)]' = Promise!Forgetting(Gone(k))
    BY <1>1, <1>2, <1>3, <1>4 DEF Status
  <2>2. Promise!Forget
    BY <1>1, <1>2, <1>4, <2>1 DEF Promise!Forget, Status
  <2> QED
    BY <2>2 DEF Promise!Next
<1>5. CASE ~Known(e, k) /\ Len(queue) < QueueCapacity
  <2>1. LedgerWithout(k)[e] = "none"
    BY <1>5 DEF Known
  <2>2. Promise!Forgetting(Gone(k))[e] = "none"
    BY <1>2, <2>1 DEF Open
  <2>3. \A d \in Events : records'[d] = IF d = e THEN "pending" ELSE LedgerWithout(k)[d]
    BY <1>1, <1>5 DEF LedgerWithout
  <2>4. [d \in Events |-> Status(d)]' = [Promise!Forgetting(Gone(k)) EXCEPT ![e] = "open"]
    BY <1>2, <1>3, <2>3 DEF Status, Open
  <2>5. Promise!Accept(e)
    BY <1>1, <1>2, <1>5, <2>2, <2>4 DEF Promise!Accept, Status
  <2> QED
    BY <2>5 DEF Promise!Next
<1> QED
  BY <1>4, <1>5

\* The loop body of deliver is a Try of the event that the worker holds.
LEMMA SendPromise ==
    ASSUME IInv, NEW w \in Workers, Send(w)
    PROVE  Promise!Next
<1>1. pc[w] = "attempt" /\ UNCHANGED records /\ sends' = [sends EXCEPT ![held[w]] = @ + 1]
  BY DEF Send
<1>2. PICK h \in Events : h = held[w]
  BY <1>1 DEF IInv, HeldWhileBusy, Busy
<1>3. records[h] \in Open
  BY <1>2 DEF IInv, OpenIsKept, Holds
<1>4. sends[h] < MaxRetries + 1
  BY <1>1, <1>2, DispatcherConstants DEF IInv, SendsMatch, TypeOK
<1>5. Promise!Try(h)
  BY <1>1, <1>2, <1>3, <1>4 DEF Promise!Try
<1> QED
  BY <1>5 DEF Promise!Next

\* finish is the Finish of the event that the worker holds, with the verdict of
\* deliver; what it evicts is forgotten in the same step.
LEMMA FinishPromise ==
    ASSUME IInv, NEW w \in Workers, Finish(w)
    PROVE  Promise!Next
<1> DEFINE k == Evictions
<1>1. pc[w] = "finish" /\ UNCHANGED sends
  BY DEF Finish
<1>2. PICK h \in Events : h = held[w]
  BY <1>1 DEF IInv, HeldWhileBusy, Busy
<1>3. records[h] \in Open /\ verdict[w] \in Finals
  BY <1>1, <1>2 DEF IInv, OpenIsKept, Holds, HeldWhileBusy
<1>4. k \in 0..Len(completed)
  <2>1. Len(completed) \in Nat /\ Len(completed) <= CompletedCapacity
    BY DEF IInv, TypeOK
  <2> QED
    BY <2>1, DispatcherConstants DEF Evictions
<1>5. records' = [LedgerWithout(k) EXCEPT ![h] = verdict[w]]
  BY <1>2 DEF Finish
<1> HIDE DEF k
<1>6. /\ Gone(k) \in SUBSET Promise!Forgettable
      /\ \A d \in Events : Promise!Forgetting(Gone(k))[d]
           = IF LedgerWithout(k)[d] \in Open THEN "open" ELSE LedgerWithout(k)[d]
  BY <1>4, ForgettingIsAllowed
<1>7. Promise!Forgetting(Gone(k)) = [d \in Events |-> Promise!Forgetting(Gone(k))[d]]
  BY DEF Promise!Forgetting
<1>8. \A d \in Events : records'[d] = IF d = h THEN verdict[w] ELSE LedgerWithout(k)[d]
  BY <1>5 DEF LedgerWithout
<1>9. [d \in Events |-> Status(d)]' = [Promise!Forgetting(Gone(k)) EXCEPT ![h] = verdict[w]]
  BY <1>3, <1>6, <1>7, <1>8 DEF Status, Open, Finals
<1>10. /\ verdict[w] = "exhausted" => sends[h] = MaxRetries + 1
       /\ verdict[w] = "delivered" => sends[h] > 0
  BY <1>1, <1>2 DEF IInv, SendsMatch
<1>11. PICK final \in Promise!FinalStates : final = verdict[w]
  BY <1>3 DEF Promise!FinalStates, Finals
<1>12. Promise!Finish(h, final)
  BY <1>1, <1>3, <1>6, <1>9, <1>10, <1>11 DEF Promise!Finish, Status
<1> QED
  BY <1>12 DEF Promise!Next

\* Every other step shows an observer nothing: marking a record leaves it open.
LEMMA OtherPromise ==
    ASSUME IInv, NEW w \in Workers,
           \/ MarkSending(w) \/ Receive(w) \/ Exit(w) \/ Answer(w) \/ Retry(w) \/ Abandon(w)
           \/ Cancel \/ Stop \/ Tick \/ UNCHANGED vars
    PROVE  UNCHANGED Promise!dvars
<1>1. CASE MarkSending(w)
  <2>1. pc[w] = "received" /\ records' = [records EXCEPT ![held[w]] = "sending"]
        /\ UNCHANGED sends
    BY <1>1 DEF MarkSending
  <2>2. held[w] \in Events /\ records[held[w]] \in Open
    BY <2>1 DEF IInv, HeldWhileBusy, Busy, OpenIsKept, Holds
  <2>3. \A e \in Events : Status(e)' = Status(e)
    BY <2>1, <2>2 DEF Status, IInv, TypeOK, Open
  <2> QED
    BY <2>1, <2>3, QuietStep
<1>2. CASE ~MarkSending(w)
  <2>1. UNCHANGED <<records, sends>>
    BY <1>2 DEF Receive, Exit, Answer, Retry, Abandon, Cancel, Stop, Tick, vars
  <2>2. \A e \in Events : Status(e)' = Status(e)
    BY <2>1 DEF Status
  <2> QED
    BY <2>1, <2>2, QuietStep
<1> QED
  BY <1>1, <1>2

-----------------------------------------------------------------------------
(* The theorems.                                                           *)

\* The dispatcher implements Delivery: seen through the ledger and the receiver,
\* queue, workers, expiry, eviction and shutdown do nothing but what Delivery
\* allows.
THEOREM Refinement == Spec => KeepsPromise
<1>1. Init => Promise!Init
  BY InitPromise
<1>2. IInv /\ [Next]_vars => [Promise!Next]_(Promise!dvars)
  <2> SUFFICES ASSUME IInv, [Next]_vars PROVE [Promise!Next]_(Promise!dvars)
    OBVIOUS
  <2>1. ASSUME NEW e \in Events, Enqueue(e) PROVE Promise!Next
    BY <2>1, EnqueuePromise
  <2>2. ASSUME NEW w \in Workers, WorkerStep(w) PROVE [Promise!Next]_(Promise!dvars)
    BY <2>2, SendPromise, FinishPromise, OtherPromise DEF WorkerStep
  <2>3. CASE Cancel \/ Stop \/ Tick \/ UNCHANGED vars
    <3>1. UNCHANGED <<records, sends>>
      BY <2>3 DEF Cancel, Stop, Tick, vars
    <3> QED
      BY <3>1, QuietStep DEF Status
  <2> QED
    BY <2>1, <2>2, <2>3 DEF Next
<1> QED
  BY <1>1, <1>2, Inductive, PTL DEF Spec, KeepsPromise, Promise!Spec

\* A finished event is accepted again only when its entry has outlived the time
\* to live: prune takes entries in the order of the list, and the list holds
\* each ID once.
THEOREM NoRepeat == Spec => NoEarlyRepeat
<1> DEFINE Step == \A i \in DOMAIN completed :
                     queue' = Append(queue, completed[i].id)
                       => now - completed[i].at >= CompletedTTL
<1>1. IInv /\ [Next]_vars => [Step]_vars
  <2> SUFFICES ASSUME IInv, Next, NEW i \in DOMAIN completed,
                      queue' = Append(queue, completed[i].id)
               PROVE  now - completed[i].at >= CompletedTTL
    OBVIOUS
  <2> DEFINE d == completed[i].id
  <2>1. /\ queue \in Seq(Events) /\ d \in Events
        /\ DOMAIN completed = 1..Len(completed)
    <3>1. queue \in Seq(Events) /\ completed \in Seq(Entry)
      BY DEF IInv, TypeOK, Entry
    <3>2. completed[i] \in Entry
      BY <3>1
    <3> QED
      BY <3>1, <3>2 DEF Entry
  <2>2. Len(queue') = Len(queue) + 1 /\ Len(queue) \in Nat /\ queue'[Len(queue) + 1] = d
    BY <2>1
  <2>3. PICK e \in Events : Enqueue(e)
    <3>1. ASSUME NEW w \in Workers, WorkerStep(w) PROVE FALSE
      <4>1. queue' = queue \/ (queue # <<>> /\ queue' = Tail(queue))
        BY <3>1 DEF WorkerStep, Receive, Exit, MarkSending, Send, Answer, Retry, Abandon, Finish
      <4>2. Len(queue') <= Len(queue)
        BY <2>1, <4>1
      <4> QED
        BY <2>2, <4>2
    <3>2. ~(Cancel \/ Stop \/ Tick)
      BY <2>2 DEF Cancel, Stop, Tick
    <3> QED
      BY <3>1, <3>2 DEF Next
  <2>4. PICK k \in 0..Len(completed) :
          /\ Prunes(k)
          /\ IF ~Known(e, k) /\ Len(queue) < QueueCapacity
             THEN queue' = Append(queue, e) ELSE UNCHANGED queue
    BY <2>3 DEF Enqueue
  <2>5. ~Known(e, k) /\ queue' = Append(queue, e)
    BY <2>2, <2>4
  <2>6. e = d
    BY <2>1, <2>2, <2>5
  <2>7. records[d] \in Finals
    BY <2>1 DEF IInv, ListMatchesLedger, InList
  <2>8. LedgerWithout(k)[d] = "none"
    BY <2>5, <2>6 DEF Known
  <2>9. PICK j \in 1..k : completed[j].id = d
    BY <2>1, <2>7, <2>8 DEF LedgerWithout, Finals
  <2>10. j = i
    BY <2>1, <2>9 DEF IInv, ListMatchesLedger
  <2>11. Expired(completed[j])
    BY <2>4 DEF Prunes
  <2> QED
    BY <2>10, <2>11 DEF Expired
<1> QED
  BY <1>1, Inductive, PTL DEF Spec, NoEarlyRepeat
=============================================================================
