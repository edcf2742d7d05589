-------------------------- MODULE DispatcherProofs --------------------------
(***************************************************************************)
(* Proofs about Dispatcher, for any sets of events and workers and any     *)
(* capacities, time to live and number of retries.                         *)
(***************************************************************************)
EXTENDS Dispatcher, TLAPS

Busy == {"received", "attempt", "sent", "backoff", "finish"}

\* A worker holds an event exactly between receiving and letting go of it.
HeldWhileBusy ==
    \A w \in Workers : /\ pc[w] \in Busy <=> held[w] \in Events
                       /\ pc[w] = "finish" => verdict[w] \in Finals

\* The history variable counts along with deliver's loop.
SendsMatch ==
    /\ \A e \in Events : InQueue(e) => sends[e] = 0
    /\ \A w \in Workers :
        /\ pc[w] = "received" => sends[held[w]] = 0
        /\ pc[w] = "attempt" => sends[held[w]] = attempt[w]
        /\ pc[w] \in {"sent", "backoff"} => sends[held[w]] = attempt[w] + 1
        /\ pc[w] = "backoff" => attempt[w] < MaxRetries
        /\ (pc[w] = "finish" /\ verdict[w] = "exhausted") => sends[held[w]] = MaxRetries + 1
        /\ (pc[w] = "finish" /\ verdict[w] = "delivered") => sends[held[w]] > 0

\* The inductive invariant.
IInv == /\ TypeOK
        /\ OneOwner
        /\ OpenIsKept
        /\ ListMatchesLedger
        /\ HeldWhileBusy
        /\ SendsMatch
        /\ ExhaustedMeansTried

-----------------------------------------------------------------------------
Entry == [id: Events, at: 0..MaxTime]

\* SubSeq on the list of finished events drops its k oldest entries.
LEMMA ListWithoutFacts ==
    ASSUME completed \in Seq(Entry), NEW k \in 0..Len(completed)
    PROVE  /\ ListWithout(k) \in Seq(Entry)
           /\ Len(ListWithout(k)) = Len(completed) - k
           /\ \A i \in 1..(Len(completed) - k) : ListWithout(k)[i] = completed[i + k]
  BY DEF ListWithout

\* Forgetting the k oldest finished events takes away finished records only,
\* and leaves the list and the ledger in step.
LEMMA ForgettingIsSafe ==
    ASSUME TypeOK, ListMatchesLedger, NEW k \in 0..Len(completed)
    PROVE  /\ LedgerWithout(k) \in [Events -> {"none"} \cup Open \cup Finals]
           /\ \A e \in Events : records[e] \in Open => LedgerWithout(k)[e] = records[e]
           /\ \A e \in Events : LedgerWithout(k)[e] \in {"none", records[e]}
           /\ \A e \in Events : LedgerWithout(k)[e] \in Finals
                                  <=> \E i \in DOMAIN ListWithout(k) : ListWithout(k)[i].id = e
           /\ \A a, b \in DOMAIN ListWithout(k) :
                ListWithout(k)[a].id = ListWithout(k)[b].id => a = b
<1> USE DEF Entry
<1>1. completed \in Seq(Entry)
  BY DEF TypeOK
<1>2. /\ ListWithout(k) \in Seq(Entry)
      /\ Len(ListWithout(k)) = Len(completed) - k
      /\ \A i \in 1..(Len(completed) - k) : ListWithout(k)[i] = completed[i + k]
  BY <1>1, ListWithoutFacts
<1>3. DOMAIN ListWithout(k) = 1..(Len(completed) - k) /\ DOMAIN completed = 1..Len(completed)
  BY <1>1, <1>2
<1>4. records \in [Events -> {"none"} \cup Open \cup Finals]
  BY DEF TypeOK
<1>5. LedgerWithout(k) \in [Events -> {"none"} \cup Open \cup Finals]
  BY <1>4 DEF LedgerWithout
<1>6. \A e \in Events : LedgerWithout(k)[e] \in {"none", records[e]}
  BY DEF LedgerWithout
<1>7. ASSUME NEW e \in Events, records[e] \in Open
      PROVE  LedgerWithout(k)[e] = records[e]
  <2>1. ~InList(e)
    BY <1>7 DEF ListMatchesLedger, Open, Finals
  <2>2. ~ \E i \in 1..k : completed[i].id = e
    BY <2>1, <1>3 DEF InList
  <2> QED
    BY <2>2 DEF LedgerWithout
<1>8. ASSUME NEW e \in Events
      PROVE  LedgerWithout(k)[e] \in Finals
               <=> \E i \in DOMAIN ListWithout(k) : ListWithout(k)[i].id = e
  <2>1. CASE \E i \in 1..k : completed[i].id = e
    <3>1. PICK i \in 1..k : completed[i].id = e
      BY <2>1
    <3>2. LedgerWithout(k)[e] = "none"
      BY <2>1 DEF LedgerWithout
    <3>3. ASSUME NEW j \in DOMAIN ListWithout(k), ListWithout(k)[j].id = e
          PROVE  FALSE
      <4>1. j + k \in DOMAIN completed /\ ListWithout(k)[j] = completed[j + k]
        BY <1>2, <1>3
      <4>2. i \in DOMAIN completed /\ i # j + k
        BY <1>3, <3>3
      <4> QED
        BY <3>1, <3>3, <4>1, <4>2 DEF ListMatchesLedger
    <3> QED
      BY <3>2, <3>3 DEF Finals
  <2>2. CASE ~ \E i \in 1..k : completed[i].id = e
    <3>1. LedgerWithout(k)[e] = records[e]
      BY <2>2 DEF LedgerWithout
    <3>2. ASSUME NEW i \in DOMAIN completed, completed[i].id = e
          PROVE  \E j \in DOMAIN ListWithout(k) : ListWithout(k)[j].id = e
      <4>1. i - k \in 1..(Len(completed) - k)
        BY <2>2, <3>2, <1>3
      <4>2. ListWithout(k)[i - k] = completed[(i - k) + k]
        BY <1>2, <4>1
      <4>3. (i - k) + k = i
        BY <1>3
      <4> QED
        BY <3>2, <4>1, <4>2, <4>3, <1>3
    <3>3. ASSUME NEW j \in DOMAIN ListWithout(k), ListWithout(k)[j].id = e
          PROVE  \E i \in DOMAIN completed : completed[i].id = e
      <4>1. j + k \in DOMAIN completed /\ ListWithout(k)[j] = completed[j + k]
        BY <1>2, <1>3
      <4> QED
        BY <3>3, <4>1
    <3>4. records[e] \in Finals <=> \E i \in DOMAIN completed : completed[i].id = e
      BY DEF ListMatchesLedger, InList
    <3> QED
      BY <3>1, <3>2, <3>3, <3>4
  <2> QED
    BY <2>1, <2>2
<1>9. ASSUME NEW a \in DOMAIN ListWithout(k), NEW b \in DOMAIN ListWithout(k),
             ListWithout(k)[a].id = ListWithout(k)[b].id
      PROVE  a = b
  <2>1. a + k \in DOMAIN completed /\ b + k \in DOMAIN completed
    BY <1>3
  <2>2. completed[a + k].id = completed[b + k].id
    BY <1>2, <1>3, <1>9
  <2>3. a + k = b + k
    BY <2>1, <2>2 DEF ListMatchesLedger
  <2> QED
    BY <2>3, <1>3
<1> QED
  BY <1>5, <1>6, <1>7, <1>8, <1>9

-----------------------------------------------------------------------------
(* The queue.                                                              *)

\* What a send to the channel does to the queue.
LEMMA AppendFacts ==
    ASSUME queue \in Seq(Events), NEW e \in Events, queue' = Append(queue, e)
    PROVE  /\ queue' \in Seq(Events)
           /\ DOMAIN queue = 1..Len(queue)
           /\ DOMAIN queue' = 1..(Len(queue) + 1)
           /\ Len(queue') = Len(queue) + 1
           /\ queue'[Len(queue) + 1] = e
           /\ \A i \in DOMAIN queue : queue'[i] = queue[i]
           /\ \A d \in Events : InQueue(d)' <=> (InQueue(d) \/ d = e)
<1>1. /\ queue' \in Seq(Events)
      /\ DOMAIN queue = 1..Len(queue)
      /\ DOMAIN queue' = 1..(Len(queue) + 1)
      /\ Len(queue') = Len(queue) + 1
      /\ queue'[Len(queue) + 1] = e
      /\ \A i \in DOMAIN queue : queue'[i] = queue[i]
      /\ Len(queue) \in Nat
  OBVIOUS
<1>2. ASSUME NEW d \in Events
      PROVE  InQueue(d)' <=> (InQueue(d) \/ d = e)
  <2>1. ASSUME InQueue(d) PROVE InQueue(d)'
    BY <1>1, <2>1 DEF InQueue
  <2>2. ASSUME d = e PROVE InQueue(d)'
    <3>1. Len(queue) + 1 \in DOMAIN queue'
      BY <1>1
    <3> QED
      BY <1>1, <2>2, <3>1 DEF InQueue
  <2>3. ASSUME InQueue(d)' PROVE InQueue(d) \/ d = e
    <3>1. PICK i \in DOMAIN queue' : queue'[i] = d
      BY <2>3 DEF InQueue
    <3>2. i \in DOMAIN queue \/ i = Len(queue) + 1
      BY <1>1
    <3> QED
      BY <1>1, <3>1, <3>2 DEF InQueue
  <2> QED
    BY <2>1, <2>2, <2>3
<1> QED
  BY <1>1, <1>2

\* What a receive from the channel does to the queue.
LEMMA TailFacts ==
    ASSUME queue \in Seq(Events), queue # <<>>, queue' = Tail(queue)
    PROVE  /\ queue' \in Seq(Events)
           /\ Head(queue) \in Events
           /\ Head(queue) = queue[1] /\ 1 \in DOMAIN queue
           /\ Len(queue') = Len(queue) - 1
           /\ \A i \in DOMAIN queue' : i + 1 \in DOMAIN queue /\ queue'[i] = queue[i + 1]
           /\ \A d \in Events : InQueue(d)' => InQueue(d)
<1>1. /\ queue' \in Seq(Events)
      /\ Head(queue) \in Events
      /\ Head(queue) = queue[1] /\ 1 \in DOMAIN queue
      /\ Len(queue') = Len(queue) - 1
      /\ Len(queue) \in Nat \ {0}
      /\ DOMAIN queue = 1..Len(queue)
      /\ DOMAIN queue' = 1..(Len(queue) - 1)
      /\ \A i \in DOMAIN queue' : queue'[i] = queue[i + 1]
  OBVIOUS
<1>2. \A i \in DOMAIN queue' : i + 1 \in DOMAIN queue /\ queue'[i] = queue[i + 1]
  BY <1>1
<1>3. \A d \in Events : InQueue(d)' => InQueue(d)
  BY <1>2 DEF InQueue
<1> QED
  BY <1>1, <1>2, <1>3

-----------------------------------------------------------------------------
(* Every action preserves the invariant.                                   *)

\* The invariant holds of a new dispatcher.
LEMMA InitIInv == Init => IInv
<1> SUFFICES ASSUME Init PROVE IInv
  OBVIOUS
<1>1. TypeOK
  <2>1. /\ now \in 0..MaxTime /\ queue \in Seq(Events) /\ Len(queue) <= QueueCapacity
        /\ completed \in Seq([id: Events, at: 0..MaxTime])
        /\ Len(completed) <= CompletedCapacity
        /\ attempt \in [Workers -> 0..MaxRetries] /\ sends \in [Events -> 0..(MaxRetries + 1)]
    BY DispatcherConstants DEF Init
  <2>2. /\ records \in [Events -> {"none"} \cup Open \cup Finals]
        /\ cancelled \in BOOLEAN /\ stopped \in BOOLEAN /\ pc \in [Workers -> Pcs]
        /\ held \in [Workers -> Events \cup {NoEvent}]
        /\ verdict \in [Workers -> {"none"} \cup Finals]
    BY DEF Init, Pcs
  <2> QED
    BY <2>1, <2>2 DEF TypeOK
<1>2. OneOwner /\ OpenIsKept /\ ListMatchesLedger
  BY DispatcherConstants DEF Init, OneOwner, OpenIsKept, ListMatchesLedger, InQueue,
                             InList, Holds, Open, Finals
<1>3. HeldWhileBusy /\ SendsMatch /\ ExhaustedMeansTried
  BY DispatcherConstants DEF Init, HeldWhileBusy, SendsMatch, ExhaustedMeansTried, InQueue,
                             Busy, Finals
<1> QED
  BY <1>1, <1>2, <1>3 DEF IInv

\* A worker takes the head of the queue in hand.
LEMMA ReceiveIInv ==
    ASSUME IInv, NEW w \in Workers, Receive(w)
    PROVE  IInv'
<1> USE DEF IInv
<1>1. /\ queue' \in Seq(Events)
      /\ Head(queue) \in Events
      /\ Head(queue) = queue[1] /\ 1 \in DOMAIN queue
      /\ Len(queue') = Len(queue) - 1
      /\ \A i \in DOMAIN queue' : i + 1 \in DOMAIN queue /\ queue'[i] = queue[i + 1]
      /\ \A d \in Events : InQueue(d)' => InQueue(d)
  BY TailFacts DEF TypeOK, Receive
<1>2. PICK h \in Events : h = Head(queue)
  BY <1>1
<1>3. InQueue(h)
  BY <1>1, <1>2 DEF InQueue
<1>4. \A v \in Workers : /\ held'[v] = IF v = w THEN h ELSE held[v]
                         /\ pc'[v] = IF v = w THEN "received" ELSE pc[v]
  BY <1>2 DEF Receive, TypeOK
<1>5. TypeOK'
  <2>1. Len(queue') <= QueueCapacity
    BY <1>1, DispatcherConstants DEF TypeOK
  <2>2. pc' \in [Workers -> Pcs] /\ held' \in [Workers -> Events \cup {NoEvent}]
    BY <1>1 DEF TypeOK, Receive, Pcs
  <2> QED
    BY <1>1, <2>1, <2>2 DEF TypeOK, Receive
<1>6. OneOwner'
  <2>1. \A a, b \in DOMAIN queue' : queue'[a] = queue'[b] => a = b
    <3> SUFFICES ASSUME NEW a \in DOMAIN queue', NEW b \in DOMAIN queue', queue'[a] = queue'[b]
                 PROVE  a = b
      OBVIOUS
    <3>1. queue[a + 1] = queue[b + 1] /\ a + 1 \in DOMAIN queue /\ b + 1 \in DOMAIN queue
      BY <1>1
    <3>2. queue[a + 1] \in Events
      BY <3>1 DEF TypeOK
    <3>3. a + 1 = b + 1
      BY <3>1, <3>2 DEF OneOwner
    <3> QED
      BY <3>3, <1>1
  <2>2. ~InQueue(h)'
    <3> SUFFICES ASSUME NEW i \in DOMAIN queue', queue'[i] = h PROVE FALSE
      BY DEF InQueue
    <3>1. i + 1 \in DOMAIN queue /\ queue[i + 1] = h
      BY <1>1
    <3>2. i + 1 = 1
      BY <1>1, <1>2, <3>1 DEF OneOwner
    <3>3. i \in Nat \ {0}
      BY <1>1
    <3> QED
      BY <3>2, <3>3
  <2>3. \A v \in Workers : held[v] # h
    BY <1>3 DEF OneOwner, Holds
  <2>4. \A v \in Workers, d \in Events : held'[v] = d => (held[v] = d \/ (v = w /\ d = h))
    BY <1>4
  <2>5. ASSUME NEW d \in Events, NEW u \in Workers, NEW v \in Workers,
               held'[u] = d, held'[v] = d
        PROVE  u = v
    BY <2>3, <2>4, <2>5 DEF OneOwner, Holds
  <2>6. ASSUME NEW d \in Events, NEW v \in Workers, held'[v] = d, InQueue(d)'
        PROVE  FALSE
    BY <1>1, <2>2, <2>4, <2>6 DEF OneOwner, Holds
  <2> QED
    BY <2>1, <2>5, <2>6 DEF OneOwner, Holds
<1>7. OpenIsKept'
  BY <1>1, <1>3, <1>4 DEF OpenIsKept, Receive, Holds, Open
<1>8. ListMatchesLedger'
  BY DEF ListMatchesLedger, Receive, InList
<1>9. HeldWhileBusy'
  BY <1>4 DEF HeldWhileBusy, Receive, Busy
<1>10. SendsMatch'
  BY <1>1, <1>3, <1>4 DEF SendsMatch, Receive
<1>11. ExhaustedMeansTried'
  BY DEF ExhaustedMeansTried, Receive
<1> QED
  BY <1>5, <1>6, <1>7, <1>8, <1>9, <1>10, <1>11

\* Steps that touch neither the queue, the list nor the ledger and give no
\* worker a new event keep the ownership part of the invariant.
LEMMA LocalStepIInv ==
    ASSUME IInv,
           UNCHANGED <<queue, records, completed>>,
           \A v \in Workers : held'[v] \in {held[v], NoEvent},
           TypeOK', HeldWhileBusy', SendsMatch', ExhaustedMeansTried'
    PROVE  IInv'
<1> USE DEF IInv
<1>1. \A v \in Workers, d \in Events : held'[v] = d => held[v] = d
  BY DispatcherConstants
<1>2. \A d \in Events : InQueue(d)' <=> InQueue(d)
  BY DEF InQueue
<1>3. OneOwner'
  BY <1>1, <1>2 DEF OneOwner, Holds
<1>4. OpenIsKept'
  BY <1>1, <1>2 DEF OpenIsKept, Holds
<1>5. ListMatchesLedger'
  BY DEF ListMatchesLedger, InList
<1> QED
  BY <1>3, <1>4, <1>5

\* After the context is cancelled a worker returns, or drops the event in hand and goes
\* back to its select.
LEMMA LeaveIInv ==
    ASSUME IInv, NEW w \in Workers, Exit(w) \/ Abandon(w)
    PROVE  IInv'
<1> USE DEF IInv
<1>1. \A v \in Workers : /\ held'[v] = IF v = w THEN NoEvent ELSE held[v]
                         /\ pc'[v] = pc[v] \/ (v = w /\ pc'[v] \in {"done", "select"})
  BY DEF Exit, Abandon, TypeOK
<1>2. UNCHANGED <<now, queue, records, completed, cancelled, stopped, attempt, verdict, sends>>
  BY DEF Exit, Abandon
<1>3. pc'[w] \in {"done", "select"}
  BY DEF Exit, Abandon, TypeOK
<1>4. TypeOK'
  <2>1. pc' \in [Workers -> Pcs] /\ held' \in [Workers -> Events \cup {NoEvent}]
    BY DEF TypeOK, Exit, Abandon, Pcs
  <2> QED
    BY <2>1, <1>2 DEF TypeOK
<1>5. HeldWhileBusy'
  BY <1>1, <1>2, <1>3, DispatcherConstants DEF HeldWhileBusy, Busy
<1>6. SendsMatch'
  BY <1>1, <1>2, <1>3 DEF SendsMatch, InQueue
<1>7. ExhaustedMeansTried'
  BY <1>2 DEF ExhaustedMeansTried
<1> QED
  BY <1>1, <1>2, <1>4, <1>5, <1>6, <1>7, LocalStepIInv

\* The sender's answer decides between a final state and another attempt.
LEMMA AnswerIInv ==
    ASSUME IInv, NEW w \in Workers, Answer(w)
    PROVE  IInv'
<1> USE DEF IInv
<1>1. /\ UNCHANGED <<now, queue, records, completed, cancelled, stopped, held, attempt, sends>>
      /\ pc[w] = "sent"
  BY DEF Answer
<1>2. \A v \in Workers : v # w => pc'[v] = pc[v] /\ verdict'[v] = verdict[v]
  BY DEF Answer, Decide, TypeOK
<1>3. \/ /\ pc'[w] = "finish" /\ verdict'[w] \in Finals
         /\ verdict'[w] = "exhausted" => attempt[w] = MaxRetries
      \/ pc'[w] = "backoff" /\ attempt[w] # MaxRetries
  BY DEF Answer, Decide, LastAttempt, TypeOK, Finals
<1>4. TypeOK'
  <2>1. pc' \in [Workers -> Pcs] /\ verdict' \in [Workers -> {"none"} \cup Finals]
    BY DEF TypeOK, Answer, Decide, Pcs, Finals
  <2> QED
    BY <1>1, <2>1 DEF TypeOK
<1>5. HeldWhileBusy'
  BY <1>1, <1>2, <1>3 DEF HeldWhileBusy, Busy
<1>6. SendsMatch'
  <2>1. sends[held[w]] = attempt[w] + 1 /\ attempt[w] \in 0..MaxRetries
    BY <1>1 DEF SendsMatch, TypeOK
  <2>2. pc'[w] = "backoff" => attempt[w] < MaxRetries
    BY <1>3, <2>1, DispatcherConstants
  <2> QED
    BY <1>1, <1>2, <1>3, <2>1, <2>2 DEF SendsMatch, InQueue
<1>7. ExhaustedMeansTried'
  BY <1>1 DEF ExhaustedMeansTried
<1> QED
  BY <1>1, <1>4, <1>5, <1>6, <1>7, LocalStepIInv

\* The wait between two attempts is over.
LEMMA RetryIInv ==
    ASSUME IInv, NEW w \in Workers, Retry(w)
    PROVE  IInv'
<1> USE DEF IInv
<1>1. /\ UNCHANGED <<now, queue, records, completed, cancelled, stopped, held, verdict, sends>>
      /\ pc[w] = "backoff"
  BY DEF Retry
<1>2. /\ \A v \in Workers : v # w => pc'[v] = pc[v] /\ attempt'[v] = attempt[v]
      /\ pc'[w] = "attempt" /\ attempt'[w] = attempt[w] + 1
  BY DEF Retry, TypeOK
<1>3. sends[held[w]] = attempt[w] + 1 /\ attempt[w] < MaxRetries /\ attempt[w] \in 0..MaxRetries
  BY <1>1 DEF SendsMatch, TypeOK
<1>4. TypeOK'
  <2>1. attempt[w] + 1 \in 0..MaxRetries
    BY <1>3, DispatcherConstants
  <2>2. pc' \in [Workers -> Pcs] /\ attempt' \in [Workers -> 0..MaxRetries]
    BY <2>1 DEF TypeOK, Retry, Pcs
  <2> QED
    BY <1>1, <2>2 DEF TypeOK
<1>5. HeldWhileBusy'
  BY <1>1, <1>2 DEF HeldWhileBusy, Busy
<1>6. SendsMatch'
  BY <1>1, <1>2, <1>3 DEF SendsMatch, InQueue
<1>7. ExhaustedMeansTried'
  BY <1>1 DEF ExhaustedMeansTried
<1> QED
  BY <1>1, <1>4, <1>5, <1>6, <1>7, LocalStepIInv

\* One attempt of the sender.
LEMMA SendIInv ==
    ASSUME IInv, NEW w \in Workers, Send(w)
    PROVE  IInv'
<1> USE DEF IInv
<1>1. /\ UNCHANGED <<now, queue, records, completed, cancelled, stopped, held, attempt, verdict>>
      /\ pc[w] = "attempt"
  BY DEF Send
<1>2. PICK h \in Events : h = held[w]
  BY <1>1 DEF HeldWhileBusy, Busy
<1>3. /\ \A v \in Workers : v # w => pc'[v] = pc[v]
      /\ pc'[w] = "sent"
      /\ \A e \in Events : sends'[e] = IF e = h THEN attempt[w] + 1 ELSE sends[e]
  BY <1>1, <1>2 DEF Send, TypeOK, SendsMatch
<1>4. \A v \in Workers : v # w => held[v] # h
  BY <1>2 DEF OneOwner, Holds
<1>5. TypeOK'
  <2>1. attempt[w] + 1 \in 0..(MaxRetries + 1)
    BY DispatcherConstants DEF TypeOK
  <2>2. pc' \in [Workers -> Pcs]
    BY DEF TypeOK, Send, Pcs
  <2>3. sends' \in [Events -> 0..(MaxRetries + 1)]
    <3>1. sends' = [sends EXCEPT ![h] = attempt[w] + 1]
      BY <1>1, <1>2 DEF Send, SendsMatch
    <3> QED
      BY <2>1, <3>1 DEF TypeOK
  <2> QED
    BY <1>1, <2>2, <2>3 DEF TypeOK
<1>6. HeldWhileBusy'
  BY <1>1, <1>3 DEF HeldWhileBusy, Busy
<1>7. SendsMatch'
  <2>1. ~InQueue(h)
    BY <1>2 DEF OneOwner, Holds
  <2>2. \A v \in Workers : pc[v] \in Busy => held[v] \in Events
    BY DEF HeldWhileBusy
  <2>3. \A v \in Workers : (v # w /\ pc[v] \in Busy) => sends'[held[v]] = sends[held[v]]
    BY <1>3, <1>4, <2>2
  <2>4. \A e \in Events : InQueue(e)' <=> InQueue(e)
    BY <1>1 DEF InQueue
  <2> QED
    BY <1>1, <1>2, <1>3, <2>1, <2>3, <2>4 DEF SendsMatch, Busy
<1>8. ExhaustedMeansTried'
  <2>1. records[h] \in Open
    BY <1>2 DEF OpenIsKept, Holds
  <2> QED
    BY <1>1, <1>3, <2>1 DEF ExhaustedMeansTried, Open
<1> QED
  BY <1>1, <1>5, <1>6, <1>7, <1>8, LocalStepIInv

\* The record of the event in hand is marked as sending, or the event turns out not to
\* be encodable.
LEMMA MarkSendingIInv ==
    ASSUME IInv, NEW w \in Workers, MarkSending(w)
    PROVE  IInv'
<1> USE DEF IInv
<1>1. /\ UNCHANGED <<now, queue, completed, cancelled, stopped, held, sends>>
      /\ pc[w] = "received"
  BY DEF MarkSending
<1>2. PICK h \in Events : h = held[w]
  BY <1>1 DEF HeldWhileBusy, Busy
<1>3. records[h] \in Open /\ ~InQueue(h)
  BY <1>2 DEF OpenIsKept, OneOwner, Holds
<1>4. /\ \A e \in Events : records'[e] = IF e = h THEN "sending" ELSE records[e]
      /\ \A v \in Workers : v # w => pc'[v] = pc[v] /\ verdict'[v] = verdict[v]
                                     /\ attempt'[v] = attempt[v]
      /\ attempt'[w] = 0
      /\ pc'[w] = "attempt" \/ (pc'[w] = "finish" /\ verdict'[w] = "rejected")
  BY <1>2 DEF MarkSending, TypeOK
<1>5. \A e \in Events : InQueue(e)' <=> InQueue(e)
  BY <1>1 DEF InQueue
<1>6. TypeOK'
  <2>1. attempt' \in [Workers -> 0..MaxRetries]
    BY DispatcherConstants DEF TypeOK, MarkSending
  <2>2. records' \in [Events -> {"none"} \cup Open \cup Finals]
    BY DEF TypeOK, MarkSending, Open
  <2>3. pc' \in [Workers -> Pcs] /\ verdict' \in [Workers -> {"none"} \cup Finals]
    BY DEF TypeOK, MarkSending, Pcs, Finals
  <2> QED
    BY <1>1, <2>1, <2>2, <2>3 DEF TypeOK
<1>7. OneOwner'
  BY <1>1, <1>5 DEF OneOwner, Holds
<1>8. OpenIsKept'
  BY <1>1, <1>3, <1>4, <1>5 DEF OpenIsKept, Holds, Open
<1>9. ListMatchesLedger'
  <2>1. \A e \in Events : InList(e)' <=> InList(e)
    BY <1>1 DEF InList
  <2>2. \A e \in Events : records'[e] \in Finals <=> records[e] \in Finals
    BY <1>3, <1>4 DEF Open, Finals
  <2> QED
    BY <1>1, <2>1, <2>2 DEF ListMatchesLedger
<1>10. HeldWhileBusy'
  BY <1>1, <1>4 DEF HeldWhileBusy, Busy, Finals
<1>11. SendsMatch'
  BY <1>1, <1>4, <1>5 DEF SendsMatch
<1>12. ExhaustedMeansTried'
  BY <1>1, <1>4 DEF ExhaustedMeansTried
<1> QED
  BY <1>6, <1>7, <1>8, <1>9, <1>10, <1>11, <1>12

\* enqueue: expiry first, then the event is refused as known, or as too many, or queued
\* with a record.
LEMMA EnqueueIInv ==
    ASSUME IInv, NEW e \in Events, Enqueue(e)
    PROVE  IInv'
<1> USE DEF IInv
<1>1. PICK k \in 0..Len(completed) :
        /\ completed' = ListWithout(k)
        /\ IF ~Known(e, k) /\ Len(queue) < QueueCapacity
           THEN /\ queue' = Append(queue, e)
                /\ records' = [LedgerWithout(k) EXCEPT ![e] = "pending"]
                /\ sends' = [sends EXCEPT ![e] = 0]
           ELSE /\ records' = LedgerWithout(k)
                /\ UNCHANGED <<queue, sends>>
  BY DEF Enqueue
<1>2. UNCHANGED <<now, cancelled, stopped, pc, held, attempt, verdict>>
  BY DEF Enqueue, workerVars
<1>3. /\ LedgerWithout(k) \in [Events -> {"none"} \cup Open \cup Finals]
      /\ \A d \in Events : records[d] \in Open => LedgerWithout(k)[d] = records[d]
      /\ \A d \in Events : LedgerWithout(k)[d] \in {"none", records[d]}
      /\ \A d \in Events : LedgerWithout(k)[d] \in Finals
                             <=> \E i \in DOMAIN ListWithout(k) : ListWithout(k)[i].id = d
      /\ \A a, b \in DOMAIN ListWithout(k) :
           ListWithout(k)[a].id = ListWithout(k)[b].id => a = b
  BY ForgettingIsSafe
<1>4. completed' \in Seq(Entry) /\ Len(completed') <= CompletedCapacity
  <2>1. completed \in Seq(Entry) /\ Len(completed) \in Nat
    BY DEF TypeOK, Entry
  <2>2. ListWithout(k) \in Seq(Entry) /\ Len(ListWithout(k)) = Len(completed) - k
    BY <2>1, ListWithoutFacts
  <2> QED
    BY <1>1, <2>1, <2>2, DispatcherConstants DEF TypeOK
<1>5. \A d \in Events : InList(d)' <=> LedgerWithout(k)[d] \in Finals
  BY <1>1, <1>3 DEF InList
<1>6. CASE ~(~Known(e, k) /\ Len(queue) < QueueCapacity)
  <2>1. records' = LedgerWithout(k) /\ UNCHANGED <<queue, sends>>
    BY <1>1, <1>6
  <2>2. \A d \in Events : InQueue(d)' <=> InQueue(d)
    BY <2>1 DEF InQueue
  <2>3. TypeOK'
    BY <1>2, <1>3, <1>4, <2>1 DEF TypeOK, Entry
  <2>4. OneOwner'
    BY <1>2, <2>1, <2>2 DEF OneOwner, Holds
  <2>5. OpenIsKept'
    BY <1>2, <1>3, <2>1, <2>2 DEF OpenIsKept, Holds, Open
  <2>6. ListMatchesLedger'
    BY <1>1, <1>3, <1>5, <2>1 DEF ListMatchesLedger
  <2>7. HeldWhileBusy' /\ SendsMatch'
    BY <1>2, <2>1, <2>2 DEF HeldWhileBusy, SendsMatch
  <2>8. ExhaustedMeansTried'
    BY <1>3, <2>1 DEF ExhaustedMeansTried
  <2> QED
    BY <2>3, <2>4, <2>5, <2>6, <2>7, <2>8
<1>7. CASE ~Known(e, k) /\ Len(queue) < QueueCapacity
  <2>1. /\ queue' = Append(queue, e)
        /\ records' = [LedgerWithout(k) EXCEPT ![e] = "pending"]
        /\ sends' = [sends EXCEPT ![e] = 0]
        /\ LedgerWithout(k)[e] = "none"
    BY <1>1, <1>7 DEF Known
  <2>2. /\ queue' \in Seq(Events)
        /\ DOMAIN queue = 1..Len(queue)
        /\ DOMAIN queue' = 1..(Len(queue) + 1)
        /\ Len(queue') = Len(queue) + 1
        /\ queue'[Len(queue) + 1] = e
        /\ \A i \in DOMAIN queue : queue'[i] = queue[i]
        /\ \A d \in Events : InQueue(d)' <=> (InQueue(d) \/ d = e)
    BY <2>1, AppendFacts DEF TypeOK
  <2>3. /\ \A d \in Events : records'[d] = IF d = e THEN "pending" ELSE LedgerWithout(k)[d]
        /\ \A d \in Events : sends'[d] = IF d = e THEN 0 ELSE sends[d]
    BY <1>3, <2>1 DEF TypeOK
  <2>4. records[e] \notin Open
    BY <1>3, <2>1 DEF Open
  <2>5. ~InQueue(e) /\ \A w \in Workers : held[w] # e
    BY <2>4 DEF OpenIsKept, Holds, Open
  <2>6. TypeOK'
    <3>1. Len(queue') <= QueueCapacity
      BY <1>7, <2>2, DispatcherConstants DEF TypeOK
    <3>2. records' \in [Events -> {"none"} \cup Open \cup Finals]
      BY <1>3, <2>1 DEF Open
    <3>3. sends' \in [Events -> 0..(MaxRetries + 1)]
      BY <2>1, DispatcherConstants DEF TypeOK
    <3> QED
      BY <1>2, <1>4, <2>2, <3>1, <3>2, <3>3 DEF TypeOK, Entry
  <2>7. OneOwner'
    <3>1. ASSUME NEW d \in Events, NEW a \in DOMAIN queue', NEW b \in DOMAIN queue',
                 queue'[a] = d, queue'[b] = d
          PROVE  a = b
      <4>1. CASE a \in DOMAIN queue /\ b \in DOMAIN queue
        BY <2>2, <3>1, <4>1 DEF OneOwner
      <4>2. CASE ~(a \in DOMAIN queue /\ b \in DOMAIN queue)
        <5>1. a = Len(queue) + 1 \/ b = Len(queue) + 1
          BY <2>2, <4>2
        <5>2. d = e
          BY <2>2, <3>1, <5>1
        <5>3. a \notin DOMAIN queue /\ b \notin DOMAIN queue
          BY <2>2, <2>5, <3>1, <5>2 DEF InQueue
        <5> QED
          BY <2>2, <5>3
      <4> QED
        BY <4>1, <4>2
    <3> QED
      BY <1>2, <2>2, <2>5, <3>1 DEF OneOwner, Holds
  <2>8. OpenIsKept'
    BY <1>2, <1>3, <2>2, <2>3, <2>5 DEF OpenIsKept, Holds, Open
  <2>9. ListMatchesLedger'
    <3>1. \A d \in Events : records'[d] \in Finals <=> LedgerWithout(k)[d] \in Finals
      BY <2>1, <2>3 DEF Finals
    <3> QED
      BY <1>1, <1>3, <1>5, <3>1 DEF ListMatchesLedger
  <2>10. HeldWhileBusy'
    BY <1>2 DEF HeldWhileBusy
  <2>11. SendsMatch'
    <3>1. \A w \in Workers : pc[w] \in Busy => sends'[held[w]] = sends[held[w]]
      BY <2>3, <2>5 DEF HeldWhileBusy
    <3> QED
      BY <1>2, <2>2, <2>3, <3>1 DEF SendsMatch, Busy
  <2>12. ExhaustedMeansTried'
    BY <1>3, <2>3 DEF ExhaustedMeansTried
  <2> QED
    BY <2>6, <2>7, <2>8, <2>9, <2>10, <2>11, <2>12
<1> QED
  BY <1>6, <1>7

\* finish: the final state is recorded and appended to the list, and the oldest entries
\* are evicted.
LEMMA FinishIInv ==
    ASSUME IInv, NEW w \in Workers, Finish(w)
    PROVE  IInv'
<1> USE DEF IInv
<1> DEFINE k == Evictions
<1>1. /\ UNCHANGED <<now, queue, cancelled, stopped, attempt, sends>>
      /\ pc[w] = "finish"
  BY DEF Finish
<1>2. PICK h \in Events : h = held[w]
  BY <1>1 DEF HeldWhileBusy, Busy
<1>3. completed \in Seq(Entry) /\ Len(completed) \in Nat /\ Len(completed) <= CompletedCapacity
  BY DEF TypeOK, Entry
<1>4. k \in 0..Len(completed) /\ Len(completed) - k < CompletedCapacity
  BY <1>3, DispatcherConstants DEF Evictions
<1>5. /\ LedgerWithout(k) \in [Events -> {"none"} \cup Open \cup Finals]
      /\ \A d \in Events : records[d] \in Open => LedgerWithout(k)[d] = records[d]
      /\ \A d \in Events : LedgerWithout(k)[d] \in {"none", records[d]}
      /\ \A d \in Events : LedgerWithout(k)[d] \in Finals
                             <=> \E i \in DOMAIN ListWithout(k) : ListWithout(k)[i].id = d
      /\ \A a, b \in DOMAIN ListWithout(k) :
           ListWithout(k)[a].id = ListWithout(k)[b].id => a = b
  BY <1>4, ForgettingIsSafe
<1>6. ListWithout(k) \in Seq(Entry) /\ Len(ListWithout(k)) = Len(completed) - k
  BY <1>3, <1>4, ListWithoutFacts
<1> HIDE DEF k
<1>7. /\ records' = [LedgerWithout(k) EXCEPT ![h] = verdict[w]]
      /\ completed' = Append(ListWithout(k), [id |-> h, at |-> now])
      /\ \A v \in Workers : v # w => /\ pc'[v] = pc[v] /\ held'[v] = held[v]
                                     /\ verdict'[v] = verdict[v]
      /\ pc'[w] = "select" /\ held'[w] = NoEvent
  BY <1>2 DEF Finish, TypeOK, k
<1>8. verdict[w] \in Finals /\ records[h] \in Open /\ ~InQueue(h)
  BY <1>1, <1>2 DEF HeldWhileBusy, OpenIsKept, OneOwner, Holds
<1>9. \A d \in Events : records'[d] = IF d = h THEN verdict[w] ELSE LedgerWithout(k)[d]
  BY <1>5, <1>7
<1>10. \A v \in Workers : v # w => held[v] # h
  BY <1>2 DEF OneOwner, Holds
<1>11. \A d \in Events : InQueue(d)' <=> InQueue(d)
  BY <1>1 DEF InQueue
<1>12. /\ completed' \in Seq(Entry)
       /\ Len(completed') = Len(completed) - k + 1
       /\ DOMAIN ListWithout(k) = 1..(Len(completed) - k)
       /\ DOMAIN completed' = 1..(Len(completed) - k + 1)
       /\ completed'[Len(completed) - k + 1].id = h
       /\ \A i \in DOMAIN ListWithout(k) : completed'[i] = ListWithout(k)[i]
  <2>1. [id |-> h, at |-> now] \in Entry
    BY DEF Entry, TypeOK
  <2>2. Len(completed) - k \in Nat
    BY <1>3, <1>4
  <2> QED
    BY <1>6, <1>7, <2>1, <2>2
<1>13. TypeOK'
  <2>1. pc' \in [Workers -> Pcs] /\ held' \in [Workers -> Events \cup {NoEvent}]
        /\ verdict' \in [Workers -> {"none"} \cup Finals]
    BY DEF TypeOK, Finish, Pcs
  <2>2. records' \in [Events -> {"none"} \cup Open \cup Finals]
    BY <1>5, <1>7, <1>8
  <2>3. Len(completed') <= CompletedCapacity
    BY <1>3, <1>4, <1>12, DispatcherConstants
  <2> QED
    BY <1>1, <1>12, <2>1, <2>2, <2>3 DEF TypeOK, Entry
<1>14. OneOwner'
  <2>1. \A v \in Workers, d \in Events : held'[v] = d => held[v] = d
    BY <1>7, DispatcherConstants
  <2> QED
    BY <1>1, <1>11, <2>1 DEF OneOwner, Holds
<1>15. OpenIsKept'
  <2>1. \A d \in Events : InQueue(d) => records'[d] = "pending"
    BY <1>5, <1>8, <1>9 DEF OpenIsKept, Open
  <2>2. ASSUME NEW v \in Workers, NEW d \in Events, held'[v] = d
        PROVE  records'[d] \in Open
    <3>1. v # w /\ held[v] = d
      BY <1>7, <2>2, DispatcherConstants
    <3>2. d # h /\ records[d] \in Open
      BY <1>10, <3>1 DEF OpenIsKept, Holds
    <3> QED
      BY <1>5, <1>9, <3>2
  <2> QED
    BY <1>11, <2>1, <2>2 DEF OpenIsKept, Holds
<1>16. ListMatchesLedger'
  <2>1. LedgerWithout(k)[h] \notin Finals
    BY <1>5, <1>8 DEF Open, Finals
  <2>2. \A i \in DOMAIN ListWithout(k) : ListWithout(k)[i].id # h
    BY <1>5, <2>1
  <2>3. ASSUME NEW d \in Events
        PROVE  InList(d)' <=> (d = h \/ \E i \in DOMAIN ListWithout(k) : ListWithout(k)[i].id = d)
    <3>1. ASSUME NEW i \in DOMAIN completed', completed'[i].id = d
          PROVE  d = h \/ \E j \in DOMAIN ListWithout(k) : ListWithout(k)[j].id = d
      <4>1. i \in DOMAIN ListWithout(k) \/ i = Len(completed) - k + 1
        BY <1>3, <1>4, <1>12
      <4> QED
        BY <1>12, <3>1, <4>1
    <3>2. Len(completed) - k + 1 \in DOMAIN completed'
      BY <1>3, <1>4, <1>12
    <3>3. ASSUME NEW i \in DOMAIN ListWithout(k), ListWithout(k)[i].id = d
          PROVE  i \in DOMAIN completed' /\ completed'[i].id = d
      BY <1>3, <1>4, <1>12, <3>3
    <3> QED
      BY <1>12, <3>1, <3>2, <3>3 DEF InList
  <2>4. \A d \in Events : records'[d] \in Finals <=> InList(d)'
    BY <1>5, <1>8, <1>9, <2>3
  <2>5. ASSUME NEW a \in DOMAIN completed', NEW b \in DOMAIN completed',
               completed'[a].id = completed'[b].id
        PROVE  a = b
    <3>1. /\ a \in DOMAIN ListWithout(k) \/ a = Len(completed) - k + 1
          /\ b \in DOMAIN ListWithout(k) \/ b = Len(completed) - k + 1
      BY <1>3, <1>4, <1>12
    <3>2. CASE a \in DOMAIN ListWithout(k) /\ b \in DOMAIN ListWithout(k)
      BY <1>5, <1>12, <2>5, <3>2
    <3>3. CASE ~(a \in DOMAIN ListWithout(k) /\ b \in DOMAIN ListWithout(k))
      BY <1>12, <2>2, <2>5, <3>1, <3>3
    <3> QED
      BY <3>2, <3>3
  <2> QED
    BY <2>4, <2>5 DEF ListMatchesLedger
<1>17. HeldWhileBusy'
  BY <1>7, DispatcherConstants DEF HeldWhileBusy, Busy
<1>18. SendsMatch'
  BY <1>1, <1>7, <1>11 DEF SendsMatch
<1>19. ExhaustedMeansTried'
  <2>1. verdict[w] = "exhausted" => sends[h] = MaxRetries + 1
    BY <1>1, <1>2 DEF SendsMatch
  <2> QED
    BY <1>1, <1>5, <1>9, <2>1 DEF ExhaustedMeansTried
<1> QED
  BY <1>13, <1>14, <1>15, <1>16, <1>17, <1>18, <1>19

\* Shutdown, the end of run and the passing of time.
LEMMA OutsideIInv ==
    ASSUME IInv, Cancel \/ Stop \/ Tick \/ UNCHANGED vars
    PROVE  IInv'
<1> USE DEF IInv
<1>1. UNCHANGED <<queue, records, completed, pc, held, attempt, verdict, sends>>
  BY DEF Cancel, Stop, Tick, vars, workerVars
<1>2. TypeOK'
  <2>1. now' \in 0..MaxTime
    <3>1. CASE Tick
      BY <3>1, DispatcherConstants DEF Tick, TypeOK
    <3>2. CASE ~Tick
      BY <3>2 DEF Cancel, Stop, vars, TypeOK
    <3> QED
      BY <3>1, <3>2
  <2>2. cancelled' \in BOOLEAN /\ stopped' \in BOOLEAN
    BY Zenon DEF Cancel, Stop, Tick, vars, TypeOK
  <2> QED
    BY <1>1, <2>1, <2>2 DEF TypeOK
<1>3. HeldWhileBusy' /\ SendsMatch' /\ ExhaustedMeansTried'
  BY <1>1 DEF HeldWhileBusy, SendsMatch, ExhaustedMeansTried, InQueue
<1> QED
  BY <1>1, <1>2, <1>3, LocalStepIInv

-----------------------------------------------------------------------------
(* The theorems.                                                           *)

\* Every reachable state of the dispatcher satisfies the inductive invariant.
THEOREM Inductive == Spec => []IInv
<1>1. Init => IInv
  BY InitIInv
<1>2. IInv /\ [Next]_vars => IInv'
  <2> SUFFICES ASSUME IInv, [Next]_vars PROVE IInv'
    OBVIOUS
  <2>1. ASSUME NEW e \in Events, Enqueue(e) PROVE IInv'
    BY <2>1, EnqueueIInv
  <2>2. ASSUME NEW w \in Workers, WorkerStep(w) PROVE IInv'
    BY <2>2, ReceiveIInv, LeaveIInv, MarkSendingIInv, SendIInv, AnswerIInv, RetryIInv,
       FinishIInv DEF WorkerStep
  <2>3. CASE Cancel \/ Stop \/ Tick \/ UNCHANGED vars
    BY <2>3, OutsideIInv
  <2> QED
    BY <2>1, <2>2, <2>3 DEF Next
<1> QED
  BY <1>1, <1>2, PTL DEF Spec

\* The dispatcher's variables keep their types; the queue and the list of
\* finished events keep within their capacities.
THEOREM TypeCorrect == Spec => []TypeOK
<1>1. IInv => TypeOK
  BY DEF IInv
<1> QED
  BY <1>1, Inductive, PTL

\* enqueue reserves an ID: no two workers, and no worker and the queue, ever
\* have the same event.
THEOREM SingleOwner == Spec => []OneOwner
<1>1. IInv => OneOwner
  BY DEF IInv
<1> QED
  BY <1>1, Inductive, PTL

\* prune and finish never forget an event that is queued or being sent.
THEOREM OpenNeverForgotten == Spec => []OpenIsKept
<1>1. IInv => OpenIsKept
  BY DEF IInv
<1> QED
  BY <1>1, Inductive, PTL

\* Exactly the finished records are in the list that eviction works from.
THEOREM LedgerInStep == Spec => []ListMatchesLedger
<1>1. IInv => ListMatchesLedger
  BY DEF IInv
<1> QED
  BY <1>1, Inductive, PTL

\* An exhausted event was sent once and then retried MaxRetries times.
THEOREM ExhaustionIsReal == Spec => []ExhaustedMeansTried
<1>1. IInv => ExhaustedMeansTried
  BY DEF IInv
<1> QED
  BY <1>1, Inductive, PTL
=============================================================================
