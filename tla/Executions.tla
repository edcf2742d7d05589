----------------------------- MODULE Executions -----------------------------
(***************************************************************************)
(* What the status of a Task promises about its executions, without        *)
(* caches, queue, conflicts or crashes.  Jobs end; now and then a report   *)
(* adds outcomes to the history, each a true one of a Job that the history *)
(* does not name, and moves both counters by what it adds.  The completion *)
(* time is always one at which some Job succeeded.                         *)
(***************************************************************************)
EXTENDS Naturals, Sequences, FiniteSets, SequencesExt

CONSTANTS
    Jobs,    \* names of Jobs
    Times,   \* instants
    Never,   \* no instant
    Limit    \* records the history keeps

VARIABLES
    ended,       \* the outcomes [phase, end] of the Jobs of each name
    history,     \* records [job, phase]
    succeeded,   \* the two counters
    failed,
    completion   \* the completion time, or Never

status == <<history, succeeded, failed, completion>>
evars == <<ended, history, succeeded, failed, completion>>

Outcome == [phase : {"Succeeded", "Failed"}, end : Times]

Init ==
    /\ ended = [j \in Jobs |-> {}]
    /\ history = <<>>
    /\ succeeded = 0 /\ failed = 0
    /\ completion = Never

End ==
    /\ ended' # ended
    /\ \E j \in Jobs, o \in Outcome : ended' = [ended EXCEPT ![j] = @ \cup {o}]
    /\ UNCHANGED status

\* Records of ended Jobs that the history does not name.
Unreported ==
    {r \in [job : Jobs, phase : {"Succeeded", "Failed"}] :
        /\ \E o \in ended[r.job] : o.phase = r.phase
        /\ \A i \in DOMAIN history : history[i].job # r.job}

Latest(h) == IF Len(h) > Limit THEN SubSeq(h, Len(h) - Limit + 1, Len(h)) ELSE h

\* The instants at which a Job succeeded.
Completions == {o.end : o \in {p \in UNION {ended[j] : j \in Jobs} : p.phase = "Succeeded"}}

Report ==
    /\ status' # status
    /\ UNCHANGED ended
    /\ completion' \in {completion} \cup Completions
    /\ \E R \in SUBSET Unreported :
        LET Won == {r \in R : r.phase = "Succeeded"} IN
        /\ \A r, s \in R : r.job = s.job => r = s
        /\ succeeded' = succeeded + Cardinality(Won)
        /\ failed' = failed + Cardinality(R \ Won)
        /\ \E s \in SetToSeqs(R) : history' = Latest(history \o s)

Next == Report \/ End

Spec == Init /\ [][Next]_evars
=============================================================================
