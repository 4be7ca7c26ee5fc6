---------------------------- MODULE RequestQueue ----------------------------
(***************************************************************************)
(* What a Claude chat session promises the callers of invoke(), without    *)
(* generators, iterables or an SDK: a request is refused before it is      *)
(* queued, or it is queued and stays queued until it is settled, once; the *)
(* queue completes from its head or is rejected as a whole.                *)
(***************************************************************************)
EXTENDS Naturals, Sequences

CONSTANT Req   \* the requests

VARIABLES
    queue,     \* the requests whose callers wait, oldest first
    outcome    \* what became of each request so far

queueVars == <<queue, outcome>>

Outcomes == {"open", "queued", "done", "error"}

Waiting == {queue[i] : i \in DOMAIN queue}

TypeOK ==
    /\ queue \in Seq(Req)
    /\ outcome \in [Req -> Outcomes]

Init ==
    /\ queue = <<>>
    /\ outcome = [r \in Req |-> "open"]

Submit(r) ==
    /\ outcome[r] = "open"
    /\ outcome' = [outcome EXCEPT ![r] = "queued"]
    /\ queue' = Append(queue, r)

CompleteFirst ==
    /\ queue # <<>>
    /\ outcome' = [outcome EXCEPT ![Head(queue)] = "done"]
    /\ queue' = Tail(queue)

\* Requests that are not queued yet are refused.
Refuse(R) ==
    /\ \A r \in R : outcome[r] = "open"
    /\ outcome' = [r \in Req |-> IF r \in R THEN "error" ELSE outcome[r]]
    /\ UNCHANGED queue

\* The whole queue is rejected, along with requests that were about to join.
RejectAll(R) ==
    /\ \A r \in R : outcome[r] = "open"
    /\ outcome' = [r \in Req |-> IF r \in R \cup Waiting THEN "error" ELSE outcome[r]]
    /\ queue' = <<>>

Next ==
    \/ \E r \in Req : Submit(r)
    \/ CompleteFirst
    \/ \E R \in SUBSET Req : Refuse(R) \/ RejectAll(R)

Spec == Init /\ [][Next]_queueVars

\* Nobody waits outside the queue, where no completion, error or disposal
\* would reach them, and no request is queued twice, so none is settled twice.
CallersAreQueued ==
    /\ \A r \in Req : outcome[r] = "queued" <=> r \in Waiting
    /\ \A i, j \in DOMAIN queue : queue[i] = queue[j] => i = j
=============================================================================
