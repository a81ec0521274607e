---------------------------- MODULE ExtractionQueue ----------------------------
(***************************************************************************)
(* What the queue of passport records promises, without leases, locks or   *)
(* error codes: records wait in order of arrival, a record is taken by one *)
(* worker at a time and at most TurnLimit times, its first answer comes    *)
(* from the worker whose turn it is, and a taken record is not removed.    *)
(* Documents implements it (DocumentsQueue).                               *)
(***************************************************************************)
EXTENDS Naturals

CONSTANTS
    NItems,     \* records ever submitted
    Worker,     \* who may take a turn
    TurnLimit   \* turns of one record

Item == 1..NItems

VARIABLES
    stage,      \* of each record
    turns,      \* how often it was taken
    holders,    \* the workers whose turn it is
    answered    \* whether it was ever read

queueVars == <<stage, turns, holders, answered>>

Stage == {"absent", "waiting", "taken", "ended", "removed"}

QueueInit ==
    /\ stage = [i \in Item |-> "absent"]
    /\ turns = [i \in Item |-> 0]
    /\ holders = [i \in Item |-> {}]
    /\ answered = [i \in Item |-> FALSE]

Submit(i) ==
    /\ stage[i] = "absent" /\ \A j \in 1..(i - 1) : stage[j] # "absent"
    /\ stage' = [stage EXCEPT ![i] = "waiting"]
    /\ UNCHANGED <<turns, holders, answered>>

\* A worker without a turn takes the record that has waited longest.
Take(w, i) ==
    /\ stage[i] = "waiting" /\ \A j \in 1..(i - 1) : stage[j] # "waiting"
    /\ turns[i] < TurnLimit /\ \A j \in Item : w \notin holders[j]
    /\ stage' = [stage EXCEPT ![i] = "taken"]
    /\ turns' = [turns EXCEPT ![i] = @ + 1]
    /\ holders' = [holders EXCEPT ![i] = {w}]
    /\ UNCHANGED answered

\* The holder of the turn answers.
Answer(w, i) ==
    /\ w \in holders[i]
    /\ stage' = [stage EXCEPT ![i] = "ended"]
    /\ holders' = [holders EXCEPT ![i] = {}]
    /\ answered' = [answered EXCEPT ![i] = TRUE]
    /\ UNCHANGED turns

\* A holder dies; its turn goes on until it is ended.
Lose(w, i) ==
    /\ w \in holders[i]
    /\ holders' = [holders EXCEPT ![i] = {}]
    /\ UNCHANGED <<stage, turns, answered>>

\* Turns end without an answer (failed, expired), also before they began (the
\* record was judged anew meanwhile).
End(S) ==
    /\ \A i \in S : stage[i] \in {"waiting", "taken"}
    /\ stage' = [i \in Item |-> IF i \in S THEN "ended" ELSE stage[i]]
    /\ holders' = [i \in Item |-> IF i \in S THEN {} ELSE holders[i]]
    /\ UNCHANGED <<turns, answered>>

Resubmit(i) ==
    /\ stage[i] = "ended" /\ turns[i] < TurnLimit
    /\ stage' = [stage EXCEPT ![i] = "waiting"]
    /\ UNCHANGED <<turns, holders, answered>>

Remove(S) ==
    /\ \A i \in S : stage[i] \in {"waiting", "ended"}
    /\ stage' = [i \in Item |-> IF i \in S THEN "removed" ELSE stage[i]]
    /\ turns' = [i \in Item |-> IF i \in S THEN 0 ELSE turns[i]]
    /\ answered' = [i \in Item |-> i \notin S /\ answered[i]]
    /\ UNCHANGED holders

QueueNext ==
    \/ \E i \in Item : Submit(i) \/ Resubmit(i)
    \/ \E w \in Worker, i \in Item : Take(w, i) \/ Answer(w, i) \/ Lose(w, i)
    \/ \E S \in (SUBSET Item) \ {{}} : End(S) \/ Remove(S)

QueueSpec == QueueInit /\ [][QueueNext]_queueVars
=============================================================================
