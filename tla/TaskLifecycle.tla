----------------------------- MODULE TaskLifecycle -----------------------------
(***************************************************************************)
(* What the embedding-task queue promises, without leases, clocks or rows: *)
(* a key is pending or not, a pending key is claimed by a set of workers   *)
(* that is never larger than one, and only a claim lets a worker count a   *)
(* failure, finish the task or bury it.  TaskQueue implements this.        *)
(***************************************************************************)
EXTENDS Integers, FiniteSets

CONSTANTS Key, Worker, None, MaxAttempts

VARIABLES
    tries,      \* key -> None (no task) or the failures counted so far
    claim,      \* key -> the workers whose claim is still good
    buried      \* keys reported as terminally failed

vars == <<tries, claim, buried>>

Init ==
    /\ tries = [k \in Key |-> None]
    /\ claim = [k \in Key |-> {}]
    /\ buried = {}

Remove(S) ==
    /\ tries' = [k \in Key |-> IF k \in S THEN None ELSE tries[k]]
    /\ claim' = [k \in Key |-> IF k \in S THEN {} ELSE claim[k]]

(* Asking for a key keeps the failures already counted, and may take the   *)
(* key away from the worker that has it.                                   *)
Submit ==
    \E S \in SUBSET Key :
        /\ tries' = [k \in Key |->
                        IF k \in S /\ tries[k] = None THEN 0 ELSE tries[k]]
        /\ claim' \in [Key -> SUBSET Worker]
        /\ \A k \in Key : \/ claim'[k] = claim[k]
                          \/ k \in S /\ claim'[k] = {}
        /\ UNCHANGED buried

Claim(w) ==
    \E S \in SUBSET Key :
        /\ \A k \in S : tries[k] # None
        /\ claim' = [k \in Key |-> IF k \in S THEN {w} ELSE claim[k]]
        /\ UNCHANGED <<tries, buried>>

Finish(w, k) ==
    /\ claim[k] = {w}
    /\ Remove({k})
    /\ UNCHANGED buried

Retry(w, k) ==
    /\ claim[k] = {w}
    /\ tries[k] + 1 < MaxAttempts
    /\ tries' = [tries EXCEPT ![k] = @ + 1]
    /\ claim' = [claim EXCEPT ![k] = {}]
    /\ UNCHANGED buried

Bury(w, k) ==
    /\ claim[k] = {w}
    /\ tries[k] + 1 = MaxAttempts
    /\ Remove({k})
    /\ buried' = buried \cup {k}

(* The report of a worker that lost its claim: it changes no task.         *)
Report(k) ==
    /\ buried' = buried \cup {k}
    /\ UNCHANGED <<tries, claim>>

Release(w) ==
    \E S \in SUBSET Key :
        /\ claim' = [k \in Key |-> IF k \in S THEN claim[k] \ {w} ELSE claim[k]]
        /\ UNCHANGED <<tries, buried>>

Withdraw ==
    \E S \in SUBSET Key :
        /\ Remove(S)
        /\ UNCHANGED buried

Forget ==
    \E S \in SUBSET Key :
        /\ buried' = buried \ S
        /\ UNCHANGED <<tries, claim>>

Next ==
    \/ Submit \/ Withdraw \/ Forget
    \/ \E w \in Worker : Claim(w) \/ Release(w)
    \/ \E w \in Worker, k \in Key : Finish(w, k) \/ Retry(w, k) \/ Bury(w, k)
    \/ \E k \in Key : Report(k)

Spec == Init /\ [][Next]_vars
================================================================================
