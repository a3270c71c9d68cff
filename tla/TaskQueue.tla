------------------------------- MODULE TaskQueue -------------------------------
(***************************************************************************)
(* The embedding-task queue: tables embedding_tasks and                    *)
(* embedding_dead_letters (src/tasks/repo.go) and the leases its workers   *)
(* hold between FetchReady and the recording of a result                   *)
(* (handleTaskResult, src/worker/worker.go).                               *)
(*                                                                         *)
(* next_run_at plays two roles in the code.  As a schedule it is compared  *)
(* with now(): here the flag `due'.  As a lease token it is compared for   *)
(* equality with the value FetchReady returned: here `stamp'.  Stamps are  *)
(* identities and distinct moments get distinct stamps; time is not        *)
(* counted, and the clock reaching a next_run_at is the action Expire.     *)
(***************************************************************************)
EXTENDS Integers, FiniteSets

CONSTANTS
    Entity,             \* (entity_type, entity_id, language) triples
    Model,              \* embedding models
    Worker,             \* callers of DrainOnce / Run, one batch each
    Stamp,              \* values of next_run_at; bound: reused once forgotten
    None,               \* no row, no lease
    MaxAttempts,        \* Options.MaxAttempts
    BatchSize,          \* Options.BatchSize
    LeaseOutlivesWork   \* Options.LockAhead exceeds every batch's duration

Key == Entity \X Model      \* the primary key of embedding_tasks
Row == [stamp : Stamp, due : BOOLEAN, attempts : Nat]
Lease == [stamp : Stamp, attempts : Nat]

ASSUME TaskQueueAssumption ==
    /\ MaxAttempts \in Nat \ {0}
    /\ BatchSize \in Nat \ {0}
    /\ LeaseOutlivesWork \in BOOLEAN
    /\ None \notin Row
    /\ None \notin Lease
    /\ None \notin Nat

VARIABLES
    task,       \* embedding_tasks: key -> row or None
    dead,       \* embedding_dead_letters: key -> attempts recorded, 0 = no row
    lease,      \* worker -> key -> what FetchReady returned, None once recorded
    overtaken   \* history: keys requested again since the worker fetched them

vars == <<task, dead, lease, overtaken>>

TypeOK ==
    /\ task \in [Key -> Row \cup {None}]
    /\ dead \in [Key -> Nat]
    /\ lease \in [Worker -> [Key -> Lease \cup {None}]]
    /\ overtaken \in [Worker -> SUBSET Key]

Init ==
    /\ task = [k \in Key |-> None]
    /\ dead = [k \in Key |-> 0]
    /\ lease = [w \in Worker |-> [k \in Key |-> None]]
    /\ overtaken = [w \in Worker |-> {}]

--------------------------------------------------------------------------------
(* Stamps.  InUse(k) are the values some row or outstanding lease of k     *)
(* still carries; a statement that computes now() or now() + interval gets *)
(* a value none of them has.                                               *)

InUse(k) ==
    {row.stamp : row \in {task[k]} \ {None}}
        \cup {held.stamp : held \in {lease[w][k] : w \in Worker} \ {None}}

CanStamp(k) == \E s \in Stamp : s \notin InUse(k)

Fresh(k) == CHOOSE s \in Stamp : s \notin InUse(k)

(* The WHERE ... AND next_run_at = leaseUntil of Complete, Fail and        *)
(* DeadLetter.                                                             *)
Holds_IgnoresStamp(w, k) ==
    /\ lease[w][k] # None
    /\ task[k] # None

Holds(w, k) ==
    /\ lease[w][k] # None
    /\ task[k] # None
    /\ task[k].stamp = lease[w][k].stamp

--------------------------------------------------------------------------------
(* Producers.                                                              *)

(* INSERT ... ON CONFLICT DO UPDATE SET next_run_at =                      *)
(* LEAST(next_run_at, now()): a row already due keeps its next_run_at, and *)
(* attempts is never reset.                                                *)
Upserted_ResetsAttempts(k) ==
    IF task[k] # None /\ task[k].due THEN [task[k] EXCEPT !.attempts = 0]
    ELSE [stamp |-> Fresh(k), due |-> TRUE, attempts |-> 0]

Upserted_NullAttempts(k) == [stamp |-> Fresh(k), due |-> TRUE, attempts |-> None]

Upserted(k) ==
    IF task[k] = None
    THEN [stamp |-> Fresh(k), due |-> TRUE, attempts |-> 0]
    ELSE IF task[k].due
    THEN task[k]
    ELSE [stamp |-> Fresh(k), due |-> TRUE, attempts |-> task[k].attempts]

(* Enqueue is EnqueueMany of one id.                                       *)
Enqueue(S) ==
    /\ \A k \in S : CanStamp(k)
    /\ task' = [k \in Key |-> IF k \in S THEN Upserted(k) ELSE task[k]]
    /\ overtaken' = [w \in Worker |->
                        overtaken[w] \cup {k \in S : lease[w][k] # None}]
    /\ UNCHANGED <<dead, lease>>

EnqueueMany(E, m) == E # {} /\ Enqueue(E \X {m})

(* The rows of S go; whoever leased them keeps a token that matches no row.*)
DeleteRows(S) ==
    /\ task' = [k \in Key |-> IF k \in S THEN None ELSE task[k]]
    /\ UNCHANGED <<dead, lease, overtaken>>

DeleteAllForEntity(e) == DeleteRows({e} \X Model)

(* UpsertModels prunes tasks, then dead letters, of models not in the      *)
(* configured set: two statements, no transaction.  An empty set reaches   *)
(* the database as NULL, and NOT (model = ANY(NULL)) selects no row.       *)
Pruned_Kept(active) == Entity \X active

Pruned(active) ==
    IF active = {} THEN {} ELSE Entity \X (Model \ active)

PruneTasks(active) == DeleteRows(Pruned(active))

PruneDeadLetters(active) ==
    /\ dead' = [k \in Key |-> IF k \in Pruned(active) THEN 0 ELSE dead[k]]
    /\ UNCHANGED <<task, lease, overtaken>>

--------------------------------------------------------------------------------
(* The clock: now() reaches next_run_at.  With LeaseOutlivesWork the       *)
(* moment does not come while a worker still works under that token.       *)
Expire(k) ==
    /\ task[k] # None
    /\ ~task[k].due
    /\ LeaseOutlivesWork => \A w \in Worker : ~Holds(w, k)
    /\ task' = [task EXCEPT ![k].due = TRUE]
    /\ UNCHANGED <<dead, lease, overtaken>>

--------------------------------------------------------------------------------
(* Workers.                                                                *)

Idle(w) == \A k \in Key : lease[w][k] = None

Leased_KeepsStamp(k) == [task[k] EXCEPT !.due = FALSE]

Leased_StaysDue(k) == [task[k] EXCEPT !.stamp = Fresh(k)]

Leased(k) == [stamp |-> Fresh(k), due |-> FALSE, attempts |-> task[k].attempts]

(* One statement picks at most BatchSize due rows (those another statement *)
(* has locked are skipped, so any subset may come back), moves their       *)
(* next_run_at past now() and returns them with their attempts.            *)
FetchReady(w, S) ==
    /\ Idle(w)
    /\ S # {}
    /\ Cardinality(S) <= BatchSize
    /\ \A k \in S : task[k] # None /\ task[k].due /\ CanStamp(k)
    /\ task' = [k \in Key |-> IF k \in S THEN Leased(k) ELSE task[k]]
    /\ lease' = [lease EXCEPT ![w] =
                    [k \in Key |-> IF k \in S
                                   THEN [stamp |-> Leased(k).stamp,
                                         attempts |-> Leased(k).attempts]
                                   ELSE None]]
    /\ overtaken' = [overtaken EXCEPT ![w] = {}]
    /\ UNCHANGED dead

(* handleTaskResult takes the attempts of the leased copy, not the row's.  *)
AtCap_OffByOne(w, k) == lease[w][k].attempts >= MaxAttempts

AtCap(w, k) == lease[w][k].attempts + 1 >= MaxAttempts

Drop(w, k) ==
    /\ lease' = [lease EXCEPT ![w][k] = None]
    /\ overtaken' = [overtaken EXCEPT ![w] = @ \ {k}]

(* DELETE ... WHERE next_run_at = leaseUntil *)
DeleteIfHeld(w, k) ==
    task' = [task EXCEPT ![k] = IF Holds(w, k) THEN None ELSE @]

(* Success, ErrEntityNotFound, a blank document, no assets.                *)
Complete(w, k) ==
    /\ lease[w][k] # None
    /\ DeleteIfHeld(w, k)
    /\ Drop(w, k)
    /\ UNCHANGED dead

Failed_Uncounted(k) ==
    [stamp |-> Fresh(k), due |-> FALSE, attempts |-> task[k].attempts]

Failed(k) ==
    [stamp |-> Fresh(k), due |-> FALSE, attempts |-> task[k].attempts + 1]

(* attempts + 1 and a backoff, if the lease still matches.                 *)
Fail(w, k) ==
    /\ lease[w][k] # None
    /\ ~AtCap(w, k)
    /\ CanStamp(k)
    /\ task' = [task EXCEPT ![k] = IF Holds(w, k) THEN Failed(k) ELSE @]
    /\ Drop(w, k)
    /\ UNCHANGED dead

(* The dead letter is written whether or not the lease still matches.      *)
DeadLetter(w, k) ==
    /\ lease[w][k] # None
    /\ AtCap(w, k)
    /\ DeleteIfHeld(w, k)
    /\ dead' = [dead EXCEPT ![k] = lease[w][k].attempts + 1]
    /\ Drop(w, k)

(* Leases dropped without a word to the database: hydrateBatch returned an *)
(* error, the context was cancelled, the process died, or the statement    *)
(* recording the result failed (its error is discarded).                   *)
AbandonLeases(w, S) ==
    /\ S # {}
    /\ \A k \in S : lease[w][k] # None
    /\ lease' = [lease EXCEPT ![w] =
                    [k \in Key |-> IF k \in S THEN None ELSE lease[w][k]]]
    /\ overtaken' = [overtaken EXCEPT ![w] = @ \ S]
    /\ UNCHANGED <<task, dead>>

--------------------------------------------------------------------------------
Produce == \E E \in SUBSET Entity, m \in Model : EnqueueMany(E, m)

Delete == \E e \in Entity : DeleteAllForEntity(e)

Prune == \E active \in SUBSET Model :
            PruneTasks(active) \/ PruneDeadLetters(active)

Fetch(w) == \E S \in SUBSET Key : FetchReady(w, S)

Record(w, k) == Complete(w, k) \/ Fail(w, k) \/ DeadLetter(w, k)

Abandon(w) == \E S \in SUBSET Key : AbandonLeases(w, S)

Next ==
    \/ Produce
    \/ Delete
    \/ Prune
    \/ \E k \in Key : Expire(k)
    \/ \E w \in Worker : Fetch(w) \/ Abandon(w)
    \/ \E w \in Worker, k \in Key : Record(w, k)

Spec == Init /\ [][Next]_vars

(* A running worker records a result for every lease it keeps; the clock   *)
(* advances; and FetchReady's ORDER BY next_run_at ASC serves the oldest   *)
(* due row first, so a row that keeps becoming due is fetched in the end.  *)
Fairness ==
    /\ \A k \in Key : WF_vars(Expire(k))
    /\ \A w \in Worker, k \in Key : WF_vars(Record(w, k))
    /\ \A k \in Key :
          SF_vars(\E w \in Worker, S \in SUBSET Key : k \in S /\ FetchReady(w, S))

FairSpec == Spec /\ Fairness

--------------------------------------------------------------------------------
(* Properties.                                                             *)

(* At most one worker's token matches a row: after an expiry and a second  *)
(* FetchReady the first worker can no longer complete, fail or bury it.    *)
OneValidLease ==
    \A k \in Key : \A v, w \in Worker : Holds(v, k) /\ Holds(w, k) => v = w

(* While its token matches, the attempts a worker copied at fetch time are *)
(* the row's: the cap decided on the copy (handleTaskResult) is the cap of *)
(* the row, although Enqueue and other workers write to it meanwhile.      *)
LeaseSnapshotCurrent ==
    \A w \in Worker, k \in Key :
        Holds(w, k) => lease[w][k].attempts = task[k].attempts

(* A row never reaches MaxAttempts failures and stays in the queue, and a  *)
(* dead letter is never written before its MaxAttempts-th failure.         *)
CapIsExact ==
    \A k \in Key :
        /\ task[k] # None => task[k].attempts < MaxAttempts
        /\ dead[k] \in {0, MaxAttempts}

(* The inductive invariant behind these and LeaseSafe.                     *)

TokensDistinct ==
    \A k \in Key : \A v, w \in Worker :
        /\ v # w
        /\ lease[v][k] # None
        /\ lease[w][k] # None
        => lease[v][k].stamp # lease[w][k].stamp

LeasesBelowCap ==
    \A w \in Worker, k \in Key :
        lease[w][k] # None => lease[w][k].attempts < MaxAttempts

GoodLeasesAreCurrent ==
    LeaseOutlivesWork =>
        \A w \in Worker, k \in Key :
            Holds(w, k) => ~task[k].due /\ k \notin overtaken[w]

(* Tokens of different workers differ, good ones are exact copies, and,    *)
(* when leases outlive the work, a good token means an unexpired lease     *)
(* that no request has overtaken.                                          *)
IInv ==
    /\ TypeOK
    /\ TokensDistinct
    /\ LeaseSnapshotCurrent
    /\ CapIsExact
    /\ LeasesBelowCap
    /\ GoodLeasesAreCurrent

Recorded(w, k) == lease[w][k] # None /\ lease'[w][k] = None

Removed(k) == task[k] # None /\ task'[k] = None

(* Recording a result never removes a request that arrived after the       *)
(* worker fetched the task: the worker read its document before that       *)
(* request, and the removed row was the only trace of it.                  *)
LeaseSafe ==
    [][\A w \in Worker, k \in Key :
          Recorded(w, k) /\ Removed(k) => k \notin overtaken[w]]_vars

(* "DeadLetter moves a task into the dead-letter table": a step that adds  *)
(* or rewrites a dead letter removes the task.                             *)
DeadLetterMoves ==
    [][\A w \in Worker, k \in Key :
          Recorded(w, k) /\ dead'[k] # dead[k] => Removed(k)]_vars

(* The queue is a TaskLifecycle: only a matching token counts a failure,   *)
(* finishes a task or buries it, and no failure is counted twice.          *)
Lifecycle == INSTANCE TaskLifecycle WITH
    tries  <- [k \in Key |-> IF task[k] = None THEN None ELSE task[k].attempts],
    claim  <- [k \in Key |-> {w \in Worker : Holds(w, k)}],
    buried <- {k \in Key : dead[k] # 0}

ImplementsLifecycle == Lifecycle!Spec

(* If producers stop asking and workers stop dropping leases that are      *)
(* still good, every task leaves the queue, completed or dead-lettered.    *)
Disturbance ==
    \/ Produce
    \/ \E w \in Worker, S \in SUBSET Key :
          AbandonLeases(w, S) /\ \E k \in S : Holds(w, k)

TaskResolved ==
    <>[][~Disturbance]_vars
        => \A k \in Key : (task[k] # None) ~> (task[k] = None)
================================================================================
