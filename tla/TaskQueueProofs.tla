---------------------------- MODULE TaskQueueProofs ----------------------------
(* Proofs about TaskQueue for every value of its constants.                *)
EXTENDS TaskQueue, TLAPS

(* Two facts about one statement that computes a new next_run_at: the      *)
(* value is a stamp, and no row or lease of the key carries it.            *)
LEMMA FreshIsNew ==
    ASSUME NEW k \in Key, TypeOK, CanStamp(k)
    PROVE  /\ Fresh(k) \in Stamp
           /\ task[k] # None => Fresh(k) # task[k].stamp
           /\ \A w \in Worker : lease[w][k] # None => Fresh(k) # lease[w][k].stamp
<1>1. Fresh(k) \in Stamp /\ Fresh(k) \notin InUse(k)
  BY DEF CanStamp, Fresh
<1>2. task[k] # None => task[k].stamp \in InUse(k)
  BY DEF InUse
<1>3. ASSUME NEW w \in Worker, lease[w][k] # None
      PROVE  lease[w][k].stamp \in InUse(k)
  BY <1>3 DEF InUse
<1> QED BY <1>1, <1>2, <1>3

(* What an element of a row or lease looks like.                           *)
LEMMA Fields ==
    ASSUME TypeOK, NEW k \in Key
    PROVE  /\ task[k] # None => /\ task[k] \in Row
                                /\ task[k].stamp \in Stamp
                                /\ task[k].due \in BOOLEAN
                                /\ task[k].attempts \in Nat
           /\ \A w \in Worker : lease[w][k] # None =>
                                /\ lease[w][k] \in Lease
                                /\ lease[w][k].stamp \in Stamp
                                /\ lease[w][k].attempts \in Nat
  BY DEF TypeOK, Row, Lease

--------------------------------------------------------------------------------
(* One lemma per action: it preserves the inductive invariant.             *)

LEMMA InitIInv == Init => IInv
  BY TaskQueueAssumption
  DEF Init, IInv, TypeOK, TokensDistinct, LeaseSnapshotCurrent, CapIsExact,
      LeasesBelowCap, GoodLeasesAreCurrent, Holds

LEMMA EnqueueIInv ==
    ASSUME IInv, NEW S \in SUBSET Key, Enqueue(S)
    PROVE  IInv'
<1> USE DEF IInv
<1>1. \A k \in S : /\ Upserted(k) \in Row
                   /\ task[k] # None => Upserted(k).attempts = task[k].attempts
                   /\ task[k] = None => Upserted(k).attempts = 0
  BY FreshIsNew, Fields DEF Enqueue, Upserted, Row
<1>2. TypeOK'
  BY <1>1 DEF Enqueue, TypeOK
<1>3. TokensDistinct'
  BY DEF Enqueue, TokensDistinct
<1>4. \A w \in Worker, k \in Key :
          Holds(w, k)' => Holds(w, k) /\ task'[k] = task[k] /\ (k \in S => task[k].due)
  BY FreshIsNew DEF Enqueue, Upserted, Holds, TypeOK
<1>5. LeaseSnapshotCurrent'
  BY <1>4 DEF LeaseSnapshotCurrent, Enqueue
<1>6. CapIsExact'
  BY <1>1, TaskQueueAssumption DEF CapIsExact, Enqueue, TypeOK
<1>7. LeasesBelowCap'
  BY DEF LeasesBelowCap, Enqueue
<1>8. GoodLeasesAreCurrent'
  BY <1>4 DEF GoodLeasesAreCurrent, Enqueue, TypeOK
<1> QED BY <1>2, <1>3, <1>5, <1>6, <1>7, <1>8

LEMMA DeleteRowsIInv ==
    ASSUME IInv, NEW S, DeleteRows(S)
    PROVE  IInv'
<1> USE DEF IInv, DeleteRows
<1>1. TypeOK'
  BY DEF TypeOK
<1>2. \A w \in Worker, k \in Key : Holds(w, k)' => Holds(w, k) /\ task'[k] = task[k]
  BY DEF Holds, TypeOK
<1>3. LeaseSnapshotCurrent' /\ GoodLeasesAreCurrent'
  BY <1>2 DEF LeaseSnapshotCurrent, GoodLeasesAreCurrent
<1>4. CapIsExact'
  BY DEF CapIsExact, TypeOK
<1>5. TokensDistinct' /\ LeasesBelowCap'
  BY DEF TokensDistinct, LeasesBelowCap
<1> QED BY <1>1, <1>3, <1>4, <1>5

LEMMA PruneDeadLettersIInv ==
    ASSUME IInv, NEW active, PruneDeadLetters(active)
    PROVE  IInv'
  BY DEF IInv, PruneDeadLetters, TypeOK, TokensDistinct, LeaseSnapshotCurrent,
         CapIsExact, LeasesBelowCap, GoodLeasesAreCurrent, Holds

LEMMA ExpireIInv ==
    ASSUME IInv, NEW k \in Key, Expire(k)
    PROVE  IInv'
<1> USE DEF IInv, Expire
<1>1. /\ task[k] \in Row
      /\ task' \in [Key -> Row \cup {None}]
      /\ task'[k] # None
      /\ task'[k].stamp = task[k].stamp
      /\ task'[k].attempts = task[k].attempts
      /\ \A j \in Key \ {k} : task'[j] = task[j]
  BY Fields, TaskQueueAssumption DEF TypeOK, Row
<1>2. TypeOK'
  BY <1>1 DEF TypeOK
<1>3. \A w \in Worker, j \in Key :
          Holds(w, j)' => /\ Holds(w, j)
                          /\ task'[j].attempts = task[j].attempts
                          /\ LeaseOutlivesWork => task'[j] = task[j]
  BY <1>1 DEF Holds
<1>4. LeaseSnapshotCurrent' /\ GoodLeasesAreCurrent'
  BY <1>3 DEF LeaseSnapshotCurrent, GoodLeasesAreCurrent
<1>5. CapIsExact'
  BY <1>1 DEF CapIsExact, TypeOK
<1>6. TokensDistinct' /\ LeasesBelowCap'
  BY DEF TokensDistinct, LeasesBelowCap
<1> QED BY <1>2, <1>4, <1>5, <1>6

(* A fetched key: row and lease share a stamp no other lease carries.      *)
LEMMA FetchedKey ==
    ASSUME TypeOK, NEW w \in Worker, NEW S \in SUBSET Key, FetchReady(w, S),
           NEW k \in S
    PROVE  /\ task[k] # None
           /\ task'[k] \in Row
           /\ task'[k] # None
           /\ task'[k].stamp = Fresh(k)
           /\ ~task'[k].due
           /\ task'[k].attempts = task[k].attempts
           /\ lease'[w][k] \in Lease
           /\ lease'[w][k] # None
           /\ lease'[w][k].stamp = Fresh(k)
           /\ lease'[w][k].attempts = task[k].attempts
           /\ \A v \in Worker \ {w} :
                 lease'[v][k] # None => lease'[v][k].stamp # Fresh(k)
<1>1. k \in Key /\ CanStamp(k) /\ task[k] # None
  BY DEF FetchReady
<1>2. /\ Fresh(k) \in Stamp
      /\ \A v \in Worker : lease[v][k] # None => Fresh(k) # lease[v][k].stamp
  BY <1>1, FreshIsNew
<1>3. task[k].attempts \in Nat
  BY <1>1, Fields
<1>4. task'[k] = [stamp |-> Fresh(k), due |-> FALSE, attempts |-> task[k].attempts]
  BY <1>1 DEF FetchReady, Leased
<1>5. /\ lease'[w][k] = [stamp |-> Fresh(k), attempts |-> task[k].attempts]
      /\ \A v \in Worker \ {w} : lease'[v][k] = lease[v][k]
  <2>1. lease'[w][k] = [stamp |-> Leased(k).stamp, attempts |-> Leased(k).attempts]
    BY <1>1 DEF FetchReady, TypeOK
  <2>2. Leased(k).stamp = Fresh(k) /\ Leased(k).attempts = task[k].attempts
    BY DEF Leased
  <2>3. \A v \in Worker \ {w} : lease'[v][k] = lease[v][k]
    BY DEF FetchReady, TypeOK
  <2> QED BY <2>1, <2>2, <2>3
<1>6. task'[k] \in Row /\ lease'[w][k] \in Lease
  BY <1>2, <1>3, <1>4, <1>5 DEF Row, Lease
<1>7. task'[k] # None /\ lease'[w][k] # None
  BY <1>6, TaskQueueAssumption
<1>8. /\ task'[k].stamp = Fresh(k)
      /\ ~task'[k].due
      /\ task'[k].attempts = task[k].attempts
  BY <1>4
<1>9. /\ lease'[w][k].stamp = Fresh(k)
      /\ lease'[w][k].attempts = task[k].attempts
  BY <1>5
<1>10. \A v \in Worker \ {w} :
          lease'[v][k] # None => lease'[v][k].stamp # Fresh(k)
  BY <1>2, <1>5
<1> QED BY <1>1, <1>6, <1>7, <1>8, <1>9, <1>10

LEMMA FetchReadyIInv ==
    ASSUME IInv, NEW w \in Worker, NEW S \in SUBSET Key, FetchReady(w, S)
    PROVE  IInv'
<1> USE DEF IInv
<1>1. ASSUME NEW k \in S
      PROVE  /\ task'[k] \in Row
             /\ task[k] # None
             /\ lease'[w][k] \in Lease
  BY FetchedKey
<1>2. /\ \A k \in Key \ S : task'[k] = task[k] /\ lease'[w][k] = None
      /\ \A v \in Worker \ {w} : lease'[v] = lease[v] /\ overtaken'[v] = overtaken[v]
      /\ overtaken'[w] = {}
  BY DEF FetchReady, TypeOK
<1>3. TypeOK'
  BY <1>1, <1>2 DEF FetchReady, TypeOK
<1>4. ASSUME NEW k \in S
      PROVE  /\ task'[k].stamp = Fresh(k)
             /\ ~task'[k].due
             /\ task'[k].attempts = task[k].attempts
             /\ lease'[w][k].stamp = Fresh(k)
             /\ lease'[w][k].attempts = task[k].attempts
             /\ \A v \in Worker \ {w} :
                   lease'[v][k] # None => lease'[v][k].stamp # Fresh(k)
  BY FetchedKey
<1>5. TokensDistinct'
  <2> SUFFICES ASSUME NEW k \in Key, NEW u \in Worker, NEW v \in Worker, u # v,
                      lease'[u][k] # None, lease'[v][k] # None
               PROVE  lease'[u][k].stamp # lease'[v][k].stamp
    BY DEF TokensDistinct
  <2>1. CASE u # w /\ v # w
    BY <2>1, <1>2 DEF TokensDistinct
  <2>2. CASE u = w \/ v = w
    BY <2>2, <1>2, <1>4
  <2> QED BY <2>1, <2>2
<1>6. ASSUME NEW v \in Worker, NEW k \in Key, Holds(v, k)'
      PROVE  \/ v = w /\ k \in S
             \/ v # w /\ k \notin S /\ Holds(v, k)
  BY <1>2, <1>4, <1>6 DEF Holds
<1>7. ASSUME NEW v \in Worker, NEW k \in Key, Holds(v, k)'
      PROVE  /\ lease'[v][k].attempts = task'[k].attempts
             /\ LeaseOutlivesWork => ~task'[k].due /\ k \notin overtaken'[v]
  <2>1. CASE v = w /\ k \in S
    BY <2>1, <1>2, <1>4
  <2>2. CASE v # w /\ k \notin S /\ Holds(v, k)
    BY <2>2, <1>2 DEF LeaseSnapshotCurrent, GoodLeasesAreCurrent
  <2> QED BY <1>6, <1>7, <2>1, <2>2
<1>8. LeaseSnapshotCurrent' /\ GoodLeasesAreCurrent'
  BY <1>7 DEF LeaseSnapshotCurrent, GoodLeasesAreCurrent
<1>9. CapIsExact'
  BY <1>2, <1>4 DEF CapIsExact, FetchReady
<1>10. LeasesBelowCap'
  <2> SUFFICES ASSUME NEW v \in Worker, NEW k \in Key, lease'[v][k] # None
               PROVE  lease'[v][k].attempts < MaxAttempts
    BY DEF LeasesBelowCap
  <2>1. CASE v # w
    BY <2>1, <1>2 DEF LeasesBelowCap
  <2>2. CASE v = w
    BY <2>2, <1>1, <1>2, <1>4 DEF CapIsExact
  <2> QED BY <2>1, <2>2
<1> QED BY <1>3, <1>5, <1>8, <1>9, <1>10

(* Recording or dropping one lease: what it leaves of the other leases.    *)
LEMMA DropKeeps ==
    ASSUME TypeOK, NEW w \in Worker, NEW k \in Key, Drop(w, k)
    PROVE  /\ lease' \in [Worker -> [Key -> Lease \cup {None}]]
           /\ overtaken' \in [Worker -> SUBSET Key]
           /\ lease'[w][k] = None
           /\ \A v \in Worker, j \in Key :
                  /\ lease'[v][j] # None => lease'[v][j] = lease[v][j]
                  /\ overtaken'[v] \subseteq overtaken[v]
  BY DEF Drop, TypeOK

LEMMA DropIInv ==
    ASSUME IInv, NEW w \in Worker, NEW k \in Key, Drop(w, k),
           task' \in [Key -> Row \cup {None}],
           dead' \in [Key -> Nat],
           \A j \in Key \ {k} : task'[j] = task[j] /\ dead'[j] = dead[j],
           task'[k] = task[k] \/ \A v \in Worker : ~Holds(v, k)',
           task'[k] # None => task'[k].attempts < MaxAttempts,
           dead'[k] \in {0, MaxAttempts}
    PROVE  IInv'
<1> USE DEF IInv
<1>1. /\ TypeOK'
      /\ \A v \in Worker, j \in Key :
             /\ lease'[v][j] # None => lease'[v][j] = lease[v][j]
             /\ overtaken'[v] \subseteq overtaken[v]
  BY DropKeeps DEF TypeOK
<1>2. TokensDistinct' /\ LeasesBelowCap'
  BY <1>1 DEF TokensDistinct, LeasesBelowCap
<1>3. \A v \in Worker, j \in Key :
          Holds(v, j)' => /\ Holds(v, j)
                          /\ task'[j] = task[j]
                          /\ lease'[v][j] = lease[v][j]
  BY <1>1 DEF Holds
<1>4. LeaseSnapshotCurrent'
  BY <1>3 DEF LeaseSnapshotCurrent
<1>5. GoodLeasesAreCurrent'
  BY <1>1, <1>3 DEF GoodLeasesAreCurrent
<1>6. CapIsExact'
  BY DEF CapIsExact
<1> QED BY <1>1, <1>2, <1>4, <1>5, <1>6

LEMMA CompleteIInv ==
    ASSUME IInv, NEW w \in Worker, NEW k \in Key, Complete(w, k)
    PROVE  IInv'
  BY DropIInv DEF Complete, DeleteIfHeld, Holds, IInv, TypeOK, CapIsExact

LEMMA FailIInv ==
    ASSUME IInv, NEW w \in Worker, NEW k \in Key, Fail(w, k)
    PROVE  IInv'
<1> USE DEF IInv
<1>1. CASE ~Holds(w, k)
  BY <1>1, DropIInv DEF Fail, TypeOK, CapIsExact
<1>2. CASE Holds(w, k)
  <2>1. /\ task[k].attempts \in Nat
        /\ task[k].attempts + 1 < MaxAttempts
        /\ Fresh(k) \in Stamp
    BY <1>2, FreshIsNew, Fields, TaskQueueAssumption
    DEF Fail, AtCap, Holds, LeaseSnapshotCurrent
  <2>2. Failed(k) \in Row /\ task'[k] = Failed(k)
    BY <1>2, <2>1 DEF Fail, Failed, Row, TypeOK
  <2>3. \A v \in Worker : ~Holds(v, k)'
    <3>1. ASSUME NEW v \in Worker, lease'[v][k] # None
          PROVE  lease'[v][k].stamp # Fresh(k)
      BY <3>1, DropKeeps, FreshIsNew DEF Fail
    <3> QED BY <2>2, <3>1 DEF Holds, Failed
  <2> QED BY <1>2, <2>1, <2>2, <2>3, DropIInv DEF Fail, Failed, TypeOK, CapIsExact
<1> QED BY <1>1, <1>2

LEMMA DeadLetterIInv ==
    ASSUME IInv, NEW w \in Worker, NEW k \in Key, DeadLetter(w, k)
    PROVE  IInv'
<1>1. lease[w][k].attempts + 1 = MaxAttempts
  BY Fields, TaskQueueAssumption DEF DeadLetter, AtCap, IInv, LeasesBelowCap
<1> QED
  BY <1>1, TaskQueueAssumption, DropIInv
  DEF DeadLetter, DeleteIfHeld, Holds, IInv, TypeOK, CapIsExact

LEMMA AbandonLeasesIInv ==
    ASSUME IInv, NEW w \in Worker, NEW S \in SUBSET Key, AbandonLeases(w, S)
    PROVE  IInv'
<1> USE DEF IInv, AbandonLeases
<1>1. /\ TypeOK'
      /\ \A v \in Worker, j \in Key :
             /\ lease'[v][j] # None => lease'[v][j] = lease[v][j]
             /\ overtaken'[v] \subseteq overtaken[v]
  BY DEF TypeOK
<1>2. TokensDistinct' /\ LeasesBelowCap'
  BY <1>1 DEF TokensDistinct, LeasesBelowCap
<1>3. LeaseSnapshotCurrent' /\ GoodLeasesAreCurrent'
  BY <1>1 DEF LeaseSnapshotCurrent, GoodLeasesAreCurrent, Holds
<1>4. CapIsExact'
  BY DEF CapIsExact
<1> QED BY <1>1, <1>2, <1>3, <1>4

LEMMA StutterIInv ==
    ASSUME IInv, UNCHANGED vars
    PROVE  IInv'
  BY DEF vars, IInv, TypeOK, TokensDistinct, LeaseSnapshotCurrent, CapIsExact,
         LeasesBelowCap, GoodLeasesAreCurrent, Holds

LEMMA NextIInv ==
    ASSUME IInv, [Next]_vars
    PROVE  IInv'
<1>1. CASE Produce
  BY <1>1, EnqueueIInv DEF Produce, EnqueueMany, Key
<1>2. CASE Delete
  BY <1>2, DeleteRowsIInv DEF Delete, DeleteAllForEntity
<1>3. CASE Prune
  BY <1>3, DeleteRowsIInv, PruneDeadLettersIInv DEF Prune, PruneTasks
<1>4. CASE \E k \in Key : Expire(k)
  BY <1>4, ExpireIInv
<1>5. CASE \E w \in Worker : Fetch(w)
  BY <1>5, FetchReadyIInv DEF Fetch
<1>6. CASE \E w \in Worker : Abandon(w)
  BY <1>6, AbandonLeasesIInv DEF Abandon
<1>7. CASE \E w \in Worker, k \in Key : Record(w, k)
  BY <1>7, CompleteIInv, FailIInv, DeadLetterIInv DEF Record
<1>8. CASE UNCHANGED vars
  BY <1>8, StutterIInv
<1> QED BY <1>1, <1>2, <1>3, <1>4, <1>5, <1>6, <1>7, <1>8 DEF Next

--------------------------------------------------------------------------------
(* The inductive invariant holds in every reachable state: no interleaving *)
(* of requests, deletions, expiries, crashes and workers breaks it.        *)
THEOREM InductiveInvariant == Spec => []IInv
  BY InitIInv, NextIInv, PTL DEF Spec

(* Rows, dead letters and leases always have their types.                  *)
THEOREM TypeCorrect == Spec => []TypeOK
<1>1. IInv => TypeOK
  BY DEF IInv
<1> QED BY <1>1, InductiveInvariant, PTL

(* Two workers never both hold a token that a row still carries.           *)
THEOREM AtMostOneValidLease == Spec => []OneValidLease
<1>1. IInv => OneValidLease
  BY DEF IInv, TokensDistinct, OneValidLease, Holds
<1> QED BY <1>1, InductiveInvariant, PTL

(* A worker whose token matches has the row's number of attempts.          *)
THEOREM SnapshotIsCurrent == Spec => []LeaseSnapshotCurrent
<1>1. IInv => LeaseSnapshotCurrent
  BY DEF IInv
<1> QED BY <1>1, InductiveInvariant, PTL

(* Rows stay below MaxAttempts; dead letters record exactly MaxAttempts.   *)
THEOREM AttemptsCapIsExact == Spec => []CapIsExact
<1>1. IInv => CapIsExact
  BY DEF IInv
<1> QED BY <1>1, InductiveInvariant, PTL

(* When leases outlive the work, no recorded result removes a request that *)
(* arrived after the worker fetched the task.                              *)
THEOREM LeaseSafety == ASSUME LeaseOutlivesWork PROVE Spec => LeaseSafe
<1>1. ASSUME IInv, [Next]_vars, NEW w \in Worker, NEW k \in Key,
             Recorded(w, k), Removed(k)
      PROVE  k \notin overtaken[w]
  <2> USE <1>1 DEF Recorded, Removed
  <2>1. CASE \E v \in Worker, j \in Key : Record(v, j)
    <3>1. PICK v \in Worker, j \in Key : Record(v, j)
      BY <2>1
    <3>2. v = w /\ j = k
      BY <3>1 DEF IInv, TypeOK, Record, Complete, Fail, DeadLetter, Drop
    <3>3. Holds(w, k)
      BY <3>1, <3>2
      DEF IInv, TypeOK, Record, Complete, Fail, DeadLetter, DeleteIfHeld
    <3> QED BY <3>3, LeaseOutlivesWork DEF IInv, GoodLeasesAreCurrent
  <2>2. CASE ~\E v \in Worker, j \in Key : Record(v, j)
    <3>1. lease' = lease \/ task' = task \/ \E v \in Worker : Fetch(v)
      BY <2>2
      DEF Next, Produce, EnqueueMany, Enqueue, Delete, DeleteAllForEntity,
          DeleteRows, Prune, PruneTasks, PruneDeadLetters, Expire, Abandon,
          AbandonLeases, vars
    <3>2. \A v \in Worker, S \in SUBSET Key : FetchReady(v, S) => FALSE
      BY DEF FetchReady, Idle, IInv, TypeOK, Leased
    <3> QED BY <3>1, <3>2 DEF Fetch
  <2> QED BY <2>1, <2>2
<1>2. IInv /\ [Next]_vars =>
        [\A w \in Worker, k \in Key :
            Recorded(w, k) /\ Removed(k) => k \notin overtaken[w]]_vars
  BY <1>1
<1> QED BY <1>2, InductiveInvariant, PTL DEF Spec, LeaseSafe

--------------------------------------------------------------------------------
(* TaskQueue implements TaskLifecycle, for every value of its constants.   *)

Tries == [k \in Key |-> IF task[k] = None THEN None ELSE task[k].attempts]
Claims == [k \in Key |-> {w \in Worker : Holds(w, k)}]
Buried == {k \in Key : dead[k] # 0}

LEMMA InitRefines == Init => Lifecycle!Init
  BY DEF Init, Lifecycle!Init, Holds

(* A row's attempts are a number, so a task is absent in the abstraction   *)
(* exactly when its row is.                                                *)
LEMMA TriesIsNone ==
    ASSUME TypeOK, NEW k \in Key
    PROVE  Tries[k] = None <=> task[k] = None
  BY Fields, TaskQueueAssumption DEF Tries

(* A row built by a statement is not None.                                 *)
LEMMA NewRow ==
    ASSUME NEW s \in Stamp, NEW d \in BOOLEAN, NEW n \in Nat
    PROVE  [stamp |-> s, due |-> d, attempts |-> n] # None
<1>1. [stamp |-> s, due |-> d, attempts |-> n] \in Row
  BY DEF Row
<1> QED BY <1>1, TaskQueueAssumption

LEMMA EnqueueRefines ==
    ASSUME IInv, NEW S \in SUBSET Key, Enqueue(S)
    PROVE  Lifecycle!Submit
<1>1. ASSUME NEW k \in Key
      PROVE  Tries'[k] = IF k \in S /\ Tries[k] = None THEN 0 ELSE Tries[k]
  <2>1. CASE k \notin S \/ (task[k] # None /\ task[k].due)
    <3>1. task'[k] = task[k]
      BY <2>1 DEF Enqueue, Upserted
    <3> QED BY <2>1, <3>1, TriesIsNone DEF IInv, Tries
  <2>2. CASE k \in S /\ task[k] = None
    <3>1. task'[k] = [stamp |-> Fresh(k), due |-> TRUE, attempts |-> 0]
      BY <2>2 DEF Enqueue, Upserted
    <3>2. Fresh(k) \in Stamp
      BY <2>2, FreshIsNew DEF Enqueue, IInv
    <3>3. task'[k] # None
      BY <3>1, <3>2, NewRow
    <3>4. task'[k].attempts = 0
      BY <3>1
    <3> QED BY <2>2, <3>3, <3>4, TriesIsNone DEF IInv, Tries
  <2>3. CASE k \in S /\ task[k] # None /\ ~task[k].due
    <3>1. task'[k] = [stamp |-> Fresh(k), due |-> TRUE, attempts |-> task[k].attempts]
      BY <2>3 DEF Enqueue, Upserted
    <3>2. Fresh(k) \in Stamp /\ task[k].attempts \in Nat
      BY <2>3, FreshIsNew, Fields DEF Enqueue, IInv
    <3>3. task'[k] # None
      BY <3>1, <3>2, NewRow
    <3>4. task'[k].attempts = task[k].attempts
      BY <3>1
    <3> QED BY <2>3, <3>3, <3>4, TriesIsNone DEF IInv, Tries
  <2> QED BY <2>1, <2>2, <2>3
<1>2. ASSUME NEW k \in Key
      PROVE  \/ Claims'[k] = Claims[k]
             \/ k \in S /\ Claims'[k] = {}
  <2>1. CASE k \notin S \/ (task[k] # None /\ task[k].due)
    <3>1. task'[k] = task[k] /\ lease' = lease
      BY <2>1 DEF Enqueue, Upserted
    <3> QED BY <3>1 DEF Claims, Holds
  <2>2. CASE k \in S /\ (task[k] # None => ~task[k].due)
    <3>1. task'[k].stamp = Fresh(k) /\ lease' = lease /\ CanStamp(k)
      BY <2>2 DEF Enqueue, Upserted
    <3>2. \A w \in Worker : ~Holds(w, k)'
      BY <3>1, FreshIsNew DEF IInv, Holds
    <3> QED BY <2>2, <3>2 DEF Claims
  <2> QED BY <2>1, <2>2
<1>3. Tries' = [k \in Key |-> IF k \in S /\ Tries[k] = None THEN 0 ELSE Tries[k]]
  BY <1>1 DEF Tries
<1>4. Claims' \in [Key -> SUBSET Worker]
  BY DEF Claims
<1>5. UNCHANGED Buried
  BY DEF Enqueue, Buried
<1> QED BY <1>2, <1>3, <1>4, <1>5 DEF Lifecycle!Submit, Tries, Claims, Buried

(* What a removed or untouched key looks like in the abstraction.          *)
LEMMA Mapped ==
    ASSUME NEW k \in Key
    PROVE  /\ task'[k] = None => Tries'[k] = None /\ Claims'[k] = {}
           /\ task'[k] = task[k] => Tries'[k] = Tries[k]
           /\ task'[k] = task[k] /\ (\A w \in Worker : lease'[w][k] = lease[w][k])
                 => Claims'[k] = Claims[k]
  BY DEF Tries, Claims, Holds

LEMMA DeleteRowsRefines ==
    ASSUME NEW S \in SUBSET Key, DeleteRows(S)
    PROVE  Lifecycle!Withdraw
<1>1. /\ Tries' = [k \in Key |-> IF k \in S THEN None ELSE Tries[k]]
      /\ Claims' = [k \in Key |-> IF k \in S THEN {} ELSE Claims[k]]
  BY Mapped DEF DeleteRows, Tries, Claims
<1>2. UNCHANGED Buried
  BY DEF DeleteRows, Buried
<1> QED BY <1>1, <1>2
        DEF Lifecycle!Withdraw, Lifecycle!Remove, Tries, Claims, Buried

LEMMA PruneDeadLettersRefines ==
    ASSUME NEW active \in SUBSET Model, PruneDeadLetters(active)
    PROVE  Lifecycle!Forget
<1>1. UNCHANGED <<Tries, Claims>>
  BY DEF PruneDeadLetters, Tries, Claims, Holds
<1>2. Buried' = Buried \ Pruned(active)
  BY DEF PruneDeadLetters, Buried
<1>3. Pruned(active) \in SUBSET Key
  BY DEF Pruned, Key
<1> QED BY <1>1, <1>2, <1>3 DEF Lifecycle!Forget, Tries, Claims, Buried

LEMMA ExpireRefines ==
    ASSUME IInv, NEW k \in Key, Expire(k)
    PROVE  UNCHANGED <<Tries, Claims, Buried>>
<1>1. /\ task'[k] # None
      /\ task'[k].stamp = task[k].stamp
      /\ task'[k].attempts = task[k].attempts
      /\ \A j \in Key \ {k} : task'[j] = task[j]
  BY Fields, TaskQueueAssumption DEF IInv, TypeOK, Row, Expire
<1> QED BY <1>1 DEF Expire, Tries, Claims, Holds, Buried

LEMMA FetchReadyRefines ==
    ASSUME IInv, NEW w \in Worker, NEW S \in SUBSET Key, FetchReady(w, S)
    PROVE  Lifecycle!Claim(w)
<1>1. TypeOK
  BY DEF IInv
<1>2. ASSUME NEW k \in S
      PROVE  Tries'[k] = Tries[k] /\ Tries[k] # None /\ Claims'[k] = {w}
  <2>1. /\ task'[k] # None /\ task[k] # None
        /\ task'[k].attempts = task[k].attempts
    BY <1>1, FetchedKey
  <2>2. Holds(w, k)'
    BY <1>1, FetchedKey DEF Holds
  <2>3. \A v \in Worker \ {w} : ~Holds(v, k)'
    BY <1>1, FetchedKey DEF Holds
  <2> QED BY <1>1, <2>1, <2>2, <2>3, TriesIsNone DEF Tries, Claims
<1>3. ASSUME NEW k \in Key \ S
      PROVE  Tries'[k] = Tries[k] /\ Claims'[k] = Claims[k]
  <2>1. task'[k] = task[k] /\ \A v \in Worker : lease'[v][k] = lease[v][k]
    BY <1>1 DEF FetchReady, TypeOK, Idle
  <2> QED BY <2>1, Mapped
<1>4. UNCHANGED <<Tries, Buried>>
  BY <1>2, <1>3 DEF FetchReady, Tries, Buried
<1>5. Claims' = [k \in Key |-> IF k \in S THEN {w} ELSE Claims[k]]
  BY <1>2, <1>3 DEF Claims
<1> QED BY <1>2, <1>4, <1>5 DEF Lifecycle!Claim, Tries, Claims, Buried

(* Recording a result for a key leaves the claims on other keys alone.     *)
LEMMA OtherKeys ==
    ASSUME TypeOK, NEW w \in Worker, NEW k \in Key, Drop(w, k),
           \A j \in Key \ {k} : task'[j] = task[j]
    PROVE  \A j \in Key \ {k} : Tries'[j] = Tries[j] /\ Claims'[j] = Claims[j]
<1>1. \A v \in Worker, j \in Key \ {k} : lease'[v][j] = lease[v][j]
  BY DEF Drop, TypeOK
<1> QED BY <1>1, Mapped

(* A worker whose token no longer matches changes no task and no claim.    *)
LEMMA LostLease ==
    ASSUME TypeOK, NEW w \in Worker, NEW k \in Key, Drop(w, k),
           ~Holds(w, k), task' = task
    PROVE  UNCHANGED <<Tries, Claims>>
<1>1. \A v \in Worker : Holds(v, k)' <=> Holds(v, k)
  BY DEF Drop, TypeOK, Holds
<1>2. Claims'[k] = Claims[k] /\ Tries'[k] = Tries[k]
  BY <1>1 DEF Claims, Tries
<1> QED BY <1>2, OtherKeys DEF Claims, Tries

(* The claim of a worker whose token matches is the only one.              *)
LEMMA SoleClaim ==
    ASSUME IInv, NEW w \in Worker, NEW k \in Key, Holds(w, k)
    PROVE  Claims[k] = {w}
  BY DEF IInv, TokensDistinct, Claims, Holds

(* A matching result that deletes the row.                                 *)
LEMMA HeldRowRemoved ==
    ASSUME IInv, NEW w \in Worker, NEW k \in Key, Drop(w, k),
           Holds(w, k), DeleteIfHeld(w, k)
    PROVE  /\ Claims[k] = {w}
           /\ Tries' = [j \in Key |-> IF j \in {k} THEN None ELSE Tries[j]]
           /\ Claims' = [j \in Key |-> IF j \in {k} THEN {} ELSE Claims[j]]
<1>1. task'[k] = None /\ \A j \in Key \ {k} : task'[j] = task[j]
  BY DEF DeleteIfHeld, IInv, TypeOK
<1>2. \A j \in Key \ {k} : Tries'[j] = Tries[j] /\ Claims'[j] = Claims[j]
  BY <1>1, OtherKeys DEF IInv
<1>3. Tries'[k] = None /\ Claims'[k] = {}
  BY <1>1, Mapped
<1> QED BY <1>2, <1>3, SoleClaim DEF Tries, Claims

LEMMA CompleteRefines ==
    ASSUME IInv, NEW w \in Worker, NEW k \in Key, Complete(w, k)
    PROVE  Lifecycle!Finish(w, k) \/ UNCHANGED <<Tries, Claims, Buried>>
<1>1. UNCHANGED Buried
  BY DEF Complete, Buried
<1>2. CASE Holds(w, k)
  BY <1>1, <1>2, HeldRowRemoved
  DEF Complete, Lifecycle!Finish, Lifecycle!Remove, Tries, Claims, Buried
<1>3. CASE ~Holds(w, k)
  BY <1>1, <1>3, LostLease DEF Complete, DeleteIfHeld, IInv, TypeOK
<1> QED BY <1>2, <1>3

LEMMA FailRefines ==
    ASSUME IInv, NEW w \in Worker, NEW k \in Key, Fail(w, k)
    PROVE  Lifecycle!Retry(w, k) \/ UNCHANGED <<Tries, Claims, Buried>>
<1>1. UNCHANGED Buried
  BY DEF Fail, Buried
<1>2. CASE Holds(w, k)
  <2>1. /\ task[k] # None
        /\ task[k].attempts \in Nat
        /\ task[k].attempts + 1 < MaxAttempts
    BY <1>2, Fields, TaskQueueAssumption
    DEF IInv, Fail, AtCap, Holds, LeaseSnapshotCurrent
  <2>2. /\ task'[k] = [stamp |-> Fresh(k), due |-> FALSE,
                       attempts |-> task[k].attempts + 1]
        /\ \A j \in Key \ {k} : task'[j] = task[j]
    BY <1>2 DEF Fail, Failed, IInv, TypeOK
  <2>3. Fresh(k) \in Stamp
    BY FreshIsNew DEF Fail, IInv
  <2>4. /\ task'[k] # None
        /\ task'[k].attempts = task[k].attempts + 1
        /\ task'[k].stamp = Fresh(k)
    <3>1. task'[k] # None
      <4>1. task[k].attempts + 1 \in Nat
        BY <2>1
      <4> QED BY <2>2, <2>3, <4>1, NewRow
    <3> QED BY <2>2, <3>1
  <2>5. \A v \in Worker : ~Holds(v, k)'
    <3>1. \A v \in Worker : lease'[v][k] # None => lease'[v][k].stamp # Fresh(k)
      BY FreshIsNew, DropKeeps DEF Fail, IInv
    <3> QED BY <2>4, <3>1 DEF Holds
  <2>6. Tries'[k] = Tries[k] + 1 /\ Tries[k] + 1 < MaxAttempts /\ Claims'[k] = {}
    BY <2>1, <2>4, <2>5 DEF Tries, Claims
  <2>7. \A j \in Key \ {k} : Tries'[j] = Tries[j] /\ Claims'[j] = Claims[j]
    BY <2>2, OtherKeys DEF Fail, IInv
  <2>8. /\ Tries' = [Tries EXCEPT ![k] = Tries[k] + 1]
        /\ Claims' = [Claims EXCEPT ![k] = {}]
    BY <2>6, <2>7 DEF Tries, Claims
  <2> QED BY <1>1, <1>2, <2>6, <2>8, SoleClaim
          DEF Lifecycle!Retry, Tries, Claims, Buried
<1>3. CASE ~Holds(w, k)
  BY <1>1, <1>3, LostLease DEF Fail, IInv, TypeOK
<1> QED BY <1>2, <1>3

LEMMA DeadLetterRefines ==
    ASSUME IInv, NEW w \in Worker, NEW k \in Key, DeadLetter(w, k)
    PROVE  Lifecycle!Bury(w, k) \/ Lifecycle!Report(k)
<1>1. lease[w][k].attempts + 1 = MaxAttempts
  BY Fields, TaskQueueAssumption DEF DeadLetter, AtCap, IInv, LeasesBelowCap
<1>2. Buried' = Buried \cup {k}
  BY <1>1, TaskQueueAssumption DEF DeadLetter, Buried, IInv, TypeOK
<1>3. CASE Holds(w, k)
  <2>1. Tries[k] + 1 = MaxAttempts
    BY <1>1, <1>3 DEF Tries, Holds, IInv, LeaseSnapshotCurrent
  <2> QED BY <1>2, <1>3, <2>1, HeldRowRemoved
          DEF DeadLetter, Lifecycle!Bury, Lifecycle!Remove, Tries, Claims, Buried
<1>4. CASE ~Holds(w, k)
  <2>1. UNCHANGED <<Tries, Claims>>
    BY <1>4, LostLease DEF DeadLetter, DeleteIfHeld, IInv, TypeOK
  <2> QED BY <1>2, <2>1 DEF Lifecycle!Report, Tries, Claims, Buried
<1> QED BY <1>3, <1>4

LEMMA AbandonLeasesRefines ==
    ASSUME IInv, NEW w \in Worker, NEW S \in SUBSET Key, AbandonLeases(w, S)
    PROVE  Lifecycle!Release(w)
<1>1. UNCHANGED <<Tries, Buried>>
  BY DEF AbandonLeases, Tries, Buried
<1>2. ASSUME NEW k \in Key
      PROVE  Claims'[k] = IF k \in S THEN Claims[k] \ {w} ELSE Claims[k]
  <2>1. /\ task' = task
        /\ \A v \in Worker : lease'[v][k] =
              IF v = w /\ k \in S THEN None ELSE lease[v][k]
    BY DEF AbandonLeases, IInv, TypeOK
  <2> QED BY <2>1 DEF Claims, Holds
<1>3. Claims' = [k \in Key |-> IF k \in S THEN Claims[k] \ {w} ELSE Claims[k]]
  BY <1>2 DEF Claims
<1> QED BY <1>1, <1>3 DEF Lifecycle!Release, Tries, Claims, Buried

LEMMA NextRefines ==
    ASSUME IInv, [Next]_vars
    PROVE  [Lifecycle!Next]_(Lifecycle!vars)
<1>1. CASE Produce
  BY <1>1, EnqueueRefines DEF Produce, EnqueueMany, Key, Lifecycle!Next
<1>2. CASE Delete
  <2>1. \A e \in Entity : {e} \X Model \in SUBSET Key
    BY DEF Key
  <2> QED BY <1>2, <2>1, DeleteRowsRefines
          DEF Delete, DeleteAllForEntity, Lifecycle!Next
<1>3. CASE Prune
  <2>1. \A active \in SUBSET Model : Pruned(active) \in SUBSET Key
    BY DEF Pruned, Key
  <2> QED BY <1>3, <2>1, DeleteRowsRefines, PruneDeadLettersRefines
          DEF Prune, PruneTasks, Lifecycle!Next
<1>4. CASE \E k \in Key : Expire(k)
  BY <1>4, ExpireRefines DEF Lifecycle!vars, Tries, Claims, Buried
<1>5. CASE \E w \in Worker : Fetch(w)
  BY <1>5, FetchReadyRefines DEF Fetch, Lifecycle!Next
<1>6. CASE \E w \in Worker : Abandon(w)
  BY <1>6, AbandonLeasesRefines DEF Abandon, Lifecycle!Next
<1>7. CASE \E w \in Worker, k \in Key : Record(w, k)
  BY <1>7, CompleteRefines, FailRefines, DeadLetterRefines
  DEF Record, Lifecycle!Next, Lifecycle!vars, Tries, Claims, Buried
<1>8. CASE UNCHANGED vars
  BY <1>8 DEF vars, Lifecycle!vars, Holds
<1> QED BY <1>1, <1>2, <1>3, <1>4, <1>5, <1>6, <1>7, <1>8 DEF Next

(* The lease queue implements the claim queue: tasks are finished, counted *)
(* as failed and buried only by the one worker whose token still matches.  *)
THEOREM Refinement == Spec => ImplementsLifecycle
  BY InitRefines, NextRefines, InductiveInvariant, PTL
  DEF Spec, ImplementsLifecycle, Lifecycle!Spec
================================================================================
