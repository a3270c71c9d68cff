---------------------------- MODULE EmbedDrainProofs ----------------------------
(* The drain, for every number of workers, keys and request slots: what    *)
(* the queue's theorems give it, its types, and each worker's own record   *)
(* of its batch.                                                           *)
EXTENDS EmbedDrain, TaskQueueProofs, FiniteSetTheorems

LEMMA InitIsQueueInit == DrainInit => Init
  BY DEF DrainInit

(* Every step of the drain is a step of the queue or leaves it alone.      *)
LEMMA WorkerStepIsQueueStep ==
    ASSUME NEW w \in Worker, WorkerStep(w)
    PROVE  [Next]_vars
<1>1. CASE FetchBatch(w)
  BY <1>1 DEF FetchBatch, Next, Fetch
<1>2. CASE AbortBatch(w)
  BY <1>2 DEF AbortBatch, DropBatch, Next, Abandon
<1>3. ASSUME NEW e \in Entity, BuildSemanticDocument(w, e) \/ ListAssetURLs(w, e)
      PROVE  UNCHANGED vars
  BY <1>3 DEF BuildSemanticDocument, ListAssetURLs
<1>4. ASSUME NEW m \in Model, SendText(w, m)
      PROVE  UNCHANGED vars
  BY <1>4 DEF SendText, Dispatch
<1>5. ASSUME NEW k \in Key, CompleteEmpty(w, k)
      PROVE  Next
  BY <1>5 DEF CompleteEmpty, Next, Record, Abandon
<1>6. ASSUME NEW k \in Key, SendVL(w, k) \/ Store(w, k)
      PROVE  UNCHANGED vars
  BY <1>6 DEF SendVL, Dispatch, Store
<1>7. ASSUME NEW C \in calls[w], Answer(w, C)
      PROVE  UNCHANGED vars
  BY <1>7 DEF Answer
<1>8. ASSUME NEW C \in calls[w], NEW k \in Key, HandleTaskResult(w, C, k)
      PROVE  Next
  BY <1>8 DEF HandleTaskResult, Outcome, Next, Record, Abandon
<1> QED
  BY <1>1, <1>2, <1>3, <1>4, <1>5, <1>6, <1>7, <1>8 DEF WorkerStep

(* A worker reads the host and writes nothing of it.                       *)
LEMMA WorkerStepLeavesHost ==
    ASSUME NEW w \in Worker, WorkerStep(w)
    PROVE  UNCHANGED <<host, assets, edits, owed, active>>
  BY DEF WorkerStep, FetchBatch, AbortBatch, BuildSemanticDocument, ListAssetURLs,
         SendText, CompleteEmpty, SendVL, Dispatch, Store, Answer, HandleTaskResult,
         hostVars

LEMMA StepIsQueueStep == [DrainNext]_drainVars => [Next]_vars
<1> SUFFICES ASSUME [DrainNext]_drainVars PROVE [Next]_vars
  OBVIOUS
<1>1. CASE \E e \in Entity : HostEdit(e)
  BY <1>1 DEF HostEdit
<1>2. CASE \E E \in SUBSET Entity, m \in Model : Request(E, m)
  BY <1>2 DEF Request, Next, Produce
<1>3. CASE \E k \in Key : DrainExpire(k)
  BY <1>3 DEF DrainExpire, Next
<1>4. CASE \E w \in Worker : WorkerStep(w)
  BY <1>4, WorkerStepIsQueueStep
<1>5. CASE UNCHANGED drainVars
  BY <1>5 DEF drainVars
<1> QED BY <1>1, <1>2, <1>3, <1>4, <1>5 DEF DrainNext

(* The drain uses the queue only through its operations: it implements the *)
(* queue's specification, whatever its own batching and failures do.       *)
THEOREM DrainImplementsQueue == DrainSpec => Spec
  BY InitIsQueueInit, StepIsQueueStep, PTL DEF DrainSpec, Spec

(* So the queue's inductive invariant holds while batches are drained.     *)
THEOREM DrainKeepsQueueInvariant == DrainSpec => []IInv
  BY DrainImplementsQueue, InductiveInvariant, PTL

--------------------------------------------------------------------------------
(* A request counts as pending until its result is recorded.               *)
Pending == {"sent", "embedded", "stored", "failed"}

LEMMA InFlightMeansPending ==
    \A w \in Worker : InFlight(w) = {k \in Key : stage[w][k] \in Pending}
  BY DEF InFlight, Pending, At

LEMMA MoveEffect ==
    ASSUME DrainTypeOK, NEW w \in Worker, NEW S, NEW st \in Stage, Move(w, S, st)
    PROVE  /\ stage' \in [Worker -> [Key -> Stage]]
           /\ \A v \in Worker, k \in Key :
                 stage'[v][k] = IF v = w /\ k \in S THEN st ELSE stage[v][k]
  BY DEF Move, DrainTypeOK

LEMMA DoneEffect ==
    ASSUME DrainTypeOK, NEW w \in Worker, NEW k \in Key, Done(w, k)
    PROVE  /\ stage' \in [Worker -> [Key -> Stage]]
           /\ \A v \in Worker, j \in Key :
                 stage'[v][j] = IF v = w /\ j = k THEN "none" ELSE stage[v][j]
           /\ doc' \in [Worker -> [Key -> 0 .. edits]]
           /\ \A v \in Worker, j \in Key :
                 doc'[v][j] = IF v = w /\ j = k THEN 0 ELSE doc[v][j]
<1>1. "none" \in Stage /\ edits \in Nat
  BY EmbedDrainAssumption DEF Stage, DrainTypeOK
<1>2. doc' \in [Worker -> [Key -> 0 .. edits]]
  BY <1>1 DEF Done, DrainTypeOK
<1>3. \A v \in Worker, j \in Key :
         doc'[v][j] = IF v = w /\ j = k THEN 0 ELSE doc[v][j]
  BY DEF Done, DrainTypeOK
<1>4. Move(w, {k}, "none")
  BY DEF Done
<1> QED BY <1>1, <1>2, <1>3, <1>4, MoveEffect

LEMMA DispatchEffect ==
    ASSUME DrainTypeOK, NEW w \in Worker, NEW C \in SUBSET Key, Dispatch(w, C)
    PROVE  /\ stage' \in [Worker -> [Key -> Stage]]
           /\ \A v \in Worker, k \in Key :
                 stage'[v][k] = IF v = w /\ k \in C THEN "sent" ELSE stage[v][k]
           /\ calls' \in [Worker -> SUBSET SUBSET Key]
           /\ \A v \in Worker :
                 calls'[v] = IF v = w THEN calls[w] \cup {C} ELSE calls[v]
           /\ HasSlot(w)
           /\ UNCHANGED <<vars, hostVars, vec, doc>>
<1>1. "sent" \in Stage /\ Move(w, C, "sent")
  BY DEF Stage, Dispatch
<1>2. calls' = [calls EXCEPT ![w] = calls[w] \cup {C}]
  BY DEF Dispatch
<1>3. /\ calls' \in [Worker -> SUBSET SUBSET Key]
      /\ \A v \in Worker :
            calls'[v] = IF v = w THEN calls[w] \cup {C} ELSE calls[v]
  BY <1>2 DEF DrainTypeOK
<1> QED BY <1>1, <1>3, MoveEffect DEF Dispatch

--------------------------------------------------------------------------------
(* Types.                                                                  *)

LEMMA InitTypes == DrainInit => DrainTypeOK
<1> SUFFICES ASSUME DrainInit PROVE DrainTypeOK
  OBVIOUS
<1>1. TypeOK
  BY InitIInv DEF DrainInit, IInv
<1>2. 0 \in 0 .. edits /\ edits \in 0 .. MaxEdits
  BY EmbedDrainAssumption DEF DrainInit
<1> QED BY <1>1, <1>2 DEF DrainInit, DrainTypeOK, Stage

LEMMA HostEditTypes ==
    ASSUME DrainTypeOK, NEW e \in Entity, HostEdit(e)
    PROVE  DrainTypeOK'
<1>1. edits \in Nat /\ edits' \in 0 .. MaxEdits /\ edits' = edits + 1
  BY EmbedDrainAssumption DEF DrainTypeOK, HostEdit
<1>2. 0 .. edits \subseteq 0 .. edits' /\ {0, edits + 1} \subseteq 0 .. edits'
  BY <1>1
<1>3. host' \in [Entity -> 0 .. edits'] /\ assets' \in [Entity -> BOOLEAN]
  BY <1>2 DEF DrainTypeOK, HostEdit
<1>4. owed' \subseteq Key
  BY DEF DrainTypeOK, HostEdit, Key
<1>5. vec \in [Key -> 0 .. edits'] /\ doc \in [Worker -> [Key -> 0 .. edits']]
  BY <1>2 DEF DrainTypeOK
<1> QED BY <1>1, <1>3, <1>4, <1>5
        DEF DrainTypeOK, HostEdit, TypeOK, vars, workVars

LEMMA BuildTypes ==
    ASSUME DrainTypeOK, NEW w \in Worker, NEW e \in Entity,
           BuildSemanticDocument(w, e)
    PROVE  DrainTypeOK'
<1> DEFINE S == {k \in At(w, "leased") : k[1] = e}
<1>1. /\ stage' = [stage EXCEPT ![w] =
            [k \in Key |-> IF k \notin S THEN stage[w][k]
                           ELSE IF IsVLModel(w, k[2]) THEN "read" ELSE "ready"]]
      /\ doc' = [doc EXCEPT ![w] =
            [k \in Key |-> IF k \in S THEN host[e] ELSE doc[w][k]]]
      /\ UNCHANGED <<vars, hostVars, vec, calls>>
  BY DEF BuildSemanticDocument, ReadDocument, At
<1>2. stage' \in [Worker -> [Key -> Stage]]
  BY <1>1 DEF DrainTypeOK, Stage
<1>3. doc' \in [Worker -> [Key -> 0 .. edits]]
  BY <1>1 DEF DrainTypeOK
<1> QED BY <1>1, <1>2, <1>3 DEF DrainTypeOK, TypeOK, vars, hostVars

LEMMA ListAssetsTypes ==
    ASSUME DrainTypeOK, NEW w \in Worker, NEW e \in Entity, ListAssetURLs(w, e)
    PROVE  DrainTypeOK'
<1> DEFINE S == {k \in At(w, "read") : k[1] = e}
<1>1. /\ Move(w, S, "ready")
      /\ doc' = [doc EXCEPT ![w] =
            [k \in Key |-> IF k \in S /\ ~assets[e] THEN 0 ELSE doc[w][k]]]
      /\ UNCHANGED <<vars, hostVars, vec, calls>>
  BY DEF ListAssetURLs
<1>2. 0 \in 0 .. edits
  BY EmbedDrainAssumption DEF DrainTypeOK
<1>3. doc' \in [Worker -> [Key -> 0 .. edits]]
  BY <1>1, <1>2 DEF DrainTypeOK
<1>4. stage' \in [Worker -> [Key -> Stage]]
  BY <1>1, MoveEffect DEF Stage
<1> QED BY <1>1, <1>3, <1>4 DEF DrainTypeOK, TypeOK, vars, hostVars

LEMMA WorkerStepTypes ==
    ASSUME DrainTypeOK, TypeOK', NEW w \in Worker, WorkerStep(w)
    PROVE  DrainTypeOK'
<1>1. 0 \in 0 .. edits /\ edits \in Nat
  BY EmbedDrainAssumption DEF DrainTypeOK
<1>2. CASE FetchBatch(w)
  <2>1. stage' \in [Worker -> [Key -> Stage]]
    BY <1>2, MoveEffect DEF FetchBatch, Stage
  <2> QED BY <1>2, <2>1 DEF FetchBatch, hostVars, DrainTypeOK
<1>3. CASE AbortBatch(w)
  <2>1. stage' \in [Worker -> [Key -> Stage]]
    BY <1>3, MoveEffect DEF AbortBatch, DropBatch, Stage
  <2>2. /\ doc' \in [Worker -> [Key -> 0 .. edits]]
        /\ calls' \in [Worker -> SUBSET SUBSET Key]
    BY <1>1, <1>3 DEF AbortBatch, DropBatch, DrainTypeOK
  <2> QED BY <1>3, <2>1, <2>2 DEF AbortBatch, hostVars, DrainTypeOK
<1>4. ASSUME NEW e \in Entity, BuildSemanticDocument(w, e) \/ ListAssetURLs(w, e)
      PROVE  DrainTypeOK'
  BY <1>4, BuildTypes, ListAssetsTypes
<1>5. ASSUME NEW C \in SUBSET Key, Dispatch(w, C)
      PROVE  DrainTypeOK'
  BY <1>5, DispatchEffect DEF hostVars, DrainTypeOK
<1>6. ASSUME NEW m \in Model, SendText(w, m)
      PROVE  DrainTypeOK'
  BY <1>5, <1>6 DEF SendText, TextReady, At
<1>7. ASSUME NEW k \in Key, SendVL(w, k)
      PROVE  DrainTypeOK'
  BY <1>5, <1>7 DEF SendVL
<1>8. ASSUME NEW k \in Key, CompleteEmpty(w, k)
      PROVE  DrainTypeOK'
  BY <1>8, DoneEffect DEF CompleteEmpty, hostVars, DrainTypeOK
<1>9. ASSUME NEW C \in calls[w], Answer(w, C)
      PROVE  DrainTypeOK'
  <2>1. stage' \in [Worker -> [Key -> Stage]]
    BY <1>9, MoveEffect DEF Answer, Stage
  <2> QED BY <1>9, <2>1 DEF Answer, hostVars, DrainTypeOK
<1>10. ASSUME NEW k \in Key, Store(w, k)
       PROVE  DrainTypeOK'
  <2>1. stage' \in [Worker -> [Key -> Stage]]
    BY <1>10, MoveEffect DEF Store, Stage
  <2>2. vec' \in [Key -> 0 .. edits]
    BY <1>10 DEF Store, Stored, DrainTypeOK
  <2> QED BY <1>10, <2>1, <2>2 DEF Store, hostVars, DrainTypeOK
<1>11. ASSUME NEW C \in calls[w], NEW k \in Key, HandleTaskResult(w, C, k)
       PROVE  DrainTypeOK'
  <2>1. calls' \in [Worker -> SUBSET SUBSET Key]
    BY <1>11 DEF HandleTaskResult, DrainTypeOK
  <2> QED BY <1>11, <2>1, DoneEffect DEF HandleTaskResult, hostVars, DrainTypeOK
<1> QED BY <1>2, <1>3, <1>4, <1>6, <1>7, <1>8, <1>9, <1>10, <1>11 DEF WorkerStep

LEMMA RequestTypes ==
    ASSUME DrainTypeOK, TypeOK', NEW E, NEW m, Request(E, m)
    PROVE  DrainTypeOK'
  BY DEF Request, workVars, DrainTypeOK

LEMMA ExpireTypes ==
    ASSUME DrainTypeOK, TypeOK', NEW k \in Key, DrainExpire(k)
    PROVE  DrainTypeOK'
  BY DEF DrainExpire, hostVars, workVars, DrainTypeOK

LEMMA StepTypes ==
    ASSUME DrainTypeOK, TypeOK', [DrainNext]_drainVars
    PROVE  DrainTypeOK'
<1>1. ASSUME NEW w \in Worker, WorkerStep(w)
      PROVE  DrainTypeOK'
  BY <1>1, WorkerStepTypes
<1>2. CASE UNCHANGED drainVars
  BY <1>2 DEF drainVars, hostVars, workVars, DrainTypeOK
<1> QED BY <1>1, <1>2, HostEditTypes, RequestTypes, ExpireTypes DEF DrainNext

(* Every variable of the drain keeps its type: versions never pass the     *)
(* newest edit, requests in flight are sets of keys.                       *)
THEOREM DrainTypeCorrect == DrainSpec => []DrainTypeOK
<1>1. IInv => TypeOK
  BY DEF IInv
<1> QED BY <1>1, InitTypes, StepTypes, DrainKeepsQueueInvariant, PTL DEF DrainSpec

--------------------------------------------------------------------------------
(* The strengthening of BatchAccounted.  Requests are disjoint, because a  *)
(* key is ready when it is sent and no key of an older request is; a       *)
(* request never mentions keys of an earlier batch, because it ends with   *)
(* its last result and the next batch waits for that.                      *)
Batch(w) ==
    /\ \A k \in Key : stage[w][k] = "none" <=> lease[w][k] = None
    /\ \A C \in calls[w] : \A k \in C : stage[w][k] \in Pending \cup {"none"}
    /\ \A C \in calls[w] : \E k \in C : stage[w][k] \in Pending
    /\ \A k \in Key : stage[w][k] \in Pending => \E C \in calls[w] : k \in C
    /\ \A C, D \in calls[w] : C # D => C \cap D = {}
    /\ IsFiniteSet(calls[w])
    /\ Cardinality(calls[w]) <= MaxConcurrent

BatchInv == \A w \in Worker : Batch(w)

LEMMA RecordEffect ==
    ASSUME TypeOK, NEW w \in Worker, NEW k \in Key,
           \/ Complete(w, k) \/ Fail(w, k) \/ DeadLetter(w, k)
           \/ AbandonLeases(w, {k})
    PROVE  \A v \in Worker, j \in Key :
              lease'[v][j] = IF v = w /\ j = k THEN None ELSE lease[v][j]
<1>1. CASE Drop(w, k)
  BY <1>1 DEF Drop, TypeOK
<1>2. CASE AbandonLeases(w, {k})
  BY <1>2 DEF AbandonLeases, TypeOK
<1> QED BY <1>1, <1>2 DEF Complete, Fail, DeadLetter

(* A step that leaves a worker's leases and requests alone, and every key  *)
(* of its batch on the same side of dispatch and of recording.             *)
LEMMA SameSide ==
    ASSUME DrainTypeOK, NEW w \in Worker, Batch(w),
           \A k \in Key : /\ lease'[w][k] = lease[w][k]
                          /\ stage'[w][k] = "none" <=> stage[w][k] = "none"
                          /\ stage'[w][k] \in Pending <=> stage[w][k] \in Pending,
           calls'[w] = calls[w]
    PROVE  Batch(w)'
<1>1. \A C \in calls[w] : C \subseteq Key
  BY DEF DrainTypeOK
<1>2. "none" \notin Pending
  BY DEF Pending
<1> QED BY <1>1, <1>2 DEF Batch

LEMMA FetchBatchKeeps ==
    ASSUME DrainTypeOK, NEW w \in Worker, FetchBatch(w), Batch(w)
    PROVE  Batch(w)'
<1>1. PICK S \in SUBSET Key : FetchReady(w, S) /\ Move(w, S, "leased")
  BY DEF FetchBatch
<1>2. \A k \in Key : stage[w][k] = "none"
  BY <1>1 DEF FetchReady, Idle, Batch
<1>3. calls[w] = {} /\ calls'[w] = calls[w]
  BY <1>2 DEF FetchBatch, Batch, DrainTypeOK, Pending
<1>4. \A k \in Key : stage'[w][k] = IF k \in S THEN "leased" ELSE "none"
  BY <1>1, <1>2, MoveEffect DEF Stage
<1>5. \A k \in Key : lease'[w][k] = None <=> k \notin S
  <2>1. \A k \in S : lease'[w][k] # None
    BY <1>1, FetchedKey DEF DrainTypeOK
  <2>2. \A k \in Key \ S : lease'[w][k] = None
    BY <1>1 DEF FetchReady, DrainTypeOK, TypeOK
  <2> QED BY <2>1, <2>2
<1> QED BY <1>3, <1>4, <1>5 DEF Batch, Pending

LEMMA DropBatchKeeps ==
    ASSUME DrainTypeOK, NEW w \in Worker, DropBatch(w), Batch(w)
    PROVE  Batch(w)'
<1>1. \A k \in Key : stage'[w][k] = "none"
  BY MoveEffect DEF DropBatch, Stage
<1>2. \A k \in Key : lease'[w][k] = None
  BY DEF DropBatch, AbandonLeases, At, Batch, DrainTypeOK, TypeOK
<1>3. calls'[w] = {}
  BY DEF DropBatch, DrainTypeOK
<1> QED BY <1>1, <1>2, <1>3, FS_EmptySet, EmbedDrainAssumption DEF Batch, Pending

LEMMA DispatchKeeps ==
    ASSUME DrainTypeOK, NEW w \in Worker, NEW C \in SUBSET At(w, "ready"), C # {},
           Dispatch(w, C), Batch(w)
    PROVE  Batch(w)'
<1>1. C \in SUBSET Key /\ \A k \in C : stage[w][k] = "ready"
  BY DEF At
<1>2. /\ \A k \in Key : stage'[w][k] = IF k \in C THEN "sent" ELSE stage[w][k]
      /\ calls'[w] = calls[w] \cup {C}
      /\ UNCHANGED lease
  <2>1. C \in SUBSET Key
    BY <1>1
  <2>2. \A v \in Worker, k \in Key :
           stage'[v][k] = IF v = w /\ k \in C THEN "sent" ELSE stage[v][k]
    BY <2>1, DispatchEffect
  <2>3. calls'[w] = calls[w] \cup {C} /\ UNCHANGED vars
    BY <2>1, DispatchEffect
  <2> QED BY <2>2, <2>3 DEF vars
<1>3. "sent" \in Pending /\ "none" \notin Pending /\ "ready" \notin Pending
  BY DEF Pending
<1>4. \A D \in calls[w] : D \subseteq Key /\ D \cap C = {}
  BY <1>1, <1>3 DEF Batch, DrainTypeOK
<1>5. \A D \in calls'[w] : \A k \in D : stage'[w][k] \in Pending \cup {"none"}
  BY <1>1, <1>2, <1>3, <1>4 DEF Batch
<1>6. \A D \in calls'[w] : \E k \in D : stage'[w][k] \in Pending
  BY <1>1, <1>2, <1>3, <1>4 DEF Batch
<1>7. \A k \in Key : stage'[w][k] \in Pending => \E D \in calls'[w] : k \in D
  BY <1>2 DEF Batch
<1>8. \A D, F \in calls'[w] : D # F => D \cap F = {}
  BY <1>2, <1>4 DEF Batch
<1>9. IsFiniteSet(calls'[w]) /\ Cardinality(calls'[w]) <= MaxConcurrent
  <2>1. Cardinality(calls[w]) \in Nat /\ Cardinality(calls[w]) < MaxConcurrent
    BY <1>1, DispatchEffect, FS_CardinalityType DEF Batch, HasSlot
  <2>2. /\ IsFiniteSet(calls[w] \cup {C})
        /\ \/ Cardinality(calls[w] \cup {C}) = Cardinality(calls[w])
           \/ Cardinality(calls[w] \cup {C}) = Cardinality(calls[w]) + 1
    BY FS_AddElement DEF Batch
  <2> QED BY <1>2, <2>1, <2>2, EmbedDrainAssumption
<1>10. \A k \in Key : stage'[w][k] = "none" <=> lease'[w][k] = None
  BY <1>1, <1>2 DEF Batch
<1> QED BY <1>5, <1>6, <1>7, <1>8, <1>9, <1>10 DEF Batch

LEMMA CompleteEmptyKeeps ==
    ASSUME DrainTypeOK, NEW w \in Worker, NEW k \in Key, CompleteEmpty(w, k),
           Batch(w)
    PROVE  Batch(w)'
<1>1. stage[w][k] = "ready"
  BY DEF CompleteEmpty, Empty, At
<1>2. /\ \A j \in Key : stage'[w][j] = IF j = k THEN "none" ELSE stage[w][j]
      /\ calls'[w] = calls[w]
  BY DoneEffect DEF CompleteEmpty
<1>3. \A j \in Key : lease'[w][j] = IF j = k THEN None ELSE lease[w][j]
  BY RecordEffect DEF CompleteEmpty, DrainTypeOK
<1>4. "ready" \notin Pending /\ "none" \notin Pending
  BY DEF Pending
<1>5. \A C \in calls[w] : C \subseteq Key /\ k \notin C
  BY <1>1, <1>4 DEF Batch, DrainTypeOK
<1> QED BY <1>1, <1>2, <1>3, <1>4, <1>5 DEF Batch

LEMMA HandleTaskResultKeeps ==
    ASSUME DrainTypeOK, NEW w \in Worker, NEW C \in calls[w], NEW k \in Key,
           HandleTaskResult(w, C, k), Batch(w)
    PROVE  Batch(w)'
<1>1. C \subseteq Key /\ k \in C /\ stage[w][k] # "none"
  BY DEF HandleTaskResult, Unrecorded, At, DrainTypeOK
<1>2. stage[w][k] \in Pending
  BY <1>1 DEF Batch
<1>3. \A j \in Key : stage'[w][j] = IF j = k THEN "none" ELSE stage[w][j]
  BY DoneEffect DEF HandleTaskResult
<1>4. \A j \in Key : lease'[w][j] = IF j = k THEN None ELSE lease[w][j]
  <2>1. \/ Complete(w, k) \/ Fail(w, k) \/ DeadLetter(w, k)
        \/ AbandonLeases(w, {k})
    BY DEF HandleTaskResult, Outcome
  <2>2. TypeOK
    BY DEF DrainTypeOK
  <2> QED BY <2>1, <2>2, RecordEffect
<1>5. calls'[w] = IF Unrecorded(w, C) = {k} THEN calls[w] \ {C} ELSE calls[w]
  BY DEF HandleTaskResult, DrainTypeOK
<1>6. "none" \notin Pending
  BY DEF Pending
<1>7. calls'[w] \subseteq calls[w] /\ \A D \in calls[w] : D \subseteq Key
  BY <1>5 DEF DrainTypeOK
<1>8. \A D \in calls[w] : D # C => k \notin D
  BY <1>1 DEF Batch
<1>9. \A D \in calls'[w] : \E j \in D : stage'[w][j] \in Pending
  <2> SUFFICES ASSUME NEW D \in calls'[w]
               PROVE  \E j \in D : stage'[w][j] \in Pending
    OBVIOUS
  <2>1. CASE D # C
    BY <2>1, <1>3, <1>7, <1>8 DEF Batch
  <2>2. CASE D = C
    <3>1. Unrecorded(w, C) # {k} /\ k \in Unrecorded(w, C)
      BY <2>2, <1>5 DEF HandleTaskResult
    <3>2. PICK j \in Unrecorded(w, C) : j # k
      BY <3>1
    <3>3. j \in C /\ stage[w][j] # "none"
      BY <3>2, <1>1 DEF Unrecorded, At
    <3> QED BY <2>2, <3>2, <3>3, <1>1, <1>3 DEF Batch
  <2> QED BY <2>1, <2>2
<1>10. \A j \in Key : stage'[w][j] \in Pending => \E D \in calls'[w] : j \in D
  <2> SUFFICES ASSUME NEW j \in Key, stage'[w][j] \in Pending
               PROVE  \E D \in calls'[w] : j \in D
    OBVIOUS
  <2>1. j # k /\ stage[w][j] \in Pending
    BY <1>3, <1>6
  <2>2. PICK D \in calls[w] : j \in D
    BY <2>1 DEF Batch
  <2>3. CASE D # C \/ Unrecorded(w, C) # {k}
    BY <2>2, <2>3, <1>5
  <2>4. CASE D = C /\ Unrecorded(w, C) = {k}
    BY <2>1, <2>2, <2>4, <1>6 DEF Unrecorded, At
  <2> QED BY <2>3, <2>4
<1>11. \A D \in calls'[w] : \A j \in D : stage'[w][j] \in Pending \cup {"none"}
  BY <1>3, <1>7 DEF Batch
<1>12. \A D, F \in calls'[w] : D # F => D \cap F = {}
  BY <1>7 DEF Batch
<1>13. IsFiniteSet(calls'[w]) /\ Cardinality(calls'[w]) <= MaxConcurrent
  <2>1. IsFiniteSet(calls'[w]) /\ Cardinality(calls'[w]) <= Cardinality(calls[w])
    BY <1>7, FS_Subset DEF Batch
  <2>2. Cardinality(calls'[w]) \in Nat /\ Cardinality(calls[w]) \in Nat
    BY <2>1, FS_CardinalityType DEF Batch
  <2> QED BY <2>1, <2>2, EmbedDrainAssumption DEF Batch
<1>14. \A j \in Key : stage'[w][j] = "none" <=> lease'[w][j] = None
  BY <1>3, <1>4 DEF Batch
<1> QED BY <1>9, <1>10, <1>11, <1>12, <1>13, <1>14 DEF Batch

--------------------------------------------------------------------------------
(* Every step of a worker keeps its own record in order ...                *)
LEMMA WorkerStepKeepsBatch ==
    ASSUME DrainTypeOK, NEW w \in Worker, WorkerStep(w), Batch(w)
    PROVE  Batch(w)'
<1>1. CASE FetchBatch(w)
  BY <1>1, FetchBatchKeeps
<1>2. CASE AbortBatch(w)
  BY <1>2, DropBatchKeeps DEF AbortBatch
<1>3. ASSUME NEW e \in Entity, BuildSemanticDocument(w, e)
      PROVE  Batch(w)'
  <2> DEFINE S == {k \in At(w, "leased") : k[1] = e}
  <2>1. \A k \in Key :
           stage'[w][k] = IF k \notin S THEN stage[w][k]
                          ELSE IF IsVLModel(w, k[2]) THEN "read" ELSE "ready"
    BY <1>3 DEF BuildSemanticDocument, DrainTypeOK
  <2>2. UNCHANGED <<lease, calls>>
    BY <1>3 DEF BuildSemanticDocument, vars
  <2>3. \A k \in S : stage[w][k] = "leased"
    BY DEF At
  <2> QED BY <2>1, <2>2, <2>3, SameSide DEF Pending
<1>4. ASSUME NEW e \in Entity, ListAssetURLs(w, e)
      PROVE  Batch(w)'
  <2> DEFINE S == {k \in At(w, "read") : k[1] = e}
  <2>1. Move(w, S, "ready") /\ UNCHANGED <<lease, calls>>
    BY <1>4 DEF ListAssetURLs, vars
  <2>2. \A k \in Key : stage'[w][k] = IF k \in S THEN "ready" ELSE stage[w][k]
    BY <2>1, MoveEffect DEF Stage
  <2>3. \A k \in S : stage[w][k] = "read"
    BY DEF At
  <2> QED BY <2>1, <2>2, <2>3, SameSide DEF Pending
<1>5. ASSUME NEW m \in Model, SendText(w, m)
      PROVE  Batch(w)'
  BY <1>5, DispatchKeeps DEF SendText, TextReady
<1>6. ASSUME NEW k \in Key, SendVL(w, k)
      PROVE  Batch(w)'
  BY <1>6, DispatchKeeps DEF SendVL
<1>7. ASSUME NEW k \in Key, CompleteEmpty(w, k)
      PROVE  Batch(w)'
  BY <1>7, CompleteEmptyKeeps
<1>8. ASSUME NEW C \in calls[w], Answer(w, C)
      PROVE  Batch(w)'
  <2>1. PICK st \in {"embedded", "failed"} : Move(w, C, st)
    BY <1>8 DEF Answer
  <2>2. \A k \in Key : stage'[w][k] = IF k \in C THEN st ELSE stage[w][k]
    BY <2>1, MoveEffect DEF Stage
  <2>3. \A k \in C : stage[w][k] = "sent"
    BY <1>8 DEF Answer, At
  <2>4. UNCHANGED <<lease, calls>>
    BY <1>8 DEF Answer, vars
  <2> QED BY <2>1, <2>2, <2>3, <2>4, SameSide DEF Pending
<1>9. ASSUME NEW k \in Key, Store(w, k)
      PROVE  Batch(w)'
  <2>1. PICK st \in {"stored", "failed"} : Move(w, {k}, st)
    BY <1>9 DEF Store
  <2>2. \A j \in Key : stage'[w][j] = IF j = k THEN st ELSE stage[w][j]
    BY <2>1, MoveEffect DEF Stage
  <2>3. stage[w][k] = "embedded" /\ UNCHANGED <<lease, calls>>
    BY <1>9 DEF Store, At, vars
  <2> QED BY <2>1, <2>2, <2>3, SameSide DEF Pending
<1>10. ASSUME NEW C \in calls[w], NEW k \in Key, HandleTaskResult(w, C, k)
       PROVE  Batch(w)'
  BY <1>10, HandleTaskResultKeeps
<1> QED BY <1>1, <1>2, <1>3, <1>4, <1>5, <1>6, <1>7, <1>8, <1>9, <1>10
        DEF WorkerStep

(* ... and leaves the records of the others alone.                         *)
LEMMA DrainStepLeavesOthers ==
    ASSUME DrainTypeOK, NEW w \in Worker, WorkerStep(w), NEW v \in Worker, v # w
    PROVE  stage'[v] = stage[v] /\ calls'[v] = calls[v] /\ doc'[v] = doc[v]
           /\ lease'[v] = lease[v]
<1>1. CASE FetchBatch(w)
  BY <1>1 DEF FetchBatch, FetchReady, Move, DrainTypeOK, TypeOK
<1>2. CASE AbortBatch(w)
  BY <1>2 DEF AbortBatch, DropBatch, AbandonLeases, Move, DrainTypeOK, TypeOK
<1>3. ASSUME NEW e \in Entity, BuildSemanticDocument(w, e) \/ ListAssetURLs(w, e)
      PROVE  /\ stage'[v] = stage[v] /\ calls'[v] = calls[v] /\ doc'[v] = doc[v]
             /\ lease'[v] = lease[v]
  BY <1>3 DEF BuildSemanticDocument, ListAssetURLs, Move, DrainTypeOK, TypeOK, vars
<1>4. ASSUME NEW C, Dispatch(w, C)
      PROVE  /\ stage'[v] = stage[v] /\ calls'[v] = calls[v] /\ doc'[v] = doc[v]
             /\ lease'[v] = lease[v]
  BY <1>4 DEF Dispatch, Move, DrainTypeOK, TypeOK, vars
<1>5. ASSUME NEW m \in Model, SendText(w, m)
      PROVE  /\ stage'[v] = stage[v] /\ calls'[v] = calls[v] /\ doc'[v] = doc[v]
             /\ lease'[v] = lease[v]
  BY <1>4, <1>5 DEF SendText
<1>6. ASSUME NEW k \in Key, SendVL(w, k)
      PROVE  /\ stage'[v] = stage[v] /\ calls'[v] = calls[v] /\ doc'[v] = doc[v]
             /\ lease'[v] = lease[v]
  BY <1>4, <1>6 DEF SendVL
<1>7. ASSUME NEW k \in Key,
             \/ Complete(w, k) \/ Fail(w, k) \/ DeadLetter(w, k)
             \/ AbandonLeases(w, {k})
      PROVE  lease'[v] = lease[v]
  BY <1>7 DEF Complete, Fail, DeadLetter, AbandonLeases, Drop, DrainTypeOK, TypeOK
<1>8. ASSUME NEW k \in Key, CompleteEmpty(w, k)
      PROVE  /\ stage'[v] = stage[v] /\ calls'[v] = calls[v] /\ doc'[v] = doc[v]
             /\ lease'[v] = lease[v]
  <2>1. lease'[v] = lease[v]
    BY <1>7, <1>8 DEF CompleteEmpty
  <2> QED BY <2>1, <1>8 DEF CompleteEmpty, Done, Move, DrainTypeOK
<1>9. ASSUME NEW C, Answer(w, C)
      PROVE  /\ stage'[v] = stage[v] /\ calls'[v] = calls[v] /\ doc'[v] = doc[v]
             /\ lease'[v] = lease[v]
  BY <1>9 DEF Answer, Move, DrainTypeOK, TypeOK, vars
<1>10. ASSUME NEW k \in Key, Store(w, k)
       PROVE  /\ stage'[v] = stage[v] /\ calls'[v] = calls[v] /\ doc'[v] = doc[v]
              /\ lease'[v] = lease[v]
  BY <1>10 DEF Store, Move, DrainTypeOK, TypeOK, vars
<1>11. ASSUME NEW C, NEW k \in Key, HandleTaskResult(w, C, k)
       PROVE  /\ stage'[v] = stage[v] /\ calls'[v] = calls[v] /\ doc'[v] = doc[v]
              /\ lease'[v] = lease[v]
  <2>1. \/ Complete(w, k) \/ Fail(w, k) \/ DeadLetter(w, k)
        \/ AbandonLeases(w, {k})
    BY <1>11 DEF HandleTaskResult, Outcome
  <2>2. lease'[v] = lease[v]
    BY <1>7, <2>1
  <2> QED BY <2>2, <1>11 DEF HandleTaskResult, Done, Move, DrainTypeOK
<1> QED BY <1>1, <1>2, <1>3, <1>5, <1>6, <1>8, <1>9, <1>10, <1>11 DEF WorkerStep

LEMMA SameBatches ==
    ASSUME DrainTypeOK, BatchInv, UNCHANGED <<lease, stage, calls>>
    PROVE  BatchInv'
  BY SameSide DEF BatchInv

LEMMA WorkerStepKeepsBatches ==
    ASSUME DrainTypeOK, BatchInv, NEW w \in Worker, WorkerStep(w)
    PROVE  BatchInv'
<1> SUFFICES ASSUME NEW v \in Worker PROVE Batch(v)'
  BY DEF BatchInv
<1>1. CASE v = w
  BY <1>1, WorkerStepKeepsBatch DEF BatchInv
<1>2. CASE v # w
  BY <1>2, DrainStepLeavesOthers, SameSide DEF BatchInv
<1> QED BY <1>1, <1>2

(* What the environment of the workers does leaves their batches alone.    *)
LEMMA OthersLeaveBatches ==
    /\ \A e \in Entity : HostEdit(e) => UNCHANGED <<lease, stage, calls>>
    /\ \A E \in SUBSET Entity, m \in Model :
          Request(E, m) => UNCHANGED <<lease, stage, calls>>
    /\ \A k \in Key : DrainExpire(k) => UNCHANGED <<lease, stage, calls>>
  BY DEF HostEdit, Request, EnqueueMany, Enqueue, DrainExpire, Expire, vars, workVars

LEMMA StepKeepsBatches ==
    ASSUME DrainTypeOK, BatchInv, [DrainNext]_drainVars
    PROVE  BatchInv'
<1>1. ASSUME NEW w \in Worker, WorkerStep(w)
      PROVE  BatchInv'
  BY <1>1, WorkerStepKeepsBatches
<1>2. CASE UNCHANGED drainVars
  BY <1>2, SameBatches DEF drainVars, vars, workVars
<1> QED BY <1>1, <1>2, OthersLeaveBatches, SameBatches DEF DrainNext

NoBatches ==
    /\ lease = [w \in Worker |-> [k \in Key |-> None]]
    /\ stage = [w \in Worker |-> [k \in Key |-> "none"]]
    /\ calls = [w \in Worker |-> {}]

LEMMA NoBatchIsGood == NoBatches => BatchInv
  BY FS_EmptySet, EmbedDrainAssumption DEF NoBatches, BatchInv, Batch, Pending

LEMMA InitBatches == DrainInit => BatchInv
  BY NoBatchIsGood DEF DrainInit, Init, NoBatches

LEMMA BatchesAccounted == BatchInv /\ DrainTypeOK => BatchAccounted
<1> SUFFICES ASSUME BatchInv, DrainTypeOK, NEW w \in Worker
             PROVE  /\ \A k \in Key : stage[w][k] = "none" <=> lease[w][k] = None
                    /\ \A k \in InFlight(w) : Cardinality({C \in calls[w] : k \in C}) = 1
                    /\ \A C \in calls[w] : C \cap InFlight(w) # {}
                    /\ Cardinality(calls[w]) <= MaxConcurrent
  BY DEF BatchAccounted
<1>1. Batch(w)
  BY DEF BatchInv
<1>2. ASSUME NEW k \in InFlight(w)
      PROVE  Cardinality({C \in calls[w] : k \in C}) = 1
  <2>1. PICK C \in calls[w] : k \in C
    BY <1>1, InFlightMeansPending DEF Batch
  <2>2. {D \in calls[w] : k \in D} = {C}
    BY <1>1, <2>1 DEF Batch
  <2> QED BY <2>2, FS_Singleton
<1>3. ASSUME NEW C \in calls[w]
      PROVE  C \cap InFlight(w) # {}
  <2>1. PICK k \in C : stage[w][k] \in Pending
    BY <1>1 DEF Batch
  <2> QED BY <2>1, InFlightMeansPending DEF DrainTypeOK
<1> QED BY <1>1, <1>2, <1>3 DEF Batch

LEMMA BatchInvariant == DrainSpec => []BatchInv
  BY InitBatches, StepKeepsBatches, DrainTypeCorrect, PTL DEF DrainSpec

(* Every key a worker leased is in its record until its result is          *)
(* recorded, every key in flight belongs to exactly one request, and never *)
(* more than MaxConcurrent requests are in flight - whatever the number of *)
(* workers, the chunk size, and the errors of providers and statements.    *)
THEOREM EveryBatchAccounted == DrainSpec => []BatchAccounted
  BY BatchInvariant, BatchesAccounted, DrainTypeCorrect, PTL

--------------------------------------------------------------------------------
(* With one worker, whatever the number of entities, models and edits:     *)
(* vectors never go back to an older document, and, if leases outlive the  *)
(* work, a settled key has the vector of its current document.             *)

OneWorker == \A v, w \in Worker : v = w

Hydrated == {"ready"} \cup Pending

LEMMA DoneOne ==
    ASSUME OneWorker, DrainTypeOK, NEW w \in Worker, NEW k \in Key, Done(w, k)
    PROVE  \A v \in Worker, j \in Key :
              /\ stage'[v][j] = IF j = k THEN "none" ELSE stage[v][j]
              /\ doc'[v][j] = IF j = k THEN 0 ELSE doc[v][j]
  BY DoneEffect DEF OneWorker

LEMMA BuildEffect ==
    ASSUME DrainTypeOK, NEW w \in Worker, NEW e \in Entity,
           BuildSemanticDocument(w, e)
    PROVE  \A v \in Worker, k \in Key :
              \/ /\ stage[v][k] = "leased" /\ k[1] = e
                 /\ stage'[v][k] = IF IsVLModel(v, k[2]) THEN "read" ELSE "ready"
                 /\ doc'[v][k] = host[e]
              \/ stage'[v][k] = stage[v][k] /\ doc'[v][k] = doc[v][k]
  BY DEF BuildSemanticDocument, ReadDocument, At, DrainTypeOK

LEMMA AssetsEffect ==
    ASSUME DrainTypeOK, NEW w \in Worker, NEW e \in Entity,
           ListAssetURLs(w, e)
    PROVE  \A v \in Worker, k \in Key :
              \/ /\ stage[v][k] = "read" /\ k[1] = e
                 /\ stage'[v][k] = "ready"
                 /\ doc'[v][k] = IF assets[e] THEN doc[v][k] ELSE 0
              \/ stage'[v][k] = stage[v][k] /\ doc'[v][k] = doc[v][k]
  BY DEF ListAssetURLs, Move, At, DrainTypeOK

(* Dispatch, answers and stores: keys only move on, with their document.   *)
LEMMA SendEffect ==
    ASSUME DrainTypeOK, NEW w \in Worker, NEW C \in SUBSET At(w, "ready"),
           Dispatch(w, C)
    PROVE  /\ \A v \in Worker, k \in Key :
                 \/ stage[v][k] = "ready" /\ stage'[v][k] = "sent" /\ doc[v][k] # 0
                 \/ stage'[v][k] = stage[v][k]
           /\ UNCHANGED <<vars, hostVars, vec, doc>>
<1>1. C \in SUBSET Key /\ \A k \in C : stage[w][k] = "ready" /\ doc[w][k] # 0
  BY DEF At, Dispatch, Empty
<1>2. \A v \in Worker, k \in Key :
         stage'[v][k] = IF v = w /\ k \in C THEN "sent" ELSE stage[v][k]
  BY <1>1, DispatchEffect
<1> QED BY <1>1, <1>2 DEF Dispatch

LEMMA AnswerEffect ==
    ASSUME DrainTypeOK, NEW w \in Worker, NEW C \in calls[w], Answer(w, C)
    PROVE  /\ \A v \in Worker, k \in Key :
                 \/ /\ stage[v][k] = "sent" /\ stage'[v][k] \in {"embedded", "failed"}
                    /\ stage'[v][k] = "embedded" => k[2] \in active[v]
                 \/ stage'[v][k] = stage[v][k]
           /\ UNCHANGED <<vars, hostVars, vec, doc>>
<1>1. PICK st \in {"embedded", "failed"} :
         Move(w, C, st) /\ (st = "embedded" => \A k \in C : k[2] \in active[w])
  BY DEF Answer
<1>2. \A v \in Worker, k \in Key :
         stage'[v][k] = IF v = w /\ k \in C THEN st ELSE stage[v][k]
  BY <1>1, MoveEffect DEF Stage
<1> QED BY <1>1, <1>2 DEF Answer, At

LEMMA StoreEffect ==
    ASSUME DrainTypeOK, NEW w \in Worker, NEW k \in Key, Store(w, k)
    PROVE  /\ stage[w][k] = "embedded"
           /\ \A v \in Worker, j \in Key :
                 v # w \/ j # k => stage'[v][j] = stage[v][j]
           /\ \A j \in Key \ {k} : vec'[j] = vec[j]
           /\ \/ stage'[w][k] = "stored" /\ vec'[k] = doc[w][k]
              \/ stage'[w][k] = "failed" /\ vec'[k] = vec[k]
           /\ UNCHANGED <<vars, hostVars, doc>>
<1>1. stage[w][k] = "embedded" /\ UNCHANGED <<vars, hostVars, doc>>
  BY DEF Store, At
<1>2. ASSUME NEW st \in Stage, Move(w, {k}, st)
      PROVE  \A v \in Worker, j \in Key :
                stage'[v][j] = IF v = w /\ j = k THEN st ELSE stage[v][j]
  BY <1>2, MoveEffect
<1>3. CASE vec' = [vec EXCEPT ![k] = doc[w][k]] /\ Move(w, {k}, "stored")
  BY <1>1, <1>2, <1>3 DEF DrainTypeOK, Stage
<1>4. CASE UNCHANGED vec /\ Move(w, {k}, "failed")
  BY <1>1, <1>2, <1>4 DEF DrainTypeOK, Stage
<1> QED BY <1>3, <1>4 DEF Store, Stored

--------------------------------------------------------------------------------
(* Vectors never regress.  Versions grow: a document read later is no      *)
(* older than any vector stored before, and one worker reads a document    *)
(* only when nothing it has read before is still to be stored.             *)
SentHasDoc ==
    \A w \in Worker, k \in Key : stage[w][k] \in Pending => doc[w][k] # 0

VectorBehindHost ==
    \A k \in Key : host[k[1]] # 0 => vec[k] <= host[k[1]]

DocBetween ==
    \A w \in Worker, k \in Key :
        stage[w][k] \in {"read"} \cup Hydrated /\ doc[w][k] # 0 =>
            /\ vec[k] <= doc[w][k]
            /\ host[k[1]] # 0 => doc[w][k] <= host[k[1]]

GrowthInv == SentHasDoc /\ VectorBehindHost /\ DocBetween

LEMMA GrowthInit == DrainInit => GrowthInv
  BY DEF DrainInit, GrowthInv, SentHasDoc, VectorBehindHost, DocBetween, Pending,
         Hydrated, Key

Versions == /\ \A k \in Key : vec[k] \in 0 .. edits /\ host[k[1]] \in 0 .. edits
            /\ \A w \in Worker, k \in Key : doc[w][k] \in 0 .. edits
            /\ edits \in Nat

LEMMA VersionsOK == DrainTypeOK => Versions
  BY EmbedDrainAssumption DEF DrainTypeOK, Versions, Key

LEMMA GrowthHostEdit ==
    ASSUME DrainTypeOK, GrowthInv, NEW e \in Entity, HostEdit(e)
    PROVE  GrowthInv'
<1>1. Versions
  BY VersionsOK
<1>2. \A k \in Key : host'[k[1]] \in {0, edits + 1, host[k[1]]}
  BY DEF HostEdit, DrainTypeOK, Key
<1>3. UNCHANGED <<vec, stage, doc>>
  BY DEF HostEdit, workVars
<1> QED BY <1>1, <1>2, <1>3
        DEF GrowthInv, SentHasDoc, VectorBehindHost, DocBetween, Versions

(* Nothing but keys moving on, read documents or recorded results.         *)
LEMMA GrowthMove ==
    ASSUME DrainTypeOK, GrowthInv, UNCHANGED <<host, vec>>,
           \A w \in Worker, k \in Key :
              \/ stage'[w][k] = "none"
              \/ stage'[w][k] = "leased"
              \/ /\ stage'[w][k] = stage[w][k] \/ stage[w][k] \in {"read"} \cup Hydrated
                 /\ \/ doc'[w][k] = doc[w][k]
                    \/ doc'[w][k] = 0 /\ stage'[w][k] = "ready"
                 /\ stage'[w][k] \in Pending => stage[w][k] \in Pending \/ doc[w][k] # 0
              \/ doc'[w][k] = host[k[1]] /\ stage'[w][k] \in {"read", "ready"}
    PROVE  GrowthInv'
<1>1. Versions
  BY VersionsOK
<1>2. "none" \notin {"read"} \cup Hydrated /\ "leased" \notin {"read"} \cup Hydrated
  BY DEF Hydrated, Pending
<1>3. Pending \subseteq Hydrated /\ "read" \notin Pending /\ "ready" \notin Pending
  BY DEF Hydrated, Pending
<1>4. SentHasDoc'
  BY <1>2, <1>3 DEF GrowthInv, SentHasDoc
<1>5. VectorBehindHost'
  BY DEF GrowthInv, VectorBehindHost
<1>6. DocBetween'
  BY <1>1, <1>2, <1>3 DEF GrowthInv, VectorBehindHost, DocBetween, Versions
<1> QED BY <1>4, <1>5, <1>6 DEF GrowthInv

LEMMA GrowthStore ==
    ASSUME OneWorker, DrainTypeOK, GrowthInv, NEW w \in Worker, NEW k \in Key,
           Store(w, k)
    PROVE  GrowthInv' /\ \A j \in Key : vec'[j] >= vec[j]
<1>1. Versions
  BY VersionsOK
<1>2. UNCHANGED <<host, doc>>
  BY DEF Store, hostVars
<1>3. \A v \in Worker, j \in Key :
         \/ /\ stage[v][j] = "embedded" /\ stage'[v][j] \in {"stored", "failed"}
            /\ vec'[j] \in {doc[v][j], vec[j]}
         \/ stage'[v][j] = stage[v][j] /\ vec'[j] = vec[j]
  BY StoreEffect DEF OneWorker
<1>4. /\ "embedded" \in Pending /\ "stored" \in Pending /\ "failed" \in Pending
      /\ Pending \subseteq Hydrated
  BY DEF Pending, Hydrated
<1>5. \A v \in Worker, j \in Key :
         stage[v][j] = "embedded" => /\ doc[v][j] # 0
                                     /\ vec[j] <= doc[v][j]
                                     /\ host[j[1]] # 0 => doc[v][j] <= host[j[1]]
  BY <1>4 DEF GrowthInv, SentHasDoc, DocBetween
<1>6. \A j \in Key : vec'[j] >= vec[j]
  BY <1>1, <1>3, <1>5 DEF Versions
<1>7. SentHasDoc'
  BY <1>2, <1>3, <1>4 DEF GrowthInv, SentHasDoc
<1>8. VectorBehindHost'
  BY <1>2, <1>3, <1>5 DEF GrowthInv, VectorBehindHost
<1>9. DocBetween'
  BY <1>1, <1>2, <1>3, <1>4, <1>5 DEF GrowthInv, DocBetween, Versions
<1> QED BY <1>6, <1>7, <1>8, <1>9 DEF GrowthInv

LEMMA GrowthWorkerStep ==
    ASSUME OneWorker, DrainTypeOK, GrowthInv, NEW w \in Worker, WorkerStep(w)
    PROVE  GrowthInv' /\ \A k \in Key : vec'[k] >= vec[k]
<1> USE DEF Pending, Hydrated
<1>1. UNCHANGED vec => \A k \in Key : vec'[k] >= vec[k]
  BY VersionsOK DEF Versions
<1>2. UNCHANGED host
  BY WorkerStepLeavesHost
<1>3. CASE FetchBatch(w)
  <2>1. UNCHANGED <<vec, doc>> /\ \E S \in SUBSET Key : Move(w, S, "leased")
    BY <1>3 DEF FetchBatch
  <2>2. \A v \in Worker, k \in Key :
           stage'[v][k] = "leased" \/ stage'[v][k] = stage[v][k]
    BY <2>1, MoveEffect DEF Stage
  <2> QED BY <1>1, <1>2, <2>1, <2>2, GrowthMove
<1>4. CASE AbortBatch(w)
  <2>1. UNCHANGED vec /\ Move(w, Key, "none")
    BY <1>4 DEF AbortBatch, DropBatch
  <2>2. \A v \in Worker, k \in Key : stage'[v][k] = "none"
    BY <2>1, MoveEffect DEF Stage, OneWorker
  <2> QED BY <1>1, <1>2, <2>1, <2>2, GrowthMove
<1>5. ASSUME NEW e \in Entity, BuildSemanticDocument(w, e)
      PROVE  GrowthInv' /\ \A k \in Key : vec'[k] >= vec[k]
  BY <1>1, <1>2, <1>5, BuildEffect, GrowthMove DEF BuildSemanticDocument
<1>6. ASSUME NEW e \in Entity, ListAssetURLs(w, e)
      PROVE  GrowthInv' /\ \A k \in Key : vec'[k] >= vec[k]
  <2>1. \A v \in Worker, k \in Key :
           \/ /\ stage[v][k] = "read" /\ stage'[v][k] = "ready"
              /\ doc'[v][k] \in {doc[v][k], 0}
           \/ stage'[v][k] = stage[v][k] /\ doc'[v][k] = doc[v][k]
    BY <1>6, AssetsEffect
  <2>2. UNCHANGED vec
    BY <1>6 DEF ListAssetURLs
  <2> QED BY <1>1, <1>2, <2>1, <2>2, GrowthMove
<1>7. ASSUME NEW C \in SUBSET At(w, "ready"), Dispatch(w, C)
      PROVE  GrowthInv' /\ \A k \in Key : vec'[k] >= vec[k]
  BY <1>1, <1>2, <1>7, SendEffect, GrowthMove
<1>8. ASSUME NEW m \in Model, SendText(w, m)
      PROVE  GrowthInv' /\ \A k \in Key : vec'[k] >= vec[k]
  BY <1>7, <1>8 DEF SendText, TextReady
<1>9. ASSUME NEW k \in Key, CompleteEmpty(w, k)
       PROVE  GrowthInv' /\ \A j \in Key : vec'[j] >= vec[j]
  BY <1>1, <1>2, <1>9, DoneOne, GrowthMove DEF CompleteEmpty
<1>10. ASSUME NEW k \in Key, SendVL(w, k)
       PROVE  GrowthInv' /\ \A j \in Key : vec'[j] >= vec[j]
  BY <1>7, <1>10 DEF SendVL
<1>11. ASSUME NEW C \in calls[w], Answer(w, C)
       PROVE  GrowthInv' /\ \A k \in Key : vec'[k] >= vec[k]
  BY <1>1, <1>2, <1>11, AnswerEffect, GrowthMove
<1>12. ASSUME NEW k \in Key, Store(w, k)
       PROVE  GrowthInv' /\ \A j \in Key : vec'[j] >= vec[j]
  BY <1>12, GrowthStore
<1>13. ASSUME NEW C \in calls[w], NEW k \in Key, HandleTaskResult(w, C, k)
       PROVE  GrowthInv' /\ \A j \in Key : vec'[j] >= vec[j]
  BY <1>1, <1>2, <1>13, DoneOne, GrowthMove DEF HandleTaskResult
<1> QED BY <1>3, <1>4, <1>5, <1>6, <1>8, <1>9, <1>10, <1>11, <1>12, <1>13
        DEF WorkerStep

LEMMA GrowthStep ==
    ASSUME OneWorker, DrainTypeOK, GrowthInv, [DrainNext]_drainVars
    PROVE  GrowthInv' /\ \A k \in Key : vec'[k] >= vec[k]
<1>1. UNCHANGED vec => \A k \in Key : vec'[k] >= vec[k]
  BY VersionsOK DEF Versions
<1>2. CASE UNCHANGED <<host, vec, stage, doc>>
  BY <1>1, <1>2 DEF GrowthInv, SentHasDoc, VectorBehindHost, DocBetween
<1>3. ASSUME NEW e \in Entity, HostEdit(e)
      PROVE  GrowthInv' /\ UNCHANGED vec
  BY <1>3, GrowthHostEdit DEF HostEdit
<1>4. ASSUME NEW E \in SUBSET Entity, NEW m \in Model, Request(E, m)
      PROVE  UNCHANGED <<host, vec, stage, doc>>
  BY <1>4 DEF Request, workVars
<1>5. ASSUME NEW k \in Key, DrainExpire(k)
      PROVE  UNCHANGED <<host, vec, stage, doc>>
  BY <1>5 DEF DrainExpire, hostVars, workVars
<1>6. ASSUME NEW w \in Worker, WorkerStep(w)
      PROVE  GrowthInv' /\ \A k \in Key : vec'[k] >= vec[k]
  BY <1>6, GrowthWorkerStep
<1>7. CASE UNCHANGED drainVars
  BY <1>2, <1>7 DEF drainVars, hostVars, workVars
<1> QED BY <1>1, <1>2, <1>3, <1>4, <1>5, <1>6, <1>7 DEF DrainNext

(* A vector is never replaced by one computed from an older document.      *)
VectorNeverRegresses == [][\A k \in Key : vec'[k] >= vec[k]]_drainVars

(* With one worker no vector is ever replaced by one computed from an      *)
(* older document, not even when leases expire under it: batches overlap   *)
(* only with themselves.                                                   *)
THEOREM VectorsNeverRegress ==
    ASSUME OneWorker
    PROVE  DrainSpec => VectorNeverRegresses
<1>1. DrainTypeOK /\ GrowthInv /\ [DrainNext]_drainVars
        => GrowthInv' /\ [\A k \in Key : vec'[k] >= vec[k]]_drainVars
  BY GrowthStep
<1> QED BY <1>1, GrowthInit, DrainTypeCorrect, PTL
        DEF DrainSpec, VectorNeverRegresses

--------------------------------------------------------------------------------
(* Freshness.  A good lease is one no request has overtaken; as long as no *)
(* request is owed either, the document read under it is the host's        *)
(* current one, so what is stored under it is what the host wants.  Keys   *)
(* of models a process is not configured with pass for text and are never  *)
(* stored.                                                                 *)
VecFresh(k) ==
    task[k] = None /\ k \notin owed /\ dead[k] = 0 /\ Wanted(k) # 0
        => vec[k] = Wanted(k)

LEMMA FreshByKey == VectorFresh <=> \A k \in Key : VecFresh(k)
  BY DEF VectorFresh, VecFresh

Readable(w, k) == IF k[2] \in active[w] THEN Wanted(k) ELSE host[k[1]]

DocCurrent ==
    \A w \in Worker, k \in Key : Holds(w, k) /\ k \notin owed =>
        /\ stage[w][k] = "read" => doc[w][k] = host[k[1]]
        /\ stage[w][k] \in Hydrated => doc[w][k] = Readable(w, k)

(* Nobody but the worker removes the row of a lease.                       *)
LeasesHaveTasks ==
    \A w \in Worker, k \in Key : lease[w][k] # None => task[k] # None

ReadIsVL ==
    \A w \in Worker, k \in Key : stage[w][k] = "read" => IsVLModel(w, k[2])

StoredIsDoc ==
    \A w \in Worker, k \in Key : stage[w][k] = "stored" => vec[k] = doc[w][k]

EmbeddedIsActive ==
    \A w \in Worker, k \in Key :
        stage[w][k] \in {"embedded", "stored"} => k[2] \in active[w]

DrainGood ==
    DocCurrent /\ LeasesHaveTasks /\ ReadIsVL /\ StoredIsDoc /\ EmbeddedIsActive

FreshInv == DrainGood /\ \A k \in Key : VecFresh(k)

(* A step keeps what is known of the batch and every fresh vector fresh.   *)
StaysFresh == DrainGood' /\ \A k \in Key : VecFresh(k) => VecFresh(k)'

(* What every step starts from and what the queue's invariant becomes.     *)
Around == OneWorker /\ LeaseOutlivesWork /\ DrainTypeOK /\ BatchInv /\ IInv /\ IInv'

NothingRead ==
    \A w \in Worker, k \in Key : stage[w][k] = "none" /\ lease[w][k] = None

LEMMA NothingReadIsGood == NothingRead => DrainGood
  BY DEF NothingRead, DrainGood, DocCurrent, LeasesHaveTasks, ReadIsVL, StoredIsDoc,
         EmbeddedIsActive, Hydrated, Pending

LEMMA FreshInit == DrainInit => FreshInv
<1> SUFFICES ASSUME DrainInit PROVE FreshInv
  OBVIOUS
<1>1. NothingRead
  BY DEF DrainInit, Init, NothingRead
<1>2. \A k \in Key : Wanted(k) = 0
  BY DEF DrainInit, Wanted, Key
<1> QED BY <1>1, <1>2, NothingReadIsGood DEF FreshInv, VecFresh

LEMMA FreshHostEdit ==
    ASSUME Around, DrainGood, NEW e \in Entity, HostEdit(e)
    PROVE  StaysFresh
<1>1. \A k \in Key : k \notin owed' => /\ k \notin owed
                                       /\ host'[k[1]] = host[k[1]]
                                       /\ assets'[k[1]] = assets[k[1]]
  BY DEF HostEdit, Key, Around, DrainTypeOK
<1>2. UNCHANGED <<task, dead, lease, active, vec, stage, doc>>
  BY DEF HostEdit, vars, workVars
<1>3. \A k \in Key : k \notin owed' => Wanted(k)' = Wanted(k)
  BY <1>1 DEF Wanted, IsVL
<1>4. \A w \in Worker, k \in Key : k \notin owed' => Readable(w, k)' = Readable(w, k)
  BY <1>1, <1>2, <1>3 DEF Readable
<1>5. \A k \in Key : VecFresh(k) => VecFresh(k)'
  BY <1>1, <1>2, <1>3 DEF VecFresh
<1>6. DocCurrent'
  BY <1>1, <1>2, <1>4 DEF DrainGood, DocCurrent, Holds
<1> QED BY <1>2, <1>5, <1>6
        DEF StaysFresh, DrainGood, LeasesHaveTasks, ReadIsVL, StoredIsDoc,
            EmbeddedIsActive, IsVLModel

(* A request leaves a task for every key it asks for.                      *)
LEMMA RequestedHasTask ==
    ASSUME IInv, NEW E \in SUBSET Entity, NEW m \in Model, Request(E, m)
    PROVE  /\ E \X {m} \in SUBSET Key
           /\ Enqueue(E \X {m})
           /\ owed' = owed \ (E \X {m})
           /\ UNCHANGED <<host, assets, edits, active, vec, stage, doc, calls, dead,
                          lease>>
           /\ \A k \in Key \ (E \X {m}) : task'[k] = task[k]
           /\ \A k \in E \X {m} : task'[k] # None
<1> DEFINE S == E \X {m}
<1>1. /\ S \in SUBSET Key
      /\ Enqueue(S)
      /\ owed' = owed \ S
      /\ UNCHANGED <<host, assets, edits, active, vec, stage, doc, calls, dead, lease>>
  BY DEF Request, EnqueueMany, Enqueue, Key, workVars
<1>2. \A k \in Key \ S : task'[k] = task[k]
  BY <1>1 DEF Enqueue
<1>3. ASSUME NEW k \in S
      PROVE  task'[k] # None
  <2>1. task'[k] = Upserted(k) /\ CanStamp(k) /\ k \in Key
    BY <1>1 DEF Enqueue
  <2>2. Fresh(k) \in Stamp /\ (task[k] # None => task[k].attempts \in Nat)
    BY <2>1, FreshIsNew, Fields DEF IInv
  <2>3. task[k] # None \/ Upserted(k) \in Row
    BY <2>2 DEF Upserted, Row
  <2>4. task[k] = None \/ task[k].due \/ Upserted(k) \in Row
    BY <2>2 DEF Upserted, Row
  <2> QED BY <2>1, <2>3, <2>4, TaskQueueAssumption DEF Upserted
<1> QED BY <1>1, <1>2, <1>3

LEMMA FreshRequest ==
    ASSUME Around, DrainGood, NEW E \in SUBSET Entity, NEW m \in Model, Request(E, m)
    PROVE  StaysFresh
<1> DEFINE S == E \X {m}
<1>1. /\ S \in SUBSET Key
      /\ Enqueue(S)
      /\ owed' = owed \ S
      /\ UNCHANGED <<host, assets, active, vec, stage, doc, dead, lease>>
      /\ \A k \in Key \ S : task'[k] = task[k]
      /\ \A k \in S : task'[k] # None
  BY RequestedHasTask DEF Around
<1>2. \A w \in Worker, k \in S : ~Holds(w, k)'
  <2> SUFFICES ASSUME NEW w \in Worker, NEW k \in S, Holds(w, k)' PROVE FALSE
    OBVIOUS
  <2>1. lease[w][k] # None
    BY <1>1 DEF Holds
  <2>2. k \in overtaken'[w]
    BY <1>1, <2>1 DEF Enqueue
  <2> QED BY <1>1, <2>2 DEF Around, IInv, GoodLeasesAreCurrent
<1>3. \A w \in Worker, k \in Key \ S : Holds(w, k)' <=> Holds(w, k)
  BY <1>1 DEF Holds
<1>4. \A k \in Key : VecFresh(k) => VecFresh(k)'
  BY <1>1 DEF VecFresh, Wanted, IsVL
<1>5. DocCurrent'
  BY <1>1, <1>2, <1>3 DEF DrainGood, DocCurrent, Readable, Wanted, IsVL
<1>6. LeasesHaveTasks'
  BY <1>1 DEF DrainGood, LeasesHaveTasks
<1> QED BY <1>1, <1>4, <1>5, <1>6
        DEF StaysFresh, DrainGood, ReadIsVL, StoredIsDoc, EmbeddedIsActive, IsVLModel

LEMMA FreshExpire ==
    ASSUME Around, DrainGood, NEW k \in Key, DrainExpire(k)
    PROVE  StaysFresh
<1>1. /\ Expire(k)
      /\ UNCHANGED <<host, assets, owed, active, vec, stage, doc, dead, lease>>
  BY DEF DrainExpire, Expire, hostVars, workVars
<1>2. task'[k] = [task[k] EXCEPT !.due = TRUE] /\ task[k] \in Row /\ task[k] # None
  BY <1>1, Fields DEF Expire, Around, IInv, TypeOK
<1>3. task'[k] \in Row /\ task'[k].stamp = task[k].stamp
  BY <1>2 DEF Row
<1>4. \A j \in Key \ {k} : task'[j] = task[j]
  BY <1>1 DEF Expire, Around, IInv, TypeOK
<1>5. task'[k] # None
  BY <1>3, TaskQueueAssumption
<1>6. \A w \in Worker, j \in Key : Holds(w, j)' <=> Holds(w, j)
  BY <1>1, <1>2, <1>3, <1>4, <1>5 DEF Holds
<1>7. \A j \in Key : task'[j] = None <=> task[j] = None
  BY <1>2, <1>4, <1>5
<1>8. \A j \in Key : VecFresh(j) => VecFresh(j)'
  BY <1>1, <1>7 DEF VecFresh, Wanted, IsVL
<1>9. DocCurrent'
  BY <1>1, <1>6 DEF DrainGood, DocCurrent, Readable, Wanted, IsVL
<1> QED BY <1>1, <1>7, <1>8, <1>9
        DEF StaysFresh, DrainGood, LeasesHaveTasks, ReadIsVL, StoredIsDoc,
            EmbeddedIsActive, IsVLModel

(* Reading, sending, answering and storing leave rows and leases alone.    *)
LEMMA FreshMove ==
    ASSUME Around, DrainGood, UNCHANGED <<vars, host, assets, owed, active>>,
           \A k \in Key : vec'[k] = vec[k] \/ task[k] # None,
           \A w \in Worker, k \in Key :
              /\ stage'[w][k] = "read" =>
                    /\ IsVLModel(w, k[2])
                    /\ Holds(w, k) /\ k \notin owed => doc'[w][k] = host[k[1]]
              /\ stage'[w][k] \in Hydrated =>
                    (Holds(w, k) /\ k \notin owed => doc'[w][k] = Readable(w, k))
              /\ stage'[w][k] = "stored" => vec'[k] = doc'[w][k]
              /\ stage'[w][k] \in {"embedded", "stored"} => k[2] \in active[w]
    PROVE  StaysFresh
<1>1. UNCHANGED <<task, dead, lease>>
  BY DEF vars
<1>2. \A w \in Worker, k \in Key : Holds(w, k)' <=> Holds(w, k)
  BY <1>1 DEF Holds
<1>3. \A k \in Key : Wanted(k)' = Wanted(k)
  BY DEF Wanted, IsVL
<1>4. \A w \in Worker, k \in Key : Readable(w, k)' = Readable(w, k)
  BY <1>3 DEF Readable
<1>5. \A k \in Key : VecFresh(k) => VecFresh(k)'
  BY <1>1, <1>3 DEF VecFresh
<1>6. DocCurrent'
  BY <1>2, <1>4 DEF DocCurrent
<1>7. StoredIsDoc' /\ ReadIsVL' /\ EmbeddedIsActive'
  BY DEF StoredIsDoc, ReadIsVL, EmbeddedIsActive, IsVLModel
<1> QED BY <1>1, <1>5, <1>6, <1>7 DEF StaysFresh, DrainGood, LeasesHaveTasks

LEMMA FreshBuild ==
    ASSUME Around, DrainGood, NEW w \in Worker, NEW e \in Entity,
           BuildSemanticDocument(w, e)
    PROVE  StaysFresh
<1>1. UNCHANGED <<vars, host, assets, owed, active, vec>>
  BY DEF BuildSemanticDocument, hostVars
<1>2. \A v \in Worker, k \in Key :
         \/ /\ k[1] = e
            /\ stage'[v][k] = IF IsVLModel(v, k[2]) THEN "read" ELSE "ready"
            /\ doc'[v][k] = host[e]
         \/ stage'[v][k] = stage[v][k] /\ doc'[v][k] = doc[v][k]
  BY BuildEffect DEF Around
<1>3. \A v \in Worker, k \in Key :
         ~IsVLModel(v, k[2]) => Readable(v, k) = host[k[1]]
  BY DEF IsVLModel, IsVL, Readable, Wanted
<1>4. "read" \notin Hydrated
  BY DEF Hydrated, Pending
<1>5. \A v \in Worker, k \in Key :
         /\ stage'[v][k] = "read" =>
               /\ IsVLModel(v, k[2])
               /\ Holds(v, k) /\ k \notin owed => doc'[v][k] = host[k[1]]
         /\ stage'[v][k] \in Hydrated =>
               (Holds(v, k) /\ k \notin owed => doc'[v][k] = Readable(v, k))
         /\ stage'[v][k] = "stored" => vec'[k] = doc'[v][k]
         /\ stage'[v][k] \in {"embedded", "stored"} => k[2] \in active[v]
  BY <1>1, <1>2, <1>3, <1>4
  DEF DrainGood, DocCurrent, ReadIsVL, StoredIsDoc, EmbeddedIsActive
<1> QED BY <1>1, <1>5, FreshMove

LEMMA FreshAssets ==
    ASSUME Around, DrainGood, NEW w \in Worker, NEW e \in Entity, ListAssetURLs(w, e)
    PROVE  StaysFresh
<1>1. UNCHANGED <<vars, host, assets, owed, active, vec>>
  BY DEF ListAssetURLs, hostVars
<1>2. \A v \in Worker, k \in Key :
         \/ /\ stage[v][k] = "read" /\ k[1] = e
            /\ stage'[v][k] = "ready"
            /\ doc'[v][k] = IF assets[e] THEN doc[v][k] ELSE 0
         \/ stage'[v][k] = stage[v][k] /\ doc'[v][k] = doc[v][k]
  BY AssetsEffect DEF Around
<1>3. \A v \in Worker, k \in Key :
         IsVLModel(v, k[2]) =>
            Readable(v, k) = IF assets[k[1]] THEN host[k[1]] ELSE 0
  BY DEF IsVLModel, IsVL, Readable, Wanted
<1>4. \A v \in Worker, k \in Key :
         /\ stage'[v][k] = "read" =>
               /\ IsVLModel(v, k[2])
               /\ Holds(v, k) /\ k \notin owed => doc'[v][k] = host[k[1]]
         /\ stage'[v][k] \in Hydrated =>
               (Holds(v, k) /\ k \notin owed => doc'[v][k] = Readable(v, k))
         /\ stage'[v][k] = "stored" => vec'[k] = doc'[v][k]
         /\ stage'[v][k] \in {"embedded", "stored"} => k[2] \in active[v]
  BY <1>1, <1>2, <1>3
  DEF DrainGood, DocCurrent, ReadIsVL, StoredIsDoc, EmbeddedIsActive
<1> QED BY <1>1, <1>4, FreshMove

(* Dispatch and answers: only configured models are embedded.              *)
LEMMA FreshSend ==
    ASSUME Around, DrainGood, UNCHANGED <<vars, hostVars, vec, doc>>,
           \A w \in Worker, k \in Key :
              \/ /\ stage[w][k] \in {"ready", "sent"}
                 /\ stage'[w][k] \in {"sent", "embedded", "failed"}
                 /\ stage'[w][k] = "embedded" => k[2] \in active[w]
              \/ stage'[w][k] = stage[w][k]
    PROVE  StaysFresh
<1>1. UNCHANGED <<host, assets, owed, active>>
  BY DEF hostVars
<1>2. \A w \in Worker, k \in Key :
         /\ stage'[w][k] = "read" =>
               /\ IsVLModel(w, k[2])
               /\ Holds(w, k) /\ k \notin owed => doc'[w][k] = host[k[1]]
         /\ stage'[w][k] \in Hydrated =>
               (Holds(w, k) /\ k \notin owed => doc'[w][k] = Readable(w, k))
         /\ stage'[w][k] = "stored" => vec'[k] = doc'[w][k]
         /\ stage'[w][k] \in {"embedded", "stored"} => k[2] \in active[w]
  BY DEF DrainGood, DocCurrent, ReadIsVL, StoredIsDoc, EmbeddedIsActive, Hydrated,
         Pending
<1> QED BY <1>1, <1>2, FreshMove

LEMMA FreshStore ==
    ASSUME Around, DrainGood, NEW w \in Worker, NEW k \in Key, Store(w, k)
    PROVE  StaysFresh
<1>1. UNCHANGED <<vars, host, assets, owed, active, doc>>
  BY DEF Store, hostVars
<1>2. \A v \in Worker, j \in Key :
         \/ /\ j = k /\ stage[v][k] = "embedded"
            /\ \/ stage'[v][k] = "stored" /\ vec'[k] = doc[v][k]
               \/ stage'[v][k] = "failed" /\ vec'[k] = vec[k]
         \/ j # k /\ stage'[v][j] = stage[v][j] /\ vec'[j] = vec[j]
  BY StoreEffect DEF Around, OneWorker
<1>3. task[k] # None
  <2>1. stage[w][k] # "none"
    BY <1>2
  <2> QED BY <2>1 DEF Around, BatchInv, Batch, DrainGood, LeasesHaveTasks
<1>4. \A v \in Worker, j \in Key :
         /\ stage'[v][j] = "read" =>
               /\ IsVLModel(v, j[2])
               /\ Holds(v, j) /\ j \notin owed => doc'[v][j] = host[j[1]]
         /\ stage'[v][j] \in Hydrated =>
               (Holds(v, j) /\ j \notin owed => doc'[v][j] = Readable(v, j))
         /\ stage'[v][j] = "stored" => vec'[j] = doc'[v][j]
         /\ stage'[v][j] \in {"embedded", "stored"} => j[2] \in active[v]
  BY <1>1, <1>2
  DEF DrainGood, DocCurrent, ReadIsVL, StoredIsDoc, EmbeddedIsActive, Hydrated, Pending
<1>5. \A j \in Key : vec'[j] = vec[j] \/ task[j] # None
  BY <1>2, <1>3
<1> QED BY <1>1, <1>4, <1>5, FreshMove

--------------------------------------------------------------------------------
(* The steps that write rows or leases.                                    *)
LEMMA FreshFetch ==
    ASSUME Around, DrainGood, NEW w \in Worker, FetchBatch(w)
    PROVE  StaysFresh
<1>1. PICK S \in SUBSET Key : FetchReady(w, S) /\ Move(w, S, "leased")
  BY DEF FetchBatch
<1>2. UNCHANGED <<host, assets, owed, active, vec, doc, dead>>
  BY <1>1 DEF FetchBatch, FetchReady, hostVars
<1>3. \A v \in Worker, k \in Key : stage[v][k] = "none"
  BY <1>1 DEF FetchReady, Idle, Around, OneWorker, BatchInv, Batch
<1>4. \A v \in Worker, k \in Key : stage'[v][k] \in {"leased", "none"}
  BY <1>1, <1>3, MoveEffect DEF Around, Stage
<1>5. \A k \in S : task[k] # None /\ task'[k] # None
  BY <1>1, FetchedKey DEF Around, IInv
<1>6. \A k \in Key \ S : task'[k] = task[k]
  BY <1>1 DEF FetchReady
<1>7. \A v \in Worker, k \in Key \ S : lease'[v][k] = None
  BY <1>1 DEF FetchReady, Around, OneWorker, IInv, TypeOK
<1>8. \A k \in Key : VecFresh(k) => VecFresh(k)'
  BY <1>2, <1>5, <1>6 DEF VecFresh, Wanted, IsVL
<1>9. DrainGood'
  BY <1>4, <1>5, <1>7
  DEF DrainGood, DocCurrent, LeasesHaveTasks, ReadIsVL, StoredIsDoc, EmbeddedIsActive,
      Hydrated, Pending
<1> QED BY <1>8, <1>9 DEF StaysFresh

LEMMA FreshDrop ==
    ASSUME Around, DrainGood, NEW w \in Worker, AbortBatch(w)
    PROVE  StaysFresh
<1>1. UNCHANGED <<host, assets, owed, active, vec, task, dead>>
  BY DEF AbortBatch, DropBatch, AbandonLeases, hostVars
<1>2. \A v \in Worker, k \in Key : stage'[v][k] = "none"
  BY MoveEffect DEF AbortBatch, DropBatch, Around, OneWorker, Stage
<1>3. BatchInv'
  BY WorkerStepKeepsBatches DEF WorkerStep, Around
<1>4. \A v \in Worker, k \in Key : lease'[v][k] = None
  BY <1>2, <1>3 DEF BatchInv, Batch
<1>5. DrainGood'
  BY <1>2, <1>4
  DEF DrainGood, DocCurrent, LeasesHaveTasks, ReadIsVL, StoredIsDoc, EmbeddedIsActive,
      Hydrated, Pending
<1> QED BY <1>1, <1>5 DEF StaysFresh, VecFresh, Wanted, IsVL

LEMMA LeasedHasTask ==
    ASSUME Around, DrainGood, NEW w \in Worker, NEW k \in Key, stage[w][k] # "none"
    PROVE  task[k] # None
  BY DEF Around, BatchInv, Batch, DrainGood, LeasesHaveTasks

(* Only a completion under a good lease takes a row away without a trace.  *)
LEMMA CompletionNeedsLease ==
    ASSUME IInv, NEW w \in Worker, NEW k \in Key, task[k] # None, Complete(w, k),
           task'[k] = None
    PROVE  Holds(w, k)
  BY DEF Complete, DeleteIfHeld, IInv, TypeOK

LEMMA OthersLeaveATrace ==
    ASSUME IInv, NEW w \in Worker, NEW k \in Key, task[k] # None,
           Fail(w, k) \/ DeadLetter(w, k) \/ AbandonLeases(w, {k})
    PROVE  task'[k] # None \/ dead'[k] # 0
<1>1. CASE Fail(w, k) /\ ~Holds(w, k)
  BY <1>1 DEF Fail, IInv, TypeOK
<1>2. CASE Fail(w, k) /\ Holds(w, k)
  <2>1. task'[k] = Failed(k) /\ CanStamp(k)
    BY <1>2 DEF Fail, IInv, TypeOK
  <2>2. Fresh(k) \in Stamp /\ task[k].attempts \in Nat
    BY <2>1, FreshIsNew, Fields DEF IInv
  <2>3. Failed(k) \in Row
    BY <2>2 DEF Failed, Row
  <2> QED BY <2>1, <2>3, TaskQueueAssumption
<1>3. CASE DeadLetter(w, k)
  <2>1. dead'[k] = lease[w][k].attempts + 1 /\ lease[w][k].attempts \in Nat
    BY <1>3, Fields DEF DeadLetter, IInv, TypeOK
  <2> QED BY <2>1
<1>4. CASE AbandonLeases(w, {k})
  BY <1>4 DEF AbandonLeases
<1> QED BY <1>1, <1>2, <1>3, <1>4

(* Recording one result, if what it removes is not needed any more.        *)
LEMMA FreshRecord ==
    ASSUME Around, DrainGood, NEW w \in Worker, NEW k \in Key, Done(w, k),
           UNCHANGED <<host, assets, owed, active, vec>>,
           \/ Complete(w, k) \/ Fail(w, k) \/ DeadLetter(w, k)
           \/ AbandonLeases(w, {k}),
           task'[k] = None /\ dead'[k] = 0 /\ k \notin owed /\ Wanted(k) # 0
              => vec[k] = Wanted(k)
    PROVE  StaysFresh
<1>1. \A v \in Worker, j \in Key :
         /\ stage'[v][j] = IF j = k THEN "none" ELSE stage[v][j]
         /\ doc'[v][j] = IF j = k THEN 0 ELSE doc[v][j]
  BY DoneOne DEF Around
<1>2. \A v \in Worker, j \in Key :
         lease'[v][j] = IF j = k THEN None ELSE lease[v][j]
  <2>1. TypeOK
    BY DEF Around, IInv
  <2> QED BY <2>1, RecordEffect DEF Around, OneWorker
<1>3. \A j \in Key \ {k} : task'[j] = task[j] /\ dead'[j] = dead[j]
  BY DEF Complete, Fail, DeadLetter, DeleteIfHeld, AbandonLeases, Around, IInv, TypeOK
<1>4. \A j \in Key : Wanted(j)' = Wanted(j)
  BY DEF Wanted, IsVL
<1>5. \A v \in Worker, j \in Key : Readable(v, j)' = Readable(v, j)
  BY <1>4 DEF Readable
<1>6. \A j \in Key : VecFresh(j) => VecFresh(j)'
  BY <1>3, <1>4 DEF VecFresh
<1>7. \A v \in Worker, j \in Key : Holds(v, j)' => j # k /\ Holds(v, j)
  BY <1>2, <1>3 DEF Holds
<1>8. DocCurrent'
  BY <1>1, <1>5, <1>7 DEF DrainGood, DocCurrent
<1>9. LeasesHaveTasks'
  BY <1>2, <1>3 DEF DrainGood, LeasesHaveTasks
<1>10. ReadIsVL' /\ StoredIsDoc' /\ EmbeddedIsActive'
  BY <1>1 DEF DrainGood, ReadIsVL, StoredIsDoc, EmbeddedIsActive, IsVLModel
<1> QED BY <1>6, <1>8, <1>9, <1>10 DEF StaysFresh, DrainGood

LEMMA FreshEmpty ==
    ASSUME Around, DrainGood, NEW w \in Worker, NEW k \in Key, CompleteEmpty(w, k)
    PROVE  StaysFresh
<1>1. stage[w][k] = "ready" /\ doc[w][k] = 0
  BY DEF CompleteEmpty, Empty, At
<1>2. Holds(w, k) /\ k \notin owed => Wanted(k) = 0
  BY <1>1 DEF DrainGood, DocCurrent, Hydrated, Readable, Wanted
<1>3. UNCHANGED <<host, assets, owed, active, vec>> /\ Done(w, k)
  BY DEF CompleteEmpty, hostVars
<1>4. CASE Complete(w, k)
  BY <1>1, <1>2, <1>3, <1>4, LeasedHasTask, CompletionNeedsLease, FreshRecord DEF Around
<1>5. CASE AbandonLeases(w, {k})
  BY <1>1, <1>3, <1>5, LeasedHasTask, OthersLeaveATrace, FreshRecord DEF Around
<1> QED BY <1>4, <1>5 DEF CompleteEmpty

LEMMA FreshResult ==
    ASSUME Around, DrainGood, NEW w \in Worker, NEW C \in calls[w], NEW k \in Key,
           HandleTaskResult(w, C, k)
    PROVE  StaysFresh
<1>1. stage[w][k] # "none"
  BY DEF HandleTaskResult, Unrecorded, At
<1>2. UNCHANGED <<host, assets, owed, active, vec>> /\ Done(w, k)
  BY DEF HandleTaskResult, hostVars
<1>3. CASE stage[w][k] = "stored" /\ Complete(w, k)
  <2>1. Holds(w, k) /\ k \notin owed => vec[k] = Wanted(k)
    BY <1>3
    DEF DrainGood, DocCurrent, StoredIsDoc, EmbeddedIsActive, Readable, Hydrated, Pending
  <2> QED
    BY <1>1, <1>2, <1>3, <2>1, LeasedHasTask, CompletionNeedsLease, FreshRecord DEF Around
<1>4. CASE stage[w][k] = "failed" /\ NotFound(w, k) /\ Complete(w, k)
  <2>1. Holds(w, k) /\ k \notin owed => Wanted(k) = 0
    BY <1>4 DEF NotFound, DrainGood, DocCurrent, Readable, Hydrated, Pending
  <2> QED
    BY <1>1, <1>2, <1>4, <2>1, LeasedHasTask, CompletionNeedsLease, FreshRecord DEF Around
<1>5. CASE Fail(w, k) \/ DeadLetter(w, k) \/ AbandonLeases(w, {k})
  BY <1>1, <1>2, <1>5, LeasedHasTask, OthersLeaveATrace, FreshRecord DEF Around
<1> QED BY <1>3, <1>4, <1>5 DEF HandleTaskResult, Outcome, Succeeded

LEMMA FreshWorkerStep ==
    ASSUME Around, DrainGood, NEW w \in Worker, WorkerStep(w)
    PROVE  StaysFresh
<1>1. ASSUME NEW C \in SUBSET At(w, "ready"), Dispatch(w, C)
      PROVE  StaysFresh
  <2>1. \A v \in Worker, k \in Key :
           \/ stage[v][k] = "ready" /\ stage'[v][k] = "sent"
           \/ stage'[v][k] = stage[v][k]
    BY <1>1, SendEffect DEF Around
  <2>2. UNCHANGED <<vars, hostVars, vec, doc>>
    BY <1>1 DEF Dispatch
  <2> QED BY <2>1, <2>2, FreshSend
<1>2. ASSUME NEW e \in Entity, BuildSemanticDocument(w, e) \/ ListAssetURLs(w, e)
      PROVE  StaysFresh
  BY <1>2, FreshBuild, FreshAssets
<1>3. ASSUME NEW m \in Model, SendText(w, m)
      PROVE  StaysFresh
  BY <1>1, <1>3 DEF SendText, TextReady
<1>4. ASSUME NEW k \in Key, SendVL(w, k)
      PROVE  StaysFresh
  BY <1>1, <1>4 DEF SendVL
<1>5. ASSUME NEW C \in calls[w], Answer(w, C)
      PROVE  StaysFresh
  BY <1>5, AnswerEffect, FreshSend DEF Around
<1>6. ASSUME NEW k \in Key, CompleteEmpty(w, k) \/ Store(w, k)
      PROVE  StaysFresh
  BY <1>6, FreshEmpty, FreshStore
<1>7. ASSUME NEW C \in calls[w], NEW k \in Key, HandleTaskResult(w, C, k)
      PROVE  StaysFresh
  BY <1>7, FreshResult
<1> QED BY <1>1, <1>2, <1>3, <1>4, <1>5, <1>6, <1>7, FreshFetch, FreshDrop
        DEF WorkerStep

LEMMA FreshStep ==
    ASSUME Around, DrainGood, [DrainNext]_drainVars
    PROVE  StaysFresh
<1>1. CASE UNCHANGED drainVars
  BY <1>1 DEF drainVars, vars, hostVars, workVars, StaysFresh, DrainGood, VecFresh,
              DocCurrent, LeasesHaveTasks, ReadIsVL, StoredIsDoc, EmbeddedIsActive,
              IsVLModel, Readable, Wanted, IsVL, Holds
<1> QED BY <1>1, FreshWorkerStep, FreshHostEdit, FreshRequest, FreshExpire
        DEF DrainNext

(* With one worker whose leases outlive its batches, a completed task      *)
(* never hides a newer document: when nothing is pending for a key, its    *)
(* vector is the one of the document the host has now - for any number of  *)
(* entities and models, any batch size and any sequence of edits.          *)
THEOREM VectorsStayFresh ==
    ASSUME OneWorker, LeaseOutlivesWork
    PROVE  DrainSpec => []VectorFresh
<1>1. DrainTypeOK /\ BatchInv /\ IInv /\ IInv' /\ FreshInv /\ [DrainNext]_drainVars
        => FreshInv'
  BY FreshStep DEF Around, FreshInv, StaysFresh
<1>2. DrainSpec => []FreshInv
  BY <1>1, FreshInit, DrainTypeCorrect, BatchInvariant, DrainKeepsQueueInvariant, PTL
  DEF DrainSpec
<1>3. FreshInv => VectorFresh
  BY FreshByKey DEF FreshInv
<1> QED BY <1>2, <1>3, PTL

--------------------------------------------------------------------------------
(* What is stored, for any number of workers and however leases expire:    *)
(* unless the host's change is still owed or the key was requested again   *)
(* under the lease, the document a worker read is still the current one.   *)
Undisturbed(w, k) == k \notin owed \cup overtaken[w]

ReadsCurrent ==
    \A w \in Worker, k \in Key : Undisturbed(w, k) =>
        /\ stage[w][k] = "read" => doc[w][k] = host[k[1]]
        /\ stage[w][k] \in Hydrated => doc[w][k] = Readable(w, k)

CurrentInv == ReadsCurrent /\ ReadIsVL /\ EmbeddedIsActive

StoresAreCurrent ==
    \A w \in Worker, k \in Key :
        /\ stage[w][k] = "embedded"
        /\ stage'[w][k] = "stored"
        /\ k \notin owed \cup overtaken[w]
        => vec'[k] = Wanted(k)

LEMMA CurrentInit == DrainInit => CurrentInv
  BY DEF DrainInit, CurrentInv, ReadsCurrent, ReadIsVL, EmbeddedIsActive, Hydrated,
         Pending

(* A step that reads the current document or moves a key on with the one   *)
(* it has, and forgets no request under a lease it keeps.                  *)
LEMMA CurrentMove ==
    ASSUME CurrentInv, UNCHANGED <<host, assets, owed, active>>,
           \A w \in Worker, k \in Key :
              \/ stage'[w][k] \in {"none", "leased"}
              \/ /\ k \in overtaken[w] => k \in overtaken'[w]
                 /\ stage'[w][k] = "read" =>
                       /\ IsVLModel(w, k[2])
                       /\ Undisturbed(w, k) => doc'[w][k] = host[k[1]]
                 /\ stage'[w][k] \in Hydrated =>
                       (Undisturbed(w, k) => doc'[w][k] = Readable(w, k))
                 /\ stage'[w][k] \in {"embedded", "stored"} => k[2] \in active[w]
    PROVE  CurrentInv'
<1>1. {"none", "leased"} \cap ({"read", "embedded", "stored"} \cup Hydrated) = {}
  BY DEF Hydrated, Pending
<1>2. \A w \in Worker, k \in Key : Readable(w, k)' = Readable(w, k)
  BY DEF Readable, Wanted, IsVL
<1>3. ReadsCurrent'
  BY <1>1, <1>2 DEF ReadsCurrent, Undisturbed
<1>4. ReadIsVL' /\ EmbeddedIsActive'
  BY <1>1 DEF ReadIsVL, EmbeddedIsActive, IsVLModel
<1> QED BY <1>3, <1>4 DEF CurrentInv

(* Nothing happens to the documents, the rows and the leases but that      *)
(* keys move on and a vector may be stored.                                *)
LEMMA CurrentSend ==
    ASSUME CurrentInv, UNCHANGED <<vars, hostVars, doc>>,
           \A w \in Worker, k \in Key :
              \/ /\ stage[w][k] \in Hydrated
                 /\ stage'[w][k] \in {"sent", "embedded", "stored", "failed"}
                 /\ stage'[w][k] \in {"embedded", "stored"} => k[2] \in active[w]
              \/ stage'[w][k] = stage[w][k]
    PROVE  CurrentInv'
<1>1. UNCHANGED <<host, assets, owed, active, overtaken>>
  BY DEF vars, hostVars
<1>2. "read" \notin {"sent", "embedded", "stored", "failed"}
  OBVIOUS
<1> QED BY <1>1, <1>2, CurrentMove
        DEF CurrentInv, ReadsCurrent, ReadIsVL, EmbeddedIsActive

LEMMA CurrentRequest ==
    ASSUME CurrentInv, BatchInv, IInv,
           NEW E \in SUBSET Entity, NEW m \in Model, Request(E, m)
    PROVE  CurrentInv'
<1> DEFINE S == E \X {m}
<1>1. /\ S \in SUBSET Key
      /\ Enqueue(S)
      /\ owed' = owed \ S
      /\ UNCHANGED <<host, assets, active, stage, doc, lease>>
  BY RequestedHasTask
<1>2. \A w \in Worker, k \in Key :
         stage[w][k] # "none" /\ Undisturbed(w, k)' => Undisturbed(w, k)
  <2> SUFFICES ASSUME NEW w \in Worker, NEW k \in Key, stage[w][k] # "none",
                      Undisturbed(w, k)'
               PROVE  Undisturbed(w, k)
    OBVIOUS
  <2>1. lease[w][k] # None
    BY DEF BatchInv, Batch
  <2>2. overtaken'[w] = overtaken[w] \cup {j \in S : lease[w][j] # None}
    BY <1>1 DEF Enqueue
  <2>3. k \notin S
    BY <2>1, <2>2 DEF Undisturbed
  <2> QED BY <1>1, <2>2, <2>3 DEF Undisturbed
<1>3. \A w \in Worker, k \in Key : Readable(w, k)' = Readable(w, k)
  BY <1>1 DEF Readable, Wanted, IsVL
<1>4. ReadsCurrent'
  BY <1>1, <1>2, <1>3 DEF CurrentInv, ReadsCurrent, Hydrated, Pending
<1> QED BY <1>1, <1>4 DEF CurrentInv, ReadIsVL, EmbeddedIsActive, IsVLModel

LEMMA CurrentHostEdit ==
    ASSUME DrainTypeOK, CurrentInv, NEW e \in Entity, HostEdit(e)
    PROVE  CurrentInv'
<1>1. \A k \in Key : k \notin owed' => /\ k \notin owed
                                       /\ host'[k[1]] = host[k[1]]
                                       /\ assets'[k[1]] = assets[k[1]]
  BY DEF HostEdit, Key, DrainTypeOK
<1>2. UNCHANGED <<overtaken, active, stage, doc>>
  BY DEF HostEdit, vars, workVars
<1>3. \A w \in Worker, k \in Key : k \notin owed' => Readable(w, k)' = Readable(w, k)
  BY <1>1, <1>2 DEF Readable, Wanted, IsVL
<1>4. ReadsCurrent'
  BY <1>1, <1>2, <1>3 DEF CurrentInv, ReadsCurrent, Undisturbed
<1> QED BY <1>2, <1>4 DEF CurrentInv, ReadIsVL, EmbeddedIsActive, IsVLModel

LEMMA CurrentStutter ==
    ASSUME CurrentInv,
           UNCHANGED <<host, assets, owed, active, overtaken, stage, doc>>
    PROVE  CurrentInv'
  BY DEF CurrentInv, ReadsCurrent, Undisturbed, ReadIsVL, EmbeddedIsActive, IsVLModel,
         Readable, Wanted, IsVL

LEMMA CurrentFetch ==
    ASSUME DrainTypeOK, CurrentInv, BatchInv, NEW w \in Worker, FetchBatch(w)
    PROVE  CurrentInv'
<1>1. PICK S \in SUBSET Key : FetchReady(w, S) /\ Move(w, S, "leased")
  BY DEF FetchBatch
<1>2. UNCHANGED <<host, assets, owed, active, doc>>
  BY DEF FetchBatch, hostVars
<1>3. \A k \in Key : stage[w][k] = "none"
  BY <1>1 DEF FetchReady, Idle, BatchInv, Batch
<1>4. \A v \in Worker, k \in Key :
         stage'[v][k] = IF v = w /\ k \in S THEN "leased" ELSE stage[v][k]
  BY <1>1, MoveEffect DEF Stage
<1>5. \A v \in Worker : v # w => overtaken'[v] = overtaken[v]
  BY <1>1 DEF FetchReady, DrainTypeOK, TypeOK
<1> QED BY <1>2, <1>3, <1>4, <1>5, CurrentMove
        DEF CurrentInv, ReadsCurrent, ReadIsVL, EmbeddedIsActive

LEMMA CurrentAbort ==
    ASSUME DrainTypeOK, CurrentInv, NEW w \in Worker, AbortBatch(w)
    PROVE  CurrentInv'
<1>1. UNCHANGED <<host, assets, owed, active>>
  BY DEF AbortBatch, hostVars
<1>2. \A v \in Worker, k \in Key :
         stage'[v][k] = IF v = w THEN "none" ELSE stage[v][k]
  BY MoveEffect DEF AbortBatch, DropBatch, Stage
<1>3. \A v \in Worker : v # w => overtaken'[v] = overtaken[v] /\ doc'[v] = doc[v]
  BY DEF AbortBatch, DropBatch, AbandonLeases, DrainTypeOK, TypeOK
<1> QED BY <1>1, <1>2, <1>3, CurrentMove
        DEF CurrentInv, ReadsCurrent, ReadIsVL, EmbeddedIsActive

LEMMA CurrentDone ==
    ASSUME DrainTypeOK, CurrentInv, NEW w \in Worker, NEW k \in Key, Done(w, k),
           UNCHANGED <<host, assets, owed, active>>,
           \/ Complete(w, k) \/ Fail(w, k) \/ DeadLetter(w, k)
           \/ AbandonLeases(w, {k})
    PROVE  CurrentInv'
<1>1. \A v \in Worker, j \in Key :
         /\ stage'[v][j] = IF v = w /\ j = k THEN "none" ELSE stage[v][j]
         /\ doc'[v][j] = IF v = w /\ j = k THEN 0 ELSE doc[v][j]
  BY DoneEffect
<1>2. overtaken' = [overtaken EXCEPT ![w] = @ \ {k}]
  BY DEF Complete, Fail, DeadLetter, AbandonLeases, Drop
<1>3. \A v \in Worker, j \in Key :
         (v # w \/ j # k) /\ j \in overtaken[v] => j \in overtaken'[v]
  BY <1>2 DEF DrainTypeOK, TypeOK
<1> QED BY <1>1, <1>3, CurrentMove
        DEF CurrentInv, ReadsCurrent, ReadIsVL, EmbeddedIsActive

LEMMA CurrentRead ==
    ASSUME DrainTypeOK, CurrentInv, NEW w \in Worker, NEW e \in Entity,
           BuildSemanticDocument(w, e) \/ ListAssetURLs(w, e)
    PROVE  CurrentInv'
<1>1. UNCHANGED <<host, assets, owed, active, overtaken>>
  BY DEF BuildSemanticDocument, ListAssetURLs, hostVars, vars
<1>2. \A v \in Worker, k \in Key :
         Readable(v, k) = IF ~IsVLModel(v, k[2]) \/ assets[k[1]]
                          THEN host[k[1]] ELSE 0
  BY DEF IsVLModel, IsVL, Readable, Wanted
<1>3. CASE BuildSemanticDocument(w, e)
  <2>1. \A v \in Worker, k \in Key :
           \/ /\ k[1] = e
              /\ stage'[v][k] = IF IsVLModel(v, k[2]) THEN "read" ELSE "ready"
              /\ doc'[v][k] = host[e]
           \/ stage'[v][k] = stage[v][k] /\ doc'[v][k] = doc[v][k]
    BY <1>3, BuildEffect
  <2>2. "read" \notin Hydrated
    BY DEF Hydrated, Pending
  <2>3. \A v \in Worker, k \in Key :
           /\ stage'[v][k] = "read" =>
                 /\ IsVLModel(v, k[2])
                 /\ Undisturbed(v, k) => doc'[v][k] = host[k[1]]
           /\ stage'[v][k] \in Hydrated =>
                 (Undisturbed(v, k) => doc'[v][k] = Readable(v, k))
           /\ stage'[v][k] \in {"embedded", "stored"} => k[2] \in active[v]
    BY <1>2, <2>1, <2>2 DEF CurrentInv, ReadsCurrent, ReadIsVL, EmbeddedIsActive
  <2> QED BY <1>1, <2>3, CurrentMove
<1>4. CASE ListAssetURLs(w, e)
  BY <1>1, <1>2, <1>4, AssetsEffect, CurrentMove
  DEF CurrentInv, ReadsCurrent, ReadIsVL, EmbeddedIsActive
<1> QED BY <1>3, <1>4

LEMMA CurrentStore ==
    ASSUME DrainTypeOK, CurrentInv, NEW w \in Worker, NEW k \in Key, Store(w, k)
    PROVE  CurrentInv' /\ StoresAreCurrent
<1>1. /\ stage[w][k] = "embedded"
      /\ \A v \in Worker, j \in Key : v # w \/ j # k => stage'[v][j] = stage[v][j]
      /\ \/ stage'[w][k] = "stored" /\ vec'[k] = doc[w][k]
         \/ stage'[w][k] = "failed" /\ vec'[k] = vec[k]
      /\ UNCHANGED <<vars, hostVars, doc>>
  BY StoreEffect
<1>2. "embedded" \in Hydrated /\ k[2] \in active[w]
  BY <1>1 DEF Hydrated, Pending, CurrentInv, EmbeddedIsActive
<1>3. CurrentInv'
  BY <1>1, <1>2, CurrentSend
<1>4. Undisturbed(w, k) => doc[w][k] = Wanted(k)
  BY <1>1, <1>2 DEF CurrentInv, ReadsCurrent, Readable
<1>5. StoresAreCurrent
  BY <1>1, <1>4 DEF StoresAreCurrent, Undisturbed
<1> QED BY <1>3, <1>5

LEMMA CurrentWorkerStep ==
    ASSUME DrainTypeOK, CurrentInv, BatchInv, NEW w \in Worker, WorkerStep(w)
    PROVE  CurrentInv' /\ StoresAreCurrent
<1> DEFINE NoStore == \A v \in Worker, k \in Key :
                         stage[v][k] = "embedded" => stage'[v][k] # "stored"
<1>1. NoStore => StoresAreCurrent
  BY DEF StoresAreCurrent
<1>2. CASE FetchBatch(w)
  <2>1. \A v \in Worker, k \in Key : stage'[v][k] \in {"leased", stage[v][k]}
    BY <1>2, MoveEffect DEF FetchBatch, Stage
  <2> QED BY <1>1, <1>2, <2>1, CurrentFetch
<1>3. CASE AbortBatch(w)
  <2>1. \A v \in Worker, k \in Key : stage'[v][k] \in {"none", stage[v][k]}
    BY <1>3, MoveEffect DEF AbortBatch, DropBatch, Stage
  <2> QED BY <1>1, <1>3, <2>1, CurrentAbort
<1>4. ASSUME NEW e \in Entity, BuildSemanticDocument(w, e) \/ ListAssetURLs(w, e)
      PROVE  CurrentInv' /\ StoresAreCurrent
  BY <1>1, <1>4, BuildEffect, AssetsEffect, CurrentRead
<1>5. ASSUME NEW C \in SUBSET At(w, "ready"), Dispatch(w, C)
      PROVE  CurrentInv' /\ StoresAreCurrent
  <2>1. /\ \A v \in Worker, k \in Key :
              \/ stage[v][k] = "ready" /\ stage'[v][k] = "sent"
              \/ stage'[v][k] = stage[v][k]
        /\ UNCHANGED <<vars, hostVars, doc>>
    BY <1>5, SendEffect
  <2>2. CurrentInv'
    BY <2>1, CurrentSend DEF Hydrated
  <2> QED BY <1>1, <2>1, <2>2
<1>6. ASSUME NEW m \in Model, SendText(w, m)
      PROVE  CurrentInv' /\ StoresAreCurrent
  BY <1>5, <1>6 DEF SendText, TextReady
<1>7. ASSUME NEW k \in Key, SendVL(w, k)
      PROVE  CurrentInv' /\ StoresAreCurrent
  BY <1>5, <1>7 DEF SendVL
<1>8. ASSUME NEW C \in calls[w], Answer(w, C)
      PROVE  CurrentInv' /\ StoresAreCurrent
  <2>1. /\ \A v \in Worker, k \in Key :
              \/ /\ stage[v][k] = "sent" /\ stage'[v][k] \in {"embedded", "failed"}
                 /\ stage'[v][k] = "embedded" => k[2] \in active[v]
              \/ stage'[v][k] = stage[v][k]
        /\ UNCHANGED <<vars, hostVars, doc>>
    BY <1>8, AnswerEffect
  <2>2. CurrentInv'
    BY <2>1, CurrentSend DEF Hydrated, Pending
  <2> QED BY <1>1, <2>1, <2>2
<1>9. ASSUME NEW k \in Key, Done(w, k), UNCHANGED hostVars,
             \/ Complete(w, k) \/ Fail(w, k) \/ DeadLetter(w, k)
             \/ AbandonLeases(w, {k})
      PROVE  CurrentInv' /\ StoresAreCurrent
  BY <1>1, <1>9, DoneEffect, CurrentDone DEF hostVars
<1>10. ASSUME NEW k \in Key, CompleteEmpty(w, k)
       PROVE  CurrentInv' /\ StoresAreCurrent
  BY <1>9, <1>10 DEF CompleteEmpty
<1>11. ASSUME NEW C \in calls[w], NEW k \in Key, HandleTaskResult(w, C, k)
       PROVE  CurrentInv' /\ StoresAreCurrent
  BY <1>9, <1>11 DEF HandleTaskResult, Outcome
<1> QED BY <1>2, <1>3, <1>4, <1>6, <1>7, <1>8, <1>10, <1>11, CurrentStore
        DEF WorkerStep

LEMMA CurrentStep ==
    ASSUME DrainTypeOK, CurrentInv, BatchInv, IInv, [DrainNext]_drainVars
    PROVE  CurrentInv' /\ [StoresAreCurrent]_drainVars
<1>1. UNCHANGED stage => StoresAreCurrent
  BY DEF StoresAreCurrent
<1>2. ASSUME NEW e \in Entity, HostEdit(e)
      PROVE  CurrentInv' /\ StoresAreCurrent
  BY <1>1, <1>2, CurrentHostEdit DEF HostEdit, workVars
<1>3. ASSUME NEW E \in SUBSET Entity, NEW m \in Model, Request(E, m)
      PROVE  CurrentInv' /\ StoresAreCurrent
  BY <1>1, <1>3, CurrentRequest DEF Request, workVars
<1>4. ASSUME NEW k \in Key, DrainExpire(k)
      PROVE  CurrentInv' /\ StoresAreCurrent
  BY <1>1, <1>4, CurrentStutter DEF DrainExpire, Expire, hostVars, workVars
<1>5. CASE UNCHANGED drainVars
  BY <1>5, CurrentStutter DEF drainVars, vars, hostVars, workVars
<1> QED BY <1>2, <1>3, <1>4, <1>5, CurrentWorkerStep DEF DrainNext

(* Any number of loops, leases that expire or not: what a loop stores is   *)
(* the vector of the document the host has at that moment, unless the      *)
(* host's change is still to be requested or the key was requested again   *)
(* after the loop leased it.  A loop that stores late can undo only what   *)
(* such a request has already made somebody else redo.                     *)
THEOREM StoredVectorsAreCurrent == DrainSpec => StoresCurrent
<1>1. DrainTypeOK /\ BatchInv /\ IInv /\ CurrentInv /\ [DrainNext]_drainVars
        => CurrentInv' /\ [StoresAreCurrent]_drainVars
  BY CurrentStep
<1> QED BY <1>1, CurrentInit, DrainTypeCorrect, BatchInvariant,
           DrainKeepsQueueInvariant, PTL DEF DrainSpec, StoresCurrent, StoresAreCurrent
================================================================================
