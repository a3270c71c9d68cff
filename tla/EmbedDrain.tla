------------------------------- MODULE EmbedDrain -------------------------------
(***************************************************************************)
(* Draining the queue: DrainOnce / Run, hydrateBatch, processBatch and     *)
(* handleTaskResult (src/worker/worker.go), the provider call and the      *)
(* vector upsert (src/runtime/runtime.go, src/pg/storage.go), over the     *)
(* tables of TaskQueue.                                                    *)
(*                                                                         *)
(* Content is abstracted to the number of the host edit that wrote it, and *)
(* a vector to the version of the document it was computed from: the       *)
(* question here is whether embedding_vectors catches up with the host.    *)
(***************************************************************************)
EXTENDS TaskQueue

CONSTANTS
    VLModel,        \* models that embed a document together with assets
    ChunkSize,      \* providerEmbedBatchSize
    MaxConcurrent,  \* Options.MaxConcurrentEmbeds
    MaxEdits        \* bound: host edits in a behaviour

ASSUME EmbedDrainAssumption ==
    /\ VLModel \subseteq Model
    /\ ChunkSize \in Nat \ {0}
    /\ MaxConcurrent \in Nat \ {0}
    /\ MaxEdits \in Nat

VARIABLES
    host,       \* entity -> version of its document, 0 = missing or blank
    assets,     \* entity -> does it have asset URLs
    edits,      \* host edits so far: the newest version
    owed,       \* keys whose content changed and that are not requested yet
    active,     \* worker -> models its process is configured with
    vec,        \* embedding_vectors: key -> version embedded, 0 = no vector
    stage,      \* worker -> key -> how far processBatch got with it
    doc,        \* worker -> key -> the version hydrateBatch read
    calls       \* worker -> the provider requests in flight, as sets of keys

hostVars == <<host, assets, edits, owed, active>>
workVars == <<stage, doc, calls>>
drainVars == <<vars, hostVars, vec, workVars>>

Stage == {"none", "leased", "read", "ready", "sent", "embedded", "stored", "failed"}

DrainTypeOK ==
    /\ TypeOK
    /\ edits \in 0 .. MaxEdits
    /\ host \in [Entity -> 0 .. edits]
    /\ assets \in [Entity -> BOOLEAN]
    /\ owed \subseteq Key
    /\ active \in [Worker -> SUBSET Model]
    /\ vec \in [Key -> 0 .. edits]
    /\ stage \in [Worker -> [Key -> Stage]]
    /\ doc \in [Worker -> [Key -> 0 .. edits]]
    /\ calls \in [Worker -> SUBSET SUBSET Key]

DrainInit ==
    /\ Init
    /\ host = [e \in Entity |-> 0]
    /\ assets = [e \in Entity |-> FALSE]
    /\ edits = 0
    /\ owed = {}
    /\ active = [w \in Worker |-> Model]
    /\ vec = [k \in Key |-> 0]
    /\ stage = [w \in Worker |-> [k \in Key |-> "none"]]
    /\ doc = [w \in Worker |-> [k \in Key |-> 0]]
    /\ calls = [w \in Worker |-> {}]

IsVL(k) == k[2] \in VLModel

(* The version a key's vector should have; 0: nothing to embed.            *)
Wanted(k) == IF IsVL(k) /\ ~assets[k[1]] THEN 0 ELSE host[k[1]]

At(w, st) == {k \in Key : stage[w][k] = st}

Move(w, S, st) ==
    stage' = [stage EXCEPT ![w] =
                [k \in Key |-> IF k \in S THEN st ELSE stage[w][k]]]

--------------------------------------------------------------------------------
(* The host.  An edit writes a new version, empties or deletes the entity, *)
(* and leaves a request for each of its keys to be made.                   *)
HostEdit(e) ==
    /\ edits < MaxEdits
    /\ edits' = edits + 1
    /\ \E v \in {0, edits + 1} \ {host[e]}, a \in BOOLEAN :
          /\ a => v # 0 /\ VLModel # {}
          /\ host' = [host EXCEPT ![e] = v]
          /\ assets' = [assets EXCEPT ![e] = a]
    /\ owed' = owed \cup ({e} \X Model)
    /\ UNCHANGED <<vars, active, vec, workVars>>

(* EnqueueEmbedding, or EnqueueMany from the dirty queue or the backfill;  *)
(* it may also ask for keys that did not change.                           *)
Request(E, m) ==
    /\ EnqueueMany(E, m)
    /\ owed' = owed \ (E \X {m})
    /\ UNCHANGED <<host, assets, edits, active, vec, workVars>>

DrainExpire(k) == Expire(k) /\ UNCHANGED <<hostVars, vec, workVars>>

--------------------------------------------------------------------------------
(* A worker takes a batch and hydrates it: documents first, one callback   *)
(* per (entity_type, language), then assets for the VL keys.  A model the  *)
(* worker's process is not configured with passes for a text model.        *)
IsVLModel(w, m) == m \in VLModel \cap active[w]

FetchBatch(w) ==
    /\ \E S \in SUBSET Key :
          /\ FetchReady(w, S)
          /\ Move(w, S, "leased")
    /\ UNCHANGED <<hostVars, vec, doc, calls>>

(* Another loop's read reused, as a cache between the loops would.         *)
ReadDocument_Shared(w, k) ==
    LET reads == {doc[v][k] : v \in Worker} \ {0} IN
    IF reads = {} THEN host[k[1]] ELSE CHOOSE d \in reads : TRUE

ReadDocument(w, k) == host[k[1]]

BuildSemanticDocument(w, e) ==
    LET S == {k \in At(w, "leased") : k[1] = e} IN
    /\ S # {}
    /\ stage' = [stage EXCEPT ![w] =
          [k \in Key |-> IF k \notin S THEN stage[w][k]
                         ELSE IF IsVLModel(w, k[2]) THEN "read" ELSE "ready"]]
    /\ doc' = [doc EXCEPT ![w] =
          [k \in Key |-> IF k \in S THEN ReadDocument(w, k) ELSE doc[w][k]]]
    /\ UNCHANGED <<vars, hostVars, vec, calls>>

ListAssetURLs(w, e) ==
    LET S == {k \in At(w, "read") : k[1] = e} IN
    /\ S # {}
    /\ At(w, "leased") = {}
    /\ Move(w, S, "ready")
    /\ doc' = [doc EXCEPT ![w] =
          [k \in Key |-> IF k \in S /\ ~assets[e] THEN 0 ELSE doc[w][k]]]
    /\ UNCHANGED <<vars, hostVars, vec, calls>>

Hydrating(w) == At(w, "leased") \cup At(w, "read") # {}

(* An error in a callback aborts the batch; a crash or a cancelled context *)
(* aborts it anywhere.  The leases stay in the table.                      *)
DropBatch(w) ==
    /\ AbandonLeases(w, Key \ At(w, "none"))
    /\ Move(w, Key, "none")
    /\ doc' = [doc EXCEPT ![w] = [k \in Key |-> 0]]
    /\ calls' = [calls EXCEPT ![w] = {}]

AbortBatch(w) == DropBatch(w) /\ UNCHANGED <<hostVars, vec>>

--------------------------------------------------------------------------------
(* processBatch.  First keys with a blank document, or a VL key without    *)
(* assets, are completed; then text keys go out in chunks per model, then  *)
(* VL keys one by one, never more than MaxConcurrent requests in flight.   *)
Empty(w) == {k \in At(w, "ready") : doc[w][k] = 0}

Done(w, k) ==
    /\ Move(w, {k}, "none")
    /\ doc' = [doc EXCEPT ![w][k] = 0]

CompleteEmpty(w, k) ==
    /\ ~Hydrating(w)
    /\ k \in Empty(w)
    /\ Complete(w, k) \/ AbandonLeases(w, {k})
    /\ Done(w, k)
    /\ UNCHANGED <<hostVars, vec, calls>>

(* sem <- struct{}{} blocks while MaxConcurrent goroutines run.            *)
HasSlot_OffByOne(w) == Cardinality(calls[w]) <= MaxConcurrent

HasSlot(w) == Cardinality(calls[w]) < MaxConcurrent

Dispatch(w, C) ==
    /\ ~Hydrating(w)
    /\ Empty(w) = {}
    /\ HasSlot(w)
    /\ calls' = [calls EXCEPT ![w] = @ \cup {C}]
    /\ Move(w, C, "sent")
    /\ UNCHANGED <<vars, hostVars, vec, doc>>

TextReady(w) == {k \in At(w, "ready") : ~IsVLModel(w, k[2])}

SendText(w, m) ==
    LET R == {k \in TextReady(w) : k[2] = m} IN
    \E C \in SUBSET R :
        /\ C # {}
        /\ Cardinality(C) = ChunkSize \/ (C = R /\ Cardinality(R) < ChunkSize)
        /\ Dispatch(w, C)

SendVL(w, k) ==
    /\ TextReady(w) = {}
    /\ k \in At(w, "ready")
    /\ Dispatch(w, {k})

(* The provider answers for the whole chunk or fails it (an HTTP error, a  *)
(* timeout, a wrong number of vectors); a model that is not configured     *)
(* always fails.                                                           *)
Answer(w, C) ==
    /\ C \in calls[w]
    /\ C \subseteq At(w, "sent")
    /\ \/ (\A k \in C : k[2] \in active[w]) /\ Move(w, C, "embedded")
       \/ Move(w, C, "failed")
    /\ UNCHANGED <<vars, hostVars, vec, doc, calls>>

(* The runtime looks at the document again: what is blank is not sent, not *)
(* stored and reported as ErrEntityNotFound.  The rest is stored item by   *)
(* item by UpsertTextEmbedding, which compares nothing.                    *)
NotFound(w, k) == doc[w][k] = 0 /\ k[2] \in active[w]

Stored_OnlyFirst(w, k) == IF vec[k] = 0 THEN doc[w][k] ELSE vec[k]

Stored_Null(w, k) == None

Stored(w, k) == doc[w][k]

Store(w, k) ==
    /\ k \in At(w, "embedded")
    /\ \/ /\ ~NotFound(w, k)
          /\ vec' = [vec EXCEPT ![k] = Stored(w, k)]
          /\ Move(w, {k}, "stored")
       \/ UNCHANGED vec /\ Move(w, {k}, "failed")
    /\ UNCHANGED <<vars, hostVars, doc, calls>>

Settled(w, C) == C \cap (At(w, "sent") \cup At(w, "embedded")) = {}

Unrecorded(w, C) == C \ At(w, "none")

(* handleTaskResult, once the whole chunk is settled; the goroutine ends   *)
(* with the last result.  ErrEntityNotFound completes the task like a      *)
(* success.  A result may fail to reach the database.                      *)
Succeeded(w, k) ==
    stage[w][k] = "stored" \/ (stage[w][k] = "failed" /\ NotFound(w, k))

Outcome(w, k) ==
    \/ Succeeded(w, k) /\ Complete(w, k)
    \/ stage[w][k] = "failed" /\ ~NotFound(w, k) /\ (Fail(w, k) \/ DeadLetter(w, k))

HandleTaskResult(w, C, k) ==
    /\ C \in calls[w]
    /\ Settled(w, C)
    /\ k \in Unrecorded(w, C)
    /\ Outcome(w, k) \/ AbandonLeases(w, {k})
    /\ Done(w, k)
    /\ calls' = [calls EXCEPT ![w] =
                    IF Unrecorded(w, C) = {k} THEN @ \ {C} ELSE @]
    /\ UNCHANGED <<hostVars, vec>>

--------------------------------------------------------------------------------
WorkerStep(w) ==
    \/ FetchBatch(w)
    \/ AbortBatch(w)
    \/ \E e \in Entity : BuildSemanticDocument(w, e) \/ ListAssetURLs(w, e)
    \/ \E m \in Model : SendText(w, m)
    \/ \E k \in Key : CompleteEmpty(w, k) \/ SendVL(w, k) \/ Store(w, k)
    \/ \E C \in calls[w] : Answer(w, C)
    \/ \E C \in calls[w], k \in Key : HandleTaskResult(w, C, k)

DrainNext ==
    \/ \E e \in Entity : HostEdit(e)
    \/ \E E \in SUBSET Entity, m \in Model : Request(E, m)
    \/ \E k \in Key : DrainExpire(k)
    \/ \E w \in Worker : WorkerStep(w)

DrainSpec == DrainInit /\ [][DrainNext]_drainVars

(* Every goroutine and the batch loop of a live worker keep going, the     *)
(* clock advances, owed requests are made, and rows are fetched oldest     *)
(* first.                                                                  *)
DrainFairness ==
    /\ \A k \in Key : WF_drainVars(DrainExpire(k))
    /\ \A k \in Key : WF_drainVars(k \in owed /\ Request({k[1]}, k[2]))
    /\ \A k \in Key :
          SF_drainVars(\E w \in Worker :
                          FetchBatch(w) /\ stage[w][k] = "none"
                                        /\ stage'[w][k] = "leased")
    /\ \A w \in Worker :
          /\ WF_drainVars(\E e \in Entity :
                BuildSemanticDocument(w, e) \/ ListAssetURLs(w, e))
          /\ WF_drainVars(\E m \in Model : SendText(w, m))
          /\ WF_drainVars(\E k \in Key : CompleteEmpty(w, k) \/ SendVL(w, k))
          /\ \A C \in SUBSET Key : WF_drainVars(Answer(w, C))
          /\ \A k \in Key : WF_drainVars(Store(w, k))
          /\ \A C \in SUBSET Key, k \in Key : WF_drainVars(HandleTaskResult(w, C, k))

FairDrainSpec == DrainSpec /\ DrainFairness

--------------------------------------------------------------------------------
(* Properties.                                                             *)

(* When nothing is pending for a key - no change waiting to be requested,  *)
(* no task, no dead letter - its vector was computed from the document the *)
(* host has now.  A completed task must never hide a newer document.       *)
VectorFresh ==
    \A k \in Key :
        task[k] = None /\ k \notin owed /\ dead[k] = 0 /\ Wanted(k) # 0
            => vec[k] = Wanted(k)

(* Whatever the number of loops, and whether or not leases expire under    *)
(* them: a vector is stored from the document the host has at that moment, *)
(* unless the change is still waiting to be requested or the key was       *)
(* requested again after the storing loop leased it.  The upsert compares  *)
(* nothing: only those two exceptions let it replace a newer vector.       *)
StoresCurrent ==
    [][\A w \in Worker, k \in Key :
          /\ stage[w][k] = "embedded"
          /\ stage'[w][k] = "stored"
          /\ k \notin owed \cup overtaken[w]
          => vec'[k] = Wanted(k)]_drainVars

(* A worker's progress record and its leases are about the same keys, each *)
(* key in flight belongs to exactly one request, and at most MaxConcurrent *)
(* requests are in flight: no task is dropped on the floor, none is sent   *)
(* twice, and a released slot is never taken by two.                       *)
InFlight(w) == UNION {At(w, st) : st \in {"sent", "embedded", "stored", "failed"}}

BatchAccounted ==
    \A w \in Worker :
        /\ \A k \in Key : stage[w][k] = "none" <=> lease[w][k] = None
        /\ \A k \in InFlight(w) : Cardinality({C \in calls[w] : k \in C}) = 1
        /\ \A C \in calls[w] : C \cap InFlight(w) # {}
        /\ Cardinality(calls[w]) <= MaxConcurrent

(* If the host stops editing, nobody asks for keys that did not change and *)
(* no worker drops a lease that is still good, then every key ends with    *)
(* the vector of its current document or with a dead letter.               *)
DrainDisturbance ==
    \/ \E e \in Entity : HostEdit(e)
    \/ \E E \in SUBSET Entity, m \in Model :
          Request(E, m) /\ ~(E \X {m} \subseteq owed)
    \/ \E w \in Worker, k \in Key :
          Holds(w, k) /\ lease'[w][k] = None /\ task' = task

VectorsConverge ==
    <>[][~DrainDisturbance]_drainVars
        => \A k \in Key : <>[](\/ Wanted(k) = 0
                               \/ vec[k] = Wanted(k)
                               \/ dead[k] # 0)
================================================================================
