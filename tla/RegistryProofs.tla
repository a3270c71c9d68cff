------------------------------ MODULE RegistryProofs ------------------------------
(* What the queue's theorems give a process that stops and starts again    *)
(* with other models: its operations are the queue's, the tables end up as *)
(* those of the configuration, and the models that were never taken out    *)
(* are caught up across restarts.                                          *)
EXTENDS ModelRegistry, BackfillProofs

(* Start-up prunes rows of the queue and touches nothing else of it.       *)
LEMMA StartStepIsQueueStep ==
    ASSUME NEW w \in Worker, active[w] \in SUBSET Model, StartStep(w)
    PROVE  [Next]_vars
<1>1. ASSUME NEW m \in Model, UpsertModel(w, m)
      PROVE  UNCHANGED vars
  BY <1>1 DEF UpsertModel, backfillVars, syncVars, drainVars
<1>2. CASE PruneModels(w) \/ PruneBackfill(w) \/ EnsureIndexesForModels(w)
  BY <1>2 DEF PruneModels, PruneBackfill, EnsureIndexesForModels, backfillVars,
              syncVars, drainVars
<1>3. CASE PruneTasksOf(w) \/ PruneDeadLettersOf(w)
  BY <1>3 DEF PruneTasksOf, PruneDeadLettersOf, Next, Prune
<1> QED BY <1>1, <1>2, <1>3 DEF StartStep

(* A process that dies abandons its leases, if it has any.                 *)
LEMMA RestartIsQueueStep ==
    ASSUME NEW w \in Worker, Restart(w)
    PROVE  [Next]_vars
<1>1. CASE Idle(w)
  BY <1>1 DEF Restart, DropWork
<1>2. CASE ~Idle(w)
  BY <1>2 DEF Restart, DropWork, DropBatch, Next, Abandon
<1> QED BY <1>1, <1>2

--------------------------------------------------------------------------------
(* A tick works with the models its process started with.                  *)
LEMMA DirtyStepKeepsModels ==
    ASSUME NEW w \in Worker, DirtyStep(w)
    PROVE  UNCHANGED active
  BY DEF DirtyStep, ReadDirty, BuildLexicalString, UpsertSearchDocuments,
         DeleteBlankDocuments, ClearDirty, DeleteSearchDocuments,
         DeleteEmbeddingVectors, DeleteTasks, EnqueueModel, Request, drainVars,
         hostVars

LEMMA BackfillStepKeepsModels ==
    ASSUME NEW w \in Worker, BackfillStep(w)
    PROVE  UNCHANGED active
  BY DEF BackfillStep, ReadCursor, List, BuildPage, UpsertPage, DeleteBlankPage,
         FilterMissingEmbeddings, EnqueuePage, Request, SavePage, EndPage,
         FinishBackfill, EndBackfill, syncVars, drainVars, hostVars

LEMMA TickKeepsModels == BackfillNext => UNCHANGED active
<1> SUFFICES ASSUME BackfillNext PROVE UNCHANGED active
  OBVIOUS
<1>1. CASE \/ \E e \in Entity : HostMarks(e)
           \/ \E k \in Key : TaskExpires(k)
  BY <1>1 DEF HostMarks, MarkDirty, HostEdit, TaskExpires, DrainExpire, hostVars
<1>2. ASSUME NEW w \in Worker, BackfillStep(w)
      PROVE  UNCHANGED active
  BY <1>2, BackfillStepKeepsModels
<1>3. ASSUME NEW w \in Worker, OtherStep(w)
      PROVE  UNCHANGED active
  BY <1>3, DirtyStepKeepsModels, WorkerStepLeavesHost
  DEF OtherStep, Drain, NothingDue, drainVars, hostVars
<1>4. ASSUME NEW w \in Worker, Fails(w) \/ SaveFails(w)
      PROVE  UNCHANGED active
  BY <1>4 DEF Fails, FailPass, ListFails, SaveFails, EndPage, syncVars, drainVars,
              hostVars
<1> QED BY <1>1, <1>2, <1>3, <1>4 DEF BackfillNext

--------------------------------------------------------------------------------
(* Pages stay good, and a process only has models there are.               *)
RegistryInv ==
    /\ PageInv
    /\ active = [w \in Worker |-> active[w]]
    /\ \A w \in Worker : active[w] \in SUBSET Model

LEMMA RegistryInvInit == RegistryInit => RegistryInv
  BY ModelRegistryAssumption DEF RegistryInit, BackfillInit, RegistryInv, PageInv

LEMMA RestartKeepsInv ==
    ASSUME RegistryInv, NEW w \in Worker, Restart(w)
    PROVE  RegistryInv'
<1>1. PageInv'
  BY OnePageChanges DEF Restart, EndTick, RegistryInv
<1>2. PICK models \in Config : active' = [active EXCEPT ![w] = models]
  BY DEF Restart
<1>3. models \in SUBSET Model
  BY ModelRegistryAssumption
<1> QED BY <1>1, <1>2, <1>3 DEF RegistryInv

LEMMA StartStepKeepsInv ==
    ASSUME RegistryInv, NEW w \in Worker, StartStep(w)
    PROVE  RegistryInv'
<1>1. UNCHANGED <<page, active>>
  BY DEF StartStep, UpsertModel, PruneModels, PruneTasksOf, PruneBackfill,
         PruneDeadLettersOf, EnsureIndexesForModels, backfillVars, syncVars,
         drainVars, hostVars, tickVars
<1> QED BY <1>1 DEF RegistryInv, PageInv

LEMMA TickKeepsInv == RegistryInv /\ BackfillNext => RegistryInv'
  BY PagesStayGood, TickKeepsModels DEF RegistryInv

(* Outside start-up and restarts a step is a step of SyncOnce.             *)
LEMMA OtherwiseTick ==
    ASSUME RegistryNext,
           ~ \E w \in Worker : Restart(w) \/ StartStep(w)
    PROVE  BackfillNext
  BY DEF RegistryNext, LoopStep, BackfillNext

LEMMA RegistryStep ==
    RegistryInv /\ [RegistryNext]_registryVars => RegistryInv' /\ [Next]_vars
<1> SUFFICES ASSUME RegistryInv, [RegistryNext]_registryVars
             PROVE  RegistryInv' /\ [Next]_vars
  OBVIOUS
<1>1. ASSUME NEW w \in Worker, Restart(w)
      PROVE  RegistryInv' /\ [Next]_vars
  BY <1>1, RestartKeepsInv, RestartIsQueueStep
<1>2. ASSUME NEW w \in Worker, StartStep(w)
      PROVE  RegistryInv' /\ [Next]_vars
  BY <1>2, StartStepKeepsInv, StartStepIsQueueStep DEF RegistryInv
<1>3. CASE BackfillNext
  BY <1>3, TickKeepsInv, TickIsQueueStep DEF RegistryInv
<1>4. CASE UNCHANGED registryVars
  BY <1>4 DEF registryVars, backfillVars, syncVars, drainVars, hostVars, tickVars,
              RegistryInv, PageInv
<1> QED BY <1>1, <1>2, <1>3, <1>4, OtherwiseTick

(* Processes that die anywhere, also between two statements of their       *)
(* start-up, and come back with other models use the queue only through    *)
(* its operations.                                                         *)
THEOREM RegistryImplementsQueue == RegistrySpec => Spec
<1>1. RegistryInit => Init
  BY DEF RegistryInit, BackfillInit
<1> QED BY <1>1, RegistryInvInit, RegistryStep, PTL DEF RegistrySpec, Spec

(* So no sequence of restarts lets two tokens match a row, lets a copy of  *)
(* the attempts go stale, or takes a task past the cap.                    *)
THEOREM RegistryKeepsQueueInvariant == RegistrySpec => []IInv
  BY RegistryImplementsQueue, InductiveInvariant, PTL

(* The whole system, restarts and all, does to a task only what the        *)
(* abstract queue allows: claimed by at most one worker, counted, finished *)
(* and buried under a claim.                                               *)
THEOREM SystemImplementsLifecycle == RegistrySpec => ImplementsLifecycle
  BY RegistryImplementsQueue, Refinement, PTL

(* A result recorded by any process, before or after others died and came  *)
(* back, never removes a request that is newer than its lease.             *)
THEOREM SystemLeaseSafety == ASSUME LeaseOutlivesWork PROVE RegistrySpec => LeaseSafe
  BY RegistryImplementsQueue, LeaseSafety, PTL

--------------------------------------------------------------------------------
(* Types.  Restarts and pruning keep those of SyncOnce.                    *)
StartTypes ==
    /\ registry \subseteq Model
    /\ boot \in [Worker -> Boot]
    /\ unlisted \in [Worker -> SUBSET Model]
    /\ restarts \in 0 .. MaxRestarts
    /\ retired \subseteq Model
    /\ forgotten \subseteq Model

TickSide == SyncSide /\ PageInv /\ TickTypes

LEMMA DropWorkKeepsDrain ==
    ASSUME DrainSide, TypeOK', NEW w \in Worker, DropWork(w),
           UNCHANGED <<host, assets, edits, owed, vec>>,
           active' \in [Worker -> SUBSET Model]
    PROVE  DrainSide'
<1>1. CASE Idle(w)
  <2>1. UNCHANGED <<lease, stage, doc, calls>>
    BY <1>1 DEF DropWork, vars, workVars
  <2> QED BY <2>1, SameBatches DEF DrainSide, DrainTypeOK
<1>2. CASE ~Idle(w)
  <2>1. DropBatch(w)
    BY <1>2 DEF DropWork
  <2>2. stage' \in [Worker -> [Key -> Stage]]
    BY <2>1, MoveEffect DEF DropBatch, Stage, DrainSide
  <2>3. 0 \in 0 .. edits
    BY EmbedDrainAssumption DEF DrainSide, DrainTypeOK
  <2>4. /\ doc' \in [Worker -> [Key -> 0 .. edits]]
        /\ calls' \in [Worker -> SUBSET SUBSET Key]
    BY <2>1, <2>3 DEF DropBatch, DrainSide, DrainTypeOK
  <2>5. ASSUME NEW v \in Worker \ {w}
        PROVE  stage'[v] = stage[v] /\ calls'[v] = calls[v] /\ lease'[v] = lease[v]
    BY <2>1 DEF DropBatch, AbandonLeases, Move, DrainSide, DrainTypeOK, TypeOK
  <2>6. ASSUME NEW v \in Worker
        PROVE  Batch(v)'
    <3>1. CASE v = w
      BY <2>1, <3>1, DropBatchKeeps DEF DrainSide, BatchInv
    <3>2. CASE v # w
      BY <2>5, <3>2, SameSide DEF DrainSide, BatchInv
    <3> QED BY <3>1, <3>2
  <2> QED BY <2>2, <2>4, <2>6 DEF DrainSide, DrainTypeOK, BatchInv
<1> QED BY <1>1, <1>2

LEMMA RestartTypes ==
    ASSUME TickSide, StartTypes, TypeOK', NEW w \in Worker, Restart(w)
    PROVE  TickSide' /\ StartTypes'
<1>1. PICK models \in Config :
         /\ active' = [active EXCEPT ![w] = models]
         /\ boot' = [boot EXCEPT ![w] = FirstStatement(models)]
         /\ unlisted' = [unlisted EXCEPT ![w] = models]
         /\ retired' = retired \cup (active[w] \ models)
  BY DEF Restart
<1>2. models \in SUBSET Model
  BY ModelRegistryAssumption
<1>3. active \in [Worker -> SUBSET Model]
  BY DEF TickSide, SyncSide, DrainSide, DrainTypeOK
<1>4. active' \in [Worker -> SUBSET Model]
  BY <1>1, <1>2, <1>3
<1>5. DrainSide'
  BY <1>4, DropWorkKeepsDrain DEF Restart, TickSide, SyncSide
<1>6. MarkTypes' /\ PassTypes'
  BY EndPassTypes DEF Restart, TickSide, SyncSide, MarkTypes, markVars, Phase
<1>7. PageInv' /\ TickTypes'
  BY OnePageChanges, EndTickTypes DEF Restart, EndTick, TickSide
<1>8. FirstStatement(models) \in Boot
  BY DEF FirstStatement, Boot
<1>9. restarts' \in 0 .. MaxRestarts
  BY ModelRegistryAssumption DEF Restart, StartTypes
<1>10. boot' \in [Worker -> Boot] /\ unlisted' \in [Worker -> SUBSET Model]
  BY <1>1, <1>2, <1>8 DEF StartTypes
<1>11. registry' \subseteq Model /\ retired' \subseteq Model /\ forgotten' \subseteq Model
  BY <1>1, <1>3 DEF Restart, StartTypes
<1> QED BY <1>5, <1>6, <1>7, <1>9, <1>10, <1>11 DEF TickSide, SyncSide, StartTypes

LEMMA StartStepTypes ==
    ASSUME TickSide, StartTypes, TypeOK', NEW w \in Worker, StartStep(w)
    PROVE  TickSide' /\ StartTypes'
<1>1. active[w] \in SUBSET Model
  BY DEF TickSide, SyncSide, DrainSide, DrainTypeOK
<1>2. UNCHANGED backfillVars => TickSide'
  BY NothingHappensTypes
  DEF TickSide, SyncSide, backfillVars, tickVars, TickTypes, PageInv
<1>3. ASSUME UNCHANGED <<lease, hostVars, vec, workVars, markVars, passVars, progress,
                         tickVars>>
      PROVE  TickSide'
  <2>1. DrainSide' /\ edits' = edits
    BY <1>3, SameBatches
    DEF TickSide, SyncSide, DrainSide, DrainTypeOK, hostVars, workVars
  <2>2. MarkTypes' /\ PassTypes'
    BY <1>3, <2>1
    DEF TickSide, SyncSide, MarkTypes, PassTypes, markVars, passVars
  <2>3. PageInv' /\ TickTypes'
    BY <1>3 DEF TickSide, TickTypes, PageInv, tickVars
  <2> QED BY <2>1, <2>2, <2>3 DEF TickSide, SyncSide
<1>4. ASSUME NEW from, NEW to \in Boot, Step(w, from, to)
      PROVE  boot' \in [Worker -> Boot]
  BY <1>4 DEF Step, StartTypes
<1>5. ASSUME NEW m \in Model, UpsertModel(w, m)
      PROVE  TickSide' /\ StartTypes'
  <2>1. boot' \in [Worker -> Boot]
    BY <1>4, <1>5 DEF UpsertModel, Boot
  <2> QED BY <1>2, <1>5, <2>1 DEF UpsertModel, StartTypes, historyVars
<1>6. CASE PruneModels(w)
  <2>1. boot' \in [Worker -> Boot]
    BY <1>4, <1>6 DEF PruneModels, Boot
  <2> QED BY <1>2, <1>6, <2>1 DEF PruneModels, StartTypes, historyVars
<1>7. CASE PruneTasksOf(w)
  <2>1. boot' \in [Worker -> Boot]
    BY <1>4, <1>7 DEF PruneTasksOf, Boot
  <2>2. UNCHANGED lease
    BY <1>7 DEF PruneTasksOf, PruneTasks, DeleteRows
  <2> QED BY <1>3, <1>7, <2>1, <2>2 DEF PruneTasksOf, StartTypes, historyVars
<1>8. CASE PruneBackfill(w)
  <2>1. boot' \in [Worker -> Boot]
    BY <1>4, <1>8 DEF PruneBackfill, Boot
  <2>2. SyncSide' /\ PageInv'
    BY <1>8, NothingHappensTypes DEF PruneBackfill, TickSide, SyncSide, tickVars, PageInv
  <2>3. TickTypes'
    BY <1>8 DEF PruneBackfill, TickSide, TickTypes, tickVars
  <2>4. forgotten' \subseteq Model
    BY <1>8 DEF PruneBackfill, StartTypes, Unprogressed
  <2> QED BY <1>8, <2>1, <2>2, <2>3, <2>4 DEF PruneBackfill, TickSide, StartTypes
<1>9. CASE PruneDeadLettersOf(w)
  <2>1. boot' \in [Worker -> Boot]
    BY <1>4, <1>9 DEF PruneDeadLettersOf, Boot
  <2>2. UNCHANGED lease
    BY <1>9 DEF PruneDeadLettersOf, PruneDeadLetters
  <2> QED BY <1>3, <1>9, <2>1, <2>2 DEF PruneDeadLettersOf, StartTypes, historyVars
<1>10. CASE EnsureIndexesForModels(w)
  <2>1. boot' \in [Worker -> Boot]
    BY <1>4, <1>10 DEF EnsureIndexesForModels, Boot
  <2> QED BY <1>2, <1>10, <2>1 DEF EnsureIndexesForModels, StartTypes, historyVars
<1> QED BY <1>5, <1>6, <1>7, <1>8, <1>9, <1>10 DEF StartStep

LEMMA TickKeepsStart ==
    ASSUME [RegistryNext]_registryVars,
           ~ \E w \in Worker : Restart(w) \/ StartStep(w)
    PROVE  UNCHANGED startVars
  BY DEF RegistryNext, LoopStep, registryVars

LEMMA RegistryNextTypes ==
    ASSUME TickSide, StartTypes, TypeOK', [RegistryNext]_registryVars
    PROVE  TickSide' /\ StartTypes'
<1>1. CASE \E w \in Worker : Restart(w) \/ StartStep(w)
  BY <1>1, RestartTypes, StartStepTypes
<1>2. CASE ~ \E w \in Worker : Restart(w) \/ StartStep(w)
  <2>1. [BackfillNext]_backfillVars
    BY <1>2, OtherwiseTick DEF registryVars
  <2>2. TickSide'
    BY <2>1, BackfillNextTypes, PagesStayGood DEF TickSide
  <2>3. StartTypes'
    BY <1>2, TickKeepsStart DEF StartTypes, startVars, historyVars
  <2> QED BY <2>2, <2>3
<1> QED BY <1>1, <1>2

LEMMA RegistryInitTypes == RegistryInit => TickSide /\ StartTypes
<1> SUFFICES ASSUME RegistryInit PROVE TickSide /\ StartTypes
  OBVIOUS
<1>1. TickSide
  BY BackfillInitTypes DEF RegistryInit, TickSide
<1>2. \A w \in Worker : FirstStatement(active[w]) \in Boot
  BY DEF FirstStatement, Boot
<1>3. active \in [Worker -> SUBSET Model]
  BY <1>1 DEF TickSide, SyncSide, DrainSide, DrainTypeOK
<1> QED BY <1>1, <1>2, <1>3, ModelRegistryAssumption DEF RegistryInit, StartTypes

LEMMA RegistryTypes == RegistrySpec => [](TickSide /\ StartTypes)
<1>1. IInv => TypeOK
  BY DEF IInv
<1> QED BY <1>1, RegistryInitTypes, RegistryNextTypes, RegistryKeepsQueueInvariant, PTL
        DEF RegistrySpec

(* Every variable keeps its type across restarts and pruning: no statement *)
(* of a start-up leaves a row, a page or a batch that a later tick could   *)
(* not read.                                                               *)
THEOREM RegistryTypeCorrect == RegistrySpec => []RegistryTypeOK
<1>1. TickSide /\ StartTypes => RegistryTypeOK
  BY SyncTypesSplit
  DEF TickSide, SyncSide, DrainSide, TickTypes, BackfillTypeOK, StartTypes, RegistryTypeOK
<1> QED BY <1>1, RegistryTypes, PTL

(* A process that dies takes its requests with it and leaves nobody        *)
(* else's: in any state of any number of processes, each leased task is in *)
(* one request at most and the concurrency limit holds.                    *)
THEOREM EveryProcessAccounted == RegistrySpec => []BatchAccounted
<1>1. TickSide => DrainTypeOK /\ BatchInv
  BY DEF TickSide, SyncSide, DrainSide
<1> QED BY <1>1, RegistryTypes, BatchesAccounted, PTL

--------------------------------------------------------------------------------
(* One process.  What each statement of its start-up has achieved, and     *)
(* that a tick asks only for the models of its process: then nothing can   *)
(* come back for a model that has been pruned.                             *)
Beyond(w, statements) == boot[w] \in statements \cup {"create indexes", "up"}

Represented(w) ==
    /\ active[w] = {} => Up(w)
    /\ boot[w] = "upsert models" => active[w] \ unlisted[w] \subseteq registry
    /\ boot[w] = "prune models" => active[w] \subseteq registry
    /\ active[w] # {} =>
          /\ boot[w] \notin {"upsert models", "prune models"} => registry = active[w]
          /\ \A m \in Model \ active[w] :
                /\ Beyond(w, {"prune dead letters"}) => progress[m] = None
                /\ \A e \in Entity :
                      /\ lease[w][<<e, m>>] = None
                      /\ Beyond(w, {"prune backfill", "prune dead letters"}) =>
                            task[<<e, m>>] = None
                      /\ Beyond(w, {}) => dead[<<e, m>>] = 0

OwnModels(w) ==
    /\ phase[w] = "enqueue" => todo[w] \subseteq active[w]
    /\ page[w] # None => page[w].target \in Targets(w)

RepresentsInv == \A w \in Worker : Represented(w) /\ OwnModels(w)

LEMMA RepresentsInit == RegistryInit => RepresentsInv
<1> SUFFICES ASSUME RegistryInit, NEW w \in Worker
             PROVE  Represented(w) /\ OwnModels(w)
  BY DEF RepresentsInv
<1>1. /\ boot[w] = IF active[w] = {} THEN "up" ELSE "upsert models"
      /\ unlisted = active
      /\ \A k \in Key : lease[w][k] = None
      /\ phase[w] = "idle" /\ page[w] = None
  BY DEF RegistryInit, BackfillInit, Init, FirstStatement
<1>2. \A e \in Entity, m \in Model : lease[w][<<e, m>>] = None
  BY <1>1 DEF Key
<1>3. active[w] # {} => ~Beyond(w, {"prune backfill", "prune dead letters"})
                        /\ ~Beyond(w, {"prune dead letters"}) /\ ~Beyond(w, {})
  BY <1>1 DEF Beyond
<1>4. active[w] = {} => Up(w)
  BY <1>1 DEF Up
<1>5. active[w] # {} => boot[w] = "upsert models" /\ active[w] \ unlisted[w] = {}
  BY <1>1
<1> QED BY <1>1, <1>2, <1>3, <1>4, <1>5 DEF Represented, OwnModels, Up

(* A worker's step brings no row to a key that has none, and buries only   *)
(* what it leased.                                                         *)
LEMMA WorkerStepLeavesNothing ==
    ASSUME DrainTypeOK, NEW w \in Worker, WorkerStep(w),
           NEW k \in Key, task[k] = None, lease[w][k] = None
    PROVE  task'[k] = None /\ lease'[w][k] = None /\ dead'[k] = dead[k]
<1> USE DEF DrainTypeOK, TypeOK
<1>1. CASE UNCHANGED vars
  BY <1>1 DEF vars
<1>2. CASE FetchBatch(w)
  BY <1>2 DEF FetchBatch, FetchReady
<1>3. ASSUME NEW S, AbandonLeases(w, S)
      PROVE  task'[k] = None /\ lease'[w][k] = None /\ dead'[k] = dead[k]
  BY <1>3 DEF AbandonLeases
<1>4. ASSUME NEW j \in Key, Complete(w, j) \/ Fail(w, j) \/ DeadLetter(w, j)
      PROVE  task'[k] = None /\ lease'[w][k] = None /\ dead'[k] = dead[k]
  <2>1. j # k /\ task'[k] = task[k] /\ dead'[k] = dead[k]
    BY <1>4 DEF Complete, Fail, DeadLetter, DeleteIfHeld
  <2>2. lease'[w][k] = lease[w][k]
    BY <1>4, <2>1 DEF Complete, Fail, DeadLetter, Drop
  <2> QED BY <2>1, <2>2
<1> QED BY <1>1, <1>2, <1>3, <1>4
        DEF WorkerStep, AbortBatch, DropBatch, BuildSemanticDocument, ListAssetURLs,
            SendText, SendVL, Dispatch, Answer, Store, CompleteEmpty, HandleTaskResult,
            Outcome

LEMMA RequestLeavesOthers ==
    ASSUME NEW E \in SUBSET Entity, NEW m \in Model, Request(E, m),
           NEW k \in Key, k[2] # m
    PROVE  task'[k] = task[k] /\ UNCHANGED <<lease, dead>>
  BY DEF Request, EnqueueMany, Enqueue

(* A tick asks for its own models, and for others nothing comes back.      *)
LEMMA TickStepLeavesNothing ==
    ASSUME TickSide, NEW w \in Worker, OwnModels(w),
           BackfillStep(w) \/ OtherStep(w) \/ Fails(w) \/ SaveFails(w),
           NEW k \in Key, k[2] \notin active[w], task[k] = None, lease[w][k] = None
    PROVE  task'[k] = None /\ lease'[w][k] = None /\ dead'[k] = dead[k]
<1>1. CASE UNCHANGED vars
  BY <1>1 DEF vars
<1>2. ASSUME NEW E \in SUBSET Entity, NEW m \in active[w], Request(E, m)
      PROVE  task'[k] = None /\ lease'[w][k] = None /\ dead'[k] = dead[k]
  BY <1>2, RequestLeavesOthers DEF TickSide, SyncSide, DrainSide, DrainTypeOK
<1>3. CASE BackfillStep(w)
  <2>1. CASE EnqueuePage(w)
    <3>1. /\ page[w] # None /\ page[w].at = "enqueue"
          /\ Request(page[w].ids, page[w].target)
      BY <2>1 DEF EnqueuePage, OnPage
    <3>2. page[w].ids \in SUBSET Entity /\ page[w].target \in Model
      BY <3>1 DEF TickSide, PageInv, PageOK
    <3>3. page[w].target \in active[w]
      BY <3>1, <3>2, BackfillAssumption DEF OwnModels, Targets
    <3> QED BY <1>2, <3>1, <3>2, <3>3
  <2>2. CASE ~EnqueuePage(w)
    BY <1>1, <1>3, <2>2
    DEF BackfillStep, ReadCursor, List, BuildPage, UpsertPage, DeleteBlankPage,
        FilterMissingEmbeddings, SavePage, EndPage, FinishBackfill, EndBackfill,
        syncVars, drainVars
  <2> QED BY <2>1, <2>2
<1>4. CASE OtherStep(w)
  <2>1. ASSUME NEW m \in Model, EnqueueModel(w, m)
        PROVE  task'[k] = None /\ lease'[w][k] = None /\ dead'[k] = dead[k]
    <3>1. m \in active[w] /\ Request(Live(w), m)
      BY <2>1 DEF EnqueueModel, Execute, OwnModels
    <3> QED BY <1>2, <3>1, PassRows
  <2>2. ASSUME NEW e \in Entity, DeleteTasks(w, e)
        PROVE  task'[k] = None /\ lease'[w][k] = None /\ dead'[k] = dead[k]
    BY <2>2 DEF DeleteTasks, DeleteAllForEntity, DeleteRows
  <2>3. CASE Drain(w)
    BY <2>3, WorkerStepLeavesNothing DEF Drain, TickSide, SyncSide, DrainSide
  <2> QED BY <1>1, <1>4, <2>1, <2>2, <2>3
          DEF OtherStep, DirtyStep, ReadDirty, BuildLexicalString,
              UpsertSearchDocuments, DeleteBlankDocuments, ClearDirty,
              DeleteSearchDocuments, DeleteEmbeddingVectors, NothingDue, drainVars
<1>5. CASE Fails(w) \/ SaveFails(w)
  BY <1>1, <1>5 DEF Fails, FailPass, ListFails, SaveFails, EndPage, syncVars, drainVars
<1> QED BY <1>3, <1>4, <1>5

(* Nor does a target get progress that is not one of its targets.          *)
LEMMA TickStepLeavesProgress ==
    ASSUME TickSide, NEW w \in Worker,
           BackfillStep(w) \/ OtherStep(w) \/ Fails(w) \/ SaveFails(w),
           NEW t \in Target, t \notin Targets(w), progress[t] = None
    PROVE  progress'[t] = None
<1>1. CASE UNCHANGED progress
  BY <1>1
<1>2. ASSUME NEW u, NEW row, UpdateState(u, row)
      PROVE  progress'[t] = None
  BY <1>2 DEF UpdateState, TickSide, TickTypes
<1>3. ASSUME NEW u \in Target, ReadCursor(w, u)
      PROVE  progress'[t] = None
  BY <1>3 DEF ReadCursor, TickSide, TickTypes
<1> QED BY <1>1, <1>2, <1>3
        DEF BackfillStep, List, BuildPage, UpsertPage, DeleteBlankPage,
            FilterMissingEmbeddings, EnqueuePage, SavePage, SaveProgress,
            FinishBackfill, OtherStep, Fails, ListFails, SaveFails

LEMMA TickStepOwnModels ==
    ASSUME TickSide, NEW w \in Worker, OwnModels(w), UNCHANGED active,
           BackfillStep(w) \/ OtherStep(w) \/ Fails(w) \/ SaveFails(w)
    PROVE  OwnModels(w)'
<1>1. phase'[w] = "enqueue" => todo'[w] \subseteq active[w]
  <2>1. CASE UNCHANGED <<phase, todo>>
    BY <2>1 DEF OwnModels
  <2>2. ASSUME NEW p, NEW S, Goto(w, p, S), p = "enqueue" => S \subseteq active[w]
        PROVE  phase'[w] = "enqueue" => todo'[w] \subseteq active[w]
    BY <2>2, GotoEffect DEF TickSide
  <2>3. ASSUME NEW s, Execute(w, s)
        PROVE  phase'[w] = "enqueue" => todo'[w] \subseteq active[w]
    BY <2>3 DEF Execute, OwnModels, TickSide, SyncSide, PassTypes
  <2>4. CASE Drain(w)
    BY <2>4 DEF Drain, TickSide, SyncSide, PassTypes
  <2>5. CASE BackfillStep(w)
    BY <2>1, <2>2, <2>5
    DEF BackfillStep, ReadCursor, List, BuildPage, UpsertPage, DeleteBlankPage,
        FilterMissingEmbeddings, EnqueuePage, SavePage, EndPage, FinishBackfill,
        EndBackfill, syncVars, passVars
  <2>6. CASE OtherStep(w)
    BY <2>1, <2>2, <2>3, <2>4, <2>6
    DEF OtherStep, DirtyStep, ReadDirty, BuildLexicalString, UpsertSearchDocuments,
        DeleteBlankDocuments, ClearDirty, EndPass, DeleteSearchDocuments,
        DeleteEmbeddingVectors, DeleteTasks, EnqueueModel, NothingDue
  <2>7. CASE Fails(w) \/ SaveFails(w)
    BY <2>1, <2>2, <2>7
    DEF Fails, FailPass, ListFails, EndPass, SaveFails, EndPage, syncVars, passVars
  <2> QED BY <2>5, <2>6, <2>7
<1>2. page'[w] # None => page'[w].target \in Targets(w)
  <2>1. CASE UNCHANGED page
    BY <2>1 DEF OwnModels
  <2>2. CASE page' = [page EXCEPT ![w] = None]
    BY <2>2 DEF TickSide, TickTypes
  <2>3. ASSUME NEW t \in Target, ReadCursor(w, t)
        PROVE  page'[w] # None => page'[w].target \in Targets(w)
    BY <2>1, <2>3 DEF ReadCursor, TickSide, TickTypes
  <2>4. ASSUME NEW at, ToStep(w, at), page[w] # None
        PROVE  page'[w].target \in Targets(w)
    BY <2>4 DEF ToStep, OwnModels, TickSide, TickTypes, Page
  <2>5. CASE List(w) \/ FilterMissingEmbeddings(w)
    BY <2>5 DEF List, FilterMissingEmbeddings, OnPage, OwnModels, TickSide, TickTypes
  <2> QED BY <2>1, <2>2, <2>3, <2>4, <2>5
          DEF BackfillStep, BuildPage, UpsertPage, DeleteBlankPage, EnqueuePage, OnPage,
              SavePage, FinishBackfill, EndTick, OtherStep, tickVars, Fails, SaveFails,
              EndPage
<1> QED BY <1>1, <1>2 DEF OwnModels, Targets

LEMMA TickStepRepresented ==
    ASSUME TickSide, NEW w \in Worker, Up(w), Represented(w), OwnModels(w),
           BackfillStep(w) \/ OtherStep(w) \/ Fails(w) \/ SaveFails(w),
           UNCHANGED <<active, startVars>>
    PROVE  Represented(w)'
<1>1. UNCHANGED <<boot, unlisted, registry>>
  BY DEF startVars
<1>2. ASSUME NEW m \in Model \ active[w], NEW e \in Entity, active[w] # {}
      PROVE  /\ progress'[m] = None
             /\ lease'[w][<<e, m>>] = None
             /\ task'[<<e, m>>] = None
             /\ dead'[<<e, m>>] = 0
  <2>1. /\ progress[m] = None /\ lease[w][<<e, m>>] = None
        /\ task[<<e, m>>] = None /\ dead[<<e, m>>] = 0
    BY <1>2 DEF Represented, Up, Beyond
  <2>2. <<e, m>> \in Key /\ m \in Target /\ m \notin Targets(w)
    BY <1>2, BackfillAssumption DEF Key, Target, Targets
  <2> QED BY <1>2, <2>1, <2>2, TickStepLeavesNothing, TickStepLeavesProgress
<1>3. active[w] # {} => \A m \in Model \ active[w] : progress'[m] = None
  <2> SUFFICES ASSUME active[w] # {}, NEW m \in Model \ active[w]
               PROVE  progress'[m] = None
    OBVIOUS
  <2>1. progress[m] = None
    BY DEF Represented, Up, Beyond
  <2>2. m \in Target /\ m \notin Targets(w)
    BY BackfillAssumption DEF Target, Targets
  <2> QED BY <2>1, <2>2, TickStepLeavesProgress
<1> QED BY <1>1, <1>2, <1>3 DEF Represented, Up, Beyond

LEMMA RestartRepresented ==
    ASSUME TickSide, StartTypes, NEW w \in Worker, Restart(w)
    PROVE  Represented(w)' /\ OwnModels(w)'
<1>1. PICK models \in Config :
         /\ active' = [active EXCEPT ![w] = models]
         /\ boot' = [boot EXCEPT ![w] = FirstStatement(models)]
         /\ unlisted' = [unlisted EXCEPT ![w] = models]
  BY DEF Restart
<1>2. active'[w] = models /\ unlisted'[w] = models /\ boot'[w] = FirstStatement(models)
  BY <1>1 DEF TickSide, SyncSide, DrainSide, DrainTypeOK, StartTypes
<1>3. \A k \in Key : lease'[w][k] = None
  <2>1. CASE Idle(w)
    BY <2>1 DEF Restart, DropWork, Idle, vars
  <2>2. CASE ~Idle(w)
    BY <2>2 DEF Restart, DropWork, DropBatch, AbandonLeases, At, TickSide, SyncSide,
                DrainSide, BatchInv, Batch, DrainTypeOK, TypeOK
  <2> QED BY <2>1, <2>2
<1>4. \A e \in Entity, m \in Model : lease'[w][<<e, m>>] = None
  BY <1>3 DEF Key
<1>5. phase'[w] = "idle" /\ page'[w] = None
  BY GotoEffect DEF Restart, EndPass, EndTick, TickSide, TickTypes
<1>6. CASE models = {}
  <2>1. boot'[w] = "up" /\ active'[w] = {}
    BY <1>2, <1>6 DEF FirstStatement
  <2> QED BY <1>5, <2>1 DEF Represented, OwnModels, Up
<1>7. CASE models # {}
  <2>1. boot'[w] = "upsert models" /\ active'[w] # {} /\ active'[w] \ unlisted'[w] = {}
    BY <1>2, <1>7 DEF FirstStatement
  <2>2. /\ ~Beyond(w, {"prune backfill", "prune dead letters"})'
        /\ ~Beyond(w, {"prune dead letters"})' /\ ~Beyond(w, {})'
    BY <2>1 DEF Beyond
  <2> QED BY <1>4, <1>5, <2>1, <2>2 DEF Represented, OwnModels
<1> QED BY <1>6, <1>7

LEMMA StartStepRepresented ==
    ASSUME TickSide, StartTypes, NEW w \in Worker, Represented(w), StartStep(w)
    PROVE  Represented(w)'
<1> USE DEF Step, Up, Beyond, StartTypes
<1>1. UNCHANGED <<active, lease>>
  BY DEF StartStep, UpsertModel, PruneModels, PruneTasksOf, PruneTasks, DeleteRows,
         PruneBackfill, PruneDeadLettersOf, PruneDeadLetters, EnsureIndexesForModels,
         backfillVars, syncVars, drainVars, hostVars, vars
<1>2. boot[w] # "up" /\ active[w] # {} /\ active[w] \in SUBSET Model
  BY DEF StartStep, UpsertModel, PruneModels, PruneTasksOf, PruneBackfill,
         PruneDeadLettersOf, EnsureIndexesForModels, Represented, TickSide, SyncSide,
         DrainSide, DrainTypeOK
<1>3. \A m \in Model \ active[w], e \in Entity : lease'[w][<<e, m>>] = None
  BY <1>1, <1>2 DEF Represented
<1>4. ASSUME NEW m \in Model, UpsertModel(w, m)
      PROVE  Represented(w)'
  <2>1. /\ boot[w] = "upsert models" /\ m \in unlisted[w]
        /\ boot'[w] = IF unlisted[w] = {m} THEN "prune models" ELSE "upsert models"
        /\ unlisted'[w] = unlisted[w] \ {m} /\ registry' = registry \cup {m}
    BY <1>4 DEF UpsertModel
  <2>2. active[w] \ unlisted'[w] \subseteq registry'
    BY <2>1 DEF Represented
  <2>3. unlisted[w] = {m} => active[w] \subseteq registry'
    BY <2>1, <2>2
  <2>4. /\ boot'[w] = "prune models" => active[w] \subseteq registry'
        /\ boot'[w] \in {"upsert models", "prune models"}
    BY <2>1, <2>3
  <2> QED BY <1>1, <1>2, <1>3, <2>2, <2>4 DEF Represented
<1>5. CASE PruneModels(w)
  <2>1. boot[w] = "prune models" /\ boot'[w] = "prune tasks"
    BY <1>5 DEF PruneModels
  <2>2. registry' = active[w]
    BY <1>5, <2>1 DEF PruneModels, Represented
  <2> QED BY <1>1, <1>2, <1>3, <2>1, <2>2 DEF Represented
<1>6. CASE PruneTasksOf(w)
  <2>1. /\ boot[w] = "prune tasks" /\ boot'[w] = "prune backfill"
        /\ registry' = active[w]
    BY <1>2, <1>6 DEF PruneTasksOf, Represented
  <2>2. \A m \in Model \ active[w], e \in Entity : task'[<<e, m>>] = None
    BY <1>2, <1>6 DEF PruneTasksOf, PruneTasks, DeleteRows, Pruned, Key
  <2> QED BY <1>1, <1>2, <1>3, <2>1, <2>2 DEF Represented
<1>7. CASE PruneBackfill(w)
  <2>1. /\ boot[w] = "prune backfill" /\ boot'[w] = "prune dead letters"
        /\ registry' = active[w] /\ UNCHANGED task
    BY <1>2, <1>7 DEF PruneBackfill, Represented, syncVars, drainVars, vars
  <2>2. \A m \in Model \ active[w] : progress'[m] = None
    BY <1>7 DEF PruneBackfill, Unprogressed, Target
  <2>3. \A m \in Model \ active[w], e \in Entity : task'[<<e, m>>] = None
    BY <1>2, <2>1 DEF Represented
  <2> QED BY <1>1, <1>2, <1>3, <2>1, <2>2, <2>3 DEF Represented
<1>8. CASE PruneDeadLettersOf(w)
  <2>1. /\ boot[w] = "prune dead letters" /\ boot'[w] = "create indexes"
        /\ registry' = active[w] /\ UNCHANGED <<task, progress>>
    BY <1>2, <1>8 DEF PruneDeadLettersOf, PruneDeadLetters, Represented
  <2>2. \A m \in Model \ active[w], e \in Entity : dead'[<<e, m>>] = 0
    BY <1>2, <1>8 DEF PruneDeadLettersOf, PruneDeadLetters, Pruned, Key
  <2>3. \A m \in Model \ active[w] : /\ progress'[m] = None
                                     /\ \A e \in Entity : task'[<<e, m>>] = None
    BY <1>2, <2>1 DEF Represented
  <2> QED BY <1>1, <1>2, <1>3, <2>1, <2>2, <2>3 DEF Represented
<1>9. CASE EnsureIndexesForModels(w)
  <2>1. /\ boot[w] = "create indexes" /\ boot'[w] = "up"
        /\ registry' = active[w] /\ UNCHANGED <<task, dead, progress>>
    BY <1>2, <1>9
    DEF EnsureIndexesForModels, Represented, backfillVars, syncVars, drainVars, vars
  <2>2. \A m \in Model \ active[w] :
           /\ progress'[m] = None
           /\ \A e \in Entity : task'[<<e, m>>] = None /\ dead'[<<e, m>>] = 0
    BY <1>2, <2>1 DEF Represented
  <2> QED BY <1>1, <1>2, <1>3, <2>1, <2>2 DEF Represented
<1> QED BY <1>4, <1>5, <1>6, <1>7, <1>8, <1>9 DEF StartStep

(* A host's edit, and a task that becomes due.                             *)
LEMMA OutsideRepresented ==
    ASSUME TickSide, NEW w \in Worker, Represented(w), OwnModels(w),
           \/ \E e \in Entity : HostMarks(e)
           \/ \E k \in Key : TaskExpires(k)
           \/ UNCHANGED backfillVars,
           UNCHANGED startVars
    PROVE  Represented(w)' /\ OwnModels(w)'
<1>1. /\ UNCHANGED <<active, lease, dead, progress, page, phase, todo>>
      /\ UNCHANGED <<boot, unlisted, registry>>
  BY DEF HostMarks, MarkDirty, HostEdit, TaskExpires, DrainExpire, Expire, backfillVars,
         syncVars, drainVars, hostVars, vars, passVars, tickVars, startVars
<1>2. \A k \in Key : task[k] = None => task'[k] = None
  BY DEF HostMarks, MarkDirty, HostEdit, TaskExpires, DrainExpire, Expire, backfillVars,
         syncVars, drainVars, vars, TickSide, SyncSide, DrainSide, DrainTypeOK, TypeOK
<1>3. \A e \in Entity, m \in Model : task[<<e, m>>] = None => task'[<<e, m>>] = None
  BY <1>2 DEF Key
<1> QED BY <1>1, <1>3 DEF Represented, OwnModels, Up, Beyond, Targets

LEMMA RepresentsStep ==
    ASSUME OneWorker, TickSide, StartTypes, RepresentsInv, [RegistryNext]_registryVars
    PROVE  RepresentsInv'
<1> SUFFICES ASSUME NEW w \in Worker PROVE Represented(w)' /\ OwnModels(w)'
  BY DEF RepresentsInv
<1>1. Represented(w) /\ OwnModels(w) /\ \A v \in Worker : v = w
  BY OneLoop DEF RepresentsInv
<1>2. CASE Restart(w)
  BY <1>2, RestartRepresented
<1>3. CASE StartStep(w)
  <2>1. UNCHANGED <<active, phase, todo, page>>
    BY <1>3 DEF StartStep, UpsertModel, PruneModels, PruneTasksOf, PruneBackfill,
                PruneDeadLettersOf, EnsureIndexesForModels, backfillVars, syncVars,
                drainVars, hostVars, passVars, tickVars
  <2> QED BY <1>1, <1>3, <2>1, StartStepRepresented DEF OwnModels, Targets
<1>4. CASE LoopStep(w)
  <2>1. /\ BackfillStep(w) \/ OtherStep(w) \/ Fails(w) \/ SaveFails(w)
        /\ Up(w) /\ UNCHANGED startVars
    BY <1>4 DEF LoopStep
  <2>2. UNCHANGED active
    BY <2>1, TickKeepsModels DEF BackfillNext
  <2> QED BY <1>1, <2>1, <2>2, TickStepRepresented, TickStepOwnModels
<1>5. CASE \/ \E e \in Entity : HostMarks(e) /\ UNCHANGED startVars
           \/ \E k \in Key : TaskExpires(k) /\ UNCHANGED startVars
           \/ UNCHANGED registryVars
  BY <1>1, <1>5, OutsideRepresented DEF registryVars
<1> QED BY <1>1, <1>2, <1>3, <1>4, <1>5 DEF RegistryNext

(* With one process, for any configurations and any number of restarts,    *)
(* also in the middle of a start-up: once a process is up the registry is  *)
(* its configuration, and of no other model is there a task, a dead letter *)
(* or progress - nothing it leased or read earlier brings one back.        *)
THEOREM RegistryIsConfiguration ==
    ASSUME OneWorker
    PROVE  RegistrySpec => []RegistryRepresentsConfig
<1>1. RegistrySpec => []RepresentsInv
  BY RepresentsInit, RepresentsStep, RegistryTypes, PTL DEF RegistrySpec
<1>2. RepresentsInv => RegistryRepresentsConfig
  BY DEF RepresentsInv, Represented, RegistryRepresentsConfig, Up, Beyond
<1> QED BY <1>1, <1>2, PTL

--------------------------------------------------------------------------------
(* One process.  A model that was not configured so far has left nothing   *)
(* behind, and the models that never were taken out are caught up as if    *)
(* there had been no restart: their keys are not owed, or still wait for   *)
(* the backfill of a model that was added later.                           *)
Kept == Model \ retired

Future(w) == Kept \ active[w]

Untried(w, m) ==
    /\ progress[m] = None
    /\ \A e \in Entity : /\ vec[<<e, m>>] = 0 /\ task[<<e, m>>] = None
                         /\ dead[<<e, m>>] = 0 /\ lease[w][<<e, m>>] = None

FutureInv == \A w \in Worker : \A m \in Future(w) : Untried(w, m)

(* What the page has put behind it, it will request.                       *)
Reached(w, k) ==
    page[w] # None /\ page[w].target = k[2] /\ Behind(page[w], k[1])
        => OnItsWay(page[w], k[1])

Waiting(k) ==
    host[k[1]] # 0 =>
        /\ vec[k] = 0 /\ task[k] = None
        /\ ~Passed(k[2], k[1])
        /\ \A w \in Worker : Reached(w, k)

Exempt == {k \in Key : k[2] \in retired \/ Waiting(k)}

StartIdle == \A w \in Worker : ~Up(w) => phase[w] = "idle"

KeptInv ==
    FutureInv /\ StartIdle /\ OneLoopInv(Kept, Exempt) /\ CoverInv(Kept)

(* What a step of a tick, a restart or a start-up starts from.             *)
Underway ==
    /\ OneWorker /\ LeaseOutlivesWork
    /\ IInv /\ IInv' /\ TickSide /\ StartTypes
    /\ RepresentsInv

LEMMA UnderwayIsSetting ==
    ASSUME Underway
    PROVE  Setting
  BY DEF Underway, Setting, Around, TickSide, SyncSide, DrainSide

--------------------------------------------------------------------------------
(* Nothing comes to a model before a process is configured with it.        *)
LEMMA UntriedStays ==
    ASSUME TickSide, NEW w \in Worker, NEW m \in Model, Untried(w, m),
           progress'[m] \in {None, progress[m]},
           \A k \in Key : k[2] = m =>
              /\ vec'[k] \in {0, vec[k]} /\ task'[k] \in {None, task[k]}
              /\ dead'[k] \in {0, dead[k]} /\ lease'[w][k] \in {None, lease[w][k]}
    PROVE  Untried(w, m)'
<1>1. \A e \in Entity : <<e, m>> \in Key /\ <<e, m>>[2] = m
  BY DEF Key
<1> QED BY <1>1 DEF Untried

(* A tick stores and deletes only vectors there is a task for, or deletes. *)
LEMMA TickStepLeavesVectors ==
    ASSUME Setting, DrainGood, NEW w \in Worker,
           BackfillStep(w) \/ OtherStep(w) \/ Fails(w) \/ SaveFails(w),
           NEW k \in Key, task[k] = None
    PROVE  vec'[k] \in {0, vec[k]}
<1>1. CASE UNCHANGED vec
  BY <1>1
<1>2. CASE Drain(w)
  BY <1>2, OnlyTasksAreWorked DEF Drain, Setting
<1>3. ASSUME NEW e \in Entity, DeleteEmbeddingVectors(w, e)
      PROVE  vec'[k] \in {0, vec[k]}
  BY <1>3 DEF DeleteEmbeddingVectors
<1>4. CASE BackfillStep(w)
  BY <1>1, <1>4
  DEF BackfillStep, ReadCursor, List, BuildPage, UpsertPage, DeleteBlankPage,
      FilterMissingEmbeddings, EnqueuePage, Request, SavePage, EndPage,
      FinishBackfill, EndBackfill, syncVars, drainVars
<1>5. CASE OtherStep(w)
  BY <1>1, <1>2, <1>3, <1>5
  DEF OtherStep, DirtyStep, ReadDirty, BuildLexicalString, UpsertSearchDocuments,
      DeleteBlankDocuments, ClearDirty, DeleteSearchDocuments, DeleteTasks,
      EnqueueModel, Request, NothingDue, drainVars
<1>6. CASE Fails(w) \/ SaveFails(w)
  BY <1>1, <1>6 DEF Fails, FailPass, ListFails, SaveFails, EndPage, syncVars, drainVars
<1> QED BY <1>4, <1>5, <1>6

LEMMA TickStepFuture ==
    ASSUME Setting, TickSide, DrainGood, NEW w \in Worker, OwnModels(w),
           BackfillStep(w) \/ OtherStep(w) \/ Fails(w) \/ SaveFails(w),
           NEW m \in Model \ active[w], Untried(w, m)
    PROVE  Untried(w, m)'
<1>1. m \in Target /\ m \notin Targets(w)
  BY BackfillAssumption DEF Target, Targets
<1>2. progress'[m] = None
  BY <1>1, TickStepLeavesProgress DEF Untried
<1>3. ASSUME NEW e \in Entity
      PROVE  /\ vec'[<<e, m>>] = 0 /\ task'[<<e, m>>] = None
             /\ dead'[<<e, m>>] = 0 /\ lease'[w][<<e, m>>] = None
  <2>0. <<e, m>> \in Key /\ <<e, m>>[2] = m
    BY DEF Key
  <2>1. PICK k \in Key : k = <<e, m>> /\ k[2] = m
    BY <2>0
  <2>2. /\ vec[k] = 0 /\ task[k] = None
        /\ dead[k] = 0 /\ lease[w][k] = None
    BY <2>1 DEF Untried
  <2>3. task'[k] = None /\ lease'[w][k] = None /\ dead'[k] = dead[k]
    BY <2>1, <2>2, TickStepLeavesNothing
  <2>4. vec'[k] \in {0, vec[k]}
    BY <2>2, TickStepLeavesVectors
  <2> QED BY <2>1, <2>2, <2>3, <2>4
<1> QED BY <1>2, <1>3 DEF Untried

LEMMA OutsideFuture ==
    ASSUME TickSide, NEW w \in Worker, NEW m \in Model, Untried(w, m),
           \/ \E e \in Entity : HostMarks(e)
           \/ \E k \in Key : TaskExpires(k)
           \/ UNCHANGED backfillVars
    PROVE  Untried(w, m)'
<1>1. UNCHANGED <<vec, lease, dead, progress>>
  BY DEF HostMarks, MarkDirty, HostEdit, TaskExpires, DrainExpire, Expire, backfillVars,
         syncVars, drainVars, vars
<1>2. \A k \in Key : task[k] = None => task'[k] = None
  BY DEF HostMarks, MarkDirty, HostEdit, TaskExpires, DrainExpire, Expire, backfillVars,
         syncVars, drainVars, vars, TickSide, SyncSide, DrainSide, DrainTypeOK, TypeOK
<1>3. \A e \in Entity : task[<<e, m>>] = None => task'[<<e, m>>] = None
  BY <1>2 DEF Key
<1> QED BY <1>1, <1>3 DEF Untried

(* A process that dies leaves rows, but no lease and no record of a batch. *)
LEMMA RestartEffect ==
    ASSUME TickSide, NEW w \in Worker, Restart(w)
    PROVE  /\ UNCHANGED <<task, dead, host, assets, edits, owed, vec, markVars, progress>>
           /\ \A k \in Key : stage'[w][k] = "none" /\ lease'[w][k] = None
           /\ \A v \in Worker, k \in Key :
                 \/ stage'[v][k] = "none"
                 \/ stage'[v][k] = stage[v][k] /\ doc'[v][k] = doc[v][k]
<1>1. CASE Idle(w)
  <2>1. UNCHANGED <<vars, workVars>>
    BY <1>1 DEF Restart, DropWork
  <2> QED BY <1>1, <2>1
          DEF Restart, vars, workVars, Idle, TickSide, SyncSide, DrainSide, BatchInv, Batch
<1>2. CASE ~Idle(w)
  <2>1. DropBatch(w)
    BY <1>2 DEF Restart, DropWork
  <2>2. \A k \in Key : lease'[w][k] = None
    BY <2>1 DEF DropBatch, AbandonLeases, At, TickSide, SyncSide, DrainSide, BatchInv,
                Batch, DrainTypeOK, TypeOK
  <2>3. \A v \in Worker, k \in Key :
           stage'[v][k] = IF v = w THEN "none" ELSE stage[v][k]
    BY <2>1, MoveEffect DEF DropBatch, Stage, TickSide, SyncSide, DrainSide
  <2>4. \A v \in Worker \ {w} : doc'[v] = doc[v]
    BY <2>1 DEF DropBatch, TickSide, SyncSide, DrainSide, DrainTypeOK
  <2>5. UNCHANGED <<task, dead>>
    BY <2>1 DEF DropBatch, AbandonLeases
  <2> QED BY <2>2, <2>3, <2>4, <2>5 DEF Restart
<1> QED BY <1>1, <1>2

LEMMA RestartModels ==
    ASSUME TickSide, NEW w \in Worker, Restart(w)
    PROVE  /\ Kept' \subseteq Kept
           /\ active[w] \ active'[w] \subseteq retired'
<1>1. PICK models \in Config : /\ active' = [active EXCEPT ![w] = models]
                               /\ retired' = retired \cup (active[w] \ models)
  BY DEF Restart
<1>2. active'[w] = models
  BY <1>1 DEF TickSide, SyncSide, DrainSide, DrainTypeOK
<1> QED BY <1>1, <1>2 DEF Kept

LEMMA RestartFuture ==
    ASSUME TickSide, NEW w \in Worker, Restart(w), NEW m \in Future(w)', FutureInv
    PROVE  Untried(w, m)'
<1>1. m \in Kept /\ m \notin active[w] /\ m \in Model
  BY RestartModels DEF Future, Kept
<1>2. Untried(w, m)
  BY <1>1 DEF FutureInv, Future
<1>3. UNCHANGED <<task, dead, vec, progress>> /\ \A k \in Key : lease'[w][k] = None
  BY RestartEffect
<1> QED BY <1>1, <1>2, <1>3, UntriedStays

(* A start-up prunes rows of models it is not configured with.             *)
LEMMA StartStepEffect ==
    ASSUME TickSide, NEW w \in Worker, StartStep(w)
    PROVE  /\ UNCHANGED <<lease, hostVars, vec, workVars, markVars, passVars, tickVars,
                          retired>>
           /\ \A k \in Key : /\ task'[k] \in {None, task[k]} /\ dead'[k] \in {0, dead[k]}
                             /\ k[2] \in active[w] => /\ task'[k] = task[k]
                                                      /\ dead'[k] = dead[k]
           /\ \A t \in Target : progress'[t] \in {None, progress[t]}
<1>1. CASE UNCHANGED <<backfillVars, retired>>
  BY <1>1 DEF backfillVars, syncVars, drainVars, vars
<1>2. \A k \in Key : k \in Pruned(active[w]) => k[2] \notin active[w]
  BY DEF Pruned, Key
<1>3. CASE PruneTasksOf(w)
  BY <1>2, <1>3 DEF PruneTasksOf, PruneTasks, DeleteRows, historyVars
<1>4. CASE PruneDeadLettersOf(w)
  BY <1>2, <1>4 DEF PruneDeadLettersOf, PruneDeadLetters, historyVars
<1>5. CASE PruneBackfill(w)
  BY <1>5 DEF PruneBackfill, syncVars, drainVars, vars
<1> QED BY <1>1, <1>3, <1>4, <1>5
        DEF StartStep, UpsertModel, PruneModels, EnsureIndexesForModels, historyVars

LEMMA FutureStep ==
    ASSUME Underway, FutureInv, DrainGood, [RegistryNext]_registryVars
    PROVE  FutureInv'
<1> SUFFICES ASSUME NEW w \in Worker, NEW m \in Future(w)'
             PROVE  Untried(w, m)'
  BY DEF FutureInv
<1>1. TickSide /\ OwnModels(w) /\ \A v \in Worker : v = w
  BY OneLoop DEF Underway, RepresentsInv
<1>2. CASE Restart(w)
  BY <1>1, <1>2, RestartFuture
<1>3. CASE StartStep(w)
  <2>1. UNCHANGED <<active, retired, lease, vec>>
    BY <1>1, <1>3, StartStepEffect DEF hostVars
  <2>2. m \in Model /\ Untried(w, m)
    BY <2>1 DEF FutureInv, Future, Kept
  <2>3. m \in Target
    BY <2>2 DEF Target
  <2> QED BY <1>1, <1>3, <2>1, <2>2, <2>3, StartStepEffect, UntriedStays
<1>4. CASE LoopStep(w)
  <2>1. /\ BackfillStep(w) \/ OtherStep(w) \/ Fails(w) \/ SaveFails(w)
        /\ UNCHANGED retired
    BY <1>4 DEF LoopStep, startVars, historyVars
  <2>2. UNCHANGED active
    BY <2>1, TickKeepsModels DEF BackfillNext
  <2>3. m \in Model \ active[w] /\ Untried(w, m)
    BY <2>1, <2>2 DEF FutureInv, Future, Kept
  <2> QED BY <1>1, <2>1, <2>3, UnderwayIsSetting, TickStepFuture
<1>5. CASE \/ \E e \in Entity : HostMarks(e) /\ UNCHANGED startVars
           \/ \E k \in Key : TaskExpires(k) /\ UNCHANGED startVars
           \/ UNCHANGED registryVars
  <2>1. \/ \E e \in Entity : HostMarks(e)
        \/ \E k \in Key : TaskExpires(k)
        \/ UNCHANGED backfillVars
    BY <1>5 DEF registryVars
  <2>2. UNCHANGED retired
    BY <1>5 DEF registryVars, startVars, historyVars
  <2>3. UNCHANGED active
    BY <2>1, TickKeepsModels
    DEF BackfillNext, backfillVars, syncVars, drainVars, hostVars
  <2>4. m \in Model /\ Untried(w, m)
    BY <2>2, <2>3 DEF FutureInv, Future, Kept
  <2> QED BY <1>1, <2>1, <2>4, OutsideFuture
<1> QED BY <1>1, <1>2, <1>3, <1>4, <1>5 DEF RegistryNext

LEMMA StartIdleStep ==
    ASSUME Underway, StartIdle, [RegistryNext]_registryVars
    PROVE  StartIdle'
<1> SUFFICES ASSUME NEW w \in Worker, ~Up(w)'
             PROVE  phase'[w] = "idle"
  BY DEF StartIdle
<1>1. TickSide /\ \A v \in Worker : v = w
  BY OneLoop DEF Underway
<1>2. CASE Restart(w)
  BY <1>1, <1>2, EndPassEffect DEF Restart, TickSide
<1>3. CASE StartStep(w)
  <2>1. UNCHANGED phase
    BY <1>1, <1>3, StartStepEffect DEF passVars
  <2>2. boot[w] # "up"
    BY <1>3 DEF StartStep, UpsertModel, PruneModels, PruneTasksOf, PruneBackfill,
                PruneDeadLettersOf, EnsureIndexesForModels, Step
  <2> QED BY <2>1, <2>2 DEF StartIdle, Up
<1>4. CASE UNCHANGED <<phase, boot>>
  BY <1>4 DEF StartIdle, Up
<1>5. CASE LoopStep(w)
  BY <1>5 DEF LoopStep, startVars, Up
<1> QED BY <1>1, <1>2, <1>3, <1>4, <1>5
        DEF RegistryNext, HostMarks, MarkDirty, TaskExpires, passVars, startVars,
            registryVars, backfillVars, syncVars
--------------------------------------------------------------------------------
(* A key that waits goes on waiting until its entity is edited or a        *)
(* request for it is made.                                                 *)
LEMMA TickStepLeavesUnasked ==
    ASSUME Setting, PageInv, DrainGood, NEW w \in Worker,
           BackfillStep(w) \/ OtherStep(w) \/ Fails(w) \/ SaveFails(w),
           NEW k \in Key, task[k] = None, k \in owed'
    PROVE  task'[k] = None
<1>1. CASE UNCHANGED task
  BY <1>1
<1>2. ASSUME NEW E \in SUBSET Entity, NEW m \in Model, Request(E, m)
      PROVE  task'[k] = None
  <2>1. k \notin E \X {m}
    BY <1>2 DEF Request
  <2> QED BY <1>2, <2>1, RequestedHasTask DEF Setting, Around
<1>3. CASE BackfillStep(w)
  <2>1. CASE EnqueuePage(w)
    <3>1. page[w] # None /\ page[w].at = "enqueue" /\ Request(page[w].ids, page[w].target)
      BY <2>1 DEF EnqueuePage, OnPage
    <3>2. page[w].ids \in SUBSET Entity /\ page[w].target \in Model
      BY <3>1 DEF PageInv, PageOK
    <3> QED BY <1>2, <3>1, <3>2
  <2>2. CASE ~EnqueuePage(w)
    BY <1>1, <1>3, <2>2
    DEF BackfillStep, ReadCursor, List, BuildPage, UpsertPage, DeleteBlankPage,
        FilterMissingEmbeddings, SavePage, EndPage, FinishBackfill, EndBackfill,
        syncVars, drainVars, vars
  <2> QED BY <2>1, <2>2
<1>4. CASE OtherStep(w)
  <2>1. ASSUME NEW m \in Model, EnqueueModel(w, m)
        PROVE  task'[k] = None
    BY <1>2, <2>1, PassRows DEF EnqueueModel
  <2>2. ASSUME NEW e \in Entity, DeleteTasks(w, e)
        PROVE  task'[k] = None
    BY <2>2 DEF DeleteTasks, DeleteAllForEntity, DeleteRows
  <2>3. CASE Drain(w)
    BY <2>3, OnlyTasksAreWorked DEF Drain, Setting
  <2> QED BY <1>1, <1>4, <2>1, <2>2, <2>3
          DEF OtherStep, DirtyStep, ReadDirty, BuildLexicalString,
              UpsertSearchDocuments, DeleteBlankDocuments, ClearDirty,
              DeleteSearchDocuments, DeleteEmbeddingVectors, NothingDue, drainVars, vars
<1>5. CASE Fails(w) \/ SaveFails(w)
  BY <1>1, <1>5
  DEF Fails, FailPass, ListFails, SaveFails, EndPage, syncVars, drainVars, vars
<1> QED BY <1>3, <1>4, <1>5

(* A cursor moves past an entity only with a page that has put it behind.  *)
LEMMA CursorWaits ==
    ASSUME TickTypes, NEW w \in Worker,
           BackfillStep(w) \/ OtherStep(w) \/ Fails(w) \/ SaveFails(w),
           NEW k \in Key, Reached(w, k), ~Passed(k[2], k[1])
    PROVE  ~Passed(k[2], k[1])'
<1>1. k[2] \in Target /\ k[1] \in Entity
  BY DEF Key, Target
<1>2. CASE UNCHANGED progress
  BY <1>2 DEF Passed
<1>3. ASSUME NEW t \in Target, ReadCursor(w, t)
      PROVE  ~Passed(k[2], k[1])'
  <2>0. \A e \in Entity : ~(e <= 0)
    BY BackfillAssumption
  <2>1. ~(k[1] <= 0)
    BY <1>1, <2>0
  <2>2. progress' = [progress EXCEPT ![t] = Ensured(t)]
    BY <1>3 DEF ReadCursor
  <2>3. CASE t # k[2]
    BY <1>1, <2>2, <2>3 DEF Passed, TickTypes
  <2>4. CASE t = k[2]
    <3>1. progress'[k[2]] = Ensured(k[2])
      BY <1>1, <2>2, <2>4 DEF TickTypes
    <3> QED BY <2>1, <3>1 DEF Passed, Ensured
  <2> QED BY <2>3, <2>4
<1>4. CASE SavePage(w)
  <2>1. /\ page[w] # None /\ page[w].at = "save"
        /\ SaveProgress(w)
    BY <1>4 DEF SavePage, EndPage, Worked, OnPage
  <2>2. CASE progress'[k[2]] = progress[k[2]]
    BY <2>2 DEF Passed
  <2>3. CASE progress'[k[2]] # progress[k[2]]
    <3>1. /\ page[w].target = k[2]
          /\ progress'[k[2]] = [cursor |-> page[w].cursor,
                                state |-> IF page[w].last THEN "done" ELSE "running"]
      BY <1>1, <2>1, <2>3 DEF SaveProgress, UpdateState, TickTypes
    <3>2. ~Behind(page[w], k[1])
      BY <2>1, <3>1 DEF Reached, OnItsWay
    <3> QED BY <3>1, <3>2 DEF Passed, Behind
  <2> QED BY <2>2, <2>3
<1>5. CASE ListFails(w)
  <2>1. CASE progress'[k[2]] = progress[k[2]]
    BY <2>1 DEF Passed
  <2>2. CASE progress'[k[2]] # progress[k[2]]
    <3>1. /\ progress[k[2]] # None
          /\ progress'[k[2]] = [cursor |-> progress[k[2]].cursor, state |-> "failed"]
      BY <1>1, <1>5, <2>2 DEF ListFails, UpdateState, TickTypes
    <3> QED BY <3>1 DEF Passed
  <2> QED BY <2>1, <2>2
<1> QED BY <1>2, <1>3, <1>4, <1>5
        DEF BackfillStep, List, BuildPage, UpsertPage, DeleteBlankPage,
            FilterMissingEmbeddings, EnqueuePage, FinishBackfill, OtherStep, Fails,
            SaveFails

(* A page that has put an entity behind it is on its way to request it.    *)
LEMMA PageWaits ==
    ASSUME NEW M, TickTypes, CoverInv(M), NEW w \in Worker,
           BackfillStep(w) \/ OtherStep(w) \/ Fails(w) \/ SaveFails(w),
           NEW k \in Key, Reached(w, k), ~Passed(k[2], k[1]),
           host[k[1]] # 0, vec[k] = 0, k \in owed'
    PROVE  Reached(w, k)'
<1>1. k[2] \in Model /\ k[1] \in Entity /\ k = <<k[1], k[2]>> /\ k[2] # Lexical
  BY BackfillAssumption DEF Key
<1>2. CASE page'[w] = page[w] \/ page'[w] = None
  BY <1>2 DEF Reached
<1>3. ASSUME NEW at, ToStep(w, at), page[w] # None
      PROVE  /\ page'[w].target = page[w].target
             /\ Behind(page'[w], k[1]) <=> Behind(page[w], k[1])
  BY <1>3 DEF ToStep, TickTypes, Page, Behind
<1>4. ASSUME NEW t \in Target, ReadCursor(w, t)
      PROVE  Reached(w, k)'
  <2>1. CASE page' = page
    BY <1>2, <2>1
  <2>2. CASE page' # page
    <3>1. page'[w] = [target |-> t, ids |-> {}, last |-> FALSE,
                      cursor |-> Ensured(t).cursor, at |-> "cursor"]
      BY <1>4, <2>2 DEF ReadCursor, TickTypes
    <3>2. ~(k[1] <= 0)
      <4>1. \A e \in Entity : ~(e <= 0)
        BY BackfillAssumption
      <4> QED BY <1>1, <4>1
    <3>3. t = k[2] => ~(k[1] <= Ensured(t).cursor)
      BY <3>2 DEF Ensured, Passed
    <3> QED BY <3>1, <3>3 DEF Reached, Behind
  <2> QED BY <2>1, <2>2
<1>5. CASE List(w)
  <2>1. page[w] # None /\ page[w].at = "cursor" /\ page'[w].target = page[w].target
    BY <1>5 DEF List, OnPage, TickTypes
  <2>2. CASE page[w].target = k[2]
    <3>1. ~(k[1] <= page[w].cursor)
      BY <2>1, <2>2 DEF Reached, Behind, OnItsWay
    <3> QED BY <1>1, <1>5, <3>1, ListedBehind DEF Reached
  <2>3. CASE page[w].target # k[2]
    BY <2>1, <2>3 DEF Reached
  <2> QED BY <2>2, <2>3
<1>6. CASE FilterMissingEmbeddings(w)
  <2> DEFINE missing == Missing(page[w].target, page[w].ids)
  <2>1. /\ page[w] # None
        /\ page'[w] = [target |-> page[w].target, cursor |-> page[w].cursor,
                       ids |-> missing, last |-> page[w].last,
                       at |-> IF missing = {} THEN "save" ELSE "enqueue"]
    BY <1>6 DEF FilterMissingEmbeddings, OnPage, TickTypes
  <2>2. page[w].target = k[2] /\ k[1] \in page[w].ids => k[1] \in missing
    BY <1>1 DEF Missing
  <2> HIDE DEF missing
  <2>3. /\ page'[w].target = page[w].target /\ page'[w].ids = missing
        /\ page'[w].cursor = page[w].cursor /\ page'[w].last = page[w].last
        /\ missing # {} => page'[w].at = "enqueue"
    BY <2>1
  <2> QED BY <2>1, <2>2, <2>3 DEF Reached, Behind, OnItsWay
<1>7. CASE EnqueuePage(w)
  <2>1. /\ page[w] # None /\ ToStep(w, "save")
        /\ Request(page[w].ids, page[w].target)
    BY <1>7 DEF EnqueuePage, OnPage
  <2>2. page[w].target = k[2] => k[1] \notin page[w].ids
    BY <1>1, <2>1 DEF Request
  <2> QED BY <1>3, <2>1, <2>2 DEF Reached, OnItsWay
<1>8. CASE BuildPage(w) \/ UpsertPage(w)
  <2>1. page[w] # None /\ page[w].target = Lexical
    BY <1>8 DEF BuildPage, UpsertPage, OnPage, CoverInv, PageCovers
  <2>2. page'[w].target = Lexical
    BY <1>3, <1>8, <2>1 DEF BuildPage, UpsertPage
  <2> QED BY <1>1, <2>2 DEF Reached
<1>9. CASE DeleteBlankPage(w)
  <2>1. page[w] # None /\ page[w].at = "blank" /\ ToStep(w, "save")
    BY <1>9 DEF DeleteBlankPage, OnPage
  <2> QED BY <1>3, <2>1 DEF Reached, OnItsWay
<1>10. CASE \/ SavePage(w) \/ SaveFails(w) \/ FinishBackfill(w) \/ OtherStep(w)
            \/ Fails(w)
  BY <1>2, <1>10
  DEF SavePage, SaveFails, EndPage, FinishBackfill, Fails, EndTick, OtherStep, tickVars,
      TickTypes
<1> QED BY <1>4, <1>5, <1>6, <1>7, <1>8, <1>9, <1>10 DEF BackfillStep

LEMMA TickStepWaits ==
    ASSUME NEW M, Setting, TickSide, DrainGood, CoverInv(M), NEW w \in Worker,
           BackfillStep(w) \/ OtherStep(w) \/ Fails(w) \/ SaveFails(w),
           NEW k \in Key, Waiting(k), k \in owed'
    PROVE  Waiting(k)'
<1>1. UNCHANGED host
  BY WorkerStepLeavesHost
  DEF BackfillStep, ReadCursor, List, BuildPage, UpsertPage, DeleteBlankPage,
      FilterMissingEmbeddings, EnqueuePage, Request, SavePage, EndPage, FinishBackfill,
      EndBackfill, OtherStep, DirtyStep, ReadDirty, BuildLexicalString,
      UpsertSearchDocuments, DeleteBlankDocuments, ClearDirty, DeleteSearchDocuments,
      DeleteEmbeddingVectors, DeleteTasks, EnqueueModel, Drain, NothingDue, Fails,
      FailPass, ListFails, SaveFails, syncVars, drainVars, hostVars
<1>2. CASE host[k[1]] = 0
  BY <1>1, <1>2 DEF Waiting
<1>3. CASE host[k[1]] # 0
  <2>1. /\ vec[k] = 0 /\ task[k] = None /\ ~Passed(k[2], k[1])
        /\ Reached(w, k) /\ \A v \in Worker : v = w
    BY <1>3, OneLoop DEF Waiting, Setting, Around
  <2>2. task'[k] = None
    BY <2>1, TickStepLeavesUnasked DEF TickSide
  <2>3. vec'[k] = 0
    BY <2>1, TickStepLeavesVectors
  <2>4. ~Passed(k[2], k[1])'
    BY <2>1, CursorWaits DEF TickSide
  <2>5. Reached(w, k)'
    BY <1>3, <2>1, PageWaits DEF TickSide
  <2> QED BY <2>1, <2>2, <2>3, <2>4, <2>5 DEF Waiting
<1> QED BY <1>2, <1>3

(* Outside a tick nothing is stored, asked for or listed.                  *)
LEMMA StillWaiting ==
    ASSUME NEW k \in Key, Waiting(k), host'[k[1]] = host[k[1]],
           vec'[k] \in {0, vec[k]}, task'[k] \in {None, task[k]},
           progress'[k[2]] \in {None, progress[k[2]]},
           \A w \in Worker : page'[w] \in {None, page[w]}
    PROVE  Waiting(k)'
<1>1. \A w \in Worker : Reached(w, k) => Reached(w, k)'
  BY DEF Reached
<1>2. Passed(k[2], k[1])' => Passed(k[2], k[1])
  BY DEF Passed
<1> QED BY <1>1, <1>2 DEF Waiting

LEMMA EditWaits ==
    ASSUME TickSide, NEW e \in Entity, HostMarks(e), NEW k \in Key, Waiting(k),
           dirty'[k[1]] = None
    PROVE  Waiting(k)'
<1>1. /\ HostEdit(e) /\ k[1] \in Entity
      /\ UNCHANGED <<vec, task, progress, page>>
  BY DEF HostMarks, MarkDirty, HostEdit, tickVars, vars, Key
<1>2. k[1] # e
  <2>1. PICK d \in BOOLEAN : dirty' = [dirty EXCEPT ![e] = NewMark(d)]
    BY DEF HostMarks, MarkDirty
  <2>2. edits \in Nat
    BY EmbedDrainAssumption DEF TickSide, SyncSide, DrainSide, DrainTypeOK
  <2>3. NewMark(d) \in Mark
    BY <2>2 DEF NewMark, Mark
  <2>4. dirty'[e] # None
    BY <2>1, <2>3, DirtySyncAssumption DEF TickSide, SyncSide, MarkTypes
  <2> QED BY <2>4
<1>3. host'[k[1]] = host[k[1]]
  BY <1>1, <1>2 DEF HostEdit, TickSide, SyncSide, DrainSide, DrainTypeOK
<1> QED BY <1>1, <1>3, StillWaiting

LEMMA ExpiryWaits ==
    ASSUME TickSide, NEW j \in Key, TaskExpires(j), NEW k \in Key, Waiting(k)
    PROVE  Waiting(k)'
<1>1. UNCHANGED <<host, vec, progress, page>>
  BY DEF TaskExpires, DrainExpire, hostVars, tickVars
<1>2. task[k] = None => task'[k] = None
  BY DEF TaskExpires, DrainExpire, Expire, TickSide, SyncSide, DrainSide, DrainTypeOK,
         TypeOK
<1>3. Waiting(k)'
  <2>1. CASE host[k[1]] = 0
    BY <1>1, <2>1 DEF Waiting
  <2>2. CASE host[k[1]] # 0
    BY <1>1, <1>2, <2>2, StillWaiting DEF Waiting
  <2> QED BY <2>1, <2>2
<1> QED BY <1>3

(* A tick keeps the invariant.  Kept and Exempt are pinned to what they    *)
(* were before it; then what still is owed is found to wait as before.     *)
LEMMA TickKept ==
    ASSUME Underway, OneLoopInv(Kept, Exempt), CoverInv(Kept),
           [BackfillNext]_backfillVars, UNCHANGED retired
    PROVE  OneLoopInv(Kept, Exempt)' /\ CoverInv(Kept)'
<1>1. PICK M, X : M = Kept /\ X = Exempt
  OBVIOUS
<1>2. Setting /\ TickSide
  BY UnderwayIsSetting DEF Underway
<1>3. OneLoopInv(M, X)' /\ CoverInv(M)'
  <2>1. OneLoopInv(M, X) /\ CoverInv(M)
    BY <1>1
  <2> QED BY <1>2, <2>1, OneLoopStep, CoverStep DEF TickSide, Setting, Around
<1>4. M = Kept'
  BY <1>1 DEF Kept
<1>5. ASSUME NEW k \in Key, k \in X, k \in owed', dirty'[k[1]] = None
      PROVE  k \in Exempt'
  <2>1. CASE k[2] \in retired
    BY <2>1 DEF Exempt
  <2>2. CASE k[2] \notin retired
    <3>1. Waiting(k)
      BY <1>1, <1>5, <2>2 DEF Exempt
    <3>2. CoverInv(M) /\ DrainGood
      BY <1>1 DEF OneLoopInv, PassInv
    <3>3. ASSUME NEW w \in Worker,
                 BackfillStep(w) \/ OtherStep(w) \/ Fails(w) \/ SaveFails(w)
          PROVE  Waiting(k)'
      BY <1>2, <1>5, <3>1, <3>2, <3>3, TickStepWaits
    <3>4. ASSUME UNCHANGED backfillVars
          PROVE  Waiting(k)'
      <4>1. UNCHANGED <<host, vec, task, progress, page>>
        BY <3>4 DEF backfillVars, syncVars, drainVars, vars, hostVars, tickVars
      <4> QED BY <3>1, <4>1, StillWaiting
    <3>5. ASSUME NEW e \in Entity, HostMarks(e)
          PROVE  Waiting(k)'
      BY <1>2, <1>5, <3>1, <3>5, EditWaits
    <3>6. ASSUME NEW j \in Key, TaskExpires(j)
          PROVE  Waiting(k)'
      BY <1>2, <3>1, <3>6, ExpiryWaits
    <3>7. Waiting(k)'
      BY <3>3, <3>4, <3>5, <3>6 DEF BackfillNext
    <3> QED BY <3>7 DEF Exempt
  <2> QED BY <2>1, <2>2
<1>6. \A e \in Entity : Indexed(1, Exempt, e)'
  <2>1. ASSUME NEW e \in Entity, NEW w \in Worker, NEW m \in active'[w],
               dirty'[e] = None, <<e, m>> \in owed', <<e, m>> \in X
        PROVE  <<e, m>> \in Exempt'
    <3>1. <<e, m>> \in Key
      BY <2>1, <1>1 DEF Exempt
    <3> QED BY <1>5, <2>1, <3>1
  <2>2. \A e \in Entity : Indexed(1, X, e)'
    BY <1>3 DEF OneLoopInv, PassInv
  <2> QED BY <2>1, <2>2 DEF Indexed
<1> QED BY <1>3, <1>4, <1>6 DEF OneLoopInv, PassInv, VectorsDue, CoverInv, CursorCovers,
                                PageCovers, Covered

--------------------------------------------------------------------------------
(* A restart with other models.  Those that it adds have nothing, so their *)
(* keys wait for their backfill; of those it takes out nothing is claimed. *)
LEMMA CoverFewer ==
    ASSUME NEW M, NEW N, N \subseteq M, CoverInv(M)'
    PROVE  CoverInv(N)'
<1>1. \A t, e : Covered(M, t, e)' => Covered(N, t, e)'
  BY DEF Covered
<1>2. \A w \in Worker : PageCovers(w, M)' => PageCovers(w, N)'
  BY <1>1 DEF PageCovers
<1> QED BY <1>1, <1>2 DEF CoverInv, CursorCovers

LEMMA RestartWaits ==
    ASSUME TickSide, FutureInv, NEW w \in Worker, Restart(w), \A v \in Worker : v = w,
           NEW k \in Key, k[2] \in active'[w],
           k[2] \in active[w] => k \in Exempt
    PROVE  k \in Exempt'
<1>1. /\ UNCHANGED <<task, host, vec, progress>>
      /\ \A v \in Worker : page'[v] = None
  BY RestartEffect DEF Restart, EndTick, TickSide, TickTypes
<1>2. CASE k[2] \in retired'
  BY <1>2 DEF Exempt
<1>3. CASE k[2] \notin retired' /\ k[2] \in active[w]
  <2>1. k[2] \notin retired
    BY <1>3 DEF Restart
  <2>2. Waiting(k)
    BY <1>3, <2>1 DEF Exempt
  <2>3. Waiting(k)'
    BY <1>1, <2>2, StillWaiting
  <2> QED BY <2>3 DEF Exempt
<1>4. CASE k[2] \notin retired' /\ k[2] \notin active[w]
  <2>1. k[2] \in Model /\ k[1] \in Entity /\ k = <<k[1], k[2]>>
    BY DEF Key
  <2>2. k[2] \in Future(w)
    BY <1>4, <2>1 DEF Restart, Future, Kept
  <2>3. Untried(w, k[2])
    BY <2>1, <2>2 DEF FutureInv
  <2>4. vec[k] = 0 /\ task[k] = None /\ progress[k[2]] = None
    BY <2>1, <2>3 DEF Untried
  <2>5. Waiting(k)'
    BY <1>1, <2>4 DEF Waiting, Passed, Reached
  <2> QED BY <2>5 DEF Exempt
<1> QED BY <1>2, <1>3, <1>4

LEMMA RestartPassKept ==
    ASSUME Underway, FutureInv, OneLoopInv(Kept, Exempt), NEW w \in Worker, Restart(w)
    PROVE  OneLoopInv(Kept, Exempt)'
<1>1. Setting /\ TickSide /\ \A v \in Worker : v = w
  BY UnderwayIsSetting, OneLoop DEF Underway
<1>2. /\ UNCHANGED <<task, dead, host, assets, edits, owed, vec, markVars>>
      /\ UNCHANGED <<dirty, gone, docs, lost>>
      /\ \A k \in Key : stage'[w][k] = "none" /\ lease'[w][k] = None
  BY <1>1, RestartEffect DEF markVars
<1>3. phase'[w] = "idle" /\ \A e \in Entity : batch'[w][e] = None /\ lex'[w][e] = None
  BY <1>1, EndPassEffect DEF Restart, TickSide
<1>4. page'[w] = None
  BY <1>1 DEF Restart, EndTick, TickSide, TickTypes
<1>5. DrainGood' /\ DrainOnly'
  <2>1. NothingRead'
    BY <1>1, <1>2 DEF NothingRead
  <2> QED BY <1>1, <1>2, <2>1, NothingReadNext DEF DrainOnly, Idle
<1>6. \A e \in Entity : /\ e \notin Deleted(w)' /\ e \notin Live(w)'
                        /\ \A x \in {"docs", "vecs", "tasks"} : ~Due(w, e, x)'
  BY <1>3 DEF Deleted, Live, InBatch, Due
<1>7. RowsRead' /\ DeletionsDue(1)' /\ DeletionsDone' /\ Rebuilt' /\ StringsGiven(1)'
  BY <1>1, <1>3, <1>6 DEF RowsRead, DeletionsDue, DeletionsDone, Rebuilt, StringsGiven
<1>8. edits' >= 1 /\ MarksTrue' /\ KnownUnowed(1)'
  BY <1>2 DEF OneLoopInv, PassInv, MarksTrue, KnownUnowed, Known
<1>9. VectorsDue(1, Kept)'
  <2>1. Kept' \subseteq Kept
    BY <1>1, RestartModels
  <2>2. \A k \in Key : VecFresh(k)' <=> VecFresh(k)
    BY <1>2 DEF VecFresh, Wanted, IsVL
  <2> QED BY <1>2, <2>1, <2>2 DEF OneLoopInv, PassInv, VectorsDue, Known
<1>10. ASSUME NEW e \in Entity
       PROVE  Indexed(1, Exempt, e)'
  <2>1. Indexed(1, Exempt, e)
    BY DEF OneLoopInv, PassInv
  <2>2. ASSUME dirty[e] = None, e \notin lost, ~gone[e], NEW m \in active'[w],
               <<e, m>> \in owed
        PROVE  <<e, m>> \in Exempt'
    <3>1. <<e, m>> \in Key /\ <<e, m>>[2] = m
      BY <2>2 DEF Underway, TickSide, SyncSide, DrainSide, DrainTypeOK
    <3>2. m \in active[w] => <<e, m>> \in Exempt
      BY <2>1, <2>2 DEF Indexed
    <3> QED BY <1>1, <2>2, <3>1, <3>2, RestartWaits
  <2> QED BY <1>1, <1>2, <2>1, <2>2 DEF Indexed, Known
<1>11. StringsOnPage' /\ PagesKnown'
  BY <1>1, <1>3, <1>4 DEF StringsOnPage, PagesKnown
<1> QED BY <1>5, <1>7, <1>8, <1>9, <1>10, <1>11 DEF OneLoopInv, PassInv

LEMMA RestartCovers ==
    ASSUME Underway, CoverInv(Kept), NEW w \in Worker, Restart(w)
    PROVE  CoverInv(Kept)'
<1>1. TickSide /\ SyncSide /\ TickTypes /\ DrainTypeOK
  BY DEF Underway, TickSide, SyncSide, DrainSide
<1>2. /\ UNCHANGED <<task, dead, host, assets, edits, vec, dirty, gone, docs, progress>>
      /\ \A v \in Worker, k \in Key :
            \/ stage'[v][k] = "none"
            \/ stage'[v][k] = stage[v][k] /\ doc'[v][k] = doc[v][k]
  BY <1>1, RestartEffect DEF markVars
<1>3. EndPass(w, "idle") /\ EndTick(w)
  BY DEF Restart
<1>4. FirstRead' /\ KeysStayCovered
  BY <1>1, <1>2, FirstDone DEF CoverInv
<1>5. PassTouches'
  BY <1>1, <1>2, <1>3, NextTouches DEF CoverInv, Phase
<1>6. FirstKept
  <2>1. \A e \in Entity : Untouched(e)' <=> Untouched(e)
    BY <1>2 DEF Untouched
  <2>2. \A k \in Key : k[1] \in Entity
    BY DEF Key
  <2> QED BY <1>2, <1>4, <1>5, <2>1, <2>2 DEF FirstKept, KeysStayCovered
<1>7. PICK M, N : M = Kept /\ N = Kept'
  OBVIOUS
<1>8. CoverInv(M)'
  <2>1. \A v \in Worker \ {w} : phase'[v] = phase[v] /\ lex'[v] = lex[v]
    BY <1>1, <1>3 DEF EndPass, Goto, SyncSide, PassTypes
  <2>2. \A t \in Target, e \in Entity : Passed(t, e)' => Passed(t, e)
    BY <1>2 DEF Passed
  <2>3. CoverInv(M)
    BY <1>7
  <2> QED BY <1>1, <1>3, <1>6, <2>1, <2>2, <2>3, EndTickCovers
<1>9. N \subseteq M
  BY <1>1, <1>7, RestartModels
<1>10. CoverInv(N)'
  BY <1>8, <1>9, CoverFewer
<1> QED BY <1>7, <1>10 DEF CoverInv, CursorCovers, PageCovers, Covered

--------------------------------------------------------------------------------
(* A start-up.  Its process reads nothing yet, and what it prunes belongs  *)
(* to models that were taken out, or there is nothing to prune.            *)
LEMMA StartStepSpares ==
    ASSUME TickSide, FutureInv, NEW w \in Worker, StartStep(w),
           NEW k \in Key, k[2] \in Kept
    PROVE  task'[k] = task[k] /\ dead'[k] = dead[k]
<1>1. CASE k[2] \in active[w]
  BY <1>1, StartStepEffect
<1>2. CASE k[2] \notin active[w]
  <2>1. k[1] \in Entity /\ k[2] \in Future(w) /\ k = <<k[1], k[2]>>
    BY <1>2 DEF Key, Future
  <2>2. task[k] = None /\ dead[k] = 0
    BY <2>1 DEF FutureInv, Untried
  <2> QED BY <2>2, StartStepEffect
<1> QED BY <1>1, <1>2

LEMMA BeforeTheLoop ==
    ASSUME StartIdle, NEW w \in Worker, StartStep(w)
    PROVE  phase[w] = "idle"
<1>1. boot[w] # "up"
  BY DEF StartStep, UpsertModel, PruneModels, PruneTasksOf, PruneBackfill,
         PruneDeadLettersOf, EnsureIndexesForModels, Step
<1> QED BY <1>1 DEF StartIdle, Up

LEMMA StartStepPassKept ==
    ASSUME Underway, FutureInv, StartIdle, OneLoopInv(Kept, Exempt),
           NEW w \in Worker, StartStep(w)
    PROVE  OneLoopInv(Kept, Exempt)'
<1>1. /\ Setting /\ TickSide /\ \A v \in Worker : v = w
      /\ phase[w] = "idle"
  BY UnderwayIsSetting, OneLoop, BeforeTheLoop DEF Underway
<1>2. /\ UNCHANGED <<lease, host, assets, edits, owed, active, vec, stage, doc>>
      /\ UNCHANGED <<dirty, gone, docs, lost, phase, batch, todo, lex, page, retired>>
  BY <1>1, StartStepEffect DEF hostVars, workVars, markVars, passVars, tickVars
<1>3. /\ \A k \in Key : task'[k] \in {None, task[k]}
      /\ \A t \in Target : progress'[t] \in {None, progress[t]}
  BY <1>1, StartStepEffect
<1>4. PICK M, X : M = Kept /\ X = Exempt
  OBVIOUS
<1>5. PassInv(1, M, X)
  BY <1>4 DEF OneLoopInv
<1>6. NoPass(w)
  BY <1>1, <1>5 DEF NoPass, PassInv, RowsRead, StringsGiven, PassPhase
<1>7. DrainGood' /\ DrainOnly'
  <2>1. NothingRead
    BY <1>1, <1>5, NothingReadInPass DEF Setting, Around, PassInv
  <2>2. NothingRead'
    BY <1>2, <2>1 DEF NothingRead
  <2> QED BY <1>2, <1>5, <2>2, NothingReadNext DEF PassInv, DrainOnly, Idle
<1>8. DrainPart(1, M)'
  <2>1. \A k \in Key : k[2] \in M => task'[k] = task[k] /\ dead'[k] = dead[k]
    BY <1>1, <1>4, StartStepSpares
  <2>2. \A k \in Key : k[2] \in M => (VecFresh(k)' <=> VecFresh(k))
    BY <1>2, <2>1 DEF VecFresh, Wanted, IsVL
  <2> QED BY <1>2, <1>5, <1>7, <2>2 DEF PassInv, DrainPart, KnownUnowed, VectorsDue, Known
<1>9. PassInv(1, M, X)'
  BY <1>1, <1>2, <1>3, <1>5, <1>6, <1>7, <1>8, BetweenPasses
<1>10. M = Kept'
  BY <1>2, <1>4 DEF Kept
<1>11. ASSUME NEW k \in Key, k \in X
       PROVE  k \in Exempt'
  <2>1. CASE k[2] \in retired
    BY <1>2, <2>1 DEF Exempt
  <2>2. CASE k[2] \notin retired
    <3>1. Waiting(k)
      BY <1>4, <1>11, <2>2 DEF Exempt
    <3>2. k[2] \in Target
      BY DEF Key, Target
    <3>3. Waiting(k)'
      BY <1>2, <1>3, <3>1, <3>2, StillWaiting
    <3> QED BY <3>3 DEF Exempt
  <2> QED BY <2>1, <2>2
<1>12. \A e \in Entity : Indexed(1, Exempt, e)'
  <2>1. X \subseteq Exempt'
    BY <1>4, <1>11 DEF Exempt
  <2> QED BY <1>9, <2>1 DEF PassInv, Indexed
<1>13. StringsOnPage' /\ PagesKnown'
  BY <1>2 DEF OneLoopInv, StringsOnPage, PagesKnown
<1> QED BY <1>9, <1>10, <1>12, <1>13 DEF OneLoopInv, PassInv, VectorsDue

LEMMA StartStepCovers ==
    ASSUME Underway, FutureInv, StartIdle, CoverInv(Kept), NEW w \in Worker, StartStep(w)
    PROVE  CoverInv(Kept)'
<1>1. TickSide /\ phase[w] = "idle" /\ \A v \in Worker : v = w
  BY OneLoop, BeforeTheLoop DEF Underway
<1>2. /\ UNCHANGED <<host, assets, edits, vec, stage, doc>>
      /\ UNCHANGED <<dirty, gone, docs, phase, batch, todo, lex, page, retired>>
      /\ \A t \in Target : progress'[t] \in {None, progress[t]}
  BY <1>1, StartStepEffect DEF hostVars, workVars, markVars, passVars, tickVars
<1>3. \A k \in Key : Wanted(k)' = Wanted(k)
  BY <1>2 DEF Wanted, IsVL
<1>4. FirstRead'
  <2>1. \A v \in Worker, k \in Key : DocFirst(v, k)' <=> DocFirst(v, k)
    BY <1>2, <1>3 DEF DocFirst, IsVL
  <2> QED BY <1>2, <2>1 DEF CoverInv, FirstRead, VecFirst, Untouched
<1>5. PassTouches'
  BY <1>2 DEF CoverInv, PassTouches, MarksTouch, LoopTouches, Deleted, InBatch, Due,
              Untouched
<1>6. \A v \in Worker : PageCovers(v, Kept)'
  BY <1>1, <1>2 DEF CoverInv, PageCovers
<1>7. CursorCovers(Kept)'
  <2> SUFFICES ASSUME NEW t \in Target, NEW e \in Entity, Untouched(e)', Passed(t, e)'
               PROVE  Covered(Kept, t, e)'
    BY DEF CursorCovers
  <2>1. Untouched(e) /\ Passed(t, e)
    BY <1>2 DEF Untouched, Passed
  <2>2. Covered(Kept, t, e)
    BY <2>1 DEF CoverInv, CursorCovers
  <2>3. CASE t = Lexical
    BY <1>2, <2>2, <2>3 DEF Covered
  <2>4. CASE t # Lexical /\ t \in Kept
    <3>1. <<e, t>> \in Key /\ <<e, t>>[2] = t
      BY <2>4 DEF Key, Kept
    <3>2. task'[<<e, t>>] = task[<<e, t>>] /\ dead'[<<e, t>>] = dead[<<e, t>>]
      BY <1>1, <2>4, <3>1, StartStepSpares
    <3> QED BY <1>2, <1>3, <2>2, <2>4, <3>1, <3>2 DEF Covered, KeyCovered
  <2>5. CASE t # Lexical /\ t \notin Kept
    BY <1>2, <2>5 DEF Covered, Kept
  <2> QED BY <2>3, <2>4, <2>5
<1> QED BY <1>4, <1>5, <1>6, <1>7 DEF CoverInv

--------------------------------------------------------------------------------
LEMMA KeptInit == RegistryInit => KeptInv
<1> SUFFICES ASSUME RegistryInit PROVE KeptInv
  OBVIOUS
<1>1. BackfillInit
  BY DEF RegistryInit
<1>2. FutureInv
  <2>1. \A k \in Key : vec[k] = 0 /\ task[k] = None /\ dead[k] = 0
    BY <1>1 DEF BackfillInit, Init
  <2>2. \A w \in Worker, k \in Key : lease[w][k] = None
    BY <1>1 DEF BackfillInit, Init
  <2>3. \A e \in Entity, m \in Model : <<e, m>> \in Key
    BY DEF Key
  <2>4. \A m \in Model : progress[m] = None
    BY <1>1 DEF BackfillInit, Target
  <2> QED BY <2>1, <2>2, <2>3, <2>4 DEF FutureInv, Future, Kept, Untried
<1>3. StartIdle
  BY <1>1 DEF BackfillInit, StartIdle
<1> QED BY <1>1, <1>2, <1>3, OneLoopInit, CoverInit DEF KeptInv

LEMMA KeptStep ==
    ASSUME Underway, KeptInv, [RegistryNext]_registryVars
    PROVE  KeptInv'
<1>1. FutureInv' /\ StartIdle'
  BY FutureStep, StartIdleStep DEF KeptInv, OneLoopInv, PassInv
<1>2. OneLoopInv(Kept, Exempt)' /\ CoverInv(Kept)'
  <2>1. CASE \E w \in Worker : Restart(w)
    BY <2>1, RestartPassKept, RestartCovers DEF KeptInv
  <2>2. CASE \E w \in Worker : StartStep(w)
    BY <2>2, StartStepPassKept, StartStepCovers DEF KeptInv
  <2>3. CASE ~ \E w \in Worker : Restart(w) \/ StartStep(w)
    <3>1. [BackfillNext]_backfillVars
      BY <2>3, OtherwiseTick DEF registryVars
    <3>2. UNCHANGED retired
      BY <2>3, TickKeepsStart DEF startVars, historyVars
    <3> QED BY <3>1, <3>2, TickKept DEF KeptInv
  <2> QED BY <2>1, <2>2, <2>3
<1> QED BY <1>1, <1>2 DEF KeptInv

LEMMA KeptInvGivesCaughtUp ==
    ASSUME TickSide, KeptInv
    PROVE  KeptCaughtUp
<1> DEFINE N == Configured \ retired
<1> SUFFICES ASSUME \A t \in {Lexical} \cup N : Completed(t)
             PROVE  CaughtUp(N)
  BY DEF KeptCaughtUp, CaughtUpOnce
<1>1. N \in SUBSET Configured /\ N \subseteq Kept /\ N \subseteq Model
  BY DEF Kept, Configured, TickSide, SyncSide, DrainSide, DrainTypeOK
<1>2. PICK M, X : M = Kept /\ X = Exempt
  OBVIOUS
<1>3. SyncSide /\ CoverInv(M) /\ OneLoopInv(M, X)
  BY <1>2 DEF KeptInv, TickSide
<1>4. ASSUME NEW e \in Entity, NEW m \in N, <<e, m>> \in X
      PROVE  host[e] = 0
  <2>1. Waiting(<<e, m>>)
    BY <1>2, <1>4 DEF Exempt
  <2>2. Passed(m, e)
    BY <1>1 DEF Completed, Passed
  <2> QED BY <2>1, <2>2 DEF Waiting
<1> HIDE DEF N
<1> QED BY <1>1, <1>2, <1>3, <1>4, BothCaughtUp

LEMMA KeptInvariant ==
    ASSUME OneWorker, LeaseOutlivesWork
    PROVE  RegistrySpec => []KeptInv
<1>1. RegistrySpec => [](TickSide /\ StartTypes)
  BY RegistryTypes
<1>2. RegistrySpec => []IInv
  BY RegistryKeepsQueueInvariant
<1>3. RegistrySpec => []RepresentsInv
  BY RepresentsInit, RepresentsStep, RegistryTypes, PTL DEF RegistrySpec
<1>4. /\ TickSide /\ StartTypes /\ IInv /\ IInv' /\ RepresentsInv /\ KeptInv
      /\ [RegistryNext]_registryVars
      => KeptInv'
  BY KeptStep DEF Underway
<1> QED BY <1>1, <1>2, <1>3, <1>4, KeptInit, PTL DEF RegistrySpec

(* With one process whose leases outlive its batches, for any              *)
(* configurations and any number of restarts, in the middle of a pass, a   *)
(* drain or a start-up: once the lexical documents and the models that are *)
(* configured and never were taken out are done, these models are caught   *)
(* up - a model that was added later too, for the entities that were       *)
(* marked and processed before it was there as well as for all others.     *)
THEOREM KeptModelsCatchUp ==
    ASSUME OneWorker, LeaseOutlivesWork
    PROVE  RegistrySpec => []KeptCaughtUp
<1>1. TickSide /\ KeptInv => KeptCaughtUp
  BY KeptInvGivesCaughtUp
<1> QED BY <1>1, RegistryTypes, KeptInvariant, PTL

(* The cursor across restarts.  `backfillOnce' of a process trusts the     *)
(* cursor an earlier one left: for the models that never were taken out it *)
(* has not run ahead of the work, and no start-up has pruned what it       *)
(* stands for.                                                             *)
KeptCovers ==
    \A e \in Entity : Untouched(e) =>
        /\ Passed(Lexical, e) => docs[e] = 1
        /\ \A m \in Kept :
              LET k == <<e, m>> IN
              Passed(m, e) /\ Wanted(k) # 0 =>
                  vec[k] = 1 \/ task[k] # None \/ dead[k] # 0

THEOREM CursorSurvivesRestarts ==
    ASSUME OneWorker, LeaseOutlivesWork
    PROVE  RegistrySpec => []KeptCovers
<1>1. KeptInv => KeptCovers
  <2> SUFFICES ASSUME CoverInv(Kept), NEW e \in Entity, Untouched(e)
               PROVE  /\ Passed(Lexical, e) => docs[e] = 1
                      /\ \A m \in Kept :
                            Passed(m, e) /\ Wanted(<<e, m>>) # 0 =>
                               \/ vec[<<e, m>>] = 1
                               \/ task[<<e, m>>] # None
                               \/ dead[<<e, m>>] # 0
    BY DEF KeptInv, KeptCovers
  <2>1. \A t \in Target : Passed(t, e) => Covered(Kept, t, e)
    BY DEF CoverInv, CursorCovers
  <2>2. \A m \in Kept : m \in Target /\ m # Lexical
    BY BackfillAssumption DEF Kept, Target
  <2> QED BY <2>1, <2>2, BackfillAssumption DEF Covered, KeyCovered, Target
<1> QED BY <1>1, KeptInvariant, PTL
================================================================================
