------------------------------ MODULE ModelRegistry ------------------------------
(***************************************************************************)
(* Restarts with another set of models: NewWithContext (runtime.go) brings *)
(* embedding_models and the tables keyed by model in line with the         *)
(* configuration, statement by statement (UpsertModels, src/pg/models.go), *)
(* before the process runs SyncOnce (Backfill).                            *)
(*                                                                         *)
(* A process may stop anywhere, in start-up too, and start again with the  *)
(* same models or others.  The indexes only make searches faster: creating *)
(* them is a step that may fail and that nothing here depends on.          *)
(***************************************************************************)
EXTENDS Backfill

CONSTANTS
    Config,         \* the sets of models a process may be configured with
    MaxRestarts     \* bound: restarts in a behaviour

ASSUME ModelRegistryAssumption ==
    /\ Config \subseteq SUBSET Model
    /\ MaxRestarts \in Nat

VARIABLES
    registry,   \* embedding_models: the models it lists
    boot,       \* worker -> the statement of NewWithContext it is at
    unlisted,   \* worker -> models it has not upserted yet
    restarts,   \* restarts so far
    retired,    \* history: models that a restart took out of a configuration
    forgotten   \* history: models whose backfill progress was pruned

historyVars == <<retired, forgotten>>
startVars == <<registry, boot, unlisted, restarts, historyVars>>
registryVars == <<backfillVars, startVars>>

Boot == {"upsert models", "prune models", "prune tasks", "prune backfill",
         "prune dead letters", "create indexes", "up"}

RegistryTypeOK ==
    /\ BackfillTypeOK
    /\ registry \subseteq Model
    /\ boot \in [Worker -> Boot]
    /\ unlisted \in [Worker -> SUBSET Model]
    /\ restarts \in 0 .. MaxRestarts
    /\ retired \subseteq Model
    /\ forgotten \subseteq Model

(* A lexical-only runtime registers, prunes and indexes nothing.           *)
FirstStatement(models) == IF models = {} THEN "up" ELSE "upsert models"

RegistryInit ==
    /\ BackfillInit
    /\ \A w \in Worker : active[w] \in Config
    /\ registry = {}
    /\ boot = [w \in Worker |-> FirstStatement(active[w])]
    /\ unlisted = active
    /\ restarts = 0
    /\ retired = {}
    /\ forgotten = {}

--------------------------------------------------------------------------------
(* The process dies with its batch, its pass and its tick, and starts with *)
(* some configuration.                                                     *)
DropWork(w) ==
    IF Idle(w) THEN UNCHANGED <<vars, workVars>> ELSE DropBatch(w)

Restart(w) ==
    /\ restarts < MaxRestarts
    /\ restarts' = restarts + 1
    /\ \E models \in Config :
          /\ active' = [active EXCEPT ![w] = models]
          /\ boot' = [boot EXCEPT ![w] = FirstStatement(models)]
          /\ unlisted' = [unlisted EXCEPT ![w] = models]
          /\ retired' = retired \cup (active[w] \ models)
    /\ DropWork(w)
    /\ EndPass(w, "idle")
    /\ EndTick(w)
    /\ UNCHANGED <<host, assets, edits, owed, vec, markVars, progress, registry,
                   forgotten>>

--------------------------------------------------------------------------------
(* UpsertModels: one INSERT per model, then four DELETEs, no transaction.  *)

Step(w, from, to) ==
    /\ boot[w] = from
    /\ boot' = [boot EXCEPT ![w] = to]

UpsertModel(w, m) ==
    /\ m \in unlisted[w]
    /\ Step(w, "upsert models",
            IF unlisted[w] = {m} THEN "prune models" ELSE "upsert models")
    /\ unlisted' = [unlisted EXCEPT ![w] = @ \ {m}]
    /\ registry' = registry \cup {m}
    /\ UNCHANGED <<backfillVars, restarts, historyVars>>

PruneModels(w) ==
    /\ Step(w, "prune models", "prune tasks")
    /\ registry' = registry \cap active[w]
    /\ UNCHANGED <<backfillVars, unlisted, restarts, historyVars>>

PruneTasksOf(w) ==
    /\ Step(w, "prune tasks", "prune backfill")
    /\ PruneTasks(active[w])
    /\ UNCHANGED <<hostVars, vec, workVars, markVars, passVars, progress, tickVars,
                   registry, unlisted, restarts, historyVars>>

Unprogressed_Kept(models) == {}

Unprogressed(models) == Model \ models

PruneBackfill(w) ==
    /\ Step(w, "prune backfill", "prune dead letters")
    /\ progress' = [t \in Target |->
                       IF t \in Unprogressed(active[w]) THEN None ELSE progress[t]]
    /\ forgotten' = forgotten \cup {m \in Unprogressed(active[w]) : progress[m] # None}
    /\ UNCHANGED <<syncVars, tickVars, registry, unlisted, restarts, retired>>

PruneDeadLettersOf(w) ==
    /\ Step(w, "prune dead letters", "create indexes")
    /\ PruneDeadLetters(active[w])
    /\ UNCHANGED <<hostVars, vec, workVars, markVars, passVars, progress, tickVars,
                   registry, unlisted, restarts, historyVars>>

EnsureIndexesForModels(w) ==
    /\ Step(w, "create indexes", "up")
    /\ UNCHANGED <<backfillVars, registry, unlisted, restarts, historyVars>>

StartStep(w) ==
    \/ \E m \in Model : UpsertModel(w, m)
    \/ PruneModels(w) \/ PruneTasksOf(w) \/ PruneBackfill(w) \/ PruneDeadLettersOf(w)
    \/ EnsureIndexesForModels(w)

--------------------------------------------------------------------------------
Up(w) == boot[w] = "up"

LoopStep(w) ==
    /\ Up(w)
    /\ BackfillStep(w) \/ OtherStep(w) \/ Fails(w) \/ SaveFails(w)
    /\ UNCHANGED startVars

RegistryNext ==
    \/ \E e \in Entity : HostMarks(e) /\ UNCHANGED startVars
    \/ \E k \in Key : TaskExpires(k) /\ UNCHANGED startVars
    \/ \E w \in Worker : Restart(w) \/ StartStep(w) \/ LoopStep(w)

RegistrySpec == RegistryInit /\ [][RegistryNext]_registryVars

--------------------------------------------------------------------------------
(* Properties.                                                             *)

CaughtUpOnce(models) ==
    (\A t \in {Lexical} \cup models : Completed(t)) => CaughtUp(models)

(* Whatever restarts do - stop a pass or a start-up half-way, add models,  *)
(* take others out - the models that are configured and never were taken   *)
(* out are caught up once their backfill is done.  A model added later is  *)
(* embedded for every entity, those marked before it was added included.   *)
KeptCaughtUp == CaughtUpOnce(Configured \ retired)

(* Vectors of removed models are kept, which models.go calls "not required *)
(* for correctness": they do no harm when their model comes back.  Once    *)
(* its backfill has been repeated and is done, no quiet entity is left     *)
(* with the vector of an older document.                                   *)
LeftoverVectorsHarmless ==
    BackfillDone =>
        \A e \in Entity, m \in Configured \cap forgotten :
            Quiet(e, Configured) /\ Wanted(<<e, m>>) # 0 =>
                vec[<<e, m>>] \in {0, Wanted(<<e, m>>)}

(* With one process, embedding_models "represents only active configured   *)
(* models" and nothing is left of the others: no task that no embedder     *)
(* would answer, no dead letter, no progress that would make a returning   *)
(* model skip its backfill.                                                *)
RegistryRepresentsConfig ==
    \A w \in Worker : Up(w) /\ active[w] # {} =>
        /\ registry = active[w]
        /\ \A m \in Model \ active[w] :
              /\ progress[m] = None
              /\ \A e \in Entity : task[<<e, m>>] = None /\ dead[<<e, m>>] = 0
================================================================================
