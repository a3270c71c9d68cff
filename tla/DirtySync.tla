-------------------------------- MODULE DirtySync --------------------------------
(***************************************************************************)
(* SyncOnce (src/worker/searchkit_worker.go) once the backfill is done     *)
(* (Backfill adds it): the host marks entities in search_dirty,            *)
(* processDirtyOnce turns the marks into lexical documents, embedding      *)
(* tasks and deletions statement by statement, and the tasks are drained   *)
(* as in EmbedDrain.                                                       *)
(*                                                                         *)
(* Entities share one entity_type and language, in both the lexical and    *)
(* the semantic set.  A mark is identified by the edit that wrote it,      *)
(* which also orders updated_at.                                           *)
(***************************************************************************)
EXTENDS EmbedDrain

CONSTANTS
    BlankKey,       \* entities whose dirty row has a blank key column
    DirtyBatchSize

Mark == [mark : Nat, deleted : BOOLEAN]

ASSUME DirtySyncAssumption ==
    /\ BlankKey \subseteq Entity
    /\ DirtyBatchSize \in Nat \ {0}
    /\ None \notin Mark

VARIABLES
    dirty,      \* search_dirty: entity -> [mark, deleted] or None
    gone,       \* entity -> did the host's last edit delete it
    docs,       \* search_documents: entity -> version indexed, 0 = no row
    phase,      \* worker -> the part of SyncOnce it is in
    batch,      \* worker -> entity -> the dirty row it read, or None
    todo,       \* worker -> statements left in the phase
    lex,        \* worker -> entity -> version BuildLexicalString returned
    lost        \* history: entities whose last mark was cleared unread

markVars == <<dirty, gone, docs, lost>>
passVars == <<phase, batch, todo, lex>>
syncVars == <<drainVars, markVars, passVars>>

Statement == (Entity \X {"docs", "vecs", "tasks"}) \cup Model
Phase == {"idle", "delete", "upsert", "blank", "enqueue", "clear",
          "backfill", "drain"}

SyncTypeOK ==
    /\ DrainTypeOK
    /\ dirty \in [Entity -> Mark \cup {None}]
    /\ gone \in [Entity -> BOOLEAN]
    /\ docs \in [Entity -> 0 .. edits]
    /\ phase \in [Worker -> Phase]
    /\ batch \in [Worker -> [Entity -> Mark \cup {None}]]
    /\ todo \in [Worker -> SUBSET Statement]
    /\ lex \in [Worker -> [Entity -> (0 .. edits) \cup {None}]]
    /\ lost \subseteq Entity

NoRows == [e \in Entity |-> None]

SyncInit ==
    /\ DrainInit
    /\ dirty = NoRows
    /\ gone = [e \in Entity |-> FALSE]
    /\ docs = [e \in Entity |-> 0]
    /\ phase = [w \in Worker |-> "idle"]
    /\ batch = [w \in Worker |-> NoRows]
    /\ todo = [w \in Worker |-> {}]
    /\ lex = [w \in Worker |-> NoRows]
    /\ lost = {}

--------------------------------------------------------------------------------
(* The host edits an entity and, in the same transaction, upserts its      *)
(* dirty row.  An entity can be emptied without being deleted.             *)
NewMark_NullFlag(d) == [mark |-> edits + 1, deleted |-> None]

NewMark(d) == [mark |-> edits + 1, deleted |-> d]

MarkDirty(e) ==
    /\ HostEdit(e)
    /\ \E d \in BOOLEAN :
          /\ d => host'[e] = 0
          /\ gone' = [gone EXCEPT ![e] = d]
          /\ dirty' = [dirty EXCEPT ![e] = NewMark(d)]
    /\ lost' = lost \ {e}
    /\ UNCHANGED <<docs, passVars>>

--------------------------------------------------------------------------------
(* processDirtyOnce.                                                       *)

Dirty == {e \in Entity : dirty[e] # None}

(* ORDER BY updated_at ASC LIMIT DirtyBatchSize, no lock taken             *)
Oldest(S) ==
    /\ S \subseteq Dirty
    /\ \A e \in S, f \in Dirty \ S : dirty[e].mark <= dirty[f].mark
    /\ \/ Cardinality(S) = DirtyBatchSize
       \/ S = Dirty /\ Cardinality(S) < DirtyBatchSize

InBatch(w) == {e \in Entity : batch[w][e] # None}
Deleted(w) == {e \in InBatch(w) : batch[w][e].deleted}
Live(w) == InBatch(w) \ Deleted(w)

Goto(w, p, statements) ==
    /\ phase' = [phase EXCEPT ![w] = p]
    /\ todo' = [todo EXCEPT ![w] = statements]

(* Rows with a blank key are skipped, and stay.                            *)
WithKeys_UpToBlank(S) ==
    {e \in S \ BlankKey : \A b \in S \cap BlankKey : dirty[e].mark < dirty[b].mark}

WithKeys(S) == S \ BlankKey

ReadDirty(w) ==
    /\ phase[w] = "idle"
    /\ \E S \in SUBSET Entity :
          LET read == WithKeys(S)
              del == {e \in read : dirty[e].deleted}
          IN
          /\ Oldest(S)
          /\ batch' = [batch EXCEPT ![w] =
                [e \in Entity |-> IF e \in read THEN dirty[e] ELSE None]]
          /\ IF read = {} THEN Goto(w, "backfill", {})
             ELSE Goto(w, "delete", del \X {"docs", "vecs", "tasks"})
    /\ UNCHANGED <<drainVars, markVars, lex>>

Execute(w, s) ==
    /\ s \in todo[w]
    /\ todo' = [todo EXCEPT ![w] = @ \ {s}]
    /\ UNCHANGED <<phase, batch, lex>>

DeleteSearchDocuments(w, e) ==
    /\ phase[w] = "delete"
    /\ Execute(w, <<e, "docs">>)
    /\ docs' = [docs EXCEPT ![e] = 0]
    /\ UNCHANGED <<drainVars, dirty, gone, lost>>

DeleteEmbeddingVectors(w, e) ==
    /\ phase[w] = "delete"
    /\ <<e, "docs">> \notin todo[w]
    /\ Execute(w, <<e, "vecs">>)
    /\ vec' = [k \in Key |-> IF k[1] = e THEN 0 ELSE vec[k]]
    /\ UNCHANGED <<vars, hostVars, workVars, markVars>>

DeleteTasks(w, e) ==
    /\ phase[w] = "delete"
    /\ <<e, "vecs">> \notin todo[w]
    /\ Execute(w, <<e, "tasks">>)
    /\ DeleteAllForEntity(e)
    /\ UNCHANGED <<hostVars, vec, workVars, markVars>>

(* Deletions come first; the rest of the batch is rebuilt.                 *)
BuildLexicalString(w) ==
    /\ phase[w] = "delete"
    /\ todo[w] = {}
    /\ IF Live(w) = {} THEN Goto(w, "clear", {}) ELSE Goto(w, "upsert", {})
    /\ \E given \in SUBSET Live(w) :
          /\ \A e \in Live(w) \ given : host[e] = 0
          /\ lex' = [lex EXCEPT ![w] =
                [e \in Entity |-> IF e \in given THEN host[e] ELSE None]]
    /\ UNCHANGED <<drainVars, markVars, batch>>

(* UpsertSearchDocuments: upsert the non-blank documents, then delete the  *)
(* blank ones.  An id the callback left out keeps its old document.        *)
UpsertedDocs(w) ==
    [e \in Entity |-> IF lex[w][e] \notin {None, 0} THEN lex[w][e] ELSE docs[e]]

WithoutBlankDocs(w) ==
    [e \in Entity |-> IF lex[w][e] = 0 THEN 0 ELSE docs[e]]

UpsertSearchDocuments(w) ==
    /\ phase[w] = "upsert"
    /\ Goto(w, "blank", {})
    /\ docs' = UpsertedDocs(w)
    /\ UNCHANGED <<drainVars, dirty, gone, lost, batch, lex>>

DeleteBlankDocuments(w) ==
    /\ phase[w] = "blank"
    /\ Goto(w, "enqueue", active[w])
    /\ docs' = WithoutBlankDocs(w)
    /\ UNCHANGED <<drainVars, dirty, gone, lost, batch, lex>>

EnqueueModel(w, m) ==
    /\ phase[w] = "enqueue"
    /\ Execute(w, m)
    /\ Request(Live(w), m)
    /\ UNCHANGED markVars

EndPass(w, p) ==
    /\ Goto(w, p, {})
    /\ batch' = [batch EXCEPT ![w] = NoRows]
    /\ lex' = [lex EXCEPT ![w] = NoRows]

(* Clear the rows by key, in one transaction, whatever they hold by now.   *)
Cleared_OnlyLive(w) == Live(w)

Cleared(w) == InBatch(w)

Processed_EnqueueBegun(w) == phase[w] \in {"clear", "enqueue"}

Processed(w) ==
    \/ phase[w] = "clear"
    \/ phase[w] = "enqueue" /\ todo[w] = {}

ClearDirty(w) ==
    /\ Processed(w)
    /\ dirty' = [e \in Entity |-> IF e \in Cleared(w) THEN None ELSE dirty[e]]
    /\ lost' = lost \cup {e \in Cleared(w) : dirty[e] \notin {None, batch[w][e]}}
    /\ EndPass(w, "backfill")
    /\ UNCHANGED <<drainVars, gone, docs>>

(* Any statement or callback may fail: SyncOnce returns, the rows stay.    *)
FailPass(w) ==
    /\ phase[w] \notin {"idle", "drain"}
    /\ EndPass(w, "idle")
    /\ UNCHANGED <<drainVars, markVars>>

--------------------------------------------------------------------------------
(* backfillOnce with every target done reads their states and returns; no  *)
(* tasks are drained without active models.                                *)
EndBackfill(w) ==
    /\ phase[w] = "backfill"
    /\ Goto(w, IF active[w] = {} THEN "idle" ELSE "drain", {})
    /\ UNCHANGED <<drainVars, markVars, batch, lex>>

(* DrainOnce: one batch, then SyncOnce returns.                            *)
Drain(w) ==
    /\ phase[w] = "drain"
    /\ WorkerStep(w)
    /\ UNCHANGED <<dirty, gone, docs, lost, batch, lex, todo>>
    /\ phase' = [phase EXCEPT ![w] =
                    IF \A k \in Key : lease'[w][k] = None THEN "idle" ELSE @]

NothingDue(w) ==
    /\ phase[w] = "drain"
    /\ Idle(w)
    /\ Goto(w, "idle", {})
    /\ UNCHANGED <<drainVars, markVars, batch, lex>>

DirtyStep(w) ==
    \/ ReadDirty(w) \/ BuildLexicalString(w) \/ UpsertSearchDocuments(w)
    \/ DeleteBlankDocuments(w) \/ ClearDirty(w)
    \/ \E e \in Entity : \/ DeleteSearchDocuments(w, e)
                         \/ DeleteEmbeddingVectors(w, e)
                         \/ DeleteTasks(w, e)
    \/ \E m \in Model : EnqueueModel(w, m)

SyncStep(w) == DirtyStep(w) \/ EndBackfill(w) \/ Drain(w) \/ NothingDue(w)

SyncNext ==
    \/ \E e \in Entity : MarkDirty(e)
    \/ \E k \in Key : DrainExpire(k) /\ UNCHANGED <<markVars, passVars>>
    \/ \E w \in Worker : SyncStep(w) \/ FailPass(w)

SyncSpec == SyncInit /\ [][SyncNext]_syncVars

--------------------------------------------------------------------------------
(* Properties.                                                             *)

(* No change of the entity is still on its way to the models of M: no      *)
(* mark, no pass or batch working on it, no task, no dead letter.          *)
Quiet(e, M) ==
    /\ dirty[e] = None
    /\ \A w \in Worker : batch[w][e] = None
    /\ \A m \in M : task[<<e, m>>] = None /\ dead[<<e, m>>] = 0

CaughtUp(M) ==
    \A e \in Entity :
        Quiet(e, M) /\ e \notin lost =>
            /\ gone[e] => /\ docs[e] = 0
                          /\ \A m \in M : vec[<<e, m>>] = 0
            /\ host[e] # 0 => docs[e] = host[e]
            /\ \A m \in M : Wanted(<<e, m>>) # 0 =>
                                   vec[<<e, m>>] = Wanted(<<e, m>>)

Configured == UNION {active[w] : w \in Worker}

(* With one sync loop, a quiet entity whose last mark was not cleared      *)
(* unread is indexed as the host has it: deleted everywhere if the host    *)
(* deleted it, otherwise with its current document and vectors; failures   *)
(* between any two statements of a pass do not change that.                *)
IndexCaughtUp == CaughtUp(Configured)

(* "Clear dirty rows (processed)": a row that leaves search_dirty is the   *)
(* row a pass read and processed.                                          *)
OnlyProcessedCleared ==
    [][\A e \in Entity :
          dirty[e] # None /\ dirty'[e] = None
              => \E w \in Worker : batch[w][e] = dirty[e]]_syncVars

(* A live loop takes its next step.                                        *)
FairSyncSpec == SyncSpec /\ \A w \in Worker : WF_syncVars(SyncStep(w))

(* If the host stops marking, no statement fails any more and fewer rows   *)
(* have a blank key than one SELECT returns, every readable row leaves     *)
(* search_dirty, blank rows in front of it or not.  (As many blank rows as *)
(* DirtyBatchSize at the head of the queue hide every row behind them.)    *)
DirtyDrains ==
    /\ <>[][~(\/ \E e \in Entity : MarkDirty(e)
              \/ \E w \in Worker : FailPass(w))]_syncVars
    /\ <>[](Cardinality(Dirty \cap BlankKey) < DirtyBatchSize)
    => \A e \in Entity \ BlankKey : (dirty[e] # None) ~> (dirty[e] = None)
================================================================================
