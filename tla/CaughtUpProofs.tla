----------------------------- MODULE CaughtUpProofs -----------------------------
(* With one sync loop whose leases outlive its batches, the index catches  *)
(* up: an entity that left search_dirty because its last mark was read and *)
(* processed is indexed as the host has it, wherever passes failed before. *)
(*                                                                         *)
(* The invariant says, at every statement of a pass, what the pass has     *)
(* done so far for the rows it read and that no later edit has overtaken.  *)
(* It is shared with the backfill (BackfillProofs): entities still in one  *)
(* of the first b versions are the backfill's business, not the pass's.    *)
(* And with restarts (RegistryProofs): M are the models whose vectors are  *)
(* spoken of, X keys that may be owed although their entity is indexed.    *)
EXTENDS SyncProofs

Known(b, e) == host[e] # 0 /\ host[e] <= b

(* The row the pass read is still the newest.                              *)
Current(w, e) == batch[w][e] # None /\ dirty[e] = batch[w][e]

PassPhase == {"delete", "upsert", "blank", "enqueue", "clear"}

(* The pass has still to delete x of the entity.                           *)
Due(w, e, x) == phase[w] = "delete" /\ <<e, x>> \in todo[w]

MarksTrue ==
    \A e \in Entity :
        /\ gone[e] => host[e] = 0
        /\ dirty[e] # None => /\ dirty[e].deleted <=> gone[e]
                              /\ dirty[e].mark <= edits

RowsRead ==
    \A w \in Worker, e \in Entity : batch[w][e] # None =>
        /\ phase[w] \in PassPhase
        /\ dirty[e] # None
        /\ batch[w][e].mark <= edits

DeletionsDue(b) ==
    \A w \in Worker, e \in Entity :
        /\ \A x \in {"docs", "vecs", "tasks"} : Due(w, e, x) => e \in Deleted(w)
        /\ e \in Deleted(w) =>
              /\ ~Known(b, e)
              /\ Current(w, e) \/ \A m \in Model : <<e, m>> \in owed

DeletionsDone ==
    \A w \in Worker, e \in Entity : e \in Deleted(w) /\ Current(w, e) =>
        /\ ~Due(w, e, "docs") => docs[e] = 0
        /\ ~Due(w, e, "vecs") => \A m \in Model : vec[<<e, m>>] = 0
        /\ ~Due(w, e, "tasks") => \A m \in Model : task[<<e, m>>] = None

Rebuilt ==
    \A w \in Worker, e \in Entity : e \in Live(w) =>
        /\ phase[w] # "clear"
        /\ Current(w, e) =>
              /\ phase[w] \in {"upsert", "blank"} /\ host[e] # 0 => lex[w][e] = host[e]
              /\ phase[w] \in {"blank", "enqueue"} /\ host[e] # 0 => docs[e] = host[e]
              /\ phase[w] = "enqueue" =>
                    \A m \in active[w] : m \in todo[w] \/ <<e, m>> \notin owed

StringsGiven(b) ==
    \A w \in Worker, e \in Entity : lex[w][e] # None =>
        /\ Known(b, e) => lex[w][e] = host[e]
        /\ phase[w] \in {"upsert", "blank"} =>
              e \in Live(w) /\ (Current(w, e) => lex[w][e] = host[e])
        /\ phase[w] = "backfill" => lex[w][e] = host[e] \/ dirty[e] # None
        /\ phase[w] \notin {"idle", "drain"}

Indexed(b, X, e) ==
    dirty[e] = None /\ e \notin lost =>
        /\ gone[e] => /\ docs[e] = 0
                      /\ \A m \in Model : vec[<<e, m>>] = 0 /\ task[<<e, m>>] = None
        /\ host[e] # 0 => docs[e] = host[e] \/ Known(b, e)
        /\ ~gone[e] => \A w \in Worker : \A m \in active[w] :
                         <<e, m>> \notin owed \/ <<e, m>> \in X

KnownUnowed(b) == \A k \in Key : Known(b, k[1]) => k \notin owed

DrainOnly == \A w \in Worker : phase[w] # "drain" => Idle(w)

VectorsDue(b, M) ==
    \A k \in Key : k[2] \in M => Known(b, k[1]) \/ VecFresh(k)

PassInv(b, M, X) ==
    /\ edits >= b
    /\ DrainGood
    /\ MarksTrue
    /\ RowsRead
    /\ DeletionsDue(b)
    /\ DeletionsDone
    /\ Rebuilt
    /\ StringsGiven(b)
    /\ \A e \in Entity : Indexed(b, X, e)
    /\ KnownUnowed(b)
    /\ DrainOnly
    /\ VectorsDue(b, M)

Setting == Around /\ SyncSide

(* The drain's part, when a step keeps vectors fresh and edits nothing.    *)
DrainPart(b, M) == edits >= b /\ DrainGood /\ KnownUnowed(b) /\ VectorsDue(b, M)

LEMMA SameDrainPart ==
    ASSUME NEW b \in {0, 1}, NEW M, NEW X, Around, PassInv(b, M, X),
           StaysFresh, UNCHANGED <<host, edits>>,
           owed' \subseteq owed
    PROVE  DrainPart(b, M)'
  BY DEF PassInv, DrainPart, StaysFresh, KnownUnowed, VectorsDue, Known

LEMMA NoDrainStep ==
    ASSUME NEW b \in {0, 1}, NEW M, NEW X, Around, PassInv(b, M, X), UNCHANGED drainVars
    PROVE  /\ DrainPart(b, M)'
           /\ UNCHANGED <<task, lease, host, edits, owed, active, vec>>
<1>1. UNCHANGED <<task, lease, host, edits, owed, active, vec>>
  BY DEF drainVars, vars, hostVars
<1>2. StaysFresh
  BY FreshStep DEF PassInv
<1> QED BY <1>1, <1>2, SameDrainPart

LEMMA OneLoop ==
    ASSUME OneWorker, NEW w \in Worker
    PROVE  \A v \in Worker : v = w
  BY DEF OneWorker

LEMMA PassRows ==
    ASSUME NEW w \in Worker
    PROVE  /\ \A e \in Entity : e \in Deleted(w) <=>
                 batch[w][e] # None /\ batch[w][e].deleted
           /\ \A e \in Entity : e \in Live(w) <=>
                 batch[w][e] # None /\ e \notin Deleted(w)
           /\ Live(w) \in SUBSET Entity
  BY DEF InBatch, Deleted, Live

(* Moving on to another phase.                                             *)
LEMMA GotoEffect ==
    ASSUME SyncSide, NEW w \in Worker, NEW p, NEW S, Goto(w, p, S)
    PROVE  phase'[w] = p /\ todo'[w] = S
  BY DEF SyncSide, PassTypes, Goto

LEMMA ReadDirtyKeeps ==
    ASSUME NEW b \in {0, 1}, NEW M, NEW X, Setting, PassInv(b, M, X),
           NEW w \in Worker, ReadDirty(w)
    PROVE  PassInv(b, M, X)'
<1>1. phase[w] = "idle" /\ UNCHANGED <<drainVars, dirty, gone, docs, lost, lex>>
  BY DEF ReadDirty, markVars
<1>2. PICK S \in SUBSET Entity :
         LET read == S \ BlankKey
             del == {e \in read : dirty[e].deleted}
         IN
         /\ Oldest(S)
         /\ batch' = [batch EXCEPT ![w] =
               [e \in Entity |-> IF e \in read THEN dirty[e] ELSE None]]
         /\ IF read = {} THEN Goto(w, "backfill", {})
            ELSE Goto(w, "delete", del \X {"docs", "vecs", "tasks"})
  BY DEF ReadDirty, WithKeys
<1> DEFINE read == S \ BlankKey
           del == {e \in read : dirty[e].deleted}
<1>3. \A e \in read : e \in Entity /\ dirty[e] # None
  BY <1>2 DEF Oldest, Dirty
<1>4. \A e \in Entity : batch'[w][e] = IF e \in read THEN dirty[e] ELSE None
  BY <1>2 DEF Setting, SyncSide, PassTypes
<1>5. /\ \A v \in Worker : v = w
      /\ DrainPart(b, M)'
      /\ UNCHANGED <<task, lease, host, edits, owed, active, vec>>
  BY <1>1, OneLoop, NoDrainStep DEF Setting, Around
<1>6. \A e \in Entity : lex[w][e] = None
  BY <1>1 DEF PassInv, StringsGiven
<1>7. \/ phase'[w] = "backfill" /\ read = {}
      \/ phase'[w] = "delete" /\ todo'[w] = del \X {"docs", "vecs", "tasks"}
  BY <1>2, GotoEffect DEF Setting
<1>8. \A e \in Entity : Current(w, e)' <=> batch'[w][e] # None
  BY <1>1, <1>4 DEF Current
<1>9. \A e \in Entity : e \in Deleted(w)' <=> e \in del
  BY <1>3, <1>4 DEF Deleted, InBatch
<1>10. \A e \in Entity, x \in {"docs", "vecs", "tasks"} :
          e \in del => Due(w, e, x)'
  BY <1>3, <1>7 DEF Due
<1>11. MarksTrue' /\ RowsRead'
  BY <1>1, <1>3, <1>4, <1>5, <1>7 DEF PassInv, MarksTrue, RowsRead, PassPhase
<1>12. DeletionsDue(b)'
  <2>1. \A e \in Entity, x \in {"docs", "vecs", "tasks"} : Due(w, e, x)' => e \in del
    BY <1>7 DEF Due
  <2>2. \A e \in del : e \in Entity /\ host[e] = 0 /\ batch'[w][e] # None
    BY <1>3, <1>4 DEF PassInv, MarksTrue
  <2> QED BY <1>5, <1>8, <1>9, <2>1, <2>2 DEF DeletionsDue, Known
<1>13. DeletionsDone'
  BY <1>5, <1>9, <1>10 DEF DeletionsDone
<1>14. Rebuilt'
  BY <1>5, <1>4, <1>7 DEF Rebuilt, Live, InBatch
<1>15. StringsGiven(b)' /\ (\A e \in Entity : Indexed(b, X, e)')
  BY <1>1, <1>5, <1>6 DEF PassInv, StringsGiven, Indexed, Known
<1>16. DrainOnly'
  BY <1>1, <1>5 DEF PassInv, DrainOnly, Idle
<1> QED BY <1>5, <1>11, <1>12, <1>13, <1>14, <1>15, <1>16 DEF PassInv, DrainPart

--------------------------------------------------------------------------------
(* The deletions of a pass.  A row that was deleted when it was read may   *)
(* have been edited since; then its keys are owed and the mark is newer.   *)
LEMMA NothingReadInPass ==
    ASSUME OneWorker, BatchInv, DrainOnly, NEW w \in Worker, phase[w] # "drain"
    PROVE  NothingRead
  BY DEF OneWorker, BatchInv, Batch, DrainOnly, Idle, NothingRead

LEMMA NothingReadNext == NothingRead' => DrainGood'
  BY NothingReadIsGood, PTL

LEMMA DeletionStep ==
    ASSUME NEW b \in {0, 1}, NEW M, NEW X, Setting, PassInv(b, M, X),
           NEW w \in Worker, NEW e \in Entity,
           NEW x \in {"docs", "vecs", "tasks"}, phase[w] = "delete",
           Execute(w, <<e, x>>), e \in Deleted(w), DrainPart(b, M)',
           UNCHANGED <<dirty, gone, lost, host, edits, owed, active, lease>>,
           docs' = IF x = "docs" THEN [docs EXCEPT ![e] = 0] ELSE docs,
           \A k \in Key : /\ vec'[k] = IF x = "vecs" /\ k[1] = e THEN 0 ELSE vec[k]
                          /\ task'[k] = IF x = "tasks" /\ k[1] = e THEN None ELSE task[k]
    PROVE  PassInv(b, M, X)'
<1>1. /\ UNCHANGED <<phase, batch, lex>>
      /\ todo' = [todo EXCEPT ![w] = todo[w] \ {<<e, x>>}]
  BY DEF Execute
<1>2. todo'[w] = todo[w] \ {<<e, x>>} /\ \A v \in Worker : v = w
  BY <1>1, OneLoop DEF Setting, Around, SyncSide, PassTypes
<1>3. \A f \in Entity : docs'[f] = IF x = "docs" /\ f = e THEN 0 ELSE docs[f]
  BY DEF Setting, SyncSide, MarkTypes
<1>4. \A f \in Entity, m \in Model :
         /\ vec'[<<f, m>>] = IF x = "vecs" /\ f = e THEN 0 ELSE vec[<<f, m>>]
         /\ task'[<<f, m>>] = IF x = "tasks" /\ f = e THEN None ELSE task[<<f, m>>]
  BY DEF Key
<1>5. \A f \in Entity, y \in {"docs", "vecs", "tasks"} :
         Due(w, f, y)' <=> Due(w, f, y) /\ ~(f = e /\ y = x)
  BY <1>1, <1>2 DEF Due
<1>6. /\ Deleted(w)' = Deleted(w) /\ Live(w)' = Live(w)
      /\ \A f \in Entity : Current(w, f)' <=> Current(w, f)
  BY <1>1 DEF Deleted, Live, InBatch, Current
<1>7. dirty[e] # None
  BY DEF Deleted, InBatch, PassInv, RowsRead
<1>8. MarksTrue' /\ RowsRead'
  BY <1>1 DEF PassInv, MarksTrue, RowsRead
<1>9. DeletionsDue(b)'
  BY <1>2, <1>5, <1>6 DEF PassInv, DeletionsDue, Known
<1>10. DeletionsDone'
  BY <1>2, <1>3, <1>4, <1>5, <1>6 DEF PassInv, DeletionsDone
<1>11. Rebuilt'
  BY <1>1, <1>2, <1>6 DEF PassInv, Rebuilt
<1>12. StringsGiven(b)'
  BY <1>1, <1>2 DEF PassInv, StringsGiven, Known
<1>13. \A f \in Entity : Indexed(b, X, f)'
  BY <1>3, <1>4, <1>7 DEF PassInv, Indexed, Known
<1>14. DrainOnly'
  BY <1>1 DEF PassInv, DrainOnly, Idle
<1> QED BY <1>8, <1>9, <1>10, <1>11, <1>12, <1>13, <1>14 DEF PassInv, DrainPart

LEMMA DueIsDeleted ==
    ASSUME NEW b, NEW M, NEW X, PassInv(b, M, X), NEW w \in Worker, NEW e \in Entity,
           NEW x \in {"docs", "vecs", "tasks"}, phase[w] = "delete",
           Execute(w, <<e, x>>)
    PROVE  e \in Deleted(w)
  BY DEF Execute, PassInv, DeletionsDue, Due

(* What is deleted is not wanted: the entity is gone, or a request for it  *)
(* is owed.                                                                *)
LEMMA DeletedNotWanted ==
    ASSUME NEW b, NEW M, NEW X, PassInv(b, M, X),
           NEW w \in Worker, NEW e \in Entity, e \in Deleted(w)
    PROVE  \A m \in Model : <<e, m>> \in owed \/ host[e] = 0
<1>1. CASE Current(w, e)
  BY <1>1 DEF PassInv, MarksTrue, Current, Deleted, InBatch
<1>2. CASE ~Current(w, e)
  BY <1>2 DEF PassInv, DeletionsDue
<1> QED BY <1>1, <1>2

LEMMA DeletionKeepsDrainPart ==
    ASSUME NEW b \in {0, 1}, NEW M, NEW X, Setting, PassInv(b, M, X),
           NEW w \in Worker, NEW e \in Entity,
           phase[w] = "delete", e \in Deleted(w),
           UNCHANGED <<host, assets, edits, owed, active, stage, lease, dead>>,
           \A k \in Key : k[1] # e => vec'[k] = vec[k] /\ task'[k] = task[k]
    PROVE  DrainPart(b, M)'
<1>1. NothingRead
  BY NothingReadInPass DEF Setting, Around, PassInv
<1>2. DrainGood'
  BY <1>1, NothingReadNext DEF NothingRead
<1>3. \A k \in Key : k[1] = e => k \in owed \/ host[e] = 0
  BY DeletedNotWanted DEF Key
<1>4. \A k \in Key : Wanted(k)' = Wanted(k) /\ (host[k[1]] = 0 => Wanted(k) = 0)
  BY DEF Wanted, IsVL
<1>5. \A k \in Key : VecFresh(k) => VecFresh(k)'
  BY <1>3, <1>4 DEF VecFresh
<1> QED BY <1>2, <1>5 DEF PassInv, DrainPart, KnownUnowed, VectorsDue, Known

LEMMA DeleteKeeps ==
    ASSUME NEW b \in {0, 1}, NEW M, NEW X, Setting, PassInv(b, M, X),
           NEW w \in Worker, NEW e \in Entity,
           \/ DeleteSearchDocuments(w, e) \/ DeleteEmbeddingVectors(w, e)
           \/ DeleteTasks(w, e)
    PROVE  PassInv(b, M, X)'
<1>1. CASE DeleteSearchDocuments(w, e)
  <2>1. Execute(w, <<e, "docs">>) /\ phase[w] = "delete"
    BY <1>1 DEF DeleteSearchDocuments
  <2>2. /\ DrainPart(b, M)'
        /\ UNCHANGED <<task, lease, host, edits, owed, active, vec>>
    BY <1>1, NoDrainStep DEF DeleteSearchDocuments, Setting
  <2> QED BY <1>1, <2>1, <2>2, DueIsDeleted, DeletionStep DEF DeleteSearchDocuments
<1>2. CASE DeleteEmbeddingVectors(w, e)
  <2>1. Execute(w, <<e, "vecs">>) /\ phase[w] = "delete"
    BY <1>2 DEF DeleteEmbeddingVectors
  <2>2. UNCHANGED <<host, assets, edits, owed, active, stage, lease, dead, task, dirty,
                    gone, lost, docs>>
    BY <1>2 DEF DeleteEmbeddingVectors, vars, hostVars, workVars, markVars
  <2>3. \A k \in Key : vec'[k] = IF k[1] = e THEN 0 ELSE vec[k]
    BY <1>2 DEF DeleteEmbeddingVectors
  <2>4. e \in Deleted(w) /\ DrainPart(b, M)'
    BY <2>1, <2>2, <2>3, DueIsDeleted, DeletionKeepsDrainPart
  <2> QED BY <2>1, <2>2, <2>3, <2>4, DeletionStep
<1>3. CASE DeleteTasks(w, e)
  <2>1. Execute(w, <<e, "tasks">>) /\ phase[w] = "delete"
    BY <1>3 DEF DeleteTasks
  <2>2. UNCHANGED <<host, assets, edits, owed, active, stage, lease, dead, vec, dirty,
                    gone, lost, docs>>
    BY <1>3 DEF DeleteTasks, DeleteAllForEntity, DeleteRows, hostVars, workVars, markVars
  <2>3. \A k \in Key : task'[k] = IF k[1] = e THEN None ELSE task[k]
    BY <1>3 DEF DeleteTasks, DeleteAllForEntity, DeleteRows, Key
  <2>4. e \in Deleted(w) /\ DrainPart(b, M)'
    BY <2>1, <2>2, <2>3, DueIsDeleted, DeletionKeepsDrainPart
  <2> QED BY <2>1, <2>2, <2>3, <2>4, DeletionStep
<1> QED BY <1>1, <1>2, <1>3

--------------------------------------------------------------------------------
(* The rebuild: strings, documents, tasks.                                 *)
LEMMA BuildKeeps ==
    ASSUME NEW b \in {0, 1}, NEW M, NEW X, Setting, PassInv(b, M, X), NEW w \in Worker,
           BuildLexicalString(w)
    PROVE  PassInv(b, M, X)'
<1>1. /\ phase[w] = "delete" /\ todo[w] = {}
      /\ UNCHANGED <<drainVars, dirty, gone, docs, lost, batch>>
  BY DEF BuildLexicalString, markVars
<1>2. PICK given \in SUBSET Live(w) :
         /\ \A e \in Live(w) \ given : host[e] = 0
         /\ lex' = [lex EXCEPT ![w] =
               [e \in Entity |-> IF e \in given THEN host[e] ELSE None]]
  BY DEF BuildLexicalString
<1>3. \A e \in Entity : lex'[w][e] = IF e \in given THEN host[e] ELSE None
  BY <1>2 DEF Setting, SyncSide, PassTypes
<1>4. \/ phase'[w] = "clear" /\ Live(w) = {}
      \/ phase'[w] = "upsert"
  BY GotoEffect DEF BuildLexicalString, Setting
<1>5. /\ \A v \in Worker : v = w
      /\ DrainPart(b, M)'
      /\ UNCHANGED <<task, lease, host, edits, owed, active, vec>>
  BY <1>1, OneLoop, NoDrainStep DEF Setting, Around
<1>6. /\ Deleted(w)' = Deleted(w) /\ Live(w)' = Live(w)
      /\ \A f \in Entity : Current(w, f)' <=> Current(w, f)
  BY <1>1 DEF Deleted, Live, InBatch, Current
<1>7. \A f \in Entity, x \in {"docs", "vecs", "tasks"} : ~Due(w, f, x) /\ ~Due(w, f, x)'
  BY <1>1, <1>4 DEF Due
<1>8. MarksTrue' /\ RowsRead'
  BY <1>1, <1>4, <1>5 DEF PassInv, MarksTrue, RowsRead, PassPhase
<1>9. DeletionsDue(b)' /\ DeletionsDone'
  BY <1>1, <1>5, <1>6, <1>7 DEF PassInv, DeletionsDue, DeletionsDone, Known
<1>10. Rebuilt'
  BY <1>2, <1>3, <1>4, <1>5, <1>6 DEF Rebuilt
<1>11. StringsGiven(b)'
  BY <1>2, <1>3, <1>4, <1>5, <1>6 DEF StringsGiven
<1>12. (\A f \in Entity : Indexed(b, X, f)') /\ DrainOnly'
  BY <1>1, <1>4, <1>5 DEF PassInv, Indexed, Known, DrainOnly, Idle
<1> QED BY <1>5, <1>8, <1>9, <1>10, <1>11, <1>12 DEF PassInv, DrainPart

(* Both document statements: a row that is not in the batch keeps its      *)
(* document, one that is gets what was built.                              *)
LEMMA DocsStep ==
    ASSUME NEW b \in {0, 1}, NEW M, NEW X, Setting, PassInv(b, M, X), NEW w \in Worker,
           UNCHANGED <<drainVars, dirty, gone, lost, batch, lex>>,
           \/ /\ phase[w] = "upsert" /\ phase'[w] = "blank"
              /\ docs' = UpsertedDocs(w)
           \/ /\ phase[w] = "blank" /\ phase'[w] = "enqueue" /\ todo'[w] = active[w]
              /\ docs' = WithoutBlankDocs(w)
    PROVE  PassInv(b, M, X)'
<1>1. /\ \A v \in Worker : v = w
      /\ DrainPart(b, M)'
      /\ UNCHANGED <<task, lease, host, edits, owed, active, vec>>
  BY OneLoop, NoDrainStep DEF Setting, Around
<1>2. /\ Deleted(w)' = Deleted(w) /\ Live(w)' = Live(w)
      /\ \A f \in Entity : Current(w, f)' <=> Current(w, f)
  BY DEF Deleted, Live, InBatch, Current
<1>3. \A f \in Entity, x \in {"docs", "vecs", "tasks"} : ~Due(w, f, x) /\ ~Due(w, f, x)'
  BY DEF Due
<1>4. \A f \in Entity : f \notin Live(w) => docs'[f] = docs[f]
  BY TaskQueueAssumption DEF UpsertedDocs, WithoutBlankDocs, PassInv, StringsGiven
<1>5. \A f \in Entity : f \in Live(w) /\ Current(w, f) /\ host[f] # 0 =>
                            docs'[f] = host[f]
  <2> SUFFICES ASSUME NEW f \in Entity, f \in Live(w), Current(w, f), host[f] # 0
               PROVE  docs'[f] = host[f]
    OBVIOUS
  <2>1. lex[w][f] = host[f] /\ host[f] # None
    BY TaskQueueAssumption, EmbedDrainAssumption
    DEF PassInv, Rebuilt, Setting, SyncSide, DrainSide, DrainTypeOK
  <2> QED BY <2>1 DEF UpsertedDocs, WithoutBlankDocs, PassInv, Rebuilt
<1>6. \A f \in Entity : f \in Live(w) => dirty[f] # None
  BY DEF Live, InBatch, PassInv, RowsRead
<1>7. MarksTrue' /\ RowsRead'
  BY <1>1 DEF PassInv, MarksTrue, RowsRead, PassPhase
<1>8. \A f \in Entity : f \in Deleted(w) => f \notin Live(w)
  BY DEF Live
<1>9. DeletionsDue(b)' /\ DeletionsDone'
  BY <1>1, <1>2, <1>3, <1>4, <1>8 DEF PassInv, DeletionsDue, DeletionsDone, Known
<1>10. Rebuilt'
  BY <1>1, <1>2, <1>5 DEF PassInv, Rebuilt
<1>11. StringsGiven(b)'
  BY <1>1, <1>2 DEF PassInv, StringsGiven, Known
<1>12. \A f \in Entity : Indexed(b, X, f)'
  BY <1>1, <1>4, <1>6 DEF PassInv, Indexed, Known
<1>13. DrainOnly'
  BY <1>1 DEF PassInv, DrainOnly, Idle
<1> QED BY <1>1, <1>7, <1>9, <1>10, <1>11, <1>12, <1>13 DEF PassInv, DrainPart

LEMMA DocumentsKeep ==
    ASSUME NEW b \in {0, 1}, NEW M, NEW X, Setting, PassInv(b, M, X), NEW w \in Worker,
           UpsertSearchDocuments(w) \/ DeleteBlankDocuments(w)
    PROVE  PassInv(b, M, X)'
<1>1. CASE UpsertSearchDocuments(w)
  <2>1. phase'[w] = "blank"
    BY <1>1, GotoEffect DEF UpsertSearchDocuments, Setting
  <2> QED BY <1>1, <2>1, DocsStep DEF UpsertSearchDocuments
<1>2. CASE DeleteBlankDocuments(w)
  <2>1. phase'[w] = "enqueue" /\ todo'[w] = active[w]
    BY <1>2, GotoEffect DEF DeleteBlankDocuments, Setting
  <2> QED BY <1>2, <2>1, DocsStep DEF DeleteBlankDocuments
<1> QED BY <1>1, <1>2

LEMMA EnqueueKeeps ==
    ASSUME NEW b \in {0, 1}, NEW M, NEW X, Setting, PassInv(b, M, X),
           NEW w \in Worker, NEW m \in Model,
           EnqueueModel(w, m)
    PROVE  PassInv(b, M, X)'
<1>1. /\ phase[w] = "enqueue" /\ Request(Live(w), m)
      /\ UNCHANGED <<dirty, gone, docs, lost, phase, batch, lex>>
      /\ todo' = [todo EXCEPT ![w] = todo[w] \ {m}]
  BY DEF EnqueueModel, Execute, markVars
<1>2. /\ \A v \in Worker : v = w
      /\ todo'[w] = todo[w] \ {m}
  BY <1>1, OneLoop DEF Setting, Around, SyncSide, PassTypes
<1>3. /\ Live(w) \in SUBSET Entity
      /\ owed' = owed \ (Live(w) \X {m})
      /\ UNCHANGED <<host, assets, edits, active, vec, lease>>
      /\ \A k \in Key \ (Live(w) \X {m}) : task'[k] = task[k]
  BY <1>1, PassRows, RequestedHasTask DEF Setting, Around
<1>4. \A f \in Entity, n \in Model :
         /\ <<f, n>> \in owed' <=> <<f, n>> \in owed /\ ~(f \in Live(w) /\ n = m)
         /\ f \notin Live(w) => task'[<<f, n>>] = task[<<f, n>>]
  BY <1>3 DEF Key
<1>5. DrainPart(b, M)'
  <2>1. StaysFresh
    BY <1>1, <1>3, FreshRequest DEF Setting, PassInv
  <2> QED BY <1>3, <2>1, SameDrainPart DEF Setting
<1>6. /\ Deleted(w)' = Deleted(w) /\ Live(w)' = Live(w)
      /\ \A f \in Entity : Current(w, f)' <=> Current(w, f)
  BY <1>1 DEF Deleted, Live, InBatch, Current
<1>7. \A f \in Entity, x \in {"docs", "vecs", "tasks"} : ~Due(w, f, x) /\ ~Due(w, f, x)'
  BY <1>1 DEF Due
<1>8. \A f \in Entity : /\ f \in Deleted(w) => f \notin Live(w)
                        /\ f \in Live(w) => dirty[f] # None
  BY DEF Live, InBatch, PassInv, RowsRead
<1>9. MarksTrue' /\ RowsRead'
  BY <1>1, <1>3 DEF PassInv, MarksTrue, RowsRead
<1>10. DeletionsDue(b)' /\ DeletionsDone'
  BY <1>1, <1>2, <1>3, <1>4, <1>6, <1>7, <1>8
  DEF PassInv, DeletionsDue, DeletionsDone, Known
<1>11. Rebuilt'
  <2>1. active[w] \subseteq Model
    BY DEF Setting, SyncSide, DrainSide, DrainTypeOK
  <2> QED BY <1>1, <1>2, <1>3, <1>4, <1>6, <2>1 DEF PassInv, Rebuilt
<1>12. StringsGiven(b)'
  BY <1>1, <1>2, <1>3 DEF PassInv, StringsGiven, Known
<1>13. \A f \in Entity : Indexed(b, X, f)'
  <2>1. active[w] \subseteq Model
    BY DEF Setting, SyncSide, DrainSide, DrainTypeOK
  <2> QED BY <1>1, <1>2, <1>3, <1>4, <1>8, <2>1 DEF PassInv, Indexed, Known
<1>14. DrainOnly'
  BY <1>1, <1>3 DEF PassInv, DrainOnly, Idle
<1> QED BY <1>5, <1>9, <1>10, <1>11, <1>12, <1>13, <1>14 DEF PassInv, DrainPart

--------------------------------------------------------------------------------
(* The end of a pass.  Of the rows that leave search_dirty, those no edit  *)
(* has overtaken are deleted everywhere or rebuilt and asked for.          *)
LEMMA EndPassEffect ==
    ASSUME SyncSide, NEW w \in Worker, NEW p, EndPass(w, p)
    PROVE  /\ phase'[w] = p /\ todo'[w] = {}
           /\ \A e \in Entity : batch'[w][e] = None /\ lex'[w][e] = None
  BY GotoEffect DEF EndPass, NoRows, SyncSide, PassTypes

LEMMA PassOver ==
    ASSUME NEW b \in {0, 1}, NEW M, NEW X, Setting, PassInv(b, M, X), NEW w \in Worker,
           NEW p \in {"idle", "backfill"}, EndPass(w, p), phase[w] # "drain",
           UNCHANGED <<drainVars, gone, docs>>, MarksTrue',
           \A e \in Entity : Indexed(b, X, e)'
    PROVE  PassInv(b, M, X)'
<1>1. /\ \A v \in Worker : v = w
      /\ DrainPart(b, M)'
      /\ UNCHANGED <<task, lease, host, edits, owed, active, vec>>
  BY OneLoop, NoDrainStep DEF Setting, Around
<1>2. phase'[w] = p /\ \A e \in Entity : batch'[w][e] = None /\ lex'[w][e] = None
  BY EndPassEffect DEF Setting
<1>3. \A e \in Entity : /\ e \notin Deleted(w)' /\ e \notin Live(w)'
                        /\ \A x \in {"docs", "vecs", "tasks"} : ~Due(w, e, x)'
  BY <1>2 DEF Deleted, Live, InBatch, Due
<1>4. RowsRead' /\ DeletionsDue(b)' /\ DeletionsDone' /\ Rebuilt' /\ StringsGiven(b)'
  BY <1>1, <1>2, <1>3 DEF RowsRead, DeletionsDue, DeletionsDone, Rebuilt, StringsGiven
<1>5. DrainOnly'
  BY <1>1, <1>2 DEF PassInv, DrainOnly, Idle
<1> QED BY <1>1, <1>4, <1>5 DEF PassInv, DrainPart

LEMMA ClearKeeps ==
    ASSUME NEW b \in {0, 1}, NEW M, NEW X, Setting, PassInv(b, M, X),
           NEW w \in Worker, ClearDirty(w)
    PROVE  PassInv(b, M, X)'
<1>1. /\ EndPass(w, "backfill")
      /\ UNCHANGED <<drainVars, gone, docs>>
      /\ \/ phase[w] = "clear"
         \/ phase[w] = "enqueue" /\ todo[w] = {}
  BY DEF ClearDirty, Processed
<1>2. /\ \A v \in Worker : v = w
      /\ UNCHANGED <<task, lease, host, edits, owed, active, vec>>
  BY <1>1, OneLoop, NoDrainStep DEF Setting, Around
<1>3. \A e \in Entity :
         /\ dirty'[e] = IF e \in InBatch(w) THEN None ELSE dirty[e]
         /\ e \notin lost' => e \notin lost /\ (e \in InBatch(w) => Current(w, e))
  BY DEF ClearDirty, Cleared, Current, InBatch, PassInv, RowsRead
<1>4. MarksTrue'
  BY <1>1, <1>2, <1>3 DEF PassInv, MarksTrue
<1>5. ASSUME NEW e \in Entity
      PROVE  Indexed(b, X, e)'
  <2>1. CASE e \notin InBatch(w)
    BY <1>1, <1>2, <1>3, <2>1 DEF PassInv, Indexed, Known
  <2>2. CASE e \in Deleted(w) /\ Current(w, e)
    <3>1. gone[e] /\ host[e] = 0
      BY <2>2 DEF PassInv, MarksTrue, Current, Deleted, InBatch
    <3>2. /\ docs[e] = 0
          /\ \A m \in Model : vec[<<e, m>>] = 0 /\ task[<<e, m>>] = None
      BY <1>1, <2>2 DEF PassInv, DeletionsDone, Due
    <3> QED BY <1>1, <1>2, <3>1, <3>2 DEF Indexed
  <2>3. CASE e \in Live(w) /\ Current(w, e)
    <3>1. ~gone[e]
      BY <2>3 DEF PassInv, MarksTrue, Current, Deleted, Live, InBatch
    <3>2. /\ host[e] # 0 => docs[e] = host[e]
          /\ \A m \in active[w] : <<e, m>> \notin owed
      BY <1>1, <2>3 DEF PassInv, Rebuilt
    <3> QED BY <1>1, <1>2, <3>1, <3>2 DEF Indexed
  <2>4. CASE e \in InBatch(w) /\ ~Current(w, e)
    BY <1>3, <2>4 DEF Indexed
  <2> QED BY <2>1, <2>2, <2>3, <2>4 DEF Live
<1> QED BY <1>1, <1>4, <1>5, PassOver

LEMMA FailKeeps ==
    ASSUME NEW b \in {0, 1}, NEW M, NEW X, Setting, PassInv(b, M, X), NEW w \in Worker,
           EndPass(w, "idle"), phase[w] # "drain", UNCHANGED <<drainVars, markVars>>
    PROVE  PassInv(b, M, X)'
<1>1. UNCHANGED <<task, host, edits, owed, active, vec>>
  BY NoDrainStep DEF Setting
<1>2. MarksTrue' /\ \A e \in Entity : Indexed(b, X, e)'
  BY <1>1 DEF PassInv, MarksTrue, Indexed, Known, markVars
<1> QED BY <1>2, PassOver DEF markVars

--------------------------------------------------------------------------------
(* The drain between two passes, and the host.  A worker only stores and   *)
(* records what there is a task for.                                       *)
LEMMA OnlyTasksAreWorked ==
    ASSUME Around, DrainGood, NEW w \in Worker, WorkerStep(w), NEW k \in Key,
           task[k] = None
    PROVE  task'[k] = None /\ vec'[k] = vec[k]
<1>1. stage[w][k] = "none"
  BY LeasedHasTask
<1>2. ASSUME NEW j \in Key, j # k,
             \/ Complete(w, j) \/ Fail(w, j) \/ DeadLetter(w, j)
             \/ AbandonLeases(w, {j})
      PROVE  task'[k] = task[k]
  BY <1>2 DEF Complete, Fail, DeadLetter, DeleteIfHeld, AbandonLeases, Around, IInv, TypeOK
<1>3. CASE FetchBatch(w)
  BY <1>3 DEF FetchBatch, FetchReady
<1>4. CASE AbortBatch(w)
  BY <1>4 DEF AbortBatch, DropBatch, AbandonLeases
<1>5. ASSUME NEW e \in Entity, BuildSemanticDocument(w, e) \/ ListAssetURLs(w, e)
      PROVE  task'[k] = None /\ vec'[k] = vec[k]
  BY <1>5 DEF BuildSemanticDocument, ListAssetURLs, vars
<1>6. ASSUME NEW m \in Model, SendText(w, m)
      PROVE  task'[k] = None /\ vec'[k] = vec[k]
  BY <1>6 DEF SendText, Dispatch, vars
<1>7. ASSUME NEW j \in Key, SendVL(w, j)
      PROVE  task'[k] = None /\ vec'[k] = vec[k]
  BY <1>7 DEF SendVL, Dispatch, vars
<1>8. ASSUME NEW C \in calls[w], Answer(w, C)
      PROVE  task'[k] = None /\ vec'[k] = vec[k]
  BY <1>8 DEF Answer, vars
<1>9. ASSUME NEW j \in Key, CompleteEmpty(w, j)
      PROVE  task'[k] = None /\ vec'[k] = vec[k]
  <2>1. j # k
    BY <1>1, <1>9 DEF CompleteEmpty, Empty, At
  <2> QED BY <1>2, <1>9, <2>1 DEF CompleteEmpty
<1>10. ASSUME NEW j \in Key, Store(w, j)
       PROVE  task'[k] = None /\ vec'[k] = vec[k]
  BY <1>1, <1>10 DEF Store, At, vars, Around, DrainTypeOK
<1>11. ASSUME NEW C \in calls[w], NEW j \in Key, HandleTaskResult(w, C, j)
       PROVE  task'[k] = None /\ vec'[k] = vec[k]
  <2>1. j # k
    BY <1>1, <1>11 DEF HandleTaskResult, Unrecorded, At
  <2> QED BY <1>2, <1>11, <2>1 DEF HandleTaskResult, Outcome
<1> QED BY <1>3, <1>4, <1>5, <1>6, <1>7, <1>8, <1>9, <1>10, <1>11 DEF WorkerStep

(* Outside a pass nothing is known of rows read or strings built.          *)
NoPass(w) == \A e \in Entity : batch[w][e] = None /\ lex[w][e] = None

LEMMA BetweenPasses ==
    ASSUME NEW b \in {0, 1}, NEW M, NEW X, Setting, NEW w \in Worker, PassInv(b, M, X),
           NoPass(w),
           DrainPart(b, M)', UNCHANGED <<dirty, gone, docs, lost, batch, lex>>,
           UNCHANGED <<host, edits, owed, active>>,
           \A k \in Key : task[k] = None => task'[k] = None /\ vec'[k] = vec[k],
           phase'[w] # "delete", DrainOnly'
    PROVE  PassInv(b, M, X)'
<1>1. \A v \in Worker : v = w
  BY OneLoop DEF Setting, Around
<1>2. \A e \in Entity : /\ e \notin Deleted(w)' /\ e \notin Live(w)'
                        /\ \A x \in {"docs", "vecs", "tasks"} : ~Due(w, e, x)'
  BY DEF Deleted, Live, InBatch, Due, NoPass
<1>3. RowsRead' /\ DeletionsDue(b)' /\ DeletionsDone' /\ Rebuilt' /\ StringsGiven(b)'
  BY <1>1, <1>2 DEF NoPass, RowsRead, DeletionsDue, DeletionsDone, Rebuilt, StringsGiven
<1>4. MarksTrue' /\ \A e \in Entity : Indexed(b, X, e)'
  BY DEF PassInv, MarksTrue, Indexed, Known, Key
<1> QED BY <1>3, <1>4 DEF PassInv, DrainPart

LEMMA NextPhaseKeeps ==
    ASSUME NEW b \in {0, 1}, NEW M, NEW X, Setting, PassInv(b, M, X), NEW w \in Worker,
           EndBackfill(w) \/ NothingDue(w), NoPass(w)
    PROVE  PassInv(b, M, X)'
<1>1. UNCHANGED <<drainVars, dirty, gone, docs, lost, batch, lex>>
  BY DEF EndBackfill, NothingDue, markVars
<1>2. /\ DrainPart(b, M)'
      /\ UNCHANGED <<task, lease, host, edits, owed, active, vec>>
  BY <1>1, NoDrainStep DEF Setting
<1>3. phase'[w] \in {"idle", "drain"} /\ Idle(w)
  BY GotoEffect DEF EndBackfill, NothingDue, Setting, PassInv, DrainOnly
<1>4. DrainOnly'
  BY <1>2, <1>3, OneLoop DEF DrainOnly, Idle, Setting, Around
<1> QED BY <1>1, <1>2, <1>3, <1>4, BetweenPasses

LEMMA DrainKeeps ==
    ASSUME NEW b \in {0, 1}, NEW M, NEW X, Setting, PassInv(b, M, X),
           NEW w \in Worker, Drain(w)
    PROVE  PassInv(b, M, X)'
<1>1. /\ phase[w] = "drain" /\ WorkerStep(w)
      /\ UNCHANGED <<dirty, gone, docs, lost, batch, lex>>
  BY DEF Drain
<1>2. UNCHANGED <<host, edits, owed, active>>
  BY <1>1, WorkerStepLeavesHost
<1>3. DrainPart(b, M)'
  BY <1>1, <1>2, FreshWorkerStep, SameDrainPart DEF Setting, PassInv
<1>4. NoPass(w)
  BY <1>1 DEF NoPass, PassInv, RowsRead, StringsGiven, PassPhase
<1>5. \A k \in Key : task[k] = None => task'[k] = None /\ vec'[k] = vec[k]
  BY <1>1, OnlyTasksAreWorked DEF Setting, PassInv
<1>6. /\ phase'[w] \in {"idle", "drain"}
      /\ phase'[w] # "drain" => \A k \in Key : lease'[w][k] = None
  BY <1>1 DEF Drain, Setting, SyncSide, PassTypes
<1>7. DrainOnly'
  BY <1>6, OneLoop DEF DrainOnly, Idle, Setting, Around
<1> QED BY <1>1, <1>2, <1>3, <1>4, <1>5, <1>6, <1>7, BetweenPasses

LEMMA ExpireKeeps ==
    ASSUME NEW b \in {0, 1}, NEW M, NEW X, Setting, PassInv(b, M, X), NEW k \in Key,
           DrainExpire(k) /\ UNCHANGED <<markVars, passVars>>
    PROVE  PassInv(b, M, X)'
<1>1. /\ UNCHANGED <<dirty, gone, docs, lost, phase, batch, todo, lex>>
      /\ UNCHANGED <<host, edits, owed, active, vec, lease>>
  BY DEF markVars, passVars, DrainExpire, Expire, hostVars
<1>2. DrainPart(b, M)'
  BY <1>1, FreshExpire, SameDrainPart DEF Setting, PassInv
<1>3. \A j \in Key : task[j] = None => task'[j] = None
  BY DEF DrainExpire, Expire, Setting, Around, IInv, TypeOK
<1>4. \A e \in Entity, m \in Model : task[<<e, m>>] = None => task'[<<e, m>>] = None
  BY <1>3 DEF Key
<1>5. /\ \A w \in Worker : /\ Deleted(w)' = Deleted(w) /\ Live(w)' = Live(w)
      /\ \A w \in Worker, e \in Entity : Current(w, e)' <=> Current(w, e)
      /\ \A w \in Worker, e \in Entity, x \in {"docs", "vecs", "tasks"} :
            Due(w, e, x)' <=> Due(w, e, x)
  BY <1>1 DEF Deleted, Live, InBatch, Current, Due
<1>6. MarksTrue' /\ RowsRead' /\ DrainOnly'
  BY <1>1 DEF PassInv, MarksTrue, RowsRead, DrainOnly, Idle
<1>7. DeletionsDue(b)' /\ Rebuilt' /\ StringsGiven(b)'
  BY <1>1, <1>5 DEF PassInv, DeletionsDue, Rebuilt, StringsGiven, Known
<1>8. DeletionsDone' /\ \A e \in Entity : Indexed(b, X, e)'
  BY <1>1, <1>4, <1>5 DEF PassInv, DeletionsDone, Indexed, Known
<1> QED BY <1>2, <1>6, <1>7, <1>8 DEF PassInv, DrainPart

(* An edit overtakes every row of the entity that a pass has read.         *)
LEMMA MarkKeeps ==
    ASSUME NEW b \in {0, 1}, NEW M, NEW X, Setting, PassInv(b, M, X),
           NEW e \in Entity, MarkDirty(e)
    PROVE  PassInv(b, M, X)'
<1>1. /\ HostEdit(e)
      /\ UNCHANGED <<docs, phase, batch, todo, lex>>
      /\ lost' = lost \ {e}
  BY DEF MarkDirty, passVars
<1>2. edits \in Nat /\ edits' = edits + 1
  BY <1>1, EditKeepsDrain, EmbedDrainAssumption
  DEF Setting, SyncSide, DrainSide, DrainTypeOK
<1>3. PICK v \in {0, edits + 1} : host' = [host EXCEPT ![e] = v]
  BY <1>1 DEF HostEdit
<1>4. PICK d \in BOOLEAN : /\ d => host'[e] = 0
                           /\ gone' = [gone EXCEPT ![e] = d]
                           /\ dirty' = [dirty EXCEPT ![e] = NewMark(d)]
  BY DEF MarkDirty
<1>5. \A f \in Entity : /\ host'[f] = IF f = e THEN v ELSE host[f]
                        /\ gone'[f] = IF f = e THEN d ELSE gone[f]
                        /\ dirty'[f] = IF f = e THEN NewMark(d) ELSE dirty[f]
  BY <1>3, <1>4 DEF Setting, SyncSide, DrainSide, DrainTypeOK, MarkTypes
<1>6. UNCHANGED <<task, lease, vec, active, stage, doc>>
  BY <1>1 DEF HostEdit, vars, workVars
<1>7. /\ owed' = owed \cup ({e} \X Model)
      /\ \A f \in Entity, m \in Model :
            <<f, m>> \in owed' <=> f = e \/ <<f, m>> \in owed
      /\ \A k \in Key : k \in owed' <=> k[1] = e \/ k \in owed
  BY <1>1 DEF HostEdit, Key
<1>8. NewMark(d) \in Mark /\ NewMark(d) # None /\ NewMark(d).mark = edits + 1
      /\ NewMark(d).deleted = d
  BY <1>2, DirtySyncAssumption DEF NewMark, Mark
<1>9. \A f \in Entity : /\ ~Known(b, e)'
                        /\ f # e => (Known(b, f)' <=> Known(b, f))
  BY <1>2, <1>3, <1>5 DEF Known, PassInv
<1>10. \A w \in Worker, f \in Entity :
          /\ ~Current(w, e)'
          /\ f # e => (Current(w, f)' <=> Current(w, f))
  <2>1. \A w \in Worker : batch[w][e] # None => batch[w][e].mark <= edits
    BY DEF PassInv, RowsRead
  <2>2. \A w \in Worker : batch[w][e] # NewMark(d)
    BY <1>2, <1>8, <2>1
  <2> QED BY <1>1, <1>5, <2>2 DEF Current
<1>11. \A w \in Worker : /\ Deleted(w)' = Deleted(w) /\ Live(w)' = Live(w)
                          /\ \A f \in Entity, x \in {"docs", "vecs", "tasks"} :
                                Due(w, f, x)' <=> Due(w, f, x)
  BY <1>1 DEF Deleted, Live, InBatch, Due
<1>12. DrainPart(b, M)'
  <2>1. StaysFresh
    BY <1>1, FreshHostEdit DEF Setting, PassInv
  <2>2. \A k \in Key : k[1] \in Entity
    BY DEF Key
  <2>3. KnownUnowed(b)'
    BY <1>7, <1>9, <2>2 DEF PassInv, KnownUnowed
  <2>4. VectorsDue(b, M)'
    BY <1>7, <1>9, <2>1, <2>2 DEF PassInv, VectorsDue, StaysFresh, VecFresh
  <2> QED BY <1>2, <2>1, <2>3, <2>4 DEF PassInv, DrainPart, StaysFresh
<1>13. MarksTrue'
  <2>1. \A f \in Entity : dirty[f] # None => dirty[f].mark \in Nat
    BY DEF Setting, SyncSide, MarkTypes, Mark
  <2> QED BY <1>2, <1>4, <1>5, <1>8, <2>1 DEF PassInv, MarksTrue
<1>14. RowsRead'
  <2>1. \A w \in Worker, f \in Entity : batch[w][f] # None => batch[w][f].mark \in Nat
    BY DEF Setting, SyncSide, PassTypes, Mark
  <2> QED BY <1>1, <1>2, <1>5, <1>8, <2>1 DEF PassInv, RowsRead
<1>15. DeletionsDue(b)'
  BY <1>7, <1>9, <1>10, <1>11 DEF PassInv, DeletionsDue
<1>16. DeletionsDone'
  BY <1>1, <1>6, <1>10, <1>11 DEF PassInv, DeletionsDone
<1>17. Rebuilt'
  BY <1>1, <1>5, <1>6, <1>7, <1>10, <1>11 DEF PassInv, Rebuilt
<1>18. StringsGiven(b)'
  BY <1>1, <1>5, <1>8, <1>9, <1>10, <1>11 DEF PassInv, StringsGiven
<1>19. \A f \in Entity : Indexed(b, X, f)'
  BY <1>1, <1>5, <1>6, <1>7, <1>8, <1>9 DEF PassInv, Indexed
<1>20. DrainOnly'
  BY <1>1, <1>6 DEF PassInv, DrainOnly, Idle
<1> QED BY <1>12, <1>13, <1>14, <1>15, <1>16, <1>17, <1>18, <1>19, <1>20
        DEF PassInv, DrainPart

--------------------------------------------------------------------------------
LEMMA DirtyStepKeeps ==
    ASSUME NEW b \in {0, 1}, NEW M, NEW X, Setting, PassInv(b, M, X),
           NEW w \in Worker, DirtyStep(w)
    PROVE  PassInv(b, M, X)'
  BY ReadDirtyKeeps, DeleteKeeps, BuildKeeps, DocumentsKeep, EnqueueKeeps, ClearKeeps
  DEF DirtyStep

(* Nothing at all.                                                         *)
LEMMA StutterKeeps ==
    ASSUME NEW b \in {0, 1}, NEW M, NEW X, Setting, PassInv(b, M, X), UNCHANGED syncVars
    PROVE  PassInv(b, M, X)'
<1>1. UNCHANGED <<dirty, gone, docs, lost, phase, batch, todo, lex, drainVars>>
  BY DEF syncVars, markVars, passVars
<1>2. /\ DrainPart(b, M)'
      /\ UNCHANGED <<task, lease, host, edits, owed, active, vec>>
  BY <1>1, NoDrainStep DEF Setting
<1>3. MarksTrue' /\ RowsRead' /\ DrainOnly'
  BY <1>1, <1>2 DEF PassInv, MarksTrue, RowsRead, DrainOnly, Idle
<1>4. /\ \A w \in Worker : /\ Deleted(w)' = Deleted(w) /\ Live(w)' = Live(w)
      /\ \A w \in Worker, e \in Entity : Current(w, e)' <=> Current(w, e)
      /\ \A w \in Worker, e \in Entity, x \in {"docs", "vecs", "tasks"} :
            Due(w, e, x)' <=> Due(w, e, x)
  BY <1>1 DEF Deleted, Live, InBatch, Current, Due
<1>5. DeletionsDue(b)' /\ DeletionsDone' /\ Rebuilt' /\ StringsGiven(b)'
  BY <1>1, <1>2, <1>4
  DEF PassInv, DeletionsDue, DeletionsDone, Rebuilt, StringsGiven, Known
<1>6. \A e \in Entity : Indexed(b, X, e)'
  BY <1>1, <1>2 DEF PassInv, Indexed, Known
<1> QED BY <1>2, <1>3, <1>5, <1>6 DEF PassInv, DrainPart

(* A pass leaves no strings behind.                                        *)
LEMMA StringsEndWithPass ==
    ASSUME NEW b \in {0, 1}, NEW M, NEW X, Setting, PassInv(b, M, X), NEW w \in Worker,
           \/ DirtyStep(w) \/ Drain(w) \/ NothingDue(w) \/ EndBackfill(w)
           \/ FailPass(w)
    PROVE  \A e \in Entity : phase'[w] = "backfill" => lex'[w][e] = None
<1>1. CASE ReadDirty(w)
  BY <1>1 DEF ReadDirty, PassInv, StringsGiven
<1>2. CASE ClearDirty(w) \/ FailPass(w)
  BY <1>2, EndPassEffect DEF ClearDirty, FailPass, Setting
<1>3. CASE \/ BuildLexicalString(w) \/ UpsertSearchDocuments(w)
           \/ DeleteBlankDocuments(w) \/ EndBackfill(w) \/ NothingDue(w)
  BY <1>3, GotoEffect
  DEF BuildLexicalString, UpsertSearchDocuments, DeleteBlankDocuments, EndBackfill,
      NothingDue, Setting
<1>4. CASE Drain(w)
  BY <1>4 DEF Drain, Setting, SyncSide, PassTypes
<1>5. CASE \/ \E e \in Entity : \/ DeleteSearchDocuments(w, e)
                                \/ DeleteEmbeddingVectors(w, e)
                                \/ DeleteTasks(w, e)
           \/ \E m \in Model : EnqueueModel(w, m)
  BY <1>5 DEF DeleteSearchDocuments, DeleteEmbeddingVectors, DeleteTasks, EnqueueModel,
              Execute
<1> QED BY <1>1, <1>2, <1>3, <1>4, <1>5 DEF DirtyStep

(* In SyncSpec a pass is over when the backfill phase begins.              *)
NoStringsLeft == \A w \in Worker, e \in Entity : phase[w] = "backfill" => lex[w][e] = None

SyncInv == PassInv(0, Model, {}) /\ NoStringsLeft

LEMMA SyncInitInv == SyncInit => SyncInv
<1> SUFFICES ASSUME SyncInit PROVE SyncInv
  OBVIOUS
<1>1. /\ \A w \in Worker, e \in Entity : batch[w][e] = None /\ lex[w][e] = None
      /\ \A w \in Worker : phase[w] = "idle" /\ Idle(w)
      /\ \A e \in Entity : dirty[e] = None /\ gone[e] = FALSE /\ host[e] = 0 /\ docs[e] = 0
      /\ owed = {} /\ edits = 0
      /\ \A k \in Key : host[k[1]] = 0 /\ task[k] = None /\ vec[k] = 0
      /\ \A e \in Entity, m \in Model : task[<<e, m>>] = None /\ vec[<<e, m>>] = 0
  BY DEF SyncInit, DrainInit, Init, NoRows, Idle, Key
<1>2. FreshInv
  BY FreshInit DEF SyncInit
<1>3. \A w \in Worker, e \in Entity :
         /\ e \notin Deleted(w) /\ e \notin Live(w)
         /\ \A x \in {"docs", "vecs", "tasks"} : ~Due(w, e, x)
  BY <1>1 DEF Deleted, Live, InBatch, Due
<1>4. MarksTrue /\ RowsRead /\ DeletionsDue(0) /\ DeletionsDone /\ Rebuilt
  BY <1>1, <1>3 DEF MarksTrue, RowsRead, DeletionsDue, DeletionsDone, Rebuilt
<1>5. /\ StringsGiven(0) /\ KnownUnowed(0) /\ DrainOnly /\ NoStringsLeft
      /\ \A e \in Entity : Indexed(0, {}, e)
  BY <1>1 DEF StringsGiven, KnownUnowed, DrainOnly, NoStringsLeft, Indexed
<1> QED BY <1>1, <1>2, <1>4, <1>5 DEF SyncInv, PassInv, FreshInv, VectorsDue

LEMMA SyncNextKeeps ==
    ASSUME Setting, SyncInv, [SyncNext]_syncVars
    PROVE  SyncInv'
<1>1. PassInv(0, Model, {})'
  <2>1. ASSUME NEW w \in Worker, EndBackfill(w) \/ NothingDue(w)
        PROVE  PassInv(0, Model, {})'
    <3>1. phase[w] \in {"backfill", "drain"}
      BY <2>1 DEF EndBackfill, NothingDue
    <3>2. NoPass(w)
      BY <3>1 DEF NoPass, SyncInv, PassInv, RowsRead, StringsGiven, NoStringsLeft, PassPhase
    <3> QED BY <2>1, <3>2, NextPhaseKeeps DEF SyncInv
  <2>2. ASSUME NEW w \in Worker, FailPass(w)
        PROVE  PassInv(0, Model, {})'
    BY <2>2, FailKeeps DEF FailPass, SyncInv
  <2> QED BY <2>1, <2>2, MarkKeeps, ExpireKeeps, DirtyStepKeeps, DrainKeeps, StutterKeeps
          DEF SyncNext, SyncStep, SyncInv
<1>2. NoStringsLeft'
  <2>1. CASE UNCHANGED <<phase, lex>>
    BY <2>1 DEF NoStringsLeft, SyncInv
  <2>2. ASSUME NEW w \in Worker, SyncStep(w) \/ FailPass(w)
        PROVE  NoStringsLeft'
    BY <2>2, StringsEndWithPass, OneLoop
    DEF SyncStep, NoStringsLeft, SyncInv, Setting, Around
  <2> QED BY <2>1, <2>2 DEF SyncNext, MarkDirty, syncVars, passVars
<1> QED BY <1>1, <1>2 DEF SyncInv

LEMMA PassInvGivesCaughtUp ==
    ASSUME SyncSide, PassInv(0, Model, {})
    PROVE  IndexCaughtUp
<1> SUFFICES ASSUME NEW e \in Entity, Quiet(e, Configured), e \notin lost
             PROVE  /\ gone[e] => /\ docs[e] = 0
                                  /\ \A m \in Configured : vec[<<e, m>>] = 0
                    /\ host[e] # 0 => docs[e] = host[e]
                    /\ \A m \in Configured : Wanted(<<e, m>>) # 0 =>
                                              vec[<<e, m>>] = Wanted(<<e, m>>)
  BY DEF IndexCaughtUp, CaughtUp
<1>1. /\ host[e] \in Nat /\ \A f \in Entity : ~Known(0, f)
      /\ Configured \subseteq Model
  BY EmbedDrainAssumption
  DEF SyncSide, DrainSide, DrainTypeOK, Known, Configured
<1>2. dirty[e] = None /\ Indexed(0, {}, e)
  BY DEF Quiet, PassInv
<1>3. ASSUME NEW m \in Configured, Wanted(<<e, m>>) # 0
      PROVE  vec[<<e, m>>] = Wanted(<<e, m>>)
  <2>1. ~gone[e]
    BY <1>3 DEF Wanted, PassInv, MarksTrue
  <2>2. <<e, m>> \in Key /\ <<e, m>> \notin owed
    BY <1>1, <1>2, <2>1 DEF Indexed, Configured, Key
  <2>3. VecFresh(<<e, m>>)
    BY <1>1, <2>2 DEF PassInv, VectorsDue
  <2> QED BY <1>3, <2>2, <2>3 DEF VecFresh, Quiet
<1> QED BY <1>1, <1>2, <1>3 DEF Indexed

(* With one sync loop whose leases outlive its batches, every quiet entity *)
(* whose last mark was read before it was cleared is indexed as the host   *)
(* has it - for any number of entities and models, any batch sizes, any    *)
(* sequence of edits and a failure after any statement of any pass.        *)
THEOREM IndexCatchesUp ==
    ASSUME OneWorker, LeaseOutlivesWork
    PROVE  SyncSpec => []IndexCaughtUp
<1>1. SyncInv /\ SyncSide /\ IInv /\ IInv' /\ [SyncNext]_syncVars => SyncInv'
  BY SyncNextKeeps DEF Setting, Around, SyncSide, DrainSide
<1>2. SyncSpec => []IInv
  BY SyncImplementsQueue, InductiveInvariant, PTL
<1>3. SyncSpec => []SyncInv
  BY <1>1, <1>2, SyncInitInv, SyncSideInvariant, PTL DEF SyncSpec
<1>4. SyncSide /\ SyncInv => IndexCaughtUp
  BY PassInvGivesCaughtUp DEF SyncInv
<1> QED BY <1>3, <1>4, SyncSideInvariant, PTL
================================================================================
