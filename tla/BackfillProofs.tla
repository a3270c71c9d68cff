----------------------------- MODULE BackfillProofs -----------------------------
(* The backfill never passes over an entity, however many loops replay and *)
(* overwrite each other's cursors and whether or not leases expire under   *)
(* them; and with one loop the index is caught up when it is done.  M are  *)
(* the models spoken of, X keys that may be owed, as in CaughtUpProofs.    *)
EXTENDS CaughtUpProofs

(* An entity that was there first and that nobody edited has version 1, so *)
(* whatever is read of it, at any time, by any loop, is what is stored.    *)
DocFirst(w, k) ==
    /\ stage[w][k] = "read" => doc[w][k] = 1 /\ IsVL(k)
    /\ stage[w][k] = "ready" => doc[w][k] = 1 \/ (doc[w][k] = 0 /\ Wanted(k) = 0)
    /\ stage[w][k] \in Pending => doc[w][k] = 1
    /\ stage[w][k] = "stored" => vec[k] = 1

VecFirst == \A k \in Key : Untouched(k[1]) => vec[k] \in {0, 1}

FirstRead == VecFirst /\ \A w \in Worker, k \in Key : Untouched(k[1]) => DocFirst(w, k)

(* The vector is there, or a task or a dead letter says what is left.      *)
KeyCovered(k) == Wanted(k) # 0 => vec[k] = 1 \/ task[k] # None \/ dead[k] # 0

KeysStayCovered == \A k \in Key : Untouched(k[1]) /\ KeyCovered(k) => KeyCovered(k)'

(* Reading, sending and answering.                                         *)
LEMMA FirstMove ==
    ASSUME DrainTypeOK, FirstRead, UNCHANGED <<vars, host, assets, vec>>,
           \A w \in Worker, k \in Key : Untouched(k[1]) => DocFirst(w, k)'
    PROVE  FirstRead' /\ KeysStayCovered
<1>1. \A k \in Key : Wanted(k)' = Wanted(k) /\ (Untouched(k[1])' <=> Untouched(k[1]))
  BY DEF Wanted, IsVL, Untouched
<1>2. UNCHANGED <<task, dead>>
  BY DEF vars
<1> QED BY <1>1, <1>2 DEF FirstRead, VecFirst, KeysStayCovered, KeyCovered

LEMMA FirstBuild ==
    ASSUME DrainTypeOK, FirstRead, NEW w \in Worker, NEW e \in Entity,
           BuildSemanticDocument(w, e)
    PROVE  FirstRead' /\ KeysStayCovered
<1>1. UNCHANGED <<vars, host, assets, vec, active>>
  BY DEF BuildSemanticDocument, hostVars
<1>2. \A v \in Worker, k \in Key :
         \/ /\ k[1] = e
            /\ stage'[v][k] = IF IsVLModel(v, k[2]) THEN "read" ELSE "ready"
            /\ doc'[v][k] = host[e]
         \/ stage'[v][k] = stage[v][k] /\ doc'[v][k] = doc[v][k]
  BY BuildEffect
<1>3. \A k \in Key : Wanted(k)' = Wanted(k)
  BY <1>1 DEF Wanted, IsVL
<1>4. \A v \in Worker, k \in Key : Untouched(k[1]) => DocFirst(v, k)'
  BY <1>1, <1>2, <1>3 DEF FirstRead, DocFirst, Untouched, IsVLModel, IsVL, Pending
<1> QED BY <1>1, <1>4, FirstMove

LEMMA FirstAssets ==
    ASSUME DrainTypeOK, FirstRead, NEW w \in Worker, NEW e \in Entity,
           ListAssetURLs(w, e)
    PROVE  FirstRead' /\ KeysStayCovered
<1>1. UNCHANGED <<vars, host, assets, vec>>
  BY DEF ListAssetURLs, hostVars
<1>2. \A v \in Worker, k \in Key :
         \/ /\ stage[v][k] = "read" /\ k[1] = e
            /\ stage'[v][k] = "ready"
            /\ doc'[v][k] = IF assets[e] THEN doc[v][k] ELSE 0
         \/ stage'[v][k] = stage[v][k] /\ doc'[v][k] = doc[v][k]
  BY AssetsEffect
<1>3. \A k \in Key : Wanted(k)' = Wanted(k)
  BY <1>1 DEF Wanted, IsVL
<1>4. \A v \in Worker, k \in Key : Untouched(k[1]) => DocFirst(v, k)'
  BY <1>1, <1>2, <1>3 DEF FirstRead, DocFirst, Wanted, IsVL, Pending
<1> QED BY <1>1, <1>4, FirstMove

LEMMA FirstSend ==
    ASSUME DrainTypeOK, FirstRead, UNCHANGED <<vars, hostVars, vec, doc>>,
           \A w \in Worker, k \in Key :
              \/ /\ stage[w][k] = "ready" /\ doc[w][k] # 0 /\ stage'[w][k] = "sent"
              \/ /\ stage[w][k] = "sent" /\ stage'[w][k] \in {"embedded", "failed"}
              \/ stage'[w][k] = stage[w][k]
    PROVE  FirstRead' /\ KeysStayCovered
<1>1. UNCHANGED <<vars, host, assets, vec>>
  BY DEF hostVars
<1>2. \A k \in Key : Wanted(k)' = Wanted(k)
  BY <1>1 DEF Wanted, IsVL
<1>3. \A v \in Worker, k \in Key : Untouched(k[1]) => DocFirst(v, k)'
  BY <1>1, <1>2 DEF FirstRead, DocFirst, IsVL, Pending
<1> QED BY <1>1, <1>3, FirstMove

LEMMA FirstStore ==
    ASSUME DrainTypeOK, FirstRead, NEW w \in Worker, NEW k \in Key, Store(w, k)
    PROVE  FirstRead' /\ KeysStayCovered
<1>1. UNCHANGED <<task, dead, host, assets, doc>>
  BY DEF Store, hostVars, vars
<1>2. /\ stage[w][k] = "embedded"
      /\ \A v \in Worker, j \in Key : v # w \/ j # k => stage'[v][j] = stage[v][j]
      /\ \A j \in Key \ {k} : vec'[j] = vec[j]
      /\ \/ stage'[w][k] = "stored" /\ vec'[k] = doc[w][k]
         \/ stage'[w][k] = "failed" /\ vec'[k] = vec[k]
  BY StoreEffect
<1>3. Untouched(k[1]) => doc[w][k] = 1
  BY <1>2 DEF FirstRead, DocFirst, Pending
<1>4. \A j \in Key : /\ Wanted(j)' = Wanted(j)
                     /\ Untouched(j[1])' <=> Untouched(j[1])
                     /\ Untouched(j[1]) => vec'[j] \in {1, vec[j]}
  BY <1>1, <1>2, <1>3 DEF Wanted, IsVL, Untouched
<1>5. VecFirst' /\ KeysStayCovered
  BY <1>1, <1>4 DEF FirstRead, VecFirst, KeysStayCovered, KeyCovered
<1>6. \A v \in Worker, j \in Key : Untouched(j[1]) => DocFirst(v, j)'
  BY <1>1, <1>2, <1>3, <1>4 DEF FirstRead, DocFirst, IsVL, Pending
<1> QED BY <1>4, <1>5, <1>6 DEF FirstRead

(* Keys whose record ends; nothing else changes but their rows.            *)
LEMMA FirstDone ==
    ASSUME DrainTypeOK, FirstRead, UNCHANGED <<host, assets, vec>>,
           \A w \in Worker, k \in Key :
              \/ stage'[w][k] \in {"none", "leased"}
              \/ stage'[w][k] = stage[w][k] /\ doc'[w][k] = doc[w][k],
           \A k \in Key : \/ task[k] = None /\ dead[k] = 0
                          \/ task'[k] # None
                          \/ dead'[k] # 0
                          \/ Untouched(k[1]) => Wanted(k) = 0 \/ vec[k] = 1
    PROVE  FirstRead' /\ KeysStayCovered
<1>1. \A k \in Key : Wanted(k)' = Wanted(k) /\ (Untouched(k[1])' <=> Untouched(k[1]))
  BY DEF Wanted, IsVL, Untouched
<1>2. \A v \in Worker, k \in Key : Untouched(k[1]) => DocFirst(v, k)'
  BY <1>1 DEF FirstRead, DocFirst, IsVL, Pending
<1> QED BY <1>1, <1>2 DEF FirstRead, VecFirst, KeysStayCovered, KeyCovered

LEMMA FirstRecord ==
    ASSUME DrainTypeOK, IInv, FirstRead, NEW w \in Worker, NEW k \in Key, Done(w, k),
           UNCHANGED <<host, assets, vec>>,
           \/ /\ Complete(w, k)
              /\ Untouched(k[1]) => Wanted(k) = 0 \/ vec[k] = 1
           \/ Fail(w, k) \/ DeadLetter(w, k)
           \/ AbandonLeases(w, {k})
    PROVE  FirstRead' /\ KeysStayCovered
<1>1. \A v \in Worker, j \in Key :
         \/ stage'[v][j] \in {"none", "leased"}
         \/ stage'[v][j] = stage[v][j] /\ doc'[v][j] = doc[v][j]
  BY DoneEffect
<1>2. \A j \in Key \ {k} : task'[j] = task[j] /\ dead'[j] = dead[j]
  BY DEF Complete, Fail, DeadLetter, DeleteIfHeld, AbandonLeases, IInv, TypeOK
<1>3. CASE Complete(w, k) /\ (Untouched(k[1]) => Wanted(k) = 0 \/ vec[k] = 1)
  <2>1. \A j \in Key : \/ task[j] = None /\ dead[j] = 0
                       \/ task'[j] # None
                       \/ dead'[j] # 0
                       \/ Untouched(j[1]) => Wanted(j) = 0 \/ vec[j] = 1
    BY <1>2, <1>3
  <2> QED BY <1>1, <2>1, FirstDone
<1>4. CASE Fail(w, k) \/ DeadLetter(w, k) \/ AbandonLeases(w, {k})
  <2>1. task[k] = None /\ dead[k] # 0 => dead'[k] # 0
    <3>1. CASE DeadLetter(w, k)
      <4>1. dead'[k] = lease[w][k].attempts + 1 /\ lease[w][k].attempts \in Nat
        BY <3>1, Fields DEF DeadLetter, IInv, TypeOK
      <4> QED BY <4>1
    <3>2. CASE UNCHANGED dead
      BY <3>2
    <3> QED BY <1>4, <3>1, <3>2 DEF Fail, AbandonLeases
  <2>2. task[k] # None => task'[k] # None \/ dead'[k] # 0
    BY <1>4, OthersLeaveATrace
  <2>3. \A j \in Key : \/ task[j] = None /\ dead[j] = 0
                       \/ task'[j] # None
                       \/ dead'[j] # 0
    BY <1>2, <2>1, <2>2
  <2> QED BY <1>1, <2>3, FirstDone
<1> QED BY <1>3, <1>4

LEMMA FirstFetch ==
    ASSUME DrainTypeOK, IInv, FirstRead, NEW w \in Worker, FetchBatch(w)
    PROVE  FirstRead' /\ KeysStayCovered
<1>1. PICK S \in SUBSET Key : FetchReady(w, S) /\ Move(w, S, "leased")
  BY DEF FetchBatch
<1>2. UNCHANGED <<host, assets, vec, doc, dead>>
  BY <1>1 DEF FetchBatch, FetchReady, hostVars
<1>3. \A v \in Worker, k \in Key :
         stage'[v][k] = "leased" \/ stage'[v][k] = stage[v][k]
  BY <1>1, MoveEffect DEF Stage
<1>4. \A k \in Key : task[k] # None => task'[k] # None
  BY <1>1, FetchedKey DEF FetchReady, IInv
<1>5. \A k \in Key : \/ task[k] = None /\ dead[k] = 0
                     \/ task'[k] # None
                     \/ dead'[k] # 0
  BY <1>2, <1>4
<1> QED BY <1>2, <1>3, <1>5, FirstDone

LEMMA FirstDrop ==
    ASSUME DrainTypeOK, FirstRead, NEW w \in Worker, AbortBatch(w)
    PROVE  FirstRead' /\ KeysStayCovered
<1>1. UNCHANGED <<host, assets, vec, task, dead>>
  BY DEF AbortBatch, DropBatch, AbandonLeases, hostVars
<1>2. \A v \in Worker, k \in Key :
         \/ stage'[v][k] = "none"
         \/ stage'[v][k] = stage[v][k] /\ doc'[v][k] = doc[v][k]
  BY MoveEffect DEF AbortBatch, DropBatch, DrainTypeOK, Stage
<1> QED BY <1>1, <1>2, FirstDone

LEMMA FirstEmpty ==
    ASSUME DrainTypeOK, IInv, FirstRead, NEW w \in Worker, NEW k \in Key,
           CompleteEmpty(w, k)
    PROVE  FirstRead' /\ KeysStayCovered
<1>1. stage[w][k] = "ready" /\ doc[w][k] = 0
  BY DEF CompleteEmpty, Empty, At
<1>2. Untouched(k[1]) => Wanted(k) = 0
  BY <1>1 DEF FirstRead, DocFirst
<1> QED BY <1>2, FirstRecord DEF CompleteEmpty, hostVars

LEMMA FirstResult ==
    ASSUME DrainTypeOK, IInv, FirstRead, NEW w \in Worker, NEW C \in calls[w],
           NEW k \in Key, HandleTaskResult(w, C, k)
    PROVE  FirstRead' /\ KeysStayCovered
<1>1. stage[w][k] = "stored" /\ Untouched(k[1]) => vec[k] = 1
  BY DEF FirstRead, DocFirst
<1>2. stage[w][k] = "failed" /\ NotFound(w, k) => ~Untouched(k[1])
  BY DEF NotFound, FirstRead, DocFirst, Pending
<1> QED BY <1>1, <1>2, FirstRecord DEF HandleTaskResult, Outcome, Succeeded, hostVars

(* However many workers drain, and whether or not their leases hold.       *)
LEMMA FirstWorkerStep ==
    ASSUME DrainTypeOK, IInv, FirstRead, NEW w \in Worker, WorkerStep(w)
    PROVE  FirstRead' /\ KeysStayCovered
<1>1. ASSUME NEW C \in SUBSET At(w, "ready"), Dispatch(w, C), Empty(w) = {}
      PROVE  FirstRead' /\ KeysStayCovered
  <2>1. \A v \in Worker, k \in Key :
           \/ stage[v][k] = "ready" /\ doc[v][k] # 0 /\ stage'[v][k] = "sent"
           \/ stage'[v][k] = stage[v][k]
    BY <1>1, SendEffect DEF Empty, At
  <2>2. UNCHANGED <<vars, hostVars, vec, doc>>
    BY <1>1 DEF Dispatch
  <2> QED BY <2>1, <2>2, FirstSend
<1>2. ASSUME NEW m \in Model, SendText(w, m)
      PROVE  FirstRead' /\ KeysStayCovered
  BY <1>1, <1>2 DEF SendText, TextReady, Dispatch
<1>3. ASSUME NEW k \in Key, SendVL(w, k)
      PROVE  FirstRead' /\ KeysStayCovered
  BY <1>1, <1>3 DEF SendVL, Dispatch
<1>4. ASSUME NEW C \in calls[w], Answer(w, C)
      PROVE  FirstRead' /\ KeysStayCovered
  BY <1>4, AnswerEffect, FirstSend
<1> QED BY <1>2, <1>3, <1>4, FirstFetch, FirstDrop, FirstBuild, FirstAssets, FirstEmpty,
           FirstStore, FirstResult
        DEF WorkerStep

--------------------------------------------------------------------------------
(* The passes of any number of loops.  Nothing deletes or empties what     *)
(* nobody edited, and what is built for it is version 1.                   *)
MarksTouch ==
    /\ edits # 0
    /\ \A e \in Entity : /\ gone[e] => host[e] = 0
                         /\ dirty[e] # None /\ dirty[e].deleted => gone[e]

LoopTouches(w) ==
    \A e \in Entity :
        /\ e \in Deleted(w) => ~Untouched(e)
        /\ \A x \in {"docs", "vecs", "tasks"} : Due(w, e, x) => e \in Deleted(w)
        /\ Untouched(e) => lex[w][e] \in {None, 1}

PassTouches == MarksTouch /\ \A w \in Worker : LoopTouches(w)

(* What a step must keep of the entities still untouched after it.         *)
FirstKept ==
    /\ FirstRead' /\ PassTouches'
    /\ \A e \in Entity : Untouched(e)' => /\ Untouched(e)
                                          /\ docs[e] = 1 => docs'[e] = 1
    /\ \A k \in Key : Untouched(k[1])' /\ KeyCovered(k) => KeyCovered(k)'

(* A step beside the drain: rows of untouched entities stay, vectors too.  *)
LEMMA FirstBeside ==
    ASSUME FirstRead, UNCHANGED <<host, assets, stage, doc, dead>>,
           \A k \in Key : Untouched(k[1]) =>
              vec'[k] = vec[k] /\ (task[k] # None => task'[k] # None)
    PROVE  FirstRead' /\ KeysStayCovered
<1>1. \A k \in Key : Wanted(k)' = Wanted(k) /\ (Untouched(k[1])' <=> Untouched(k[1]))
  BY DEF Wanted, IsVL, Untouched
<1>2. \A v \in Worker, k \in Key : Untouched(k[1]) => DocFirst(v, k)'
  BY <1>1 DEF FirstRead, DocFirst, IsVL
<1> QED BY <1>1, <1>2 DEF FirstRead, VecFirst, KeysStayCovered, KeyCovered

(* A step of one loop, seen by the passes.                                 *)
LEMMA PassStepTouches ==
    ASSUME PassTouches, NEW w \in Worker, UNCHANGED <<host, edits, gone>>,
           \A e \in Entity : dirty'[e] \in {None, dirty[e]},
           \A v \in Worker \ {w} : /\ phase'[v] = phase[v] /\ batch'[v] = batch[v]
                                   /\ todo'[v] = todo[v] /\ lex'[v] = lex[v],
           \A e \in Entity : /\ batch'[w][e] \in {None, batch[w][e], dirty[e]}
                             /\ lex'[w][e] \in {None, lex[w][e], host[e]},
           \A e \in Entity, x \in {"docs", "vecs", "tasks"} :
              Due(w, e, x)' => e \in Deleted(w)'
    PROVE  PassTouches'
<1>1. MarksTouch'
  BY DEF PassTouches, MarksTouch
<1>2. \A e \in Entity : Untouched(e)' <=> Untouched(e)
  BY DEF Untouched
<1>3. LoopTouches(w)'
  <2>1. \A e \in Entity : e \in Deleted(w)' => ~Untouched(e)
    BY DEF PassTouches, MarksTouch, LoopTouches, Deleted, InBatch, Untouched
  <2>2. \A e \in Entity : Untouched(e) => lex'[w][e] \in {None, 1}
    BY DEF PassTouches, LoopTouches, Untouched
  <2> QED BY <1>2, <2>1, <2>2 DEF LoopTouches
<1>4. ASSUME NEW v \in Worker \ {w}
      PROVE  LoopTouches(v)'
  <2>1. /\ Deleted(v)' = Deleted(v) /\ lex'[v] = lex[v]
        /\ \A e \in Entity, x \in {"docs", "vecs", "tasks"} : Due(v, e, x)' <=> Due(v, e, x)
    BY DEF Deleted, InBatch, Due
  <2> QED BY <1>2, <2>1 DEF PassTouches, LoopTouches
<1> QED BY <1>1, <1>3, <1>4 DEF PassTouches

LEMMA LoopsApart ==
    ASSUME SyncSide, NEW w \in Worker,
           \/ DirtyStep(w) \/ Drain(w) \/ NothingDue(w) \/ EndBackfill(w)
           \/ FailPass(w) \/ ListFails(w) \/ BuildPage(w) \/ DeleteBlankPage(w)
           \/ UNCHANGED passVars
    PROVE  \A v \in Worker \ {w} : /\ phase'[v] = phase[v] /\ batch'[v] = batch[v]
                                   /\ todo'[v] = todo[v] /\ lex'[v] = lex[v]
<1> USE DEF SyncSide, PassTypes
<1>1. CASE ReadDirty(w) \/ BuildLexicalString(w)
  BY <1>1 DEF ReadDirty, BuildLexicalString, Goto
<1>2. CASE UpsertSearchDocuments(w) \/ DeleteBlankDocuments(w)
  BY <1>2 DEF UpsertSearchDocuments, DeleteBlankDocuments, Goto
<1>3. CASE ClearDirty(w) \/ FailPass(w) \/ ListFails(w)
  BY <1>3 DEF ClearDirty, FailPass, ListFails, EndPass, Goto
<1>4. ASSUME NEW e \in Entity,
             \/ DeleteSearchDocuments(w, e) \/ DeleteEmbeddingVectors(w, e)
             \/ DeleteTasks(w, e)
      PROVE  \A v \in Worker \ {w} : /\ phase'[v] = phase[v] /\ batch'[v] = batch[v]
                                     /\ todo'[v] = todo[v] /\ lex'[v] = lex[v]
  BY <1>4 DEF DeleteSearchDocuments, DeleteEmbeddingVectors, DeleteTasks, Execute
<1>5. ASSUME NEW m \in Model, EnqueueModel(w, m)
      PROVE  \A v \in Worker \ {w} : /\ phase'[v] = phase[v] /\ batch'[v] = batch[v]
                                     /\ todo'[v] = todo[v] /\ lex'[v] = lex[v]
  BY <1>5 DEF EnqueueModel, Execute
<1>6. CASE Drain(w) \/ NothingDue(w) \/ EndBackfill(w)
  BY <1>6 DEF Drain, NothingDue, EndBackfill, Goto
<1>7. CASE BuildPage(w) \/ DeleteBlankPage(w) \/ UNCHANGED passVars
  BY <1>7 DEF BuildPage, DeleteBlankPage, passVars
<1> QED BY <1>1, <1>2, <1>3, <1>4, <1>5, <1>6, <1>7 DEF DirtyStep

(* The statements of a pass that touch neither documents nor the queue.    *)
LEMMA QuietPassKept ==
    ASSUME SyncSide, FirstRead, PassTouches, NEW w \in Worker,
           UNCHANGED <<drainVars, gone, docs>>, PassTouches'
    PROVE  FirstKept
<1>1. UNCHANGED <<host, assets, stage, doc, dead, vec, task>>
  BY DEF drainVars, vars, hostVars, workVars
<1>2. FirstRead' /\ KeysStayCovered
  BY <1>1, FirstBeside
<1>3. \A e \in Entity : Untouched(e)' <=> Untouched(e)
  BY <1>1 DEF Untouched
<1>4. \A k \in Key : k[1] \in Entity
  BY DEF Key
<1> QED BY <1>2, <1>3, <1>4 DEF FirstKept, KeysStayCovered

LEMMA ReadDirtyTouches ==
    ASSUME SyncSide, PassTouches, NEW w \in Worker, ReadDirty(w)
    PROVE  PassTouches'
<1>1. PICK S \in SUBSET Entity :
         LET read == S \ BlankKey
             del == {e \in read : dirty[e].deleted}
         IN
         /\ Oldest(S)
         /\ batch' = [batch EXCEPT ![w] =
               [e \in Entity |-> IF e \in read THEN dirty[e] ELSE None]]
         /\ IF read = {} THEN Goto(w, "backfill", {})
            ELSE Goto(w, "delete", del \X {"docs", "vecs", "tasks"})
  BY DEF ReadDirty, WithKeys
<1> DEFINE read == S \ BlankKey
           del == {e \in read : dirty[e].deleted}
<1>2. \A e \in Entity : batch'[w][e] = IF e \in read THEN dirty[e] ELSE None
  BY <1>1 DEF SyncSide, PassTypes
<1>3. \/ phase'[w] = "backfill"
      \/ todo'[w] = del \X {"docs", "vecs", "tasks"}
  BY <1>1, GotoEffect
<1>4. \A e \in Entity, x \in {"docs", "vecs", "tasks"} : Due(w, e, x)' => e \in Deleted(w)'
  <2>1. \A e \in read : dirty[e] # None
    BY <1>1 DEF Oldest, Dirty
  <2> QED BY <1>2, <1>3, <2>1 DEF Due, Deleted, InBatch
<1>5. UNCHANGED <<host, edits, gone, dirty, lex>>
  BY DEF ReadDirty, drainVars, hostVars, markVars
<1> QED BY <1>2, <1>4, <1>5, PassStepTouches, LoopsApart DEF DirtyStep

LEMMA NoDueElsewhere ==
    ASSUME NEW w \in Worker, phase'[w] # "delete"
    PROVE  \A e \in Entity, x \in {"docs", "vecs", "tasks"} :
              Due(w, e, x)' => e \in Deleted(w)'
  BY DEF Due

(* A statement that takes itself off the list, and changes no row read.    *)
LEMMA ExecuteTouches ==
    ASSUME SyncSide, PassTouches, NEW w \in Worker, NEW s, Execute(w, s),
           UNCHANGED <<host, edits, gone, dirty>>, DirtyStep(w)
    PROVE  PassTouches'
<1>1. UNCHANGED <<phase, batch, lex>> /\ todo'[w] = todo[w] \ {s}
  BY DEF Execute, SyncSide, PassTypes
<1>2. Deleted(w)' = Deleted(w)
  BY <1>1 DEF Deleted, InBatch
<1>3. \A e \in Entity, x \in {"docs", "vecs", "tasks"} : Due(w, e, x)' => e \in Deleted(w)'
  BY <1>1, <1>2 DEF Due, PassTouches, LoopTouches
<1> QED BY <1>1, <1>3, PassStepTouches, LoopsApart

LEMMA BuildTouches ==
    ASSUME SyncSide, PassTouches, NEW w \in Worker, BuildLexicalString(w)
    PROVE  PassTouches'
<1>1. UNCHANGED <<host, edits, gone, dirty, batch>>
  BY DEF BuildLexicalString, drainVars, hostVars, markVars
<1>2. \A e \in Entity : lex'[w][e] \in {None, host[e]}
  BY DEF BuildLexicalString, SyncSide, PassTypes
<1>3. phase'[w] # "delete"
  BY GotoEffect DEF BuildLexicalString
<1> QED BY <1>1, <1>2, <1>3, NoDueElsewhere, PassStepTouches, LoopsApart DEF DirtyStep

LEMMA NextTouches ==
    ASSUME SyncSide, PassTouches, NEW w \in Worker, NEW p \in Phase \ {"delete"},
           NEW S, Goto(w, p, S) \/ EndPass(w, p),
           UNCHANGED <<host, edits, gone>>,
           \A e \in Entity : dirty'[e] \in {None, dirty[e]},
           UNCHANGED <<batch, lex>> \/ EndPass(w, p)
    PROVE  PassTouches'
<1>1. phase'[w] # "delete"
  BY GotoEffect, EndPassEffect
<1>2. \A e \in Entity : /\ batch'[w][e] \in {None, batch[w][e]}
                        /\ lex'[w][e] \in {None, lex[w][e]}
  BY EndPassEffect
<1>3. \A v \in Worker \ {w} : /\ phase'[v] = phase[v] /\ batch'[v] = batch[v]
                              /\ todo'[v] = todo[v] /\ lex'[v] = lex[v]
  BY DEF Goto, EndPass, SyncSide, PassTypes
<1> QED BY <1>1, <1>2, <1>3, NoDueElsewhere, PassStepTouches

(* Steps that change documents, vectors or rows, but not of an untouched   *)
(* entity.                                                                 *)
LEMMA BesideKept ==
    ASSUME FirstRead, PassTouches', UNCHANGED <<host, assets, stage, doc, dead>>,
           \A k \in Key : Untouched(k[1]) =>
              vec'[k] = vec[k] /\ (task[k] # None => task'[k] # None),
           \A e \in Entity : Untouched(e) /\ docs[e] = 1 => docs'[e] = 1
    PROVE  FirstKept
<1>1. \A e \in Entity : Untouched(e)' <=> Untouched(e)
  BY DEF Untouched
<1>2. \A k \in Key : k[1] \in Entity
  BY DEF Key
<1> QED BY <1>1, <1>2, FirstBeside DEF FirstKept, KeysStayCovered

LEMMA DocumentsKept ==
    ASSUME SyncSide, FirstRead, PassTouches, NEW w \in Worker, UNCHANGED drainVars,
           PassTouches', docs' \in {UpsertedDocs(w), WithoutBlankDocs(w)}
    PROVE  FirstKept
<1>1. UNCHANGED <<host, assets, stage, doc, dead, vec, task>>
  BY DEF drainVars, vars, hostVars, workVars
<1>2. None # 0
  BY TaskQueueAssumption
<1>3. \A e \in Entity : Untouched(e) /\ docs[e] = 1 => docs'[e] = 1
  BY <1>2 DEF UpsertedDocs, WithoutBlankDocs, PassTouches, LoopTouches
<1> QED BY <1>1, <1>3, BesideKept

LEMMA RequestKept ==
    ASSUME IInv, FirstRead, PassTouches', UNCHANGED docs,
           NEW E \in SUBSET Entity, NEW m \in Model, Request(E, m)
    PROVE  FirstKept
<1>1. \A k \in Key : task[k] # None => task'[k] # None
  BY RequestedHasTask
<1> QED BY <1>1, RequestedHasTask, BesideKept

LEMMA DirtyStepKept ==
    ASSUME SyncSide, IInv, FirstRead, PassTouches, NEW w \in Worker, DirtyStep(w)
    PROVE  FirstKept
<1>1. CASE ReadDirty(w)
  BY <1>1, ReadDirtyTouches, QuietPassKept DEF ReadDirty, markVars
<1>2. CASE BuildLexicalString(w)
  BY <1>2, BuildTouches, QuietPassKept DEF BuildLexicalString, markVars
<1>3. CASE UpsertSearchDocuments(w)
  <2>1. PassTouches'
    BY <1>3, NextTouches DEF UpsertSearchDocuments, drainVars, hostVars, Phase
  <2> QED BY <1>3, <2>1, DocumentsKept DEF UpsertSearchDocuments
<1>4. CASE DeleteBlankDocuments(w)
  <2>1. PassTouches'
    BY <1>4, NextTouches DEF DeleteBlankDocuments, drainVars, hostVars, Phase
  <2> QED BY <1>4, <2>1, DocumentsKept DEF DeleteBlankDocuments
<1>5. CASE ClearDirty(w)
  <2>1. \A e \in Entity : dirty'[e] \in {None, dirty[e]}
    BY <1>5 DEF ClearDirty
  <2>2. PassTouches'
    BY <1>5, <2>1, NextTouches DEF ClearDirty, drainVars, hostVars, Phase
  <2> QED BY <1>5, <2>2, QuietPassKept DEF ClearDirty
<1>6. ASSUME NEW e \in Entity, DeleteSearchDocuments(w, e)
      PROVE  FirstKept
  <2>1. Execute(w, <<e, "docs">>) /\ phase[w] = "delete" /\ UNCHANGED drainVars
    BY <1>6 DEF DeleteSearchDocuments
  <2>2. ~Untouched(e)
    BY <2>1 DEF Execute, PassTouches, LoopTouches, Due
  <2>3. PassTouches'
    BY <1>6, <2>1, ExecuteTouches DEF DeleteSearchDocuments, DirtyStep, drainVars, hostVars
  <2>4. \A f \in Entity : f # e => docs'[f] = docs[f]
    BY <1>6 DEF DeleteSearchDocuments, SyncSide, MarkTypes
  <2> QED BY <2>1, <2>2, <2>3, <2>4, BesideKept DEF drainVars, vars, hostVars, workVars
<1>7. ASSUME NEW e \in Entity, DeleteEmbeddingVectors(w, e)
      PROVE  FirstKept
  <2>1. Execute(w, <<e, "vecs">>) /\ phase[w] = "delete"
    BY <1>7 DEF DeleteEmbeddingVectors
  <2>2. ~Untouched(e)
    BY <2>1 DEF Execute, PassTouches, LoopTouches, Due
  <2>3. UNCHANGED <<host, edits, assets, stage, doc, dead, task, gone, dirty, docs>>
    BY <1>7 DEF DeleteEmbeddingVectors, vars, hostVars, workVars, markVars
  <2>4. PassTouches'
    BY <1>7, <2>1, <2>3, ExecuteTouches DEF DirtyStep
  <2>5. \A k \in Key : k[1] # e => vec'[k] = vec[k]
    BY <1>7 DEF DeleteEmbeddingVectors
  <2> QED BY <2>2, <2>3, <2>4, <2>5, BesideKept
<1>8. ASSUME NEW e \in Entity, DeleteTasks(w, e)
      PROVE  FirstKept
  <2>1. Execute(w, <<e, "tasks">>) /\ phase[w] = "delete"
    BY <1>8 DEF DeleteTasks
  <2>2. ~Untouched(e)
    BY <2>1 DEF Execute, PassTouches, LoopTouches, Due
  <2>3. UNCHANGED <<host, edits, assets, stage, doc, dead, vec, gone, dirty, docs>>
    BY <1>8 DEF DeleteTasks, DeleteAllForEntity, DeleteRows, hostVars, workVars, markVars
  <2>4. PassTouches'
    BY <1>8, <2>1, <2>3, ExecuteTouches DEF DirtyStep
  <2>5. \A k \in Key : k[1] # e => task'[k] = task[k]
    BY <1>8 DEF DeleteTasks, DeleteAllForEntity, DeleteRows, Key
  <2> QED BY <2>2, <2>3, <2>4, <2>5, BesideKept
<1>9. ASSUME NEW m \in Model, EnqueueModel(w, m)
      PROVE  FirstKept
  <2>1. Execute(w, m) /\ Request(Live(w), m) /\ UNCHANGED <<dirty, gone, docs>>
    BY <1>9 DEF EnqueueModel, markVars
  <2>2. Live(w) \in SUBSET Entity
    BY PassRows
  <2>3. PassTouches'
    BY <1>9, <2>1, ExecuteTouches DEF Request, DirtyStep
  <2> QED BY <2>1, <2>2, <2>3, RequestKept
<1> QED BY <1>1, <1>2, <1>3, <1>4, <1>5, <1>6, <1>7, <1>8, <1>9 DEF DirtyStep

LEMMA DrainStepKept ==
    ASSUME SyncSide, IInv, FirstRead, PassTouches, NEW w \in Worker,
           Drain(w) \/ NothingDue(w) \/ EndBackfill(w)
    PROVE  FirstKept
<1>1. CASE Drain(w)
  <2>1. FirstRead' /\ KeysStayCovered
    BY <1>1, FirstWorkerStep DEF Drain, SyncSide, DrainSide
  <2>2. UNCHANGED <<host, edits, gone, dirty, docs, batch, lex>>
    BY <1>1, WorkerStepLeavesHost DEF Drain
  <2>3. phase'[w] # "delete"
    BY <1>1 DEF Drain, SyncSide, PassTypes
  <2>4. PassTouches'
    BY <1>1, <2>2, <2>3, NoDueElsewhere, PassStepTouches, LoopsApart
  <2>5. \A e \in Entity : Untouched(e)' <=> Untouched(e)
    BY <2>2 DEF Untouched
  <2>6. \A k \in Key : k[1] \in Entity
    BY DEF Key
  <2> QED BY <2>1, <2>2, <2>4, <2>5, <2>6 DEF FirstKept, KeysStayCovered
<1>2. CASE NothingDue(w) \/ EndBackfill(w)
  <2>1. UNCHANGED <<drainVars, dirty, gone, docs, batch, lex>>
    BY <1>2 DEF NothingDue, EndBackfill, markVars
  <2>2. PassTouches'
    BY <1>2, <2>1, NextTouches DEF NothingDue, EndBackfill, drainVars, hostVars, Phase
  <2> QED BY <2>1, <2>2, QuietPassKept
<1> QED BY <1>1, <1>2

LEMMA StopKept ==
    ASSUME SyncSide, FirstRead, PassTouches, NEW w \in Worker, EndPass(w, "idle"),
           UNCHANGED <<drainVars, markVars>>
    PROVE  FirstKept
<1>1. PassTouches'
  BY NextTouches DEF drainVars, hostVars, markVars, Phase
<1> QED BY <1>1, QuietPassKept DEF markVars

(* After the first edit of an entity nothing is claimed of it any more.    *)
LEMMA EditKept ==
    ASSUME SyncSide, FirstRead, PassTouches, NEW e \in Entity, MarkDirty(e)
    PROVE  FirstKept
<1>1. /\ HostEdit(e)
      /\ UNCHANGED <<docs, phase, batch, todo, lex>>
  BY DEF MarkDirty, passVars
<1>2. edits \in Nat /\ edits' = edits + 1 /\ edits # 0
  BY <1>1, EditKeepsDrain, EmbedDrainAssumption
  DEF SyncSide, DrainSide, DrainTypeOK, PassTouches, MarksTouch
<1>3. PICK v \in {0, edits + 1} : host' = [host EXCEPT ![e] = v]
  BY <1>1 DEF HostEdit
<1>4. PICK d \in BOOLEAN : /\ d => host'[e] = 0
                           /\ gone' = [gone EXCEPT ![e] = d]
                           /\ dirty' = [dirty EXCEPT ![e] = NewMark(d)]
  BY DEF MarkDirty
<1>5. \A f \in Entity : /\ host'[f] = IF f = e THEN v ELSE host[f]
                        /\ gone'[f] = IF f = e THEN d ELSE gone[f]
                        /\ dirty'[f] = IF f = e THEN NewMark(d) ELSE dirty[f]
  BY <1>3, <1>4 DEF SyncSide, DrainSide, DrainTypeOK, MarkTypes
<1>6. v # 1
  BY <1>2, <1>3
<1>7. \A f \in Entity : Untouched(f)' <=> f # e /\ Untouched(f)
  BY <1>5, <1>6 DEF Untouched
<1>8. UNCHANGED <<task, dead, vec, stage, doc>>
  BY <1>1 DEF HostEdit, vars, workVars
<1>9. \A k \in Key : k[1] \in Entity /\ (k[1] # e => Wanted(k)' = Wanted(k))
  BY <1>1, <1>5 DEF HostEdit, Wanted, IsVL, Key, SyncSide, DrainSide, DrainTypeOK
<1>10. FirstRead'
  <2>1. \A w \in Worker, k \in Key : Untouched(k[1])' => DocFirst(w, k)'
    BY <1>7, <1>8, <1>9 DEF FirstRead, DocFirst, IsVL
  <2> QED BY <1>7, <1>8, <1>9, <2>1 DEF FirstRead, VecFirst
<1>11. MarksTouch'
  BY <1>2, <1>4, <1>5 DEF PassTouches, MarksTouch, NewMark
<1>12. \A w \in Worker : LoopTouches(w)'
  <2>1. \A w \in Worker : /\ Deleted(w)' = Deleted(w)
                          /\ \A f \in Entity, x \in {"docs", "vecs", "tasks"} :
                                Due(w, f, x)' <=> Due(w, f, x)
    BY <1>1 DEF Deleted, InBatch, Due
  <2> QED BY <1>1, <1>7, <2>1 DEF PassTouches, LoopTouches
<1> QED BY <1>1, <1>7, <1>8, <1>9, <1>10, <1>11, <1>12
        DEF FirstKept, PassTouches, KeyCovered

LEMMA ExpiryKept ==
    ASSUME IInv, FirstRead, PassTouches, NEW k \in Key, DrainExpire(k),
           UNCHANGED <<markVars, passVars>>
    PROVE  FirstKept
<1>1. /\ UNCHANGED <<dirty, gone, docs, phase, batch, todo, lex>>
      /\ UNCHANGED <<host, assets, edits, vec, stage, doc, dead>>
  BY DEF markVars, passVars, DrainExpire, Expire, hostVars, workVars
<1>2. \A j \in Key : task[j] # None => task'[j] # None
  <2>1. [task[k] EXCEPT !.due = TRUE] \in Row
    BY DEF DrainExpire, Expire, IInv, TypeOK, Row
  <2> QED BY <2>1, TaskQueueAssumption DEF DrainExpire, Expire, IInv, TypeOK
<1>3. PassTouches'
  BY <1>1 DEF PassTouches, MarksTouch, LoopTouches, Deleted, InBatch, Due, Untouched
<1> QED BY <1>1, <1>2, <1>3, BesideKept

--------------------------------------------------------------------------------
(* Pages and cursors.  A page is responsible for the entities it has put   *)
(* behind it; when it is saved there is nothing left to do for them.       *)
Behind(p, e) == p.last \/ e <= p.cursor

Covered(M, t, e) ==
    IF t = Lexical THEN docs[e] = 1 ELSE t \in M => KeyCovered(<<e, t>>)

OnItsWay(p, e) == p.at \in {"listed", "upsert", "enqueue"} /\ e \in p.ids

PageCovers(w, M) ==
    page[w] # None =>
        /\ phase[w] = "backfill"
        /\ page[w].at = "cursor" => ~page[w].last
        /\ page[w].at = "upsert" => page[w].target = Lexical
        /\ \A e \in Entity : Untouched(e) =>
              /\ Behind(page[w], e) => Covered(M, page[w].target, e) \/ OnItsWay(page[w], e)
              /\ page[w].at = "upsert" /\ e \in page[w].ids => lex[w][e] = 1

CursorCovers(M) ==
    \A t \in Target, e \in Entity : Untouched(e) /\ Passed(t, e) => Covered(M, t, e)

CoverInv(M) ==
    FirstRead /\ PassTouches /\ CursorCovers(M) /\ \A w \in Worker : PageCovers(w, M)

LEMMA CoveredStays ==
    ASSUME NEW M, FirstKept, NEW t \in Target, NEW e \in Entity, Untouched(e)',
           Covered(M, t, e)
    PROVE  Covered(M, t, e)'
<1>1. CASE t = Lexical
  BY <1>1 DEF FirstKept, Covered
<1>2. CASE t # Lexical
  <2>1. <<e, t>> \in Key
    BY <1>2 DEF Key, Target
  <2> QED BY <1>2, <2>1 DEF FirstKept, Covered
<1> QED BY <1>1, <1>2

LEMMA PageStays ==
    ASSUME NEW M, TickTypes, FirstKept, NEW v \in Worker, PageCovers(v, M),
           page'[v] = page[v],
           page[v] = None \/ (phase'[v] = phase[v] /\ lex'[v] = lex[v])
    PROVE  PageCovers(v, M)'
<1>1. CASE page[v] = None
  BY <1>1 DEF PageCovers
<1>2. CASE page[v] # None
  <2>1. page[v].target \in Target
    BY <1>2, PageFields
  <2>2. ASSUME NEW e \in Entity, Untouched(e)', Behind(page[v], e)
        PROVE  Covered(M, page[v].target, e)' \/ OnItsWay(page[v], e)
    BY <1>2, <2>1, <2>2, CoveredStays DEF PageCovers, FirstKept
  <2> QED BY <1>2, <2>2 DEF PageCovers, Behind, Covered, OnItsWay, FirstKept
<1> QED BY <1>1, <1>2

LEMMA CursorStays ==
    ASSUME NEW M, FirstKept, CursorCovers(M),
           \A t \in Target, e \in Entity :
              Untouched(e) /\ Passed(t, e)' => Passed(t, e) \/ Covered(M, t, e)
    PROVE  CursorCovers(M)'
<1> SUFFICES ASSUME NEW t \in Target, NEW e \in Entity, Untouched(e)', Passed(t, e)'
             PROVE  Covered(M, t, e)'
  BY DEF CursorCovers
<1>1. Untouched(e)
  BY DEF FirstKept
<1> QED BY <1>1, CoveredStays DEF CursorCovers

LEMMA OnePage ==
    ASSUME NEW M, TickTypes, CoverInv(M), FirstKept, NEW w \in Worker,
           CursorCovers(M)', PageCovers(w, M)',
           \A v \in Worker \ {w} : /\ page'[v] = page[v]
                                   /\ phase'[v] = phase[v] /\ lex'[v] = lex[v]
    PROVE  CoverInv(M)'
<1>1. \A v \in Worker \ {w} : PageCovers(v, M)'
  BY PageStays DEF CoverInv
<1> QED BY <1>1 DEF CoverInv, FirstKept

(* A page that ends, with its tick or without it.                          *)
LEMMA NoPageCovers ==
    ASSUME NEW M, NEW w \in Worker, page'[w] = None
    PROVE  PageCovers(w, M)'
  BY DEF PageCovers

LEMMA SameSyncKept ==
    ASSUME SyncSide, FirstRead, PassTouches, UNCHANGED syncVars
    PROVE  FirstKept
<1>1. UNCHANGED <<host, edits, assets, stage, doc, dead, vec, task, gone, dirty, docs,
                  phase, batch, todo, lex>>
  BY DEF syncVars, drainVars, vars, hostVars, workVars, markVars, passVars
<1>2. PassTouches'
  BY <1>1 DEF PassTouches, MarksTouch, LoopTouches, Deleted, InBatch, Due, Untouched
<1> QED BY <1>1, <1>2, BesideKept

LEMMA ReadCursorCovers ==
    ASSUME NEW M, SyncSide, TickTypes, CoverInv(M), NEW w \in Worker, NEW t \in Target,
           ReadCursor(w, t)
    PROVE  CoverInv(M)'
<1>1. FirstKept /\ UNCHANGED <<docs, vec, task, dead, host, phase, lex>>
  BY SameSyncKept
  DEF ReadCursor, CoverInv, syncVars, drainVars, vars, hostVars, markVars, passVars
<1>2. \A e \in Entity : 0 \in Nat /\ e \in Nat /\ ~(e <= 0)
  BY BackfillAssumption
<1>3. /\ progress' = [progress EXCEPT ![t] = Ensured(t)]
      /\ phase[w] = "backfill" /\ page[w] = None
  BY DEF ReadCursor
<1>4. \A u \in Target : progress'[u] = IF u = t THEN Ensured(t) ELSE progress[u]
  BY <1>3 DEF TickTypes
<1>5. \A e \in Entity : e <= Ensured(t).cursor => Passed(t, e)
  BY <1>2 DEF Ensured, Passed
<1>6. \A u \in Target, e \in Entity : Passed(u, e)' => Passed(u, e)
  BY <1>4, <1>5 DEF Passed, Ensured
<1>7. CursorCovers(M)'
  BY <1>1, <1>6, CursorStays DEF CoverInv
<1>8. PageCovers(w, M)'
  <2>1. CASE UNCHANGED page
    BY <1>3, <2>1, NoPageCovers
  <2>2. CASE ~UNCHANGED page
    <3> DEFINE p == [target |-> t, ids |-> {}, last |-> FALSE,
                     cursor |-> Ensured(t).cursor, at |-> "cursor"]
    <3>1. page'[w] = p
      BY <2>2 DEF ReadCursor, TickTypes
    <3>2. ASSUME NEW e \in Entity, Untouched(e)', Behind(p, e)
          PROVE  Covered(M, t, e)'
      <4>1. Passed(t, e) /\ Untouched(e)
        BY <1>1, <1>5, <3>2 DEF Behind, FirstKept
      <4> QED BY <1>1, <3>2, <4>1, CoveredStays DEF CoverInv, CursorCovers
    <3> HIDE DEF p
    <3>3. p.target = t /\ p.at = "cursor" /\ ~p.last
      BY DEF p
    <3> QED BY <1>1, <1>3, <3>1, <3>2, <3>3 DEF PageCovers, Behind, Covered
  <2> QED BY <2>1, <2>2
<1>9. \A v \in Worker \ {w} : page'[v] = page[v]
  BY DEF ReadCursor, TickTypes
<1> QED BY <1>1, <1>7, <1>8, <1>9, OnePage

(* The page after the cursor: everybody up to its last id is in it.        *)
LEMMA ListedBehind ==
    ASSUME TickTypes, NEW w \in Worker, List(w), NEW e \in Entity, host[e] # 0,
           ~(e <= page[w].cursor), Behind(page'[w], e)
    PROVE  OnItsWay(page'[w], e)
<1> DEFINE c == page[w].cursor
           p == [target |-> page[w].target, cursor |-> NextCursor(c),
                 ids |-> Listed(c), last |-> Listed(c) = After(c),
                 at |-> IF Listed(c) = {} THEN "save" ELSE "listed"]
<1>1. page'[w] = p
  BY DEF List, TickTypes
<1>2. e \in After(c)
  <2>1. page[w].cursor \in Cursor
    BY PageFields DEF List, OnPage
  <2>2. Cursor \subseteq Nat /\ Entity \subseteq Nat
    BY BackfillAssumption DEF Cursor
  <2>3. PICK d \in Nat : d = page[w].cursor
    BY <2>1, <2>2
  <2>4. e > d
    BY <2>2, <2>3
  <2> QED BY <2>3, <2>4 DEF After
<1>3. e \in Listed(c)
  <2>1. CASE p.last
    BY <1>2, <2>1
  <2>2. CASE e <= NextCursor(c)
    <3>1. NextCursor(c) \in Listed(c)
      BY <2>2, ListedPage
    <3> QED BY <1>2, <2>2, <3>1, ListedPage
  <2> QED BY <1>1, <2>1, <2>2 DEF Behind
<1> QED BY <1>1, <1>3 DEF OnItsWay

LEMMA ListCovers ==
    ASSUME NEW M, SyncSide, TickTypes, CoverInv(M), NEW w \in Worker, List(w)
    PROVE  CoverInv(M)'
<1> DEFINE c == page[w].cursor
           p == [target |-> page[w].target, cursor |-> NextCursor(c),
                 ids |-> Listed(c), last |-> Listed(c) = After(c),
                 at |-> IF Listed(c) = {} THEN "save" ELSE "listed"]
<1>1. FirstKept /\ UNCHANGED <<docs, vec, task, dead, host, phase, lex, progress>>
  BY SameSyncKept
  DEF List, CoverInv, syncVars, drainVars, vars, hostVars, markVars, passVars
<1>2. /\ phase[w] = "backfill" /\ page[w] # None
      /\ page[w].at = "cursor" /\ ~page[w].last
  BY DEF List, OnPage, CoverInv, PageCovers
<1>3. page'[w] = p /\ \A v \in Worker \ {w} : page'[v] = page[v]
  BY DEF List, TickTypes
<1>4. page[w].target \in Target /\ c \in Nat /\ \A e \in Entity : e \in Nat
  <2>1. page[w].target \in Target /\ page[w].cursor \in Cursor
    BY <1>2, PageFields
  <2>2. Cursor \subseteq Nat /\ Entity \subseteq Nat
    BY BackfillAssumption DEF Cursor
  <2> QED BY <2>1, <2>2
<1>5. ASSUME NEW e \in Entity, Untouched(e), Behind(p, e)
      PROVE  Covered(M, page[w].target, e) \/ OnItsWay(p, e)
  <2>1. CASE e <= c
    BY <1>2, <1>5, <2>1 DEF CoverInv, PageCovers, Behind, OnItsWay
  <2>2. CASE ~(e <= c)
    <3>1. page'[w] = p /\ host[e] # 0
      BY <1>3, <1>5 DEF Untouched
    <3> HIDE DEF p
    <3> QED BY <1>5, <2>2, <3>1, ListedBehind
  <2> QED BY <2>1, <2>2
<1>6. p.at \notin {"cursor", "upsert"}
  OBVIOUS
<1>7. PageCovers(w, M)'
  <2>1. PICK t \in Target : t = page[w].target
    BY <1>4
  <2>2. PICK q : q = p
    OBVIOUS
  <2>3. page'[w] = q /\ q.target = t /\ q.at \notin {"cursor", "upsert"}
    BY <1>3, <1>6, <2>1, <2>2
  <2>4. ASSUME NEW e \in Entity, Untouched(e), Behind(q, e)
        PROVE  Covered(M, t, e) \/ OnItsWay(q, e)
    BY <1>5, <2>1, <2>2, <2>4
  <2>5. ASSUME NEW e \in Entity, Untouched(e)', Behind(q, e)
        PROVE  Covered(M, t, e)' \/ OnItsWay(q, e)
    BY <1>1, <2>4, <2>5, CoveredStays DEF FirstKept
  <2>6. phase'[w] = "backfill"
    BY <1>1, <1>2
  <2> HIDE DEF p
  <2> QED BY <2>3, <2>5, <2>6 DEF PageCovers, Behind, Covered, OnItsWay
<1>8. CursorCovers(M)'
  BY <1>1, CursorStays DEF Passed, CoverInv
<1> QED BY <1>1, <1>3, <1>7, <1>8, OnePage

(* Moving on within a page, if the step covers what the next one does not  *)
(* speak of any more.                                                      *)
LEMMA MoveOnCovers ==
    ASSUME NEW M, TickTypes, CoverInv(M), FirstKept, NEW w \in Worker, page[w] # None,
           NEW at \in {"upsert", "blank", "save"}, ToStep(w, at),
           NEW t \in Target, t = page[w].target,
           phase'[w] = phase[w], UNCHANGED progress,
           \A v \in Worker \ {w} : phase'[v] = phase[v] /\ lex'[v] = lex[v],
           at = "upsert" => t = Lexical /\ page[w].at = "listed",
           \A e \in Entity : Untouched(e) /\ OnItsWay(page[w], e) =>
              IF at = "upsert" THEN lex'[w][e] = 1 ELSE Covered(M, t, e)'
    PROVE  CoverInv(M)'
<1>1. /\ page'[w] = [page[w] EXCEPT !.at = at]
      /\ \A v \in Worker \ {w} : page'[v] = page[v]
  BY DEF ToStep, TickTypes
<1>2. PICK p, q : p = page[w] /\ q = page'[w]
  OBVIOUS
<1>3. /\ q.target = t /\ q.cursor = p.cursor /\ q.ids = p.ids
      /\ q.last = p.last /\ q.at = at /\ p.target = t
  BY <1>1, <1>2 DEF TickTypes, Page
<1>4. ASSUME NEW e \in Entity, Untouched(e)', Behind(p, e)
      PROVE  Covered(M, t, e)' \/ OnItsWay(q, e)
  <2>1. CASE Covered(M, t, e)
    BY <1>4, <2>1, CoveredStays
  <2>2. CASE OnItsWay(p, e)
    BY <1>2, <1>3, <1>4, <2>2 DEF FirstKept, OnItsWay
  <2> QED BY <1>2, <1>4, <2>1, <2>2 DEF CoverInv, PageCovers, FirstKept
<1>5. ASSUME NEW e \in Entity, Untouched(e)', at = "upsert", e \in p.ids
      PROVE  lex'[w][e] = 1
  BY <1>2, <1>5 DEF OnItsWay, FirstKept
<1>6. phase'[w] = "backfill"
  BY DEF CoverInv, PageCovers
<1>7. PageCovers(w, M)'
  BY <1>2, <1>3, <1>4, <1>5, <1>6 DEF PageCovers, Behind, Covered, OnItsWay
<1>8. CursorCovers(M)'
  BY CursorStays DEF Passed, CoverInv
<1> QED BY <1>1, <1>7, <1>8, OnePage

LEMMA BuildPageCovers ==
    ASSUME NEW M, SyncSide, TickTypes, CoverInv(M), NEW w \in Worker, BuildPage(w)
    PROVE  CoverInv(M)'
<1>1. /\ page[w] # None /\ page[w].at = "listed" /\ page[w].target = Lexical
      /\ ToStep(w, "upsert") /\ phase[w] = "backfill"
      /\ UNCHANGED <<drainVars, dirty, gone, docs, phase, batch, todo, progress>>
  BY DEF BuildPage, OnPage, markVars
<1>2. PICK given \in SUBSET page[w].ids :
         /\ \A e \in page[w].ids \ given : host[e] = 0
         /\ lex' = [lex EXCEPT ![w] =
               [e \in Entity |-> IF e \in given THEN host[e] ELSE None]]
  BY DEF BuildPage
<1>3. \A e \in Entity : lex'[w][e] = IF e \in given THEN host[e] ELSE None
  BY <1>2 DEF SyncSide, PassTypes
<1>4. \A v \in Worker \ {w} : /\ phase'[v] = phase[v] /\ batch'[v] = batch[v]
                              /\ todo'[v] = todo[v] /\ lex'[v] = lex[v]
  BY LoopsApart
<1>5. PassTouches'
  BY <1>1, <1>3, <1>4, NoDueElsewhere, PassStepTouches DEF CoverInv, drainVars, hostVars
<1>6. FirstKept
  BY <1>1, <1>5, QuietPassKept DEF CoverInv
<1>7. \A e \in Entity : Untouched(e) /\ OnItsWay(page[w], e) => lex'[w][e] = 1
  BY <1>2, <1>3 DEF OnItsWay, Untouched
<1> QED BY <1>1, <1>4, <1>6, <1>7, MoveOnCovers DEF Target

LEMMA UpsertPageCovers ==
    ASSUME NEW M, SyncSide, TickTypes, CoverInv(M), NEW w \in Worker, UpsertPage(w)
    PROVE  CoverInv(M)'
<1>1. /\ page[w] # None /\ page[w].at = "upsert" /\ page[w].target = Lexical
      /\ ToStep(w, "blank") /\ docs' = UpsertedDocs(w)
      /\ UNCHANGED <<drainVars, dirty, gone, phase, batch, todo, lex, progress>>
  BY DEF UpsertPage, OnPage, passVars, CoverInv, PageCovers
<1>2. PassTouches'
  BY <1>1
  DEF CoverInv, PassTouches, MarksTouch, LoopTouches, Deleted, InBatch, Due, Untouched,
      drainVars, hostVars
<1>3. FirstKept
  BY <1>1, <1>2, DocumentsKept DEF CoverInv
<1>4. None # 1
  BY TaskQueueAssumption
<1>5. \A e \in Entity : Untouched(e) /\ OnItsWay(page[w], e) => docs'[e] = 1
  BY <1>1, <1>4 DEF OnItsWay, CoverInv, PageCovers, UpsertedDocs
<1> QED BY <1>1, <1>3, <1>5, MoveOnCovers DEF Target, Covered

LEMMA DeleteBlankPageCovers ==
    ASSUME NEW M, SyncSide, TickTypes, CoverInv(M), NEW w \in Worker, DeleteBlankPage(w)
    PROVE  CoverInv(M)'
<1>1. /\ page[w] # None /\ page[w].at = "blank" /\ phase[w] = "backfill"
      /\ ToStep(w, "save") /\ docs' = WithoutBlankDocs(w)
      /\ UNCHANGED <<drainVars, dirty, gone, phase, batch, todo, progress>>
  BY DEF DeleteBlankPage, OnPage
<1>2. \A v \in Worker \ {w} : /\ phase'[v] = phase[v] /\ batch'[v] = batch[v]
                              /\ todo'[v] = todo[v] /\ lex'[v] = lex[v]
  BY LoopsApart
<1>3. \A e \in Entity : lex'[w][e] = None
  BY DEF DeleteBlankPage, NoRows, SyncSide, PassTypes
<1>4. PassTouches'
  BY <1>1, <1>2, <1>3, NoDueElsewhere, PassStepTouches DEF CoverInv, drainVars, hostVars
<1>5. FirstKept
  BY <1>1, <1>4, DocumentsKept DEF CoverInv
<1> QED BY <1>1, <1>2, <1>5, PageFields, MoveOnCovers DEF OnItsWay

LEMMA EnqueuePageCovers ==
    ASSUME NEW M, SyncSide, IInv, PageInv, TickTypes, CoverInv(M), NEW w \in Worker,
           EnqueuePage(w)
    PROVE  CoverInv(M)'
<1>1. /\ page[w] # None /\ page[w].at = "enqueue" /\ ToStep(w, "save")
      /\ Request(page[w].ids, page[w].target)
      /\ UNCHANGED <<dirty, gone, docs, phase, batch, todo, lex, progress>>
  BY DEF EnqueuePage, OnPage, markVars, passVars
<1>2. PICK E \in SUBSET Entity, m \in Model : E = page[w].ids /\ m = page[w].target
  BY <1>1 DEF PageInv, PageOK
<1>3. /\ UNCHANGED <<host, edits>>
      /\ \A k \in E \X {m} : task'[k] # None
  BY <1>1, <1>2, RequestedHasTask
<1>4. PassTouches'
  BY <1>1, <1>3
  DEF CoverInv, PassTouches, MarksTouch, LoopTouches, Deleted, InBatch, Due, Untouched
<1>5. FirstKept
  BY <1>1, <1>2, <1>4, RequestKept DEF CoverInv
<1>6. \A e \in Entity : OnItsWay(page[w], e) => Covered(M, m, e)'
  BY <1>1, <1>2, <1>3, BackfillAssumption DEF OnItsWay, Covered, KeyCovered
<1> QED BY <1>1, <1>2, <1>5, <1>6, MoveOnCovers DEF Target

(* What already has a vector needs no task: it is version 1's.             *)
LEMMA FilterCovers ==
    ASSUME NEW M, SyncSide, TickTypes, CoverInv(M), NEW w \in Worker,
           FilterMissingEmbeddings(w)
    PROVE  CoverInv(M)'
<1> DEFINE missing == Missing(page[w].target, page[w].ids)
           p == [target |-> page[w].target, cursor |-> page[w].cursor,
                 ids |-> missing, last |-> page[w].last,
                 at |-> IF missing = {} THEN "save" ELSE "enqueue"]
<1>1. FirstKept /\ UNCHANGED <<phase, lex, progress>>
  BY SameSyncKept DEF FilterMissingEmbeddings, CoverInv, syncVars, passVars
<1>2. /\ phase[w] = "backfill" /\ page[w] # None
      /\ page[w].at = "listed" /\ page[w].target \in Model
  BY DEF FilterMissingEmbeddings, OnPage
<1>3. page'[w] = p /\ \A v \in Worker \ {w} : page'[v] = page[v]
  BY DEF FilterMissingEmbeddings, TickTypes
<1>4. PICK t \in Model : t = page[w].target
  BY <1>2
<1>5. PICK q : q = p
  OBVIOUS
<1>6. /\ q.target = t /\ q.cursor = page[w].cursor /\ q.last = page[w].last
      /\ q.at \notin {"cursor", "upsert"} /\ page'[w] = q /\ q.ids = missing
      /\ missing # {} => q.at = "enqueue"
  BY <1>3, <1>4, <1>5
<1>7. ASSUME NEW e \in Entity, Untouched(e), Behind(q, e)
      PROVE  Covered(M, t, e) \/ OnItsWay(q, e)
  <2>1. Covered(M, t, e) \/ e \in page[w].ids
    BY <1>2, <1>4, <1>6, <1>7 DEF CoverInv, PageCovers, Behind, OnItsWay
  <2>2. CASE e \in missing
    BY <1>6, <2>2 DEF OnItsWay
  <2>3. CASE e \in page[w].ids \ missing
    <3>1. vec[<<e, t>>] = 1
      BY <1>4, <1>7, <2>3 DEF Missing, CoverInv, FirstRead, VecFirst, Key
    <3> QED BY <3>1, BackfillAssumption DEF Covered, KeyCovered
  <2> QED BY <2>1, <2>2, <2>3
<1>8. PageCovers(w, M)'
  <2>1. ASSUME NEW e \in Entity, Untouched(e)', Behind(q, e)
        PROVE  Covered(M, t, e)' \/ OnItsWay(q, e)
    BY <1>1, <1>7, <2>1, CoveredStays DEF FirstKept, Target
  <2>2. phase'[w] = "backfill"
    BY <1>1, <1>2
  <2> QED BY <1>6, <2>1, <2>2 DEF PageCovers, Behind, Covered, OnItsWay
<1>9. CursorCovers(M)'
  BY <1>1, CursorStays DEF Passed, CoverInv
<1> QED BY <1>1, <1>3, <1>8, <1>9, OnePage

(* A cursor that moves, moves past entities that are covered.              *)
LEMMA SaveCovers ==
    ASSUME NEW M, SyncSide, TickTypes, CoverInv(M), NEW w \in Worker,
           SavePage(w) \/ SaveFails(w)
    PROVE  CoverInv(M)'
<1>1. FirstKept /\ UNCHANGED <<phase, lex>> /\ page[w] # None /\ page[w].at = "save"
  BY SameSyncKept
  DEF SavePage, SaveFails, EndPage, Worked, OnPage, CoverInv, syncVars, passVars
<1>2. PICK t \in Target : t = page[w].target
  BY <1>1, PageFields
<1>3. \A e \in Entity : Untouched(e) /\ Behind(page[w], e) => Covered(M, t, e)
  BY <1>1, <1>2 DEF CoverInv, PageCovers, OnItsWay
<1>4. ASSUME NEW u \in Target, NEW e \in Entity, Untouched(e), Passed(u, e)'
      PROVE  Passed(u, e) \/ Covered(M, u, e)
  <2>1. CASE progress'[u] = progress[u]
    BY <1>4, <2>1 DEF Passed
  <2>2. CASE progress'[u] # progress[u]
    <3>1. /\ u = t
          /\ progress'[u] = [cursor |-> page[w].cursor,
                             state |-> IF page[w].last THEN "done" ELSE "running"]
      BY <1>2, <2>2 DEF SavePage, SaveFails, SaveProgress, UpdateState, TickTypes
    <3>2. Behind(page[w], e)
      BY <1>4, <3>1 DEF Passed, Behind
    <3> QED BY <1>3, <1>4, <3>1, <3>2
  <2> QED BY <2>1, <2>2
<1>5. CursorCovers(M)'
  BY <1>1, <1>4, CursorStays DEF CoverInv
<1>6. page'[w] = None /\ \A v \in Worker \ {w} : page'[v] = page[v]
  BY DEF SavePage, SaveFails, EndPage, TickTypes
<1> QED BY <1>1, <1>5, <1>6, NoPageCovers, OnePage

(* The end of a tick, regular or not.                                      *)
LEMMA EndTickCovers ==
    ASSUME NEW M, SyncSide, TickTypes, CoverInv(M), NEW w \in Worker, FirstKept,
           EndTick(w),
           \A v \in Worker \ {w} : phase'[v] = phase[v] /\ lex'[v] = lex[v],
           \A t \in Target, e \in Entity : Untouched(e) /\ Passed(t, e)' => Passed(t, e)
    PROVE  CoverInv(M)'
<1>1. page'[w] = None /\ \A v \in Worker \ {w} : page'[v] = page[v]
  BY DEF EndTick, TickTypes
<1>2. CursorCovers(M)'
  BY CursorStays DEF CoverInv
<1> QED BY <1>1, <1>2, NoPageCovers, OnePage

LEMMA FailsCovers ==
    ASSUME NEW M, SyncSide, TickTypes, CoverInv(M), NEW w \in Worker, Fails(w)
    PROVE  CoverInv(M)'
<1>1. EndPass(w, "idle") /\ UNCHANGED <<drainVars, markVars>> /\ EndTick(w)
  BY DEF Fails, FailPass, ListFails
<1>2. FirstKept
  BY <1>1, StopKept DEF CoverInv
<1>3. \A v \in Worker \ {w} : phase'[v] = phase[v] /\ lex'[v] = lex[v]
  BY LoopsApart DEF Fails
<1>4. ASSUME NEW u \in Target, NEW e \in Entity, Passed(u, e)'
      PROVE  Passed(u, e)
  <2>1. CASE progress'[u] = progress[u]
    BY <1>4, <2>1 DEF Passed
  <2>2. CASE progress'[u] # progress[u]
    <3>1. /\ progress[u] # None
          /\ progress'[u] = [cursor |-> progress[u].cursor, state |-> "failed"]
      BY <2>2 DEF Fails, ListFails, UpdateState, TickTypes
    <3> QED BY <1>4, <3>1 DEF Passed
  <2> QED BY <2>1, <2>2
<1> QED BY <1>1, <1>2, <1>3, <1>4, EndTickCovers

LEMMA FinishCovers ==
    ASSUME NEW M, SyncSide, IInv, TickTypes, CoverInv(M), NEW w \in Worker,
           FinishBackfill(w)
    PROVE  CoverInv(M)'
<1>1. FirstKept
  BY DrainStepKept DEF FinishBackfill, CoverInv
<1>2. \A v \in Worker \ {w} : phase'[v] = phase[v] /\ lex'[v] = lex[v]
  BY LoopsApart DEF FinishBackfill
<1> QED BY <1>1, <1>2, EndTickCovers DEF FinishBackfill, Passed

(* Steps beside the backfill: a loop in its dirty pass or drain has no     *)
(* page.                                                                   *)
LEMMA BesideCovers ==
    ASSUME NEW M, TickTypes, CoverInv(M), FirstKept, UNCHANGED <<progress, page>>,
           \A v \in Worker : page[v] = None \/ (phase'[v] = phase[v] /\ lex'[v] = lex[v])
    PROVE  CoverInv(M)'
<1>1. \A v \in Worker : PageCovers(v, M)'
  BY PageStays DEF CoverInv
<1>2. CursorCovers(M)'
  BY CursorStays DEF Passed, CoverInv
<1> QED BY <1>1, <1>2 DEF CoverInv, FirstKept

LEMMA OtherStepCovers ==
    ASSUME NEW M, SyncSide, IInv, TickTypes, CoverInv(M), NEW w \in Worker, OtherStep(w)
    PROVE  CoverInv(M)'
<1>1. FirstKept
  BY DirtyStepKept, DrainStepKept DEF OtherStep, CoverInv
<1>2. \A v \in Worker \ {w} : phase'[v] = phase[v] /\ lex'[v] = lex[v]
  BY LoopsApart DEF OtherStep
<1>3. phase[w] # "backfill"
  BY DEF OtherStep, DirtyStep, ReadDirty, BuildLexicalString, UpsertSearchDocuments,
         DeleteBlankDocuments, ClearDirty, Processed, DeleteSearchDocuments,
         DeleteEmbeddingVectors, DeleteTasks, EnqueueModel, Drain, NothingDue
<1>4. page[w] = None
  BY <1>3 DEF CoverInv, PageCovers
<1> QED BY <1>1, <1>2, <1>4, BesideCovers DEF OtherStep, tickVars

LEMMA CoverStep ==
    ASSUME NEW M, SyncSide, IInv, PageInv, TickTypes, CoverInv(M),
           [BackfillNext]_backfillVars
    PROVE  CoverInv(M)'
<1>1. ASSUME NEW e \in Entity, HostMarks(e)
      PROVE  CoverInv(M)'
  <2>1. FirstKept
    BY <1>1, EditKept DEF HostMarks, CoverInv
  <2> QED BY <1>1, <2>1, BesideCovers DEF HostMarks, MarkDirty, tickVars, passVars
<1>2. ASSUME NEW k \in Key, TaskExpires(k)
      PROVE  CoverInv(M)'
  <2>1. FirstKept
    BY <1>2, ExpiryKept DEF TaskExpires, CoverInv
  <2> QED BY <1>2, <2>1, BesideCovers DEF TaskExpires, tickVars, passVars
<1>3. ASSUME NEW w \in Worker, BackfillStep(w)
      PROVE  CoverInv(M)'
  BY <1>3, ReadCursorCovers, ListCovers, BuildPageCovers, UpsertPageCovers,
     DeleteBlankPageCovers, FilterCovers, EnqueuePageCovers, SaveCovers, FinishCovers
  DEF BackfillStep
<1>4. CASE UNCHANGED backfillVars
  <2>1. FirstKept
    BY <1>4, SameSyncKept DEF backfillVars, CoverInv
  <2> QED BY <1>4, <2>1, BesideCovers DEF backfillVars, tickVars, syncVars, passVars
<1> QED BY <1>1, <1>2, <1>3, <1>4, OtherStepCovers, FailsCovers, SaveCovers
        DEF BackfillNext

LEMMA CoverInit ==
    ASSUME NEW M, BackfillInit
    PROVE  CoverInv(M)
<1>1. FirstRead
  BY DEF BackfillInit, FirstRead, VecFirst, DocFirst, Pending, Key
<1>2. \A w \in Worker, e \in Entity :
         /\ e \notin Deleted(w)
         /\ \A x \in {"docs", "vecs", "tasks"} : ~Due(w, e, x)
  BY DEF BackfillInit, Deleted, InBatch, Due, NoRows
<1>3. PassTouches
  <2>1. \A w \in Worker, e \in Entity : lex[w][e] = None
    BY DEF BackfillInit, NoRows
  <2>2. PICK marked \in SUBSET Entity :
           /\ dirty = [e \in Entity |-> IF e \notin marked THEN None
                                       ELSE [mark |-> 1, deleted |-> host[e] = 0]]
           /\ gone = [e \in Entity |-> e \in marked /\ host[e] = 0]
    BY DEF BackfillInit
  <2>3. MarksTouch
    <3>1. edits # 0
      BY DEF BackfillInit
    <3>2. ASSUME NEW e \in Entity
          PROVE  /\ gone[e] => host[e] = 0
                 /\ dirty[e] # None /\ dirty[e].deleted => gone[e]
      <4>1. gone[e] <=> e \in marked /\ host[e] = 0
        BY <2>2
      <4>2. dirty[e] = IF e \notin marked THEN None
                       ELSE [mark |-> 1, deleted |-> host[e] = 0]
        BY <2>2
      <4>3. CASE e \notin marked
        BY <4>1, <4>2, <4>3
      <4>4. CASE e \in marked
        <5>1. CASE host[e] = 0
          BY <4>1, <4>4, <5>1
        <5>2. CASE host[e] # 0
          <6>1. dirty[e] = [mark |-> 1, deleted |-> FALSE]
            BY <4>2, <4>4, <5>2
          <6> QED BY <5>2, <6>1, <4>1
        <5> QED BY <5>1, <5>2
      <4> QED BY <4>3, <4>4
    <3> QED BY <3>1, <3>2 DEF MarksTouch
  <2> QED BY <1>2, <2>1, <2>3 DEF PassTouches, LoopTouches
<1> QED BY <1>1, <1>3 DEF BackfillInit, CoverInv, CursorCovers, Passed, PageCovers

LEMMA CoverInvariant == BackfillSpec => []CoverInv(Model)
<1>1. BackfillInit => CoverInv(Model)
  BY CoverInit
<1>2. /\ SyncSide /\ IInv /\ PageInv /\ TickTypes /\ CoverInv(Model)
      /\ [BackfillNext]_backfillVars
      => CoverInv(Model)'
  BY CoverStep
<1> QED BY <1>1, <1>2, TickInvariant, SyncOnceKeepsQueueInvariant, PTL DEF BackfillSpec

(* The cursor never runs ahead of the work: for any number of loops, with  *)
(* or without leases that hold, an untouched entity at or before a         *)
(* target's cursor is indexed there, or its task or dead letter says what  *)
(* is left.                                                                *)
THEOREM CursorNeverAhead == BackfillSpec => []BackfillCovers
<1>1. CoverInv(Model) => BackfillCovers
  <2> SUFFICES ASSUME CoverInv(Model), NEW e \in Entity, Untouched(e)
               PROVE  /\ Passed(Lexical, e) => docs[e] = 1
                      /\ \A m \in Model :
                            Passed(m, e) /\ Wanted(<<e, m>>) # 0 =>
                               \/ vec[<<e, m>>] = 1
                               \/ task[<<e, m>>] # None
                               \/ dead[<<e, m>>] # 0
    BY DEF BackfillCovers
  <2>1. \A t \in Target : Passed(t, e) => Covered(Model, t, e)
    BY DEF CoverInv, CursorCovers
  <2> QED BY <2>1, BackfillAssumption DEF Covered, KeyCovered, Target
<1> QED BY <1>1, CoverInvariant, PTL

--------------------------------------------------------------------------------
(* With one loop.  Entities still in version 1 are the backfill's; of all  *)
(* others the passes know what they know without a backfill, and a page    *)
(* disturbs none of it: it builds what the host has, or has marked since.  *)
StringsOnPage ==
    \A w \in Worker, e \in Entity :
        phase[w] = "backfill" /\ lex[w][e] # None =>
            page[w] # None /\ page[w].at \in {"upsert", "blank"}

PagesKnown ==
    \A w \in Worker, e \in Entity :
        page[w] # None /\ e \in page[w].ids => host[e] # 0 \/ dirty[e] # None

OneLoopInv(M, X) == PassInv(1, M, X) /\ StringsOnPage /\ PagesKnown

(* In the backfill no row is read, so nothing is known or due of a pass.   *)
LEMMA NothingReadInBackfill ==
    ASSUME NEW M, NEW X, PassInv(1, M, X), NEW w \in Worker, phase[w] = "backfill"
    PROVE  /\ \A e \in Entity : batch[w][e] = None
           /\ \A e \in Entity : /\ e \notin Deleted(w) /\ e \notin Live(w)
                                /\ \A x \in {"docs", "vecs", "tasks"} : ~Due(w, e, x)
           /\ Idle(w)
<1>1. \A e \in Entity : batch[w][e] = None
  BY DEF PassInv, RowsRead, PassPhase
<1> QED BY <1>1 DEF Deleted, Live, InBatch, Due, PassInv, DrainOnly

(* A statement of the backfill that keeps the drain's part, the marks and  *)
(* what is indexed.                                                        *)
LEMMA InBackfillKeeps ==
    ASSUME NEW M, NEW X, Setting, PassInv(1, M, X), NEW w \in Worker,
           phase[w] = "backfill",
           DrainPart(1, M)', UNCHANGED <<phase, batch, todo, dirty, gone, lost>>,
           UNCHANGED <<host, edits, lease>>,
           \A e \in Entity : lex'[w][e] \in {None, lex[w][e], host[e]},
           \A e \in Entity : Indexed(1, X, e)'
    PROVE  PassInv(1, M, X)'
<1>1. \A v \in Worker : v = w
  BY OneLoop DEF Setting, Around
<1>2. /\ \A e \in Entity : batch[w][e] = None
      /\ \A e \in Entity : /\ e \notin Deleted(w)' /\ e \notin Live(w)'
                           /\ \A x \in {"docs", "vecs", "tasks"} : ~Due(w, e, x)'
      /\ Idle(w)
  BY NothingReadInBackfill DEF Deleted, Live, InBatch, Due
<1>3. RowsRead' /\ DeletionsDue(1)' /\ DeletionsDone' /\ Rebuilt'
  BY <1>1, <1>2 DEF RowsRead, DeletionsDue, DeletionsDone, Rebuilt
<1>4. StringsGiven(1)'
  BY <1>1 DEF PassInv, StringsGiven, Known
<1>5. MarksTrue' /\ DrainOnly'
  BY DEF PassInv, MarksTrue, DrainOnly, Idle
<1> QED BY <1>3, <1>4, <1>5 DEF PassInv, DrainPart

LEMMA PageLexKeeps ==
    ASSUME NEW M, NEW X, Setting, PassInv(1, M, X), NEW w \in Worker,
           BuildPage(w) \/ UpsertPage(w) \/ DeleteBlankPage(w)
    PROVE  PassInv(1, M, X)'
<1>1. /\ phase[w] = "backfill"
      /\ UNCHANGED <<drainVars, phase, batch, todo, dirty, gone, lost>>
  BY DEF BuildPage, UpsertPage, DeleteBlankPage, OnPage, markVars, passVars
<1>2. /\ DrainPart(1, M)'
      /\ UNCHANGED <<task, lease, host, edits, owed, active, vec>>
  BY <1>1, NoDrainStep DEF Setting
<1>3. \A e \in Entity : lex'[w][e] \in {None, lex[w][e], host[e]}
  <2>1. CASE BuildPage(w)
    BY <2>1 DEF BuildPage, Setting, SyncSide, PassTypes
  <2>2. CASE UpsertPage(w) \/ DeleteBlankPage(w)
    BY <2>2 DEF UpsertPage, DeleteBlankPage, passVars, NoRows, Setting, SyncSide, PassTypes
  <2> QED BY <2>1, <2>2
<1>4. docs' \in {docs, UpsertedDocs(w), WithoutBlankDocs(w)}
  BY DEF BuildPage, UpsertPage, DeleteBlankPage, markVars
<1>5. ASSUME NEW e \in Entity
      PROVE  Indexed(1, X, e)'
  <2>1. CASE dirty[e] # None
    BY <1>1, <2>1 DEF Indexed
  <2>2. CASE dirty[e] = None
    <3>1. lex[w][e] = None \/ lex[w][e] = host[e]
      BY <1>1, <2>2 DEF PassInv, StringsGiven
    <3>2. /\ host[e] = 0 => docs'[e] \in {0, docs[e]}
          /\ host[e] # 0 => docs'[e] \in {docs[e], host[e]}
      <4>1. None # 0
        BY TaskQueueAssumption
      <4>2. CASE docs' = docs
        BY <4>2
      <4>3. CASE docs' = UpsertedDocs(w)
        <5>1. docs'[e] = IF lex[w][e] \notin {None, 0} THEN lex[w][e] ELSE docs[e]
          BY <4>3 DEF UpsertedDocs
        <5> QED BY <3>1, <5>1
      <4>4. CASE docs' = WithoutBlankDocs(w)
        <5>1. docs'[e] = IF lex[w][e] = 0 THEN 0 ELSE docs[e]
          BY <4>4 DEF WithoutBlankDocs
        <5> QED BY <3>1, <4>1, <5>1
      <4> QED BY <1>4, <4>2, <4>3, <4>4
    <3>3. gone[e] => host[e] = 0
      BY DEF PassInv, MarksTrue
    <3> QED BY <1>1, <1>2, <3>2, <3>3 DEF PassInv, Indexed, Known
  <2> QED BY <2>1, <2>2
<1> QED BY <1>1, <1>2, <1>3, <1>5, InBackfillKeeps

LEMMA EnqueuePageKeeps ==
    ASSUME NEW M, NEW X, Setting, PageInv, PassInv(1, M, X), PagesKnown,
           NEW w \in Worker, EnqueuePage(w)
    PROVE  PassInv(1, M, X)'
<1>1. /\ phase[w] = "backfill" /\ page[w] # None
      /\ page[w].at = "enqueue" /\ Request(page[w].ids, page[w].target)
      /\ UNCHANGED <<dirty, gone, docs, lost, phase, batch, todo, lex>>
  BY DEF EnqueuePage, OnPage, markVars, passVars
<1>2. PICK E \in SUBSET Entity, m \in Model : E = page[w].ids /\ m = page[w].target
  BY <1>1 DEF PageInv, PageOK
<1>3. /\ Request(E, m)
      /\ owed' = owed \ (E \X {m})
      /\ UNCHANGED <<host, assets, edits, active, vec, lease>>
      /\ \A k \in Key \ (E \X {m}) : task'[k] = task[k]
  BY <1>1, <1>2, RequestedHasTask DEF Setting, Around
<1>4. DrainPart(1, M)'
  <2>1. StaysFresh
    BY <1>2, <1>3, FreshRequest DEF Setting, PassInv
  <2> QED BY <1>3, <2>1, SameDrainPart DEF Setting
<1>5. \A f \in Entity, n \in Model :
         /\ <<f, n>> \in owed' => <<f, n>> \in owed
         /\ f \notin E => task'[<<f, n>>] = task[<<f, n>>]
  BY <1>3 DEF Key
<1>6. \A e \in E : gone[e] => dirty[e] # None
  BY <1>1, <1>2 DEF PagesKnown, PassInv, MarksTrue
<1>7. ASSUME NEW e \in Entity
      PROVE  Indexed(1, X, e)'
  <2>1. active' = active /\ \A v \in Worker : active[v] \subseteq Model
    BY <1>3 DEF Setting, SyncSide, DrainSide, DrainTypeOK
  <2> QED BY <1>1, <1>3, <1>5, <1>6, <2>1 DEF PassInv, Indexed, Known
<1> QED BY <1>1, <1>3, <1>4, <1>7, InBackfillKeeps

LEMMA BackfillStepKeeps ==
    ASSUME NEW M, NEW X, Setting, PageInv, CoverInv(M), OneLoopInv(M, X),
           NEW w \in Worker, BackfillStep(w)
    PROVE  PassInv(1, M, X)'
<1>1. ASSUME UNCHANGED syncVars
      PROVE  PassInv(1, M, X)'
  BY <1>1, StutterKeeps DEF OneLoopInv
<1>2. CASE FinishBackfill(w)
  <2>1. phase[w] = "backfill" /\ page[w] = None /\ EndBackfill(w)
    BY <1>2 DEF FinishBackfill, EndBackfill
  <2>2. NoPass(w)
    BY <2>1, NothingReadInBackfill DEF NoPass, OneLoopInv, StringsOnPage
  <2> QED BY <2>1, <2>2, NextPhaseKeeps DEF OneLoopInv
<1>3. ASSUME NEW t \in Target, ReadCursor(w, t)
      PROVE  PassInv(1, M, X)'
  BY <1>1, <1>3 DEF ReadCursor
<1>4. CASE List(w) \/ FilterMissingEmbeddings(w) \/ SavePage(w)
  BY <1>1, <1>4 DEF List, FilterMissingEmbeddings, SavePage, EndPage
<1> QED BY <1>2, <1>3, <1>4, PageLexKeeps, EnqueuePageKeeps DEF BackfillStep, OneLoopInv

(* Pages: strings live on them, and their ids are known.                   *)
LEMMA PageFacts ==
    ASSUME NEW M, NEW X, Setting, TickTypes, OneLoopInv(M, X), NEW w \in Worker,
           UNCHANGED <<host, dirty>>,
           page'[w] # None => \A e \in page'[w].ids :
              e \in Entity => (page[w] # None /\ e \in page[w].ids) \/ host[e] # 0,
           \A e \in Entity : phase'[w] = "backfill" /\ lex'[w][e] # None =>
              page'[w] # None /\ page'[w].at \in {"upsert", "blank"}
    PROVE  StringsOnPage' /\ PagesKnown'
<1>1. \A v \in Worker : v = w
  BY OneLoop DEF Setting, Around
<1> QED BY <1>1 DEF OneLoopInv, StringsOnPage, PagesKnown

LEMMA BackfillStepPages ==
    ASSUME NEW M, NEW X, Setting, TickTypes, OneLoopInv(M, X), NEW w \in Worker,
           BackfillStep(w)
    PROVE  StringsOnPage' /\ PagesKnown'
<1>1. ASSUME NEW t \in Target, ReadCursor(w, t)
      PROVE  StringsOnPage' /\ PagesKnown'
  <2>1. UNCHANGED <<host, dirty, phase, lex>> /\ phase[w] = "backfill" /\ page[w] = None
    BY <1>1 DEF ReadCursor, syncVars, drainVars, hostVars, markVars, passVars
  <2>2. \A e \in Entity : lex[w][e] = None
    BY <2>1 DEF OneLoopInv, StringsOnPage
  <2>3. page'[w] = None \/ page'[w].ids = {}
    BY <1>1, <2>1 DEF ReadCursor, TickTypes
  <2> QED BY <2>1, <2>2, <2>3, PageFacts
<1>2. CASE List(w)
  <2>1. /\ UNCHANGED <<host, dirty, phase, lex>> /\ phase[w] = "backfill"
        /\ page[w].at = "cursor"
    BY <1>2 DEF List, OnPage, syncVars, drainVars, hostVars, markVars, passVars
  <2>2. \A e \in Entity : lex[w][e] = None
    BY <2>1 DEF OneLoopInv, StringsOnPage
  <2>3. page'[w].ids = Listed(page[w].cursor)
    BY <1>2 DEF List, TickTypes
  <2>4. \A e \in Listed(page[w].cursor) : host[e] # 0
    BY DEF Listed, After
  <2> QED BY <2>1, <2>2, <2>3, <2>4, PageFacts
<1>3. CASE FilterMissingEmbeddings(w)
  <2>1. /\ UNCHANGED <<host, dirty, phase, lex>> /\ phase[w] = "backfill"
        /\ page[w].at = "listed" /\ page[w] # None
    BY <1>3 DEF FilterMissingEmbeddings, OnPage, syncVars, drainVars, hostVars, markVars,
                passVars
  <2>2. \A e \in Entity : lex[w][e] = None
    BY <2>1 DEF OneLoopInv, StringsOnPage
  <2>3. page'[w].ids \subseteq page[w].ids
    BY <1>3 DEF FilterMissingEmbeddings, TickTypes, Missing
  <2> QED BY <2>1, <2>2, <2>3, PageFacts
<1>4. CASE BuildPage(w) \/ UpsertPage(w) \/ DeleteBlankPage(w) \/ EnqueuePage(w)
  <2>1. /\ phase[w] = "backfill" /\ page[w] # None
        /\ UNCHANGED <<host, dirty>>
    BY <1>4 DEF BuildPage, UpsertPage, DeleteBlankPage, EnqueuePage, OnPage, drainVars,
                hostVars, markVars, Request
  <2>2. PICK at \in {"upsert", "blank", "save"} : page'[w] = [page[w] EXCEPT !.at = at]
    BY <1>4 DEF BuildPage, UpsertPage, DeleteBlankPage, EnqueuePage, ToStep, TickTypes
  <2>3. page'[w].ids = page[w].ids /\ page'[w].at = at
    BY <2>1, <2>2 DEF TickTypes, Page
  <2>4. page'[w] # None
    BY <2>1, <2>2, BackfillAssumption DEF TickTypes, Page
  <2>5. at \in {"upsert", "blank"} \/ \A e \in Entity : lex'[w][e] = None
    <3>1. CASE BuildPage(w) \/ UpsertPage(w)
      <4>1. PICK st \in {"upsert", "blank"} : ToStep(w, st)
        BY <3>1 DEF BuildPage, UpsertPage
      <4>2. page'[w].at = st
        BY <2>1, <4>1 DEF ToStep, TickTypes, Page
      <4> QED BY <2>3, <4>2
    <3>2. CASE DeleteBlankPage(w)
      BY <3>2 DEF DeleteBlankPage, NoRows, Setting, SyncSide, PassTypes
    <3>3. CASE EnqueuePage(w)
      BY <2>1, <3>3 DEF EnqueuePage, OnPage, passVars, OneLoopInv, StringsOnPage
    <3> QED BY <1>4, <3>1, <3>2, <3>3
  <2> QED BY <2>1, <2>3, <2>4, <2>5, PageFacts
<1>5. CASE SavePage(w)
  <2>1. /\ UNCHANGED <<host, dirty, phase, lex>> /\ phase[w] = "backfill"
        /\ page[w].at = "save" /\ page'[w] = None
    BY <1>5 DEF SavePage, EndPage, Worked, OnPage, syncVars, drainVars, hostVars,
                markVars, passVars, TickTypes
  <2>2. \A e \in Entity : lex[w][e] = None
    BY <2>1 DEF OneLoopInv, StringsOnPage
  <2> QED BY <2>1, <2>2, PageFacts
<1>6. CASE FinishBackfill(w)
  <2>1. UNCHANGED <<host, dirty>> /\ page'[w] = None
    BY <1>6 DEF FinishBackfill, EndBackfill, EndTick, drainVars, hostVars, markVars,
                TickTypes
  <2>2. phase'[w] # "backfill"
    BY <1>6, GotoEffect DEF FinishBackfill, EndBackfill, Setting
  <2> QED BY <2>1, <2>2, PageFacts
<1> QED BY <1>1, <1>2, <1>3, <1>4, <1>5, <1>6 DEF BackfillStep

LEMMA OneLoopStep ==
    ASSUME NEW M, NEW X, Setting, PageInv, TickTypes, CoverInv(M), OneLoopInv(M, X),
           [BackfillNext]_backfillVars
    PROVE  OneLoopInv(M, X)'
<1>1. ASSUME NEW w \in Worker, BackfillStep(w)
      PROVE  OneLoopInv(M, X)'
  BY <1>1, BackfillStepKeeps, BackfillStepPages DEF OneLoopInv
<1>2. ASSUME NEW w \in Worker, OtherStep(w)
      PROVE  OneLoopInv(M, X)'
  <2>1. phase[w] # "backfill"
    BY <1>2
    DEF OtherStep, DirtyStep, ReadDirty, BuildLexicalString, UpsertSearchDocuments,
        DeleteBlankDocuments, ClearDirty, Processed, DeleteSearchDocuments,
        DeleteEmbeddingVectors, DeleteTasks, EnqueueModel, Drain, NothingDue
  <2>2. page[w] = None /\ page'[w] = None
    BY <1>2, <2>1 DEF CoverInv, PageCovers, OtherStep, tickVars
  <2>3. NothingDue(w) => NoPass(w)
    BY DEF NothingDue, NoPass, OneLoopInv, PassInv, RowsRead, StringsGiven, PassPhase
  <2>4. PassInv(1, M, X)'
    BY <1>2, <2>3, DirtyStepKeeps, DrainKeeps, NextPhaseKeeps DEF OtherStep, OneLoopInv
  <2>5. \A e \in Entity : phase'[w] = "backfill" => lex'[w][e] = None
    BY <1>2, StringsEndWithPass DEF OtherStep, OneLoopInv
  <2> QED BY <2>2, <2>4, <2>5, OneLoop
          DEF OneLoopInv, StringsOnPage, PagesKnown, Setting, Around
<1>3. ASSUME NEW w \in Worker, Fails(w)
      PROVE  OneLoopInv(M, X)'
  <2>1. EndPass(w, "idle") /\ UNCHANGED <<drainVars, markVars>> /\ page'[w] = None
    BY <1>3 DEF Fails, FailPass, ListFails, EndTick, TickTypes
  <2>2. phase[w] # "drain"
    BY <1>3 DEF Fails, FailPass, ListFails, OnPage
  <2>3. PassInv(1, M, X)'
    BY <2>1, <2>2, FailKeeps DEF OneLoopInv
  <2>4. \A e \in Entity : lex'[w][e] = None
    BY <2>1, EndPassEffect DEF Setting
  <2> QED BY <2>1, <2>3, <2>4, OneLoop
          DEF OneLoopInv, StringsOnPage, PagesKnown, Setting, Around
<1>4. ASSUME NEW w \in Worker, SaveFails(w)
      PROVE  OneLoopInv(M, X)'
  <2>1. /\ UNCHANGED <<syncVars, phase, lex>> /\ phase[w] = "backfill"
        /\ page[w].at = "save" /\ page'[w] = None
    BY <1>4 DEF SaveFails, EndPage, Worked, OnPage, syncVars, passVars, TickTypes
  <2>2. \A e \in Entity : lex[w][e] = None
    BY <2>1 DEF OneLoopInv, StringsOnPage
  <2>3. PassInv(1, M, X)'
    BY <2>1, StutterKeeps DEF OneLoopInv
  <2> QED BY <2>1, <2>2, <2>3, OneLoop
          DEF OneLoopInv, StringsOnPage, PagesKnown, Setting, Around
<1>5. ASSUME NEW e \in Entity, HostMarks(e)
      PROVE  OneLoopInv(M, X)'
  <2>1. PassInv(1, M, X)' /\ UNCHANGED <<phase, lex, page>>
    BY <1>5, MarkKeeps DEF HostMarks, MarkDirty, passVars, tickVars, OneLoopInv
  <2>2. dirty'[e] # None /\ \A f \in Entity \ {e} : host'[f] = host[f] /\ dirty'[f] = dirty[f]
    <3>1. MarkDirty(e) /\ HostEdit(e)
      BY <1>5 DEF HostMarks, MarkDirty
    <3>2. edits \in Nat
      BY EmbedDrainAssumption DEF Setting, Around, DrainTypeOK
    <3>3. PICK d \in BOOLEAN : dirty' = [dirty EXCEPT ![e] = NewMark(d)]
      BY <3>1 DEF MarkDirty
    <3>4. NewMark(d) \in Mark
      BY <3>2 DEF NewMark, Mark
    <3> QED BY <3>1, <3>3, <3>4, DirtySyncAssumption
            DEF HostEdit, Setting, SyncSide, DrainSide, DrainTypeOK, MarkTypes
  <2> QED BY <2>1, <2>2 DEF OneLoopInv, StringsOnPage, PagesKnown
<1>6. ASSUME NEW k \in Key, TaskExpires(k)
      PROVE  OneLoopInv(M, X)'
  <2>1. PassInv(1, M, X)'
    BY <1>6, ExpireKeeps DEF TaskExpires, OneLoopInv
  <2>2. UNCHANGED <<phase, lex, page, host, dirty>>
    BY <1>6 DEF TaskExpires, DrainExpire, hostVars, markVars, passVars, tickVars
  <2> QED BY <2>1, <2>2 DEF OneLoopInv, StringsOnPage, PagesKnown
<1>7. CASE UNCHANGED backfillVars
  <2>1. UNCHANGED <<syncVars, phase, lex, page, host, dirty>>
    BY <1>7 DEF backfillVars, syncVars, drainVars, hostVars, markVars, passVars, tickVars
  <2>2. PassInv(1, M, X)'
    BY <2>1, StutterKeeps DEF OneLoopInv
  <2> QED BY <2>1, <2>2 DEF OneLoopInv, StringsOnPage, PagesKnown
<1> QED BY <1>1, <1>2, <1>3, <1>4, <1>5, <1>6, <1>7 DEF BackfillNext

LEMMA OneLoopInit ==
    ASSUME NEW M, NEW X, BackfillInit
    PROVE  OneLoopInv(M, X)
<1>1. /\ \A w \in Worker, e \in Entity : batch[w][e] = None /\ lex[w][e] = None
      /\ \A w \in Worker : phase[w] = "idle" /\ page[w] = None /\ Idle(w)
      /\ owed = {} /\ edits = 1
      /\ \A e \in Entity : host[e] \in {0, 1}
  BY DEF BackfillInit, Init, NoRows, Idle, Key
<1>2. NothingRead
  BY DEF BackfillInit, Init, NothingRead
<1>3. PICK marked \in SUBSET Entity :
         /\ dirty = [e \in Entity |-> IF e \notin marked THEN None
                                     ELSE [mark |-> 1, deleted |-> host[e] = 0]]
         /\ gone = [e \in Entity |-> e \in marked /\ host[e] = 0]
  BY DEF BackfillInit
<1>4. ASSUME NEW e \in Entity
      PROVE  /\ gone[e] => host[e] = 0 /\ dirty[e] # None
             /\ dirty[e] # None => /\ dirty[e].deleted <=> gone[e]
                                   /\ dirty[e].mark <= edits
  <2>1. gone[e] <=> e \in marked /\ host[e] = 0
    BY <1>3
  <2>2. dirty[e] = IF e \notin marked THEN None
                   ELSE [mark |-> 1, deleted |-> host[e] = 0]
    BY <1>3
  <2>3. CASE e \notin marked
    BY <2>1, <2>2, <2>3
  <2>4. CASE e \in marked /\ host[e] = 0
    <3>1. dirty[e] = [mark |-> 1, deleted |-> TRUE]
      BY <2>2, <2>4
    <3>2. dirty[e] \in Mark
      BY <3>1 DEF Mark
    <3>3. dirty[e] # None
      BY <3>2, DirtySyncAssumption
    <3> QED BY <1>1, <2>1, <2>4, <3>1, <3>3
  <2>5. CASE e \in marked /\ host[e] # 0
    <3>1. dirty[e] = [mark |-> 1, deleted |-> FALSE]
      BY <2>2, <2>5
    <3> QED BY <1>1, <2>1, <2>5, <3>1
  <2> QED BY <2>3, <2>4, <2>5
<1>5. \A w \in Worker, e \in Entity :
         /\ e \notin Deleted(w) /\ e \notin Live(w)
         /\ \A x \in {"docs", "vecs", "tasks"} : ~Due(w, e, x)
  BY <1>1 DEF Deleted, Live, InBatch, Due
<1>6. \A e \in Entity : host[e] # 0 => Known(1, e)
  BY <1>1 DEF Known
<1>7. MarksTrue /\ RowsRead /\ DeletionsDue(1) /\ DeletionsDone /\ Rebuilt
  BY <1>1, <1>4, <1>5 DEF MarksTrue, RowsRead, DeletionsDue, DeletionsDone, Rebuilt
<1>8. /\ StringsGiven(1) /\ KnownUnowed(1) /\ DrainOnly
      /\ \A e \in Entity : Indexed(1, X, e)
  BY <1>1, <1>4, <1>6 DEF StringsGiven, KnownUnowed, DrainOnly, Indexed
<1>9. VectorsDue(1, M)
  BY <1>6 DEF VectorsDue, VecFresh, Wanted, Key
<1> QED BY <1>1, <1>2, <1>7, <1>8, <1>9, NothingReadIsGood
        DEF OneLoopInv, PassInv, StringsOnPage, PagesKnown

(* What the passes know and what the cursor has passed make up the index,  *)
(* for models that are done and whose keys are exempt at most where there  *)
(* is nothing to embed.                                                    *)
LEMMA BothCaughtUp ==
    ASSUME NEW M, NEW X, SyncSide, CoverInv(M), OneLoopInv(M, X),
           NEW N \in SUBSET Configured, N \subseteq M,
           \A t \in {Lexical} \cup N : Completed(t),
           \A e \in Entity, m \in N : <<e, m>> \in X => host[e] = 0
    PROVE  CaughtUp(N)
<1> SUFFICES ASSUME NEW e \in Entity, Quiet(e, N), e \notin lost
             PROVE  /\ gone[e] => /\ docs[e] = 0
                                  /\ \A m \in N : vec[<<e, m>>] = 0
                    /\ host[e] # 0 => docs[e] = host[e]
                    /\ \A m \in N : Wanted(<<e, m>>) # 0 =>
                                     vec[<<e, m>>] = Wanted(<<e, m>>)
  BY DEF CaughtUp
<1>1. host[e] \in Nat /\ N \subseteq Model
  BY EmbedDrainAssumption DEF SyncSide, DrainSide, DrainTypeOK, Configured
<1>2. dirty[e] = None /\ Indexed(1, X, e)
  BY DEF Quiet, OneLoopInv, PassInv
<1>3. Known(1, e) => Untouched(e) /\ host[e] = 1
  BY <1>1 DEF Known, Untouched
<1>4. \A t \in {Lexical} \cup N : t \in Target /\ Passed(t, e)
  BY <1>1 DEF Completed, Passed, Target
<1>5. Known(1, e) => \A t \in {Lexical} \cup N : Covered(M, t, e)
  BY <1>3, <1>4 DEF CoverInv, CursorCovers
<1>6. host[e] # 0 => docs[e] = host[e]
  BY <1>2, <1>3, <1>5 DEF Indexed, Covered
<1>7. ASSUME NEW m \in N, Wanted(<<e, m>>) # 0
      PROVE  vec[<<e, m>>] = Wanted(<<e, m>>)
  <2>1. CASE Known(1, e)
    <3>1. KeyCovered(<<e, m>>)
      BY <1>1, <1>5, <2>1, BackfillAssumption DEF Covered
    <3>2. Wanted(<<e, m>>) = 1
      BY <1>3, <1>7, <2>1 DEF Wanted
    <3> QED BY <3>1, <3>2 DEF KeyCovered, Quiet
  <2>2. CASE ~Known(1, e)
    <3>1. ~gone[e] /\ <<e, m>> \notin X
      BY <1>7 DEF Wanted, OneLoopInv, PassInv, MarksTrue
    <3>2. <<e, m>> \in Key /\ <<e, m>> \notin owed
      BY <1>1, <1>2, <3>1 DEF Indexed, Configured, Key
    <3>3. VecFresh(<<e, m>>)
      BY <2>2, <3>2 DEF OneLoopInv, PassInv, VectorsDue
    <3> QED BY <1>7, <3>2, <3>3 DEF VecFresh, Quiet
  <2> QED BY <2>1, <2>2
<1> QED BY <1>1, <1>2, <1>6, <1>7 DEF Indexed

(* With one sync loop whose leases outlive its batches, once every target  *)
(* is done the whole index is caught up, whether an entity came to         *)
(* searchkit's notice by a mark or by a listing, and whatever failed, was  *)
(* replayed or edited between the pages.                                   *)
THEOREM BackfillCatchesUp ==
    ASSUME OneWorker, LeaseOutlivesWork, NEW w \in Worker
    PROVE  BackfillSpec => []BackfillCaughtUp
<1>1. /\ SyncSide /\ PageInv /\ TickTypes /\ CoverInv(Model) /\ OneLoopInv(Model, {})
      /\ IInv /\ IInv' /\ [BackfillNext]_backfillVars
      => OneLoopInv(Model, {})'
  BY OneLoopStep DEF Setting, Around, SyncSide, DrainSide
<1>2. BackfillSpec => [](IInv /\ SyncSide /\ PageInv /\ TickTypes /\ CoverInv(Model))
  BY TickInvariant, SyncOnceKeepsQueueInvariant, CoverInvariant, PTL
<1>3. BackfillSpec => []OneLoopInv(Model, {})
  <2>1. BackfillInit => OneLoopInv(Model, {})
    BY OneLoopInit
  <2> QED BY <1>1, <1>2, <2>1, PTL DEF BackfillSpec
<1>4. SyncSide /\ CoverInv(Model) /\ OneLoopInv(Model, {}) => BackfillCaughtUp
  <2> SUFFICES ASSUME SyncSide, CoverInv(Model), OneLoopInv(Model, {}), BackfillDone
               PROVE  CaughtUp(Configured)
    BY DEF BackfillCaughtUp, IndexCaughtUp
  <2>1. \A t \in {Lexical} \cup Configured : Completed(t)
    BY DEF BackfillDone, Targets, Configured
  <2>2. Configured \subseteq Model
    BY DEF SyncSide, DrainSide, DrainTypeOK, Configured
  <2> QED BY <2>1, <2>2, BothCaughtUp
<1> QED BY <1>2, <1>3, <1>4, PTL
================================================================================
