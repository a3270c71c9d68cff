-------------------------------- MODULE SyncProofs --------------------------------
(* What the queue's theorems give the sync loop: the dirty pass and the    *)
(* backfill touch the queue only through its operations.                   *)
EXTENDS Backfill, EmbedDrainProofs, WellFoundedInduction

LEMMA RequestIsQueueStep ==
    ASSUME NEW E \in SUBSET Entity, NEW m \in Model, Request(E, m)
    PROVE  Next
  BY DEF Request, Next, Produce

(* The statements of processDirtyOnce.                                     *)
LEMMA DirtyStepIsQueueStep ==
    ASSUME NEW w \in Worker, DirtyStep(w)
    PROVE  [Next]_vars
<1>1. CASE \/ ReadDirty(w) \/ BuildLexicalString(w) \/ UpsertSearchDocuments(w)
           \/ DeleteBlankDocuments(w) \/ ClearDirty(w)
  BY <1>1 DEF ReadDirty, BuildLexicalString, UpsertSearchDocuments,
              DeleteBlankDocuments, ClearDirty, drainVars
<1>2. ASSUME NEW e \in Entity,
             DeleteSearchDocuments(w, e) \/ DeleteEmbeddingVectors(w, e)
      PROVE  UNCHANGED vars
  BY <1>2 DEF DeleteSearchDocuments, DeleteEmbeddingVectors, drainVars
<1>3. ASSUME NEW e \in Entity, DeleteTasks(w, e)
      PROVE  Next
  BY <1>3 DEF DeleteTasks, Next, Delete
<1>4. ASSUME NEW m \in Model, EnqueueModel(w, m)
      PROVE  Next
  <2>1. Live(w) \in SUBSET Entity
    BY DEF Live, InBatch
  <2> QED BY <1>4, <2>1, RequestIsQueueStep DEF EnqueueModel
<1> QED BY <1>1, <1>2, <1>3, <1>4 DEF DirtyStep

LEMMA DrainIsQueueStep ==
    ASSUME NEW w \in Worker, Drain(w) \/ NothingDue(w)
    PROVE  [Next]_vars
<1>1. CASE Drain(w)
  BY <1>1, WorkerStepIsQueueStep DEF Drain
<1>2. CASE NothingDue(w)
  BY <1>2 DEF NothingDue, drainVars
<1> QED BY <1>1, <1>2

(* SyncOnce with every backfill target done.                               *)
LEMMA SyncStepIsQueueStep == [SyncNext]_syncVars => [Next]_vars
<1> SUFFICES ASSUME [SyncNext]_syncVars PROVE [Next]_vars
  OBVIOUS
<1>1. CASE \E e \in Entity : MarkDirty(e)
  BY <1>1 DEF MarkDirty, HostEdit
<1>2. CASE \E k \in Key : DrainExpire(k) /\ UNCHANGED <<markVars, passVars>>
  BY <1>2 DEF DrainExpire, Next
<1>3. ASSUME NEW w \in Worker, SyncStep(w)
      PROVE  [Next]_vars
  BY <1>3, DirtyStepIsQueueStep, DrainIsQueueStep
  DEF SyncStep, EndBackfill, drainVars
<1>4. ASSUME NEW w \in Worker, FailPass(w)
      PROVE  UNCHANGED vars
  BY <1>4 DEF FailPass, drainVars
<1>5. CASE UNCHANGED syncVars
  BY <1>5 DEF syncVars, drainVars
<1> QED BY <1>1, <1>2, <1>3, <1>4, <1>5 DEF SyncNext

(* Every loop of dirty passes and drains implements the queue's            *)
(* specification: between the reading and the clearing of its rows a pass  *)
(* deletes and asks for tasks like any other client of the queue.          *)
THEOREM SyncImplementsQueue == SyncSpec => Spec
<1>1. SyncInit => Init
  BY InitIsQueueInit DEF SyncInit
<1> QED BY <1>1, SyncStepIsQueueStep, PTL DEF SyncSpec, Spec

--------------------------------------------------------------------------------
(* A page about to be enqueued holds entities, for a model: the lexical    *)
(* target, which is no model, never reaches EnqueueMany.                   *)
PageOK(p) ==
    /\ p = [target |-> p.target, cursor |-> p.cursor, ids |-> p.ids,
            last |-> p.last, at |-> p.at]
    /\ p.ids \in SUBSET Entity
    /\ p.at = "enqueue" => p.target \in Model

PageInv ==
    /\ page = [w \in Worker |-> page[w]]
    /\ \A w \in Worker : page[w] # None => PageOK(page[w])

LEMMA OnePageChanges ==
    ASSUME PageInv, NEW w \in Worker, NEW p, page' = [page EXCEPT ![w] = p],
           p # None => PageOK(p)
    PROVE  PageInv'
  BY DEF PageInv

LEMMA PageStep ==
    ASSUME PageInv, NEW w \in Worker, page[w] # None, NEW at, at # "enqueue",
           ToStep(w, at)
    PROVE  PageInv'
  BY DEF PageInv, PageOK, ToStep

LEMMA BackfillStepKeepsPages ==
    ASSUME PageInv, NEW w \in Worker, BackfillStep(w)
    PROVE  PageInv'
<1>1. ASSUME NEW t \in Target, ReadCursor(w, t)
      PROVE  PageInv'
  <2>1. CASE UNCHANGED page
    BY <2>1 DEF PageInv
  <2>2. CASE ~UNCHANGED page
    <3> DEFINE p == [target |-> t, ids |-> {}, last |-> FALSE,
                     cursor |-> Ensured(t).cursor, at |-> "cursor"]
    <3>1. page' = [page EXCEPT ![w] = p]
      BY <1>1, <2>2 DEF ReadCursor
    <3>2. PageOK(p)
      BY DEF PageOK
    <3> QED BY <3>1, <3>2, OnePageChanges
  <2> QED BY <2>1, <2>2
<1>2. CASE List(w)
  <2> DEFINE c == page[w].cursor
             p == [target |-> page[w].target, cursor |-> NextCursor(c),
                   ids |-> Listed(c), last |-> Listed(c) = After(c),
                   at |-> IF Listed(c) = {} THEN "save" ELSE "listed"]
  <2>1. page' = [page EXCEPT ![w] = p]
    BY <1>2 DEF List, PageInv
  <2>2. Listed(c) \in SUBSET Entity
    BY DEF Listed, After
  <2>3. PageOK(p)
    BY <2>2 DEF PageOK
  <2> QED BY <2>1, <2>3, OnePageChanges
<1>3. CASE BuildPage(w) \/ UpsertPage(w) \/ DeleteBlankPage(w) \/ EnqueuePage(w)
  BY <1>3, PageStep DEF BuildPage, UpsertPage, DeleteBlankPage, EnqueuePage, OnPage
<1>4. CASE FilterMissingEmbeddings(w)
  <2> DEFINE missing == Missing(page[w].target, page[w].ids)
             next == IF missing = {} THEN "save" ELSE "enqueue"
             p == [target |-> page[w].target, cursor |-> page[w].cursor,
                   ids |-> missing, last |-> page[w].last, at |-> next]
  <2>1. page' = [page EXCEPT ![w] = p] /\ page[w].target \in Model /\ page[w] # None
    BY <1>4 DEF FilterMissingEmbeddings, OnPage, PageInv
  <2>2. PageOK(page[w])
    BY <2>1 DEF PageInv
  <2>3. missing \in SUBSET Entity
    BY <2>2 DEF Missing, PageOK
  <2>4. PageOK(p)
    BY <2>1, <2>3 DEF PageOK
  <2> QED BY <2>1, <2>4, OnePageChanges
<1>5. CASE SavePage(w)
  BY <1>5, OnePageChanges DEF SavePage, EndPage
<1>6. CASE FinishBackfill(w)
  BY <1>6, OnePageChanges DEF FinishBackfill, EndTick
<1> QED BY <1>1, <1>2, <1>3, <1>4, <1>5, <1>6 DEF BackfillStep

LEMMA PagesStayGood == PageInv /\ [BackfillNext]_backfillVars => PageInv'
<1> SUFFICES ASSUME PageInv, [BackfillNext]_backfillVars PROVE PageInv'
  OBVIOUS
<1>1. CASE \E e \in Entity : HostMarks(e)
  BY <1>1 DEF HostMarks, tickVars, PageInv
<1>2. CASE \E k \in Key : TaskExpires(k)
  BY <1>2 DEF TaskExpires, tickVars, PageInv
<1>3. ASSUME NEW w \in Worker, BackfillStep(w)
      PROVE  PageInv'
  BY <1>3, BackfillStepKeepsPages
<1>4. ASSUME NEW w \in Worker, OtherStep(w)
      PROVE  PageInv'
  BY <1>4 DEF OtherStep, tickVars, PageInv
<1>5. ASSUME NEW w \in Worker, Fails(w)
      PROVE  PageInv'
  BY <1>5, OnePageChanges DEF Fails, EndTick
<1>6. ASSUME NEW w \in Worker, SaveFails(w)
      PROVE  PageInv'
  BY <1>6, OnePageChanges DEF SaveFails, EndPage
<1>7. CASE UNCHANGED backfillVars
  BY <1>7 DEF backfillVars, tickVars, PageInv
<1> QED BY <1>1, <1>2, <1>3, <1>4, <1>5, <1>6, <1>7 DEF BackfillNext

(* The statements of backfillOnce.                                         *)
LEMMA BackfillStepIsQueueStep ==
    ASSUME PageInv, NEW w \in Worker, BackfillStep(w)
    PROVE  [Next]_vars
<1>1. CASE EnqueuePage(w)
  <2>1. page[w] # None /\ page[w].at = "enqueue"
    BY <1>1 DEF EnqueuePage, OnPage
  <2>2. page[w].ids \in SUBSET Entity /\ page[w].target \in Model
    BY <2>1 DEF PageInv, PageOK
  <2> QED BY <1>1, <2>2, RequestIsQueueStep DEF EnqueuePage
<1>2. ASSUME NEW t \in Target, ReadCursor(w, t)
      PROVE  UNCHANGED vars
  BY <1>2 DEF ReadCursor, syncVars, drainVars
<1>3. CASE List(w) \/ FilterMissingEmbeddings(w) \/ SavePage(w)
  BY <1>3 DEF List, FilterMissingEmbeddings, SavePage, EndPage, syncVars, drainVars
<1>4. CASE BuildPage(w) \/ UpsertPage(w) \/ DeleteBlankPage(w) \/ FinishBackfill(w)
  BY <1>4 DEF BuildPage, UpsertPage, DeleteBlankPage, FinishBackfill, EndBackfill,
              drainVars
<1> QED BY <1>1, <1>2, <1>3, <1>4 DEF BackfillStep

LEMMA TickIsQueueStep ==
    ASSUME PageInv, [BackfillNext]_backfillVars
    PROVE  [Next]_vars
<1>1. CASE \E e \in Entity : HostMarks(e)
  BY <1>1 DEF HostMarks, MarkDirty, HostEdit
<1>2. CASE \E k \in Key : TaskExpires(k)
  BY <1>2 DEF TaskExpires, DrainExpire, Next
<1>3. ASSUME NEW w \in Worker, BackfillStep(w)
      PROVE  [Next]_vars
  BY <1>3, BackfillStepIsQueueStep
<1>4. ASSUME NEW w \in Worker, OtherStep(w)
      PROVE  [Next]_vars
  BY <1>4, DirtyStepIsQueueStep, DrainIsQueueStep DEF OtherStep
<1>5. ASSUME NEW w \in Worker, Fails(w)
      PROVE  UNCHANGED vars
  BY <1>5 DEF Fails, FailPass, ListFails, drainVars
<1>6. ASSUME NEW w \in Worker, SaveFails(w)
      PROVE  UNCHANGED vars
  BY <1>6 DEF SaveFails, EndPage, syncVars, drainVars
<1>7. CASE UNCHANGED backfillVars
  BY <1>7 DEF backfillVars, syncVars, drainVars
<1> QED BY <1>1, <1>2, <1>3, <1>4, <1>5, <1>6, <1>7 DEF BackfillNext

(* The whole of SyncOnce implements the queue's specification.             *)
THEOREM BackfillImplementsQueue == BackfillSpec => Spec
<1>1. BackfillInit => Init /\ PageInv
  BY DEF BackfillInit, PageInv
<1>2. BackfillSpec => []PageInv
  BY <1>1, PagesStayGood, PTL DEF BackfillSpec
<1> QED BY <1>1, <1>2, TickIsQueueStep, PTL DEF BackfillSpec, Spec

(* So in every loop of SyncOnce, however its statements fail, at most one  *)
(* token matches a row and the attempts cap is exact.                      *)
THEOREM SyncOnceKeepsQueueInvariant == BackfillSpec => []IInv
  BY BackfillImplementsQueue, InductiveInvariant, PTL

--------------------------------------------------------------------------------
(* Types.  The queue's type invariant after a step comes from the queue's  *)
(* theorems; the rest is the drain's, the pass's and the tick's own.       *)
MarkTypes ==
    /\ dirty \in [Entity -> Mark \cup {None}]
    /\ gone \in [Entity -> BOOLEAN]
    /\ docs \in [Entity -> 0 .. edits]
    /\ lost \subseteq Entity

PassTypes ==
    /\ phase \in [Worker -> Phase]
    /\ batch \in [Worker -> [Entity -> Mark \cup {None}]]
    /\ todo \in [Worker -> SUBSET Statement]
    /\ lex \in [Worker -> [Entity -> (0 .. edits) \cup {None}]]

LEMMA SyncTypesSplit == SyncTypeOK <=> DrainTypeOK /\ MarkTypes /\ PassTypes
  BY DEF SyncTypeOK, MarkTypes, PassTypes

(* What is known of the drain: its types, and every batch accounted.       *)
DrainSide == DrainTypeOK /\ BatchInv

LEMMA SameDrain == DrainSide /\ UNCHANGED drainVars => DrainSide' /\ edits' = edits
<1> SUFFICES ASSUME DrainSide, UNCHANGED drainVars PROVE DrainSide' /\ edits' = edits
  OBVIOUS
<1>1. UNCHANGED <<task, dead, lease, overtaken, host, assets, edits, owed, active, vec,
                  stage, doc, calls>>
  BY DEF drainVars, vars, hostVars, workVars
<1> QED BY <1>1, SameBatches DEF DrainSide, DrainTypeOK, TypeOK

LEMMA RequestKeepsDrain ==
    ASSUME DrainSide, TypeOK', NEW E \in SUBSET Entity, NEW m \in Model, Request(E, m)
    PROVE  DrainSide' /\ edits' = edits
  BY RequestTypes, OthersLeaveBatches, SameBatches DEF DrainSide, Request

LEMMA ExpireKeepsDrain ==
    ASSUME DrainSide, TypeOK', NEW k \in Key, DrainExpire(k)
    PROVE  DrainSide' /\ edits' = edits
  BY ExpireTypes, OthersLeaveBatches, SameBatches DEF DrainSide, DrainExpire, hostVars

LEMMA WorkerStepKeepsDrain ==
    ASSUME DrainSide, TypeOK', NEW w \in Worker, WorkerStep(w)
    PROVE  DrainSide' /\ edits' = edits
  BY WorkerStepTypes, WorkerStepKeepsBatches, WorkerStepLeavesHost DEF DrainSide

(* The deletions of a pass: vectors and rows go, leases stay.              *)
LEMMA DeletionKeepsDrain ==
    ASSUME DrainSide, TypeOK', NEW w \in Worker, NEW e \in Entity,
           DeleteEmbeddingVectors(w, e) \/ DeleteTasks(w, e)
    PROVE  DrainSide' /\ edits' = edits
<1>1. 0 \in 0 .. edits
  BY EmbedDrainAssumption DEF DrainSide, DrainTypeOK
<1>2. UNCHANGED <<host, assets, edits, owed, active, stage, doc, calls, lease>>
  BY DEF DeleteEmbeddingVectors, DeleteTasks, DeleteAllForEntity, DeleteRows, vars,
         hostVars, workVars
<1>3. vec' \in [Key -> 0 .. edits]
  BY <1>1 DEF DeleteEmbeddingVectors, DeleteTasks, DrainSide, DrainTypeOK
<1> QED BY <1>2, <1>3, SameBatches DEF DrainSide, DrainTypeOK

LEMMA EditKeepsDrain ==
    ASSUME DrainSide, NEW e \in Entity, HostEdit(e)
    PROVE  DrainSide' /\ edits' = edits + 1 /\ 0 .. edits \subseteq 0 .. edits'
<1>1. edits \in Nat /\ edits' = edits + 1
  BY EmbedDrainAssumption DEF DrainSide, DrainTypeOK, HostEdit
<1>2. 0 .. edits \subseteq 0 .. edits'
  BY <1>1
<1> QED BY <1>1, <1>2, HostEditTypes, OthersLeaveBatches, SameBatches DEF DrainSide

LEMMA EditTypes ==
    ASSUME DrainSide, MarkTypes, PassTypes, NEW e \in Entity, MarkDirty(e)
    PROVE  DrainSide' /\ MarkTypes' /\ PassTypes'
<1>1. DrainSide' /\ edits' = edits + 1 /\ 0 .. edits \subseteq 0 .. edits'
  BY EditKeepsDrain DEF MarkDirty
<1>2. edits \in Nat
  BY EmbedDrainAssumption DEF DrainSide, DrainTypeOK
<1>3. \A d \in BOOLEAN : NewMark(d) \in Mark
  BY <1>2 DEF NewMark, Mark
<1>4. dirty' \in [Entity -> Mark \cup {None}] /\ gone' \in [Entity -> BOOLEAN]
  BY <1>3 DEF MarkDirty, MarkTypes
<1>5. docs' \in [Entity -> 0 .. edits'] /\ lost' \subseteq Entity
  BY <1>1 DEF MarkDirty, MarkTypes
<1>6. lex' \in [Worker -> [Entity -> (0 .. edits') \cup {None}]]
  BY <1>1 DEF MarkDirty, PassTypes, passVars
<1> QED BY <1>1, <1>4, <1>5, <1>6 DEF MarkDirty, MarkTypes, PassTypes, passVars

LEMMA GotoTypes ==
    ASSUME PassTypes, NEW w \in Worker, NEW p \in Phase, NEW S \in SUBSET Statement,
           Goto(w, p, S)
    PROVE  phase' \in [Worker -> Phase] /\ todo' \in [Worker -> SUBSET Statement]
  BY DEF PassTypes, Goto

LEMMA EndPassTypes ==
    ASSUME PassTypes, NEW w \in Worker, NEW p \in Phase, EndPass(w, p),
           edits' = edits
    PROVE  PassTypes'
  BY GotoTypes DEF PassTypes, EndPass, NoRows

LEMMA ExecuteTypes ==
    ASSUME PassTypes, NEW w \in Worker, NEW s, Execute(w, s), edits' = edits
    PROVE  PassTypes'
  BY DEF PassTypes, Execute

(* The two document statements, of a pass or of a page.                    *)
LEMMA DocsTypes ==
    ASSUME DrainSide, MarkTypes, PassTypes, NEW w \in Worker
    PROVE  /\ UpsertedDocs(w) \in [Entity -> 0 .. edits]
           /\ WithoutBlankDocs(w) \in [Entity -> 0 .. edits]
<1>1. 0 \in 0 .. edits
  BY EmbedDrainAssumption DEF DrainSide, DrainTypeOK
<1> QED BY <1>1 DEF UpsertedDocs, WithoutBlankDocs, MarkTypes, PassTypes

(* The strings a callback returns for some of the ids S.                   *)
LEMMA GivenTypes ==
    ASSUME DrainSide, PassTypes, NEW w \in Worker, NEW given,
           lex' = [lex EXCEPT ![w] =
                     [e \in Entity |-> IF e \in given THEN host[e] ELSE None]]
    PROVE  lex' \in [Worker -> [Entity -> (0 .. edits) \cup {None}]]
  BY DEF DrainSide, DrainTypeOK, PassTypes

LEMMA DirtyStepTypes ==
    ASSUME DrainSide, MarkTypes, PassTypes, TypeOK', NEW w \in Worker, DirtyStep(w)
    PROVE  DrainSide' /\ MarkTypes' /\ PassTypes'
<1> USE DEF markVars
<1>1. CASE ReadDirty(w)
  <2>1. PICK S \in SUBSET Entity :
           LET read == S \ BlankKey
               del == {e \in read : dirty[e].deleted}
           IN
           /\ batch' = [batch EXCEPT ![w] =
                 [e \in Entity |-> IF e \in read THEN dirty[e] ELSE None]]
           /\ IF read = {} THEN Goto(w, "backfill", {})
              ELSE Goto(w, "delete", del \X {"docs", "vecs", "tasks"})
    BY <1>1 DEF ReadDirty, WithKeys
  <2>2. batch' \in [Worker -> [Entity -> Mark \cup {None}]]
    BY <2>1 DEF MarkTypes, PassTypes
  <2>3. phase' \in [Worker -> Phase] /\ todo' \in [Worker -> SUBSET Statement]
    BY <2>1, GotoTypes DEF Phase, Statement
  <2> QED BY <1>1, <2>2, <2>3, SameDrain DEF ReadDirty, MarkTypes, PassTypes
<1>2. CASE BuildLexicalString(w)
  <2>1. phase' \in [Worker -> Phase] /\ todo' \in [Worker -> SUBSET Statement]
    BY <1>2, GotoTypes DEF BuildLexicalString, Phase
  <2>2. lex' \in [Worker -> [Entity -> (0 .. edits) \cup {None}]]
    BY <1>2, GivenTypes DEF BuildLexicalString
  <2> QED BY <1>2, <2>1, <2>2, SameDrain DEF BuildLexicalString, MarkTypes, PassTypes
<1>3. CASE UpsertSearchDocuments(w)
  <2>1. phase' \in [Worker -> Phase] /\ todo' \in [Worker -> SUBSET Statement]
    BY <1>3, GotoTypes DEF UpsertSearchDocuments, Phase
  <2>2. DrainSide' /\ edits' = edits
    BY <1>3, SameDrain DEF UpsertSearchDocuments
  <2> QED
    BY <1>3, <2>1, <2>2, DocsTypes DEF UpsertSearchDocuments, MarkTypes, PassTypes
<1>4. CASE DeleteBlankDocuments(w)
  <2>1. active[w] \in SUBSET Statement
    BY DEF DrainSide, DrainTypeOK, Statement
  <2>2. phase' \in [Worker -> Phase] /\ todo' \in [Worker -> SUBSET Statement]
    BY <1>4, <2>1, GotoTypes DEF DeleteBlankDocuments, Phase
  <2>3. DrainSide' /\ edits' = edits
    BY <1>4, SameDrain DEF DeleteBlankDocuments
  <2> QED
    BY <1>4, <2>2, <2>3, DocsTypes DEF DeleteBlankDocuments, MarkTypes, PassTypes
<1>5. CASE ClearDirty(w)
  <2>1. DrainSide' /\ edits' = edits
    BY <1>5, SameDrain DEF ClearDirty
  <2>2. PassTypes'
    BY <1>5, <2>1, EndPassTypes DEF ClearDirty, Phase
  <2> QED
    BY <1>5, <2>1, <2>2 DEF ClearDirty, Cleared, InBatch, MarkTypes
<1>6. ASSUME NEW e \in Entity, DeleteSearchDocuments(w, e)
      PROVE  DrainSide' /\ MarkTypes' /\ PassTypes'
  <2>1. DrainSide' /\ edits' = edits
    BY <1>6, SameDrain DEF DeleteSearchDocuments
  <2>2. 0 \in 0 .. edits
    BY EmbedDrainAssumption DEF DrainSide, DrainTypeOK
  <2> QED BY <1>6, <2>1, <2>2, ExecuteTypes DEF DeleteSearchDocuments, MarkTypes
<1>7. ASSUME NEW e \in Entity, DeleteEmbeddingVectors(w, e) \/ DeleteTasks(w, e)
      PROVE  DrainSide' /\ MarkTypes' /\ PassTypes'
  BY <1>7, DeletionKeepsDrain, ExecuteTypes
  DEF DeleteEmbeddingVectors, DeleteTasks, MarkTypes
<1>8. ASSUME NEW m \in Model, EnqueueModel(w, m)
      PROVE  DrainSide' /\ MarkTypes' /\ PassTypes'
  <2>1. Live(w) \in SUBSET Entity
    BY DEF Live, InBatch
  <2>2. DrainSide' /\ edits' = edits
    BY <1>8, <2>1, RequestKeepsDrain DEF EnqueueModel
  <2> QED BY <1>8, <2>2, ExecuteTypes DEF EnqueueModel, MarkTypes
<1> QED BY <1>1, <1>2, <1>3, <1>4, <1>5, <1>6, <1>7, <1>8 DEF DirtyStep

(* The drain, and the steps that only move on to another phase.            *)
LEMMA OtherStepTypes ==
    ASSUME DrainSide, MarkTypes, PassTypes, TypeOK', NEW w \in Worker,
           Drain(w) \/ NothingDue(w) \/ EndBackfill(w) \/ FailPass(w)
    PROVE  DrainSide' /\ MarkTypes' /\ PassTypes'
<1> USE DEF markVars
<1>1. CASE Drain(w)
  <2>1. DrainSide' /\ edits' = edits
    BY <1>1, WorkerStepKeepsDrain DEF Drain
  <2>2. phase' \in [Worker -> Phase]
    BY <1>1 DEF Drain, PassTypes, Phase
  <2> QED BY <1>1, <2>1, <2>2 DEF Drain, MarkTypes, PassTypes
<1>2. CASE NothingDue(w) \/ EndBackfill(w)
  <2>1. phase' \in [Worker -> Phase] /\ todo' \in [Worker -> SUBSET Statement]
    BY <1>2, GotoTypes DEF NothingDue, EndBackfill, Phase
  <2> QED BY <1>2, <2>1, SameDrain DEF NothingDue, EndBackfill, MarkTypes, PassTypes
<1>3. CASE FailPass(w)
  <2>1. DrainSide' /\ edits' = edits
    BY <1>3, SameDrain DEF FailPass
  <2> QED BY <1>3, <2>1, EndPassTypes DEF FailPass, MarkTypes, Phase
<1> QED BY <1>1, <1>2, <1>3

LEMMA NothingHappensTypes ==
    DrainSide /\ MarkTypes /\ PassTypes /\ UNCHANGED syncVars
        => DrainSide' /\ MarkTypes' /\ PassTypes'
  BY SameDrain DEF syncVars, markVars, passVars, MarkTypes, PassTypes

SyncSide == DrainSide /\ MarkTypes /\ PassTypes

LEMMA SyncInitTypes == SyncInit => SyncSide
<1> SUFFICES ASSUME SyncInit PROVE SyncSide
  OBVIOUS
<1>1. DrainSide
  BY InitTypes, InitBatches DEF SyncInit, DrainSide
<1>2. 0 \in 0 .. edits
  BY DEF SyncInit, DrainInit
<1> QED BY <1>1, <1>2 DEF SyncInit, SyncSide, MarkTypes, PassTypes, NoRows, Phase

LEMMA SyncNextTypes == SyncSide /\ TypeOK' /\ [SyncNext]_syncVars => SyncSide'
<1> SUFFICES ASSUME SyncSide, TypeOK', [SyncNext]_syncVars PROVE SyncSide'
  OBVIOUS
<1>1. ASSUME NEW k \in Key, DrainExpire(k) /\ UNCHANGED <<markVars, passVars>>
      PROVE  SyncSide'
  BY <1>1, ExpireKeepsDrain DEF SyncSide, MarkTypes, PassTypes, markVars, passVars
<1> QED BY <1>1, EditTypes, DirtyStepTypes, OtherStepTypes, NothingHappensTypes
        DEF SyncNext, SyncStep, SyncSide

LEMMA SyncSideInvariant == SyncSpec => []SyncSide
<1>1. IInv => TypeOK
  BY DEF IInv
<1>2. SyncSpec => []IInv
  BY SyncImplementsQueue, InductiveInvariant, PTL
<1> QED BY <1>1, <1>2, SyncInitTypes, SyncNextTypes, PTL DEF SyncSpec

(* Every variable of the dirty pass keeps its type: marks, batches and     *)
(* strings stay entity by entity, and no version passes the newest edit.   *)
THEOREM SyncTypeCorrect == SyncSpec => []SyncTypeOK
<1>1. SyncSide => SyncTypeOK
  BY SyncTypesSplit DEF SyncSide, DrainSide
<1> QED BY <1>1, SyncSideInvariant, PTL

--------------------------------------------------------------------------------
(* Pages.  A page holds the first entities after the cursor: it has a last *)
(* one, where the cursor goes, and no entity in between is left out.       *)
LEMMA SmallestOf ==
    ASSUME NEW S \in SUBSET Nat, S # {}
    PROVE  \E n \in S : \A m \in S : n <= m
<1>1. IsWellFoundedOn(OpToRel(<, Nat), Nat)
  BY NatLessThanWellFounded
<1>2. PICK n \in S : \A m \in S : <<m, n>> \notin OpToRel(<, Nat)
  BY <1>1, WFMin
<1>3. \A m \in S : ~(m < n)
  BY <1>2 DEF OpToRel
<1> QED BY <1>3

UpTo(c, e) == {f \in After(c) : f <= e}

LEMMA RankGrows ==
    ASSUME NEW c, NEW e \in After(c)
    PROVE  /\ IsFiniteSet(UpTo(c, e))
           /\ Cardinality(UpTo(c, e)) \in Nat
           /\ \A f \in After(c) :
                 f < e => Cardinality(UpTo(c, f)) < Cardinality(UpTo(c, e))
<1>1. After(c) \subseteq Nat \ {0}
  BY BackfillAssumption DEF After
<1>2. \A f \in After(c) : /\ IsFiniteSet(UpTo(c, f))
                          /\ Cardinality(UpTo(c, f)) \in Nat
  <2> SUFFICES ASSUME NEW f \in After(c)
               PROVE  IsFiniteSet(UpTo(c, f)) /\ Cardinality(UpTo(c, f)) \in Nat
    OBVIOUS
  <2>1. UpTo(c, f) \in SUBSET (1 .. f) /\ f \in Nat
    BY <1>1 DEF UpTo
  <2>2. IsFiniteSet(1 .. f)
    BY <2>1, FS_Interval
  <2> QED BY <2>1, <2>2, FS_Subset, FS_CardinalityType
<1>3. ASSUME NEW f \in After(c), f < e
      PROVE  Cardinality(UpTo(c, f)) < Cardinality(UpTo(c, e))
  <2>1. UpTo(c, f) \in SUBSET UpTo(c, e) /\ e \in UpTo(c, e) \ UpTo(c, f)
    BY <1>1, <1>3 DEF UpTo
  <2> QED BY <1>2, <2>1, FS_Subset
<1> QED BY <1>2, <1>3

LEMMA ListedPage ==
    ASSUME NEW c
    PROVE  /\ Listed(c) \subseteq After(c)
           /\ Listed(c) # {} => /\ NextCursor(c) \in Listed(c)
                               /\ \A f \in Listed(c) : f <= NextCursor(c)
           /\ \A e \in Listed(c), f \in After(c) : f <= e => f \in Listed(c)
           /\ Listed(c) = {} => NextCursor(c) = c
<1>1. After(c) \subseteq Nat /\ Listed(c) = {e \in After(c) :
                                 Cardinality(UpTo(c, e)) <= BackfillPageSize}
  BY BackfillAssumption DEF After, Listed, UpTo
<1>2. ASSUME Listed(c) # {}
      PROVE  \E e \in Listed(c) : \A f \in Listed(c) : f <= e
  <2> DEFINE room(e) == BackfillPageSize - Cardinality(UpTo(c, e))
             S == {room(e) : e \in Listed(c)}
  <2>1. \A e \in Listed(c) : room(e) \in Nat
    BY <1>1, RankGrows, BackfillAssumption
  <2>2. S \in SUBSET Nat /\ S # {}
    BY <1>2, <2>1
  <2>3. PICK n \in S : \A m \in S : n <= m
    BY <2>2, SmallestOf
  <2>4. PICK e \in Listed(c) : n = room(e)
    BY <2>3
  <2>5. \A f \in Listed(c) : Cardinality(UpTo(c, f)) <= Cardinality(UpTo(c, e))
    BY <1>1, <2>3, <2>4, RankGrows, BackfillAssumption
  <2>6. \A f \in Listed(c) : ~(e < f)
    BY <1>1, <2>5, RankGrows
  <2> QED BY <1>1, <2>6
<1>3. ASSUME NEW e \in Listed(c), NEW f \in After(c), f <= e
      PROVE  f \in Listed(c)
  BY <1>1, <1>3, RankGrows, BackfillAssumption
<1>4. Listed(c) # {} => /\ NextCursor(c) \in Listed(c)
                        /\ \A f \in Listed(c) : f <= NextCursor(c)
  BY <1>2 DEF NextCursor
<1> QED BY <1>1, <1>3, <1>4 DEF NextCursor

--------------------------------------------------------------------------------
(* Types of the backfill.  A page is only begun below the tick's limit, so *)
(* counting it when it ends stays within the limit.                        *)
TickTypes ==
    /\ progress \in [Target -> Progress \cup {None}]
    /\ visited \in [Worker -> SUBSET Target]
    /\ pages \in [Worker -> 0 .. BackfillMaxPages]
    /\ page \in [Worker -> Page \cup {None}]
    /\ \A w \in Worker : page[w] # None => pages[w] < BackfillMaxPages

LEMMA PageFields ==
    ASSUME TickTypes, NEW w \in Worker, page[w] # None
    PROVE  /\ page[w].target \in Target /\ page[w].cursor \in Cursor
           /\ page[w].ids \in SUBSET Entity /\ page[w].last \in BOOLEAN
  BY DEF TickTypes, Page

LEMMA ReadCursorTypes ==
    ASSUME TickTypes, NEW w \in Worker, NEW t \in Target, ReadCursor(w, t)
    PROVE  TickTypes'
<1>1. Ensured(t) \in Progress
  BY DEF Ensured, TickTypes, Progress, Cursor
<1>2. progress' \in [Target -> Progress \cup {None}]
  BY <1>1 DEF ReadCursor, TickTypes
<1>3. CASE Skipped(t)
  BY <1>2, <1>3 DEF ReadCursor, TickTypes
<1>4. CASE ~Skipped(t)
  <2>1. [target |-> t, ids |-> {}, last |-> FALSE, cursor |-> Ensured(t).cursor,
         at |-> "cursor"] \in Page
    BY <1>1 DEF Page, Progress
  <2> QED BY <1>2, <1>4, <2>1 DEF ReadCursor, TickTypes
<1> QED BY <1>3, <1>4

LEMMA ListTypes ==
    ASSUME TickTypes, NEW w \in Worker, List(w)
    PROVE  TickTypes'
<1> DEFINE c == page[w].cursor
           p == [target |-> page[w].target, cursor |-> NextCursor(c),
                 ids |-> Listed(c), last |-> Listed(c) = After(c),
                 at |-> IF Listed(c) = {} THEN "save" ELSE "listed"]
<1>1. page' = [page EXCEPT ![w] = p] /\ page[w] # None
  BY DEF List, OnPage, TickTypes
<1>2. Listed(c) \in SUBSET Entity
  BY DEF Listed, After
<1>3. NextCursor(c) \in Cursor
  BY <1>1, <1>2, ListedPage, PageFields DEF Cursor
<1>4. p \in Page
  BY <1>1, <1>2, <1>3, PageFields DEF Page
<1> QED BY <1>1, <1>4 DEF List, TickTypes

LEMMA ToStepTypes ==
    ASSUME TickTypes, NEW w \in Worker, page[w] # None,
           NEW at \in {"upsert", "blank", "save"}, ToStep(w, at),
           UNCHANGED <<progress, visited, pages>>
    PROVE  TickTypes'
<1>1. [page[w] EXCEPT !.at = at] \in Page
  BY DEF TickTypes, Page
<1> QED BY <1>1 DEF ToStep, TickTypes

LEMMA FilterTypes ==
    ASSUME TickTypes, NEW w \in Worker, FilterMissingEmbeddings(w)
    PROVE  TickTypes'
<1> DEFINE missing == Missing(page[w].target, page[w].ids)
           p == [target |-> page[w].target, cursor |-> page[w].cursor,
                 ids |-> missing, last |-> page[w].last,
                 at |-> IF missing = {} THEN "save" ELSE "enqueue"]
<1>1. page' = [page EXCEPT ![w] = p] /\ page[w] # None
  BY DEF FilterMissingEmbeddings, OnPage, TickTypes
<1>2. missing \in SUBSET Entity
  BY <1>1, PageFields DEF Missing
<1>3. p \in Page
  BY <1>1, <1>2, PageFields DEF Page
<1> QED BY <1>1, <1>3 DEF FilterMissingEmbeddings, TickTypes

LEMMA EndPageTypes ==
    ASSUME TickTypes, NEW w \in Worker, SavePage(w) \/ SaveFails(w)
    PROVE  TickTypes'
<1>1. EndPage(w) /\ page[w] # None
  BY DEF SavePage, SaveFails, EndPage, Worked, OnPage
<1>2. visited' \in [Worker -> SUBSET Target]
  BY <1>1, PageFields DEF EndPage, TickTypes
<1>3. pages' \in [Worker -> 0 .. BackfillMaxPages]
  BY <1>1, BackfillAssumption DEF EndPage, TickTypes
<1>4. progress' \in [Target -> Progress \cup {None}]
  <2>1. [cursor |-> page[w].cursor,
         state |-> IF page[w].last THEN "done" ELSE "running"] \in Progress
    BY <1>1, PageFields DEF Progress
  <2> QED BY <2>1 DEF SavePage, SaveFails, SaveProgress, UpdateState, TickTypes
<1>5. /\ page' \in [Worker -> Page \cup {None}]
      /\ \A v \in Worker : page'[v] # None => pages'[v] < BackfillMaxPages
  BY <1>1 DEF EndPage, TickTypes
<1> QED BY <1>2, <1>3, <1>4, <1>5 DEF TickTypes

LEMMA EndTickTypes ==
    ASSUME TickTypes, NEW w \in Worker, EndTick(w), UNCHANGED progress
    PROVE  TickTypes'
<1>1. 0 \in 0 .. BackfillMaxPages
  BY BackfillAssumption
<1> QED BY <1>1 DEF EndTick, TickTypes

LEMMA FailsTypes ==
    ASSUME TickTypes, NEW w \in Worker, Fails(w)
    PROVE  TickTypes'
<1>1. 0 \in 0 .. BackfillMaxPages
  BY BackfillAssumption
<1>2. progress' \in [Target -> Progress \cup {None}]
  <2>1. CASE UNCHANGED progress
    BY <2>1 DEF TickTypes
  <2>2. CASE ~UNCHANGED progress
    <3> DEFINE t == page[w].target
    <3>1. UpdateState(t, [cursor |-> progress[t].cursor, state |-> "failed"])
      BY <2>2 DEF Fails, ListFails
    <3>2. t \in Target
      BY <2>2, PageFields DEF Fails, ListFails, OnPage
    <3>3. progress[t] # None =>
             [cursor |-> progress[t].cursor, state |-> "failed"] \in Progress
      BY <3>2 DEF TickTypes, Progress
    <3> QED BY <3>1, <3>2, <3>3 DEF UpdateState, TickTypes
  <2> QED BY <2>1, <2>2
<1> QED BY <1>1, <1>2 DEF Fails, EndTick, TickTypes

LEMMA PageLexTypes ==
    ASSUME SyncSide, NEW w \in Worker, BuildPage(w) \/ UpsertPage(w) \/ DeleteBlankPage(w)
    PROVE  SyncSide'
<1> USE DEF SyncSide, markVars, passVars
<1>1. DrainSide' /\ edits' = edits
  BY SameDrain DEF BuildPage, UpsertPage, DeleteBlankPage
<1>2. CASE BuildPage(w)
  BY <1>1, <1>2, GivenTypes DEF BuildPage, MarkTypes, PassTypes
<1>3. CASE UpsertPage(w)
  BY <1>1, <1>3, DocsTypes DEF UpsertPage, MarkTypes, PassTypes
<1>4. CASE DeleteBlankPage(w)
  <2>1. lex' \in [Worker -> [Entity -> (0 .. edits) \cup {None}]]
    BY <1>4 DEF DeleteBlankPage, PassTypes, NoRows
  <2> QED BY <1>1, <1>4, <2>1, DocsTypes DEF DeleteBlankPage, MarkTypes, PassTypes
<1> QED BY <1>2, <1>3, <1>4

LEMMA BackfillStepTypes ==
    ASSUME SyncSide, PageInv, TickTypes, TypeOK', NEW w \in Worker, BackfillStep(w)
    PROVE  SyncSide' /\ TickTypes'
<1>1. UNCHANGED syncVars => SyncSide'
  BY NothingHappensTypes DEF SyncSide
<1>2. ASSUME NEW t \in Target, ReadCursor(w, t)
      PROVE  SyncSide' /\ TickTypes'
  BY <1>1, <1>2, ReadCursorTypes DEF ReadCursor
<1>3. CASE List(w) \/ FilterMissingEmbeddings(w) \/ SavePage(w)
  BY <1>1, <1>3, ListTypes, FilterTypes, EndPageTypes
  DEF List, FilterMissingEmbeddings, SavePage, EndPage
<1>4. CASE BuildPage(w) \/ UpsertPage(w) \/ DeleteBlankPage(w)
  BY <1>4, PageLexTypes, ToStepTypes DEF BuildPage, UpsertPage, DeleteBlankPage, OnPage
<1>5. CASE EnqueuePage(w)
  <2>1. page[w] # None /\ page[w].ids \in SUBSET Entity /\ page[w].target \in Model
    BY <1>5 DEF EnqueuePage, OnPage, PageInv, PageOK
  <2>2. DrainSide' /\ edits' = edits
    BY <1>5, <2>1, RequestKeepsDrain DEF EnqueuePage, SyncSide
  <2> QED BY <1>5, <2>1, <2>2, ToStepTypes
          DEF EnqueuePage, SyncSide, MarkTypes, PassTypes, markVars, passVars
<1>6. CASE FinishBackfill(w)
  BY <1>6, EndTickTypes, OtherStepTypes DEF FinishBackfill, SyncSide
<1> QED BY <1>2, <1>3, <1>4, <1>5, <1>6 DEF BackfillStep

LEMMA BackfillNextTypes ==
    ASSUME SyncSide, PageInv, TickTypes, TypeOK', [BackfillNext]_backfillVars
    PROVE  SyncSide' /\ TickTypes'
<1>1. UNCHANGED <<progress, tickVars>> => TickTypes'
  BY DEF TickTypes, tickVars
<1>2. ASSUME NEW e \in Entity, HostMarks(e)
      PROVE  SyncSide' /\ TickTypes'
  BY <1>1, <1>2, EditTypes DEF HostMarks, SyncSide
<1>3. ASSUME NEW k \in Key, TaskExpires(k)
      PROVE  SyncSide' /\ TickTypes'
  BY <1>1, <1>3, ExpireKeepsDrain
  DEF TaskExpires, SyncSide, MarkTypes, PassTypes, markVars, passVars, tickVars
<1>4. ASSUME NEW w \in Worker, OtherStep(w)
      PROVE  SyncSide' /\ TickTypes'
  BY <1>1, <1>4, DirtyStepTypes, OtherStepTypes DEF OtherStep, SyncSide
<1>5. ASSUME NEW w \in Worker, Fails(w)
      PROVE  SyncSide' /\ TickTypes'
  <2>1. CASE FailPass(w)
    BY <1>5, <2>1, FailsTypes, OtherStepTypes DEF SyncSide
  <2>2. CASE ListFails(w)
    <3>1. DrainSide' /\ edits' = edits
      BY <2>2, SameDrain DEF ListFails, SyncSide
    <3>2. PassTypes'
      BY <2>2, <3>1, EndPassTypes DEF ListFails, SyncSide, Phase
    <3> QED BY <1>5, <2>2, <3>1, <3>2, FailsTypes
            DEF ListFails, SyncSide, MarkTypes, markVars
  <2> QED BY <1>5, <2>1, <2>2 DEF Fails
<1>6. ASSUME NEW w \in Worker, SaveFails(w)
      PROVE  SyncSide' /\ TickTypes'
  BY <1>6, NothingHappensTypes, EndPageTypes DEF SaveFails, EndPage, SyncSide
<1>7. CASE UNCHANGED backfillVars
  BY <1>1, <1>7, NothingHappensTypes DEF backfillVars, SyncSide
<1> QED BY <1>2, <1>3, <1>4, <1>5, <1>6, <1>7, BackfillStepTypes DEF BackfillNext

LEMMA BackfillInitTypes == BackfillInit => SyncSide /\ PageInv /\ TickTypes
<1> SUFFICES ASSUME BackfillInit PROVE SyncSide /\ PageInv /\ TickTypes
  OBVIOUS
<1>1. TypeOK
  BY InitIInv DEF BackfillInit, IInv
<1>2. 1 \in 0 .. MaxEdits /\ edits = 1
  BY BackfillAssumption, EmbedDrainAssumption DEF BackfillInit
<1>3. DrainTypeOK
  BY <1>1, <1>2 DEF BackfillInit, DrainTypeOK, Stage
<1>4. BatchInv
  BY NoBatchIsGood DEF BackfillInit, Init, NoBatches
<1>5. MarkTypes
  BY <1>2 DEF BackfillInit, MarkTypes, Mark
<1>6. PassTypes
  BY <1>2 DEF BackfillInit, PassTypes, Phase, NoRows
<1>7. 0 \in 0 .. BackfillMaxPages
  BY BackfillAssumption
<1>8. PageInv /\ TickTypes
  BY <1>7 DEF BackfillInit, PageInv, TickTypes
<1> QED BY <1>3, <1>4, <1>5, <1>6, <1>8 DEF SyncSide, DrainSide

LEMMA TickInvariant == BackfillSpec => [](SyncSide /\ PageInv /\ TickTypes)
<1>1. IInv => TypeOK
  BY DEF IInv
<1> QED
  BY <1>1, BackfillInitTypes, BackfillNextTypes, PagesStayGood,
     SyncOnceKeepsQueueInvariant, PTL
  DEF BackfillSpec

(* Every variable of the backfill keeps its type: the cursor of a page is  *)
(* an entity of the page or where the last page ended, and a tick never    *)
(* counts more than BackfillMaxPages pages.                                *)
THEOREM BackfillTypeCorrect == BackfillSpec => []BackfillTypeOK
<1>1. SyncSide /\ TickTypes => BackfillTypeOK
  BY SyncTypesSplit DEF SyncSide, DrainSide, TickTypes, BackfillTypeOK
<1> QED BY <1>1, TickInvariant, PTL
================================================================================
