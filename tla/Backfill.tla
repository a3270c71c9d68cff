-------------------------------- MODULE Backfill --------------------------------
(***************************************************************************)
(* The whole of SyncOnce (src/worker/searchkit_worker.go): dirty pass,     *)
(* backfillOnce, drain.  The backfill walks the host's entities page by    *)
(* page, once for the lexical documents and once per active model, and     *)
(* keeps a cursor and a state per target in search_documents_              *)
(* backfill_state and embedding_vectors_backfill_state.                    *)
(*                                                                         *)
(* Entities that existed before searchkit did carry version 1; the host    *)
(* may have marked some, and some it deleted, before the first tick.       *)
(***************************************************************************)
EXTENDS DirtySync

CONSTANTS
    Lexical,            \* the lexical target
    BackfillPageSize,
    BackfillMaxPages

Target == {Lexical} \cup Model
Cursor == {0} \cup Entity
Progress == [cursor : Cursor, state : {"running", "done", "failed"}]
Page == [target : Target, cursor : Cursor, ids : SUBSET Entity, last : BOOLEAN,
         at : {"cursor", "listed", "upsert", "blank", "enqueue", "save"}]

ASSUME BackfillAssumption ==
    /\ Entity \subseteq Nat \ {0}
    /\ Lexical \notin Model
    /\ BackfillPageSize \in Nat \ {0}
    /\ BackfillMaxPages \in Nat \ {0}
    /\ MaxEdits # 0      \* version 1 is there from the start
    /\ None \notin Progress
    /\ None \notin Page

(* The targets of a process: SyncOnce reads the active models anew.        *)
Targets(w) == {Lexical} \cup active[w]

VARIABLES
    progress,   \* target -> [cursor, state], None = no row yet
    visited,    \* worker -> targets this backfillOnce is through with
    pages,      \* worker -> pagesDone
    page        \* worker -> the page it works on, or None

tickVars == <<visited, pages, page>>
backfillVars == <<syncVars, progress, tickVars>>

BackfillTypeOK ==
    /\ SyncTypeOK
    /\ progress \in [Target -> Progress \cup {None}]
    /\ visited \in [Worker -> SUBSET Target]
    /\ pages \in [Worker -> 0 .. BackfillMaxPages]
    /\ page \in [Worker -> Page \cup {None}]

BackfillInit ==
    /\ Init
    /\ host \in [Entity -> {0, 1}]
    /\ assets \in {a \in [Entity -> BOOLEAN] :
                      \A e \in Entity : a[e] => host[e] # 0 /\ VLModel # {}}
    /\ edits = 1
    /\ owed = {}
    /\ \E A \in SUBSET Model : active = [w \in Worker |-> A]
    /\ vec = [k \in Key |-> 0]
    /\ stage = [w \in Worker |-> [k \in Key |-> "none"]]
    /\ doc = [w \in Worker |-> [k \in Key |-> 0]]
    /\ calls = [w \in Worker |-> {}]
    /\ \E marked \in SUBSET Entity :
          /\ dirty = [e \in Entity |-> IF e \notin marked THEN None
                                      ELSE [mark |-> 1, deleted |-> host[e] = 0]]
          /\ gone = [e \in Entity |-> e \in marked /\ host[e] = 0]
    /\ docs = [e \in Entity |-> 0]
    /\ phase = [w \in Worker |-> "idle"]
    /\ batch = [w \in Worker |-> NoRows]
    /\ todo = [w \in Worker |-> {}]
    /\ lex = [w \in Worker |-> NoRows]
    /\ lost = {}
    /\ progress = [t \in Target |-> None]
    /\ visited = [w \in Worker |-> {}]
    /\ pages = [w \in Worker |-> 0]
    /\ page = [w \in Worker |-> None]

--------------------------------------------------------------------------------
(* ListEntityIDsPage: the host lists the entities it has after the cursor. *)

After(c) == {e \in Entity : host[e] # 0 /\ e > c}

Listed(c) ==
    {e \in After(c) : Cardinality({f \in After(c) : f <= e}) <= BackfillPageSize}

NextCursor(c) ==
    IF Listed(c) = {} THEN c
    ELSE CHOOSE e \in Listed(c) : \A f \in Listed(c) : f <= e

--------------------------------------------------------------------------------
(* ensureAndGet...BackfillState: INSERT ... ON CONFLICT DO NOTHING, then   *)
(* read.  Lexical targets come first, and a tick spends at most            *)
(* BackfillMaxPages pages; a done target costs none.                       *)
Ensured(t) ==
    IF progress[t] = None THEN [cursor |-> 0, state |-> "running"] ELSE progress[t]

Skipped_Failed(t) == Ensured(t).state # "running"

Skipped(t) == Ensured(t).state = "done"

ReadCursor(w, t) ==
    /\ phase[w] = "backfill"
    /\ page[w] = None
    /\ t \in Targets(w) \ visited[w]
    /\ t \in Model => Lexical \in visited[w]
    /\ pages[w] < BackfillMaxPages
    /\ progress' = [progress EXCEPT ![t] = Ensured(t)]
    /\ IF Skipped(t)
       THEN visited' = [visited EXCEPT ![w] = @ \cup {t}] /\ UNCHANGED page
       ELSE /\ page' = [page EXCEPT ![w] = [target |-> t, ids |-> {}, last |-> FALSE,
                                            cursor |-> Ensured(t).cursor,
                                            at |-> "cursor"]]
            /\ UNCHANGED visited
    /\ UNCHANGED <<syncVars, pages>>

OnPage(w, at) == phase[w] = "backfill" /\ page[w] # None /\ page[w].at = at

ToStep(w, at) == page' = [page EXCEPT ![w].at = at]

List(w) ==
    /\ OnPage(w, "cursor")
    /\ LET c == page[w].cursor IN
       page' = [page EXCEPT ![w] =
                  [target |-> @.target, cursor |-> NextCursor(c), ids |-> Listed(c),
                   last |-> Listed(c) = After(c),
                   at |-> IF Listed(c) = {} THEN "save" ELSE "listed"]]
    /\ UNCHANGED <<syncVars, progress, visited, pages>>

(* UPDATE ... WHERE the row of the target: no row (it has been pruned      *)
(* since), no effect.                                                      *)
UpdateState(t, row) ==
    progress' = [progress EXCEPT ![t] = IF @ = None THEN None ELSE row]

(* The callback fails: the state says so, if that write succeeds, and      *)
(* SyncOnce returns.                                                       *)
ListFails(w) ==
    /\ OnPage(w, "cursor")
    /\ LET t == page[w].target IN
       \/ UpdateState(t, [cursor |-> progress[t].cursor, state |-> "failed"])
       \/ UNCHANGED progress
    /\ EndPass(w, "idle")
    /\ UNCHANGED <<drainVars, markVars>>

--------------------------------------------------------------------------------
(* The lexical page: BuildLexicalString, then UpsertSearchDocuments.       *)
BuildPage(w) ==
    /\ OnPage(w, "listed")
    /\ page[w].target = Lexical
    /\ \E given \in SUBSET page[w].ids :
          /\ \A e \in page[w].ids \ given : host[e] = 0
          /\ lex' = [lex EXCEPT ![w] =
                [e \in Entity |-> IF e \in given THEN host[e] ELSE None]]
    /\ ToStep(w, "upsert")
    /\ UNCHANGED <<drainVars, markVars, phase, batch, todo, progress, visited, pages>>

UpsertPage(w) ==
    /\ OnPage(w, "upsert")
    /\ docs' = UpsertedDocs(w)
    /\ ToStep(w, "blank")
    /\ UNCHANGED <<drainVars, dirty, gone, lost, passVars, progress, visited, pages>>

DeleteBlankPage(w) ==
    /\ OnPage(w, "blank")
    /\ docs' = WithoutBlankDocs(w)
    /\ lex' = [lex EXCEPT ![w] = NoRows]
    /\ ToStep(w, "save")
    /\ UNCHANGED <<drainVars, dirty, gone, lost, phase, batch, todo,
                   progress, visited, pages>>

(* The semantic page: FilterMissingEmbeddings, then EnqueueMany.           *)
Missing_Inverted(m, ids) == {e \in ids : vec[<<e, m>>] # 0}

Missing(m, ids) == {e \in ids : vec[<<e, m>>] = 0}

FilterMissingEmbeddings(w) ==
    /\ OnPage(w, "listed")
    /\ page[w].target \in Model
    /\ LET missing == Missing(page[w].target, page[w].ids) IN
       page' = [page EXCEPT ![w] =
                  [target |-> @.target, cursor |-> @.cursor, ids |-> missing,
                   last |-> @.last, at |-> IF missing = {} THEN "save" ELSE "enqueue"]]
    /\ UNCHANGED <<syncVars, progress, visited, pages>>

EnqueuePage(w) ==
    /\ OnPage(w, "enqueue")
    /\ Request(page[w].ids, page[w].target)
    /\ ToStep(w, "save")
    /\ UNCHANGED <<markVars, passVars, progress, visited, pages>>

--------------------------------------------------------------------------------
(* The cursor moves past the page and the state becomes done or running;   *)
(* an error of this write is discarded, and the page counts all the same.  *)
Worked_Listed(w) == OnPage(w, "save") \/ OnPage(w, "listed")

Worked(w) == OnPage(w, "save")

SaveProgress(w) ==
    UpdateState(page[w].target,
           [cursor |-> page[w].cursor,
            state |-> IF page[w].last THEN "done" ELSE "running"])

EndPage(w) ==
    /\ Worked(w)
    /\ visited' = [visited EXCEPT ![w] = @ \cup {page[w].target}]
    /\ pages' = [pages EXCEPT ![w] = @ + 1]
    /\ page' = [page EXCEPT ![w] = None]
    /\ UNCHANGED syncVars

SavePage(w) == EndPage(w) /\ SaveProgress(w)

SaveFails(w) == EndPage(w) /\ UNCHANGED progress

EndTick(w) ==
    /\ visited' = [visited EXCEPT ![w] = {}]
    /\ pages' = [pages EXCEPT ![w] = 0]
    /\ page' = [page EXCEPT ![w] = None]

FinishBackfill(w) ==
    /\ page[w] = None
    /\ Targets(w) \subseteq visited[w] \/ pages[w] = BackfillMaxPages
    /\ EndBackfill(w)
    /\ EndTick(w)
    /\ UNCHANGED progress

(* Any statement or callback may fail, in the dirty pass or here.          *)
Fails(w) ==
    /\ EndTick(w)
    /\ \/ FailPass(w) /\ UNCHANGED progress
       \/ ListFails(w)

--------------------------------------------------------------------------------
BackfillStep(w) ==
    \/ \E t \in Target : ReadCursor(w, t)
    \/ List(w) \/ BuildPage(w) \/ UpsertPage(w) \/ DeleteBlankPage(w)
    \/ FilterMissingEmbeddings(w) \/ EnqueuePage(w)
    \/ SavePage(w) \/ FinishBackfill(w)

OtherStep(w) ==
    /\ DirtyStep(w) \/ Drain(w) \/ NothingDue(w)
    /\ UNCHANGED <<progress, tickVars>>

HostMarks(e) == MarkDirty(e) /\ UNCHANGED <<progress, tickVars>>

TaskExpires(k) ==
    DrainExpire(k) /\ UNCHANGED <<markVars, passVars, progress, tickVars>>

BackfillNext ==
    \/ \E e \in Entity : HostMarks(e)
    \/ \E k \in Key : TaskExpires(k)
    \/ \E w \in Worker : BackfillStep(w) \/ OtherStep(w) \/ Fails(w) \/ SaveFails(w)

BackfillSpec == BackfillInit /\ [][BackfillNext]_backfillVars

(* A live loop takes its next step.                                        *)
FairBackfillSpec ==
    BackfillSpec /\ \A w \in Worker : WF_backfillVars(BackfillStep(w) \/ OtherStep(w))

--------------------------------------------------------------------------------
(* Properties.                                                             *)

(* The cursor never runs ahead of the work: an entity the host had from    *)
(* the start and never touched, at or before a target's cursor, is indexed *)
(* there, or its task or dead letter says what is left - although pages    *)
(* are replayed, statements fail between listing and saving, and two loops *)
(* overwrite each other's cursor.                                          *)
Untouched(e) == host[e] = 1

Passed(t, e) ==
    progress[t] # None /\ (progress[t].state = "done" \/ e <= progress[t].cursor)

BackfillCovers ==
    \A e \in Entity : Untouched(e) =>
        /\ Passed(Lexical, e) => docs[e] = 1
        /\ \A m \in Model :
              LET k == <<e, m>> IN
              Passed(m, e) /\ Wanted(k) # 0 =>
                  vec[k] = 1 \/ task[k] # None \/ dead[k] # 0

(* With one loop and every target done, the whole index is caught up,      *)
(* whether an entity came to searchkit's notice by a mark or by a listing. *)
Completed(t) == progress[t] # None /\ progress[t].state = "done"

BackfillDone == \A w \in Worker : \A t \in Targets(w) : Completed(t)

BackfillCaughtUp == BackfillDone => IndexCaughtUp

(* If nothing fails any more, every target is done in the end, however     *)
(* small a tick is and whatever failed before.                             *)
BackfillFails == \E w \in Worker : Fails(w) \/ SaveFails(w)

BackfillFinishes ==
    <>[][~BackfillFails]_backfillVars
        => <>BackfillDone
================================================================================
