---- MODULE Overlay ----
(***************************************************************************)
(* The workspace of one task that may run on a copy of it (sandbox/cow.py, *)
(* atomic_l1.py) and the rollback of the task (diffing.py, controller.py). *)
(*                                                                         *)
(* The copy leaves out secret files, and all files if the name of the      *)
(* workspace's own folder looks secret; when the run has succeeded it is   *)
(* promoted, file by file, in a thread.  By then the sandbox is idle, so a *)
(* rollback may be served meanwhile.  The user edits the workspace at any  *)
(* time.                                                                   *)
(*                                                                         *)
(* Abstracted: a file's bytes are one value; directories, links, modes and *)
(* the directories that are always skipped.  External: the user.           *)
(***************************************************************************)
EXTENDS Naturals, FiniteSets

CONSTANTS
  Plain, Secret,   \* paths, and paths for which is_secret_path holds
  Texts,           \* what a file may contain
  Huge,            \* contents over DEFAULT_MAX_FILE_BYTES
  Gone,            \* no file at this path
  MaxFiles,        \* DEFAULT_MAX_SNAPSHOT_FILES
  MaxEdits         \* bound of the model: edits by the user, and writes by tools

ASSUME OverlayAssumption ==
  /\ Plain \intersect Secret = {} /\ Huge \subseteq Texts /\ Gone \notin Texts
  /\ MaxFiles \in Nat /\ MaxEdits \in Nat

VARIABLES
  cow,       \* sandbox_cow
  ignored,   \* the paths secret_ignore_names keeps out of the copy
  tree,      \* the workspace
  copy,      \* the overlay's work tree
  snapshot,  \* state.snapshot: the files, or that it is incomplete
  phase,     \* of the run: "created", "prepared", "works", "idle", "promotes", "removes", "over"
  verdict,   \* "running", "succeeded", "failed"
  todo,      \* paths promote has still to copy or to delete
  undo,      \* restore_snapshot: its stage and the paths left; whether the run was over at its start
  edits,     \* [user, tool]: edits so far
  own        \* history: what the user last knew of his files; what he edited in a promotion or
             \* rollback; what he or a tool has changed since the copy was made

overlayVars == <<cow, ignored, tree, copy, snapshot, phase, verdict, todo, undo, edits, own>>

----
Paths == Plain \union Secret
Present(t) == {f \in Paths : t[f] # Gone}
Incomplete(t) == Cardinality(Present(t)) > MaxFiles \/ \E f \in Paths : t[f] \in Huge

\* snapshot_workspace, which does not leave out secret files.
SnapshotOf(t) == [files |-> t, whole |-> ~Incomplete(t), empty |-> Present(t) = {}]

OverlayInit ==
  /\ cow \in BOOLEAN
  /\ ignored \in IF cow THEN {Secret, Paths} ELSE {Secret}
  /\ tree \in [Paths -> Texts \union {Gone}]
  /\ copy = [f \in Paths |-> Gone]
  /\ snapshot = SnapshotOf(tree)
  /\ phase = "created" /\ verdict = "running" /\ todo = {}
  /\ undo = [stage |-> "none", left |-> {}, late |-> FALSE]
  /\ edits = [user |-> 0, tool |-> 0]
  /\ own = [files |-> tree, base |-> tree, meddled |-> {}, changed |-> {}]

----
(***************************************************************************)
(* The user                                                                *)
(***************************************************************************)
Edit ==
  /\ edits.user < MaxEdits
  /\ \E f \in Paths, v \in Texts \union {Gone} :
       /\ v # tree[f]
       /\ tree' = [tree EXCEPT ![f] = v]
       /\ own' = [own EXCEPT !.files[f] = v,
                             !.meddled = IF phase \in {"promotes", "removes", "over"} THEN @ \union {f} ELSE @,
                             !.changed = IF phase \in {"created", "prepared"} THEN @ ELSE @ \union {f}]
  /\ edits' = [edits EXCEPT !.user = @ + 1]
  /\ UNCHANGED <<cow, ignored, copy, snapshot, phase, verdict, todo, undo>>

----
(***************************************************************************)
(* The run                                                                 *)
(***************************************************************************)
\* create_task has taken the snapshot; an empty one is taken once more.
Prepare ==
  /\ phase = "created"
  /\ phase' = "prepared"
  /\ snapshot' = IF snapshot.empty THEN SnapshotOf(tree) ELSE snapshot
  /\ own' = [own EXCEPT !.base = snapshot'.files]
  /\ UNCHANGED <<cow, ignored, tree, copy, verdict, todo, undo, edits>>

\* materialize: a file is not copied if its path looks secret, and none is if the name of
\* the workspace's folder does, which is tested with every name in it (parent/name).
Materialize ==
  /\ phase = "prepared"
  /\ phase' = "works"
  /\ copy' = IF cow THEN [f \in Paths |-> IF f \in ignored THEN Gone ELSE tree[f]] ELSE copy
  /\ UNCHANGED <<cow, ignored, tree, snapshot, verdict, todo, undo, edits, own>>

\* A tool writes or deletes; in an overlay it may make a file of its own at a secret path.
\* Without an overlay the user sees what it did.
ToolWrites ==
  /\ phase = "works" /\ edits.tool < MaxEdits
  /\ \E f \in Paths, v \in Texts \union {Gone} :
       IF cow
       THEN /\ copy' = [copy EXCEPT ![f] = v]
            /\ own' = [own EXCEPT !.changed = @ \union {f}] /\ UNCHANGED tree
       ELSE /\ tree' = [tree EXCEPT ![f] = v]
            /\ own' = [own EXCEPT !.files[f] = v] /\ UNCHANGED copy
  /\ edits' = [edits EXCEPT !.tool = @ + 1]
  /\ UNCHANGED <<cow, ignored, snapshot, phase, verdict, todo, undo>>

\* The loop is over, the sandbox is closed and marked idle.
RunIsOver ==
  /\ phase \in {"created", "prepared", "works"}
  /\ verdict' \in IF phase = "works" THEN {"succeeded", "failed"} ELSE {"failed"}
  /\ phase' = "idle"
  /\ UNCHANGED <<cow, ignored, tree, copy, snapshot, todo, undo, edits, own>>

PromotableAll == Paths                                  \* mutant: secret files are not left out

\* promote looks at the paths inside the workspace alone.
Promotable == Plain

PromotesWhen(how) == how = "succeeded"

\* promote lists the files of the overlay, or the run has nothing to promote.
StartPromotion ==
  /\ phase = "idle"
  /\ IF cow /\ PromotesWhen(verdict)
     THEN phase' = "promotes" /\ todo' = {f \in Promotable : copy[f] # Gone}
     ELSE phase' = "over" /\ UNCHANGED todo
  /\ UNCHANGED <<cow, ignored, tree, copy, snapshot, verdict, undo, edits, own>>

\* Every file of the overlay, also one the run has not touched.
PromoteFile(f) ==
  /\ phase = "promotes" /\ f \in todo
  /\ tree' = [tree EXCEPT ![f] = copy[f]]
  /\ todo' = todo \ {f}
  /\ UNCHANGED <<cow, ignored, copy, snapshot, phase, verdict, undo, edits, own>>

\* What is in the workspace and not in the overlay, by now.
ListRemoved ==
  /\ phase = "promotes" /\ todo = {}
  /\ phase' = "removes"
  /\ todo' = {f \in Promotable : tree[f] # Gone /\ copy[f] = Gone}
  /\ UNCHANGED <<cow, ignored, tree, copy, snapshot, verdict, undo, edits, own>>

RemoveFile(f) ==
  /\ phase = "removes" /\ f \in todo
  /\ tree' = [tree EXCEPT ![f] = Gone]
  /\ todo' = todo \ {f}
  /\ UNCHANGED <<cow, ignored, copy, snapshot, phase, verdict, undo, edits, own>>

\* close() deletes the overlay.
Promoted ==
  /\ phase = "removes" /\ todo = {}
  /\ phase' = "over"
  /\ UNCHANGED <<cow, ignored, tree, copy, snapshot, verdict, todo, undo, edits, own>>

\* An error of the disk: the rest is not promoted, and the run has failed.
PromotionFails ==
  /\ phase \in {"promotes", "removes"} /\ todo # {}
  /\ phase' = "over" /\ verdict' = "failed"
  /\ UNCHANGED <<cow, ignored, tree, copy, snapshot, todo, undo, edits, own>>

----
(***************************************************************************)
(* The rollback of the task                                                *)
(***************************************************************************)
RefusesEmpty == snapshot.empty                          \* mutant: an incomplete snapshot will do
Refuses == snapshot.empty \/ ~snapshot.whole

Captured == {f \in Present(snapshot.files) : snapshot.files[f] \notin Huge}

\* restore_snapshot: what is there now has to be captured whole, too.
BeginUndo ==
  /\ undo.stage = "none" /\ phase \in {"idle", "promotes", "removes", "over"}
  /\ ~Refuses /\ ~Incomplete(tree)
  /\ undo' = [stage |-> "removes", late |-> phase = "over",
              left |-> Present(tree) \ Captured]
  /\ own' = [own EXCEPT !.meddled = {}]
  /\ UNCHANGED <<cow, ignored, tree, copy, snapshot, phase, verdict, todo, edits>>

UndoRemoves(f) ==
  /\ undo.stage = "removes" /\ f \in undo.left
  /\ tree' = [tree EXCEPT ![f] = Gone]
  /\ undo' = [undo EXCEPT !.left = @ \ {f}]
  /\ UNCHANGED <<cow, ignored, copy, snapshot, phase, verdict, todo, edits, own>>

UndoListed ==
  /\ undo.stage = "removes" /\ undo.left = {}
  /\ undo' = [undo EXCEPT !.stage = "writes", !.left = Captured]
  /\ UNCHANGED <<cow, ignored, tree, copy, snapshot, phase, verdict, todo, edits, own>>

UndoWrites(f) ==
  /\ undo.stage = "writes" /\ f \in undo.left
  /\ tree' = [tree EXCEPT ![f] = snapshot.files[f]]
  /\ undo' = [undo EXCEPT !.left = @ \ {f}]
  /\ UNCHANGED <<cow, ignored, copy, snapshot, phase, verdict, todo, edits, own>>

Undone ==
  /\ undo.stage = "writes" /\ undo.left = {}
  /\ undo' = [undo EXCEPT !.stage = "done"]
  /\ UNCHANGED <<cow, ignored, tree, copy, snapshot, phase, verdict, todo, edits, own>>

OverlayNext ==
  \/ Edit \/ Prepare \/ Materialize \/ ToolWrites \/ RunIsOver
  \/ StartPromotion \/ ListRemoved \/ Promoted \/ PromotionFails
  \/ BeginUndo \/ UndoListed \/ Undone
  \/ \E f \in Paths : PromoteFile(f) \/ RemoveFile(f) \/ UndoRemoves(f) \/ UndoWrites(f)

OverlaySpec == OverlayInit /\ [][OverlayNext]_overlayVars

----
(***************************************************************************)
(* Properties                                                              *)
(***************************************************************************)
HalfPromoted == phase = "over" /\ todo # {}

\* On an overlay the workspace is what the user made of it unless the run has succeeded.
\* His secret files stay so even then.  Once all is promoted every other file is what the
\* run left, but for those he edited meanwhile; one that neither he nor the run has changed
\* since the copy is as it was, unless the name of the folder looked secret: then the
\* copy was empty, and what the run did not make is deleted (cow.py:100, credentials.py:133,
\* docs/security.md:33).
WorkspaceIsTheUsers ==
  cow /\ undo.stage = "none" =>
    /\ (verdict # "succeeded" /\ ~HalfPromoted) => tree = own.files
    /\ \A f \in Secret : tree[f] = own.files[f]
    /\ (phase = "over" /\ verdict = "succeeded") =>
         /\ \A f \in Plain \ own.meddled : tree[f] = copy[f]
         /\ ignored = Secret => \A f \in Plain \ own.changed : tree[f] = own.files[f]

\* A rollback that begins when the run is all over and in which the user edits nothing
\* brings the workspace back to the byte, secret files included: what the task made is
\* gone, what it deleted is there (diffing.py:101).
RollbackIsExact ==
  undo.stage = "done" /\ undo.late /\ own.meddled = {} => tree = own.base
====
