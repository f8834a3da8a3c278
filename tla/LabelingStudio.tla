--------------------------- MODULE LabelingStudio ---------------------------
(***************************************************************************)
(* The Labeling Studio (dashboard/src/pages/labeling-studio): the operator *)
(* chooses Gold snapshots, pages through the queue of their unresolved     *)
(* targets, inspects the evidence of one target and saves a label for it.  *)
(* The queue and the evidence are read one after the other, each by        *)
(* effects of the state before it; numbered requests are modelled by       *)
(* marking the latest one.  The light curve that is read for the evidence  *)
(* on screen, and that no other part of the page looks at, is left out.    *)
(***************************************************************************)
EXTENDS VettingRules, Selections, SequencesExt

CONSTANTS
    Snapshots,          \* Gold snapshots
    QueueOrder,         \* every row of the cohort, in the order of the server
    EvidenceOf,         \* the evidence of every row
    PageSize,           \* 12 in the code
    MaxWorkspaceReads   \* bound: workspace requests on their way at once

ASSUME LabelingConstants ==
    /\ QueueOrder \in Seq([snapshot : Snapshots, product : STRING])
    /\ PageSize \in Nat \ {0} /\ MaxWorkspaceReads \in Nat \ {0}

VARIABLES
    cohort,       \* the server: committed snapshots and unresolved rows
    storedScope,  \* the scope in localStorage
    studio        \* state of the page and its requests

labelVars == <<cohort, storedScope, studio>>

Rows == ToSet(QueueOrder)
NoRow == [snapshot |-> "none", product |-> "none"]
NoScope == {"none"}     \* nothing is stored
NoPage == [items |-> <<>>, more |-> FALSE]

LabelServers(open) ==
    IF open THEN [committed : {Snapshots}, unresolved : {Rows}]
    ELSE {[committed |-> {}, unresolved |-> {}]}

-----------------------------------------------------------------------------
(* What the page derives from its state.                                     *)

SelectedItem(p) == IF p.key \in ToSet(p.items) THEN p.key ELSE NoRow
Recommendations ==
    [row \in Rows \cup {NoRow} |->
        IF row = NoRow THEN NoAdvice ELSE ComputeRecommendation(EvidenceOf[row])]
AdviceFor(row) == Recommendations[row]

(* The buttons and keys of TrainingLabelingQueue and DecisionPanel act on    *)
(* the target whose evidence is shown; without snapshots the panels are      *)
(* hidden, the bar at the bottom and the keys are not.                       *)
LabelControls(p) ==
    IF p.detail = NoRow \/ p.save.phase # "none" THEN {}
    ELSE (IF p.basis THEN Labels ELSE {})
         \cup (IF AdviceFor(p.detail) = NoAdvice THEN {} ELSE {"accept"})

(* TargetQueueSidebar: a row for every item that passes the filters, and the *)
(* buttons of the pager.                                                     *)
QueueRows(p) == IF p.loading \/ p.scope = {} THEN {} ELSE ToSet(p.items)
PagerButtons(p) ==
    IF p.loading THEN {}
    ELSE (IF p.offset > 0 THEN {"previous"} ELSE {}) \cup (IF p.more THEN {"next"} ELSE {})

(* LabelingWorkspace: the checkboxes of the snapshots that are listed. *)
ScopeChoices(p) == IF p.listing THEN {} ELSE p.available

-----------------------------------------------------------------------------
(* loadWorkspace.  Without snapshots everything is cleared, but the request  *)
(* on its way stays the latest one.                                          *)
NoSave == [phase |-> "none", row |-> NoRow, resolves |-> FALSE, scope |-> {}, offset |-> 0]
ClearedQueue(p) ==
    [p EXCEPT !.items = <<>>, !.more = FALSE, !.key = NoRow, !.detail = NoRow]

LoadWorkspace(p, scope, offset, saving) ==
    IF scope = {} THEN ClearedQueue(p)
    ELSE [p EXCEPT
            !.reads = {[r EXCEPT !.latest = FALSE] : r \in @} \cup
                      {[scope |-> scope, offset |-> offset, phase |-> "sent", body |-> NoPage,
                        latest |-> TRUE, saving |-> saving]},
            !.loading = TRUE]

(* The effects of a new scope or offset: the scope is stored, the offset is  *)
(* reset, and the workspace is loaded, for the old offset first.             *)
ScopeEffects(old, p) ==
    IF p.scope # old.scope
    THEN LET first == LoadWorkspace(p, p.scope, p.offset, FALSE) IN
         IF p.offset = 0 THEN first
         ELSE LoadWorkspace([first EXCEPT !.offset = 0], p.scope, 0, FALSE)
    ELSE IF p.offset # old.offset THEN LoadWorkspace(p, p.scope, p.offset, FALSE) ELSE p

(* The effect of a new selection: the evidence is read, or removed; a        *)
(* request that an earlier selection sent is not the active one any more.    *)
SelectionEffects(old, p) ==
    IF SelectedItem(p) = SelectedItem(old) /\ p.key = old.key THEN p
    ELSE IF SelectedItem(p) = NoRow THEN [p EXCEPT !.detail = NoRow, !.wanted = NoRow]
    ELSE [p EXCEPT !.wanted = p.key, !.evidenceReads = @ \cup {p.key}, !.detailLoading = TRUE]

(* Mistake: a basis that is there is not replaced. *)
EvidenceEffectsOnce(old, p) ==
    IF p.basis THEN p
    ELSE [p EXCEPT !.basis = AdviceFor(p.detail) # NoAdvice, !.basisFor = p.detail]

(* The effects of new evidence: the form is filled with the recommendation,  *)
(* again when only the selection changes.                                    *)
EvidenceEffects(old, p) ==
    LET advice == AdviceFor(p.detail)
        filled == p.key # old.key \/ advice # AdviceFor(old.detail)
                  \/ (p.detail # old.detail /\ advice # NoAdvice)
                  \/ (p.detail = NoRow) # (old.detail = NoRow)
    IN IF filled THEN [p EXCEPT !.basis = advice # NoAdvice, !.basisFor = p.detail] ELSE p

StudioRenders(p) ==
    LET scoped   == ScopeEffects(studio, p)
        selected == SelectionEffects(studio, scoped)
    IN /\ Cardinality(selected.reads) <= MaxWorkspaceReads
       /\ studio' = EvidenceEffects(studio, selected)
       /\ storedScope' = IF p.scope # studio.scope THEN p.scope ELSE storedScope

(* The effect that compares the scope with the list of snapshots: what is    *)
(* not listed is left out, and the first time everything is chosen.          *)
SyncScope(current, available, initialized) ==
    LET valid == current \cap available IN
    IF valid # {} \/ initialized \/ available = {} THEN valid ELSE available

(* The page as it mounts.  The list of snapshots is requested, but the       *)
(* effect that compares the scope with it still sees no request on its way   *)
(* and an empty list; before, the workspace was requested for the scope that *)
(* was stored.                                                               *)
ScopeAtMount(stored) == SyncScope(IF stored = NoScope THEN {} ELSE stored, {}, stored # NoScope)

MountedStudio(stored) ==
    LET blank == [available |-> {}, listing |-> TRUE, scope |-> ScopeAtMount(stored),
                  offset |-> 0, items |-> <<>>, more |-> FALSE, loading |-> FALSE,
                  reads |-> {},
                  key |-> NoRow, detail |-> NoRow, detailLoading |-> FALSE, wanted |-> NoRow,
                  evidenceReads |-> {},
                  basis |-> FALSE, basisFor |-> NoRow, save |-> NoSave]
    IN LoadWorkspace(blank, IF stored = NoScope THEN {} ELSE stored, 0, FALSE)

-----------------------------------------------------------------------------
(* The answers.                                                              *)

ListingAnswered ==
    /\ studio.listing
    /\ StudioRenders([studio EXCEPT !.listing = FALSE, !.available = cohort.committed,
                          !.scope = SyncScope(@, cohort.committed, TRUE)])
    /\ UNCHANGED cohort

ListingFailed ==
    /\ studio.listing
    /\ StudioRenders([studio EXCEPT !.listing = FALSE, !.scope = SyncScope(@, {}, TRUE)])
    /\ UNCHANGED cohort

(* The server answers with a page of the unresolved rows of the scope; only  *)
(* the page itself matters from then on.                                     *)
ServeWorkspace(r) ==
    LET rows == ElementsAt(QueueOrder, {i \in DOMAIN QueueOrder :
                    QueueOrder[i].snapshot \in r.scope /\ QueueOrder[i] \in cohort.unresolved})
        page == [items |-> SubSeq(rows, r.offset + 1, IF r.offset + PageSize < Len(rows)
                                                       THEN r.offset + PageSize ELSE Len(rows)),
                 more  |-> r.offset + PageSize < Len(rows)]
    IN /\ r.phase = "sent"
       /\ studio' = [studio EXCEPT !.reads = (@ \ {r}) \cup
                                      {[r EXCEPT !.scope = {}, !.offset = 0, !.phase = "served",
                                                 !.body = page]}]
       /\ UNCHANGED <<cohort, storedScope>>

(* Whoever saved a label has waited for this request. *)
ReadEnded(p, r) ==
    [p EXCEPT !.reads = @ \ {r}, !.save = IF r.saving THEN NoSave ELSE @]

Newest(r) == r.latest

WorkspaceAnswered(r) ==
    LET p == ReadEnded(studio, r)
        key == IF r.body.items = <<>> THEN NoRow
               ELSE IF p.key \in ToSet(r.body.items) THEN p.key ELSE Head(r.body.items)
    IN /\ r.phase = "served"
       /\ StudioRenders(IF ~Newest(r) THEN p
                        ELSE [p EXCEPT !.items = r.body.items, !.more = r.body.more, !.key = key,
                                       !.loading = FALSE])
       /\ UNCHANGED cohort

WorkspaceFailed(r) ==
    LET p == ReadEnded(studio, r) IN
    /\ StudioRenders(IF ~Newest(r) THEN p
                     ELSE [ClearedQueue(p) EXCEPT !.loading = FALSE])
    /\ UNCHANGED cohort

(* Mistake: the request of an earlier selection is not given up. *)
WantedUnchecked(row) == TRUE

(* Evidence is taken only for the selection that is still active. *)
Wanted(row) == row = studio.wanted

EvidenceAnswered(row) ==
    /\ row \in studio.evidenceReads
    /\ \E answer \in {row, NoRow} :      \* NoRow: the request failed
          StudioRenders(LET p == [studio EXCEPT !.evidenceReads = @ \ {row}] IN
                        IF Wanted(row) THEN [p EXCEPT !.detail = answer, !.detailLoading = FALSE]
                        ELSE p)
    /\ UNCHANGED cohort

-----------------------------------------------------------------------------
(* What the operator does.                                                   *)

ToggleSnapshots(S) ==
    /\ S \in SUBSET ScopeChoices(studio) /\ S # studio.scope
    /\ StudioRenders([studio EXCEPT !.scope = S])
    /\ UNCHANGED cohort

SelectRow(row) ==
    /\ row \in QueueRows(studio)
    /\ StudioRenders([studio EXCEPT !.key = row])
    /\ UNCHANGED cohort

TurnPage(button) ==
    /\ button \in PagerButtons(studio) /\ studio.scope # {}
    /\ StudioRenders([studio EXCEPT !.offset = IF button = "next" THEN @ + PageSize
                                               ELSE IF @ < PageSize THEN 0 ELSE @ - PageSize])
    /\ UNCHANGED cohort

(* The keys j and k: the next or previous row, or else page. *)
PressArrow(down) ==
    LET i == IF studio.key \in ToSet(studio.items)
             THEN CHOOSE j \in DOMAIN studio.items : studio.items[j] = studio.key ELSE 0
        n == Len(studio.items)
    IN /\ studio.detail # NoRow
       /\ StudioRenders(
            IF down /\ i > 0 /\ i < n THEN [studio EXCEPT !.key = studio.items[i + 1]]
            ELSE IF down /\ studio.more /\ ~studio.loading
            THEN [studio EXCEPT !.offset = @ + PageSize]
            ELSE IF ~down /\ i > 1 THEN [studio EXCEPT !.key = studio.items[i - 1]]
            ELSE IF ~down /\ studio.offset > 0 /\ ~studio.loading
            THEN [studio EXCEPT !.offset = IF @ < PageSize THEN 0 ELSE @ - PageSize]
            ELSE studio)
       /\ UNCHANGED cohort

ChooseBasis(chosen) ==
    /\ studio.detail # NoRow
    /\ studio' = [studio EXCEPT !.basis = chosen, !.basisFor = studio.detail]
    /\ UNCHANGED <<cohort, storedScope>>

(* saveLabel and handleSaveLabel: the label goes to the target whose         *)
(* evidence is shown, with the scope and offset of this moment for the       *)
(* reload that follows.                                                      *)
SaveLabel(control) ==
    /\ control \in LabelControls(studio)
    /\ studio' = [studio EXCEPT
          !.save = [phase |-> "sent", row |-> studio.detail, scope |-> studio.scope,
                    offset |-> studio.offset,
                    resolves |-> "UNRESOLVED" # IF control = "accept"
                                                THEN AdviceFor(studio.detail).label ELSE control]]
    /\ UNCHANGED <<cohort, storedScope>>

ServeSave ==
    /\ studio.save.phase = "sent"
    /\ cohort' = [cohort EXCEPT !.unresolved = IF studio.save.resolves
                                               THEN @ \ {studio.save.row} ELSE @]
    /\ studio' = [studio EXCEPT !.save.phase = "served", !.save.row = NoRow, !.save.resolves = FALSE]
    /\ UNCHANGED storedScope

SaveAnswered ==
    /\ studio.save.phase = "served"
    /\ StudioRenders(
         IF studio.save.scope = {} THEN [ClearedQueue(studio) EXCEPT !.save = NoSave]
         ELSE LoadWorkspace([studio EXCEPT !.save = [NoSave EXCEPT !.phase = "reloading"]],
                            studio.save.scope, studio.save.offset, TRUE))
    /\ UNCHANGED cohort

SaveFailed ==
    /\ studio.save.phase \in {"sent", "served"}
    /\ studio' = [studio EXCEPT !.save = NoSave]
    /\ UNCHANGED <<cohort, storedScope>>

(* A workflow event of topic ml: someone resolved a row, or a prediction was *)
(* projected.  The stream is open while snapshots are chosen.                *)
MlEvent ==
    /\ studio.scope # {}
    /\ cohort' \in {cohort} \cup {[cohort EXCEPT !.unresolved = @ \ {r}] : r \in cohort.unresolved}
    /\ StudioRenders(LoadWorkspace(studio, studio.scope, studio.offset, FALSE))

LabelNext ==
    \/ ListingAnswered \/ ListingFailed
    \/ \E r \in studio.reads : ServeWorkspace(r) \/ WorkspaceAnswered(r) \/ WorkspaceFailed(r)
    \/ \E row \in Rows : EvidenceAnswered(row) \/ SelectRow(row)
    \/ \E S \in SUBSET Snapshots : ToggleSnapshots(S)
    \/ \E b \in {"previous", "next"} : TurnPage(b)
    \/ \E down \in BOOLEAN : PressArrow(down)
    \/ \E chosen \in BOOLEAN : ChooseBasis(chosen)
    \/ \E c \in Labels \cup {"accept"} : SaveLabel(c)
    \/ ServeSave \/ SaveAnswered \/ SaveFailed
    \/ MlEvent

-----------------------------------------------------------------------------
(* The evidence on screen is the evidence of the selected row, as soon as    *)
(* the page does not say that it is being read.                              *)
EvidenceOfSelection ==
    SelectedItem(studio) # NoRow /\ ~studio.detailLoading =>
        studio.detail \in {NoRow, studio.key}

(* A decision basis that is sent with a label was filled in or chosen for    *)
(* that target, whenever there is a recommendation for it: the form never    *)
(* carries a basis over from the target before.                              *)
BasisOfTarget ==
    studio.detail # NoRow /\ AdviceFor(studio.detail) # NoAdvice =>
        studio.basisFor = studio.detail

=============================================================================
