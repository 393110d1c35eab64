---------------------------- MODULE DashboardEditing ---------------------------
(***************************************************************************)
(* Editing a dashboard and saving it: the undo history and the flag        *)
(* hasUnsavedChanges of each browser page, and the server's check that     *)
(* nobody else saved in the meantime.                                      *)
(*                                                                         *)
(* A layout is a number, drawn anew by each edit; that of DashboardLayout, *)
(* a tree, is one of them.  The title is a part of the layout that one     *)
(* dialog changes without an entry in the history.  Of the style sheet, the*)
(* colours and the refresh frequency only the effect on the flags is left. *)
(*                                                                         *)
(* redux-undo is modelled from its use: with ignoreInitialState an action  *)
(* that follows the initial state is not recorded; whether clearHistory    *)
(* counts as initial is left open.                                         *)
(***************************************************************************)
EXTENDS Integers, Sequences

CONSTANTS
    Editors,     \* browser pages on which the dashboard is edited
    UNDO_LIMIT,
    Seconds,     \* bound: the clock runs from 1 to Seconds
    MaxLayouts   \* bound: layouts drawn, by all pages

ASSUME EditingAssumption ==
    UNDO_LIMIT \in Nat /\ Seconds \in Nat \ {0} /\ MaxLayouts \in Nat

VARIABLES
    page,     \* the state of each page
    request,  \* its save or its change of properties, on the way
    dash,     \* the row of the dashboard: layout, title, version, changed_on
    clock,      \* the clock, in seconds, the same everywhere
    drawn,    \* how many layouts were drawn
    unsure    \* pages of which the flag is known to be unreliable (see below)

editingVars == <<page, request, dash, clock, drawn, unsure>>

\* Times of lastModifiedTime that are no numbers: the text of changed_on, a
\* field that the answer lacks, and JavaScript's NaN.
NaN == 0
NoRequest == [at |-> "none"]
Unrecorded == [layout |-> -1, title |-> -1]

Content(layout, title) == [layout |-> layout, title |-> title]
Contents == [layout : 0..MaxLayouts, title : 0..MaxLayouts]

EditingTypeOK ==
    /\ clock \in 1..Seconds /\ drawn \in 0..MaxLayouts /\ unsure \subseteq Editors
    /\ dash.content \in Contents /\ dash.version \in Nat /\ dash.changed_on \in 0..Seconds
    /\ \A e \in Editors :
         /\ page[e].present \in Contents
         /\ page[e].latest \in Contents \cup {Unrecorded}
         /\ Len(page[e].past) <= UNDO_LIMIT + 1
         /\ {page[e].stateTime, page[e].infoTime} \subseteq 0..Seconds
         /\ request[e].at \in {"none", "save", "checked", "saved", "put", "changed"}

\* The page as it is loaded; saved and seen are the layout that it loaded or
\* saved last, and the version.
Loaded(row) ==
    [present |-> row.content, latest |-> row.content, past |-> <<>>, future |-> <<>>,
     hasUnsavedChanges |-> FALSE, maxUndoHistoryExceeded |-> FALSE,
     updatedColorScheme |-> FALSE, stateTime |-> NaN, infoTime |-> NaN,
     saved |-> row.content.layout, seen |-> row.version]

EditingInit ==
    /\ dash = [content |-> Content(0, 0), version |-> 0, changed_on |-> 0]
    /\ page = [e \in Editors |-> Loaded(dash)]
    /\ request = [e \in Editors |-> NoRequest]
    /\ clock = 1 /\ drawn = 0 /\ unsure = {}

Second ==
    /\ clock < Seconds
    /\ clock' = clock + 1
    /\ UNCHANGED <<page, request, dash, drawn, unsure>>

-----------------------------------------------------------------------------
(* The page *)

\* (mutant) A limit of one less, at which the history drops an entry before the
\* header can notice.
limit_too_small == UNDO_LIMIT + 1

\* (mutant) The entry behind the limit is not counted off.
limit_too_large == UNDO_LIMIT + 3

limit == UNDO_LIMIT + 2

\* redux-undo records the last recorded state, and drops the oldest entry when
\* past and present reach the limit.
insert(p, content) ==
    LET kept == IF Len(p.past) + 1 >= limit THEN Tail(p.past) ELSE p.past
    IN  [p EXCEPT !.past = IF p.latest = Unrecorded THEN kept ELSE Append(kept, p.latest),
                  !.present = content, !.latest = content, !.future = <<>>]

\* The header is rendered after each change and notices a long history.
Rerendered(p) ==
    [p EXCEPT !.maxUndoHistoryExceeded = @ \/ Len(p.past) > UNDO_LIMIT]

Becomes(e, p) == page' = [page EXCEPT ![e] = Rerendered(p)]
BecomesUnsure(e, condition) ==
    unsure' = IF condition THEN unsure \cup {e} ELSE unsure

\* An action on the layout, wrapped by setUnsavedChangesAfterAction.
EditLayout(e) ==
    /\ drawn < MaxLayouts
    /\ drawn' = drawn + 1
    /\ Becomes(e, [insert(page[e], Content(drawn', page[e].present.title))
                      EXCEPT !.hasUnsavedChanges = TRUE])
    /\ BecomesUnsure(e, page[e].latest = Unrecorded)
    /\ UNCHANGED <<request, dash, clock>>

undoLayoutAction(e) ==
    LET p == page[e]
        n == Len(p.past)
        back == IF n = 0 THEN p
                ELSE [p EXCEPT !.past = SubSeq(@, 1, n - 1),
                               !.future = <<p.latest>> \o @,
                               !.present = p.past[n], !.latest = p.past[n]]
        forget == back.past = <<>> /\ ~p.maxUndoHistoryExceeded /\ ~p.updatedColorScheme
    IN  /\ Becomes(e, [back EXCEPT !.hasUnsavedChanges = @ /\ ~forget])
        /\ BecomesUnsure(e, n = 0)
        /\ UNCHANGED <<request, dash, clock, drawn>>

redoLayoutAction(e) ==
    LET p == page[e]
        again == IF p.future = <<>> THEN p
                 ELSE [p EXCEPT !.past = Append(@, p.latest),
                                !.present = Head(p.future), !.latest = Head(p.future),
                                !.future = Tail(@)]
    IN  /\ Becomes(e, [again EXCEPT !.hasUnsavedChanges = TRUE])
        /\ UNCHANGED <<request, dash, clock, drawn, unsure>>

\* "Discard changes" reloads the page.
discardChanges(e) ==
    /\ request[e] = NoRequest
    /\ page' = [page EXCEPT ![e] = Loaded(dash)]
    /\ unsure' = unsure \ {e}
    /\ UNCHANGED <<request, dash, clock, drawn>>

\* updateCss and onChange.
onChange(e) ==
    /\ Becomes(e, [page[e] EXCEPT !.hasUnsavedChanges = TRUE])
    /\ UNCHANGED <<request, dash, clock, drawn, unsure>>

setRefreshFrequency(e, isPersistent) ==
    /\ Becomes(e, [page[e] EXCEPT !.hasUnsavedChanges = isPersistent])
    /\ BecomesUnsure(e, ~isPersistent)
    /\ UNCHANGED <<request, dash, clock, drawn>>

\* lastModifiedTime is the greater of two times, NaN unless both are numbers;
\* dashboardData.changed_on, with which the page starts, is a text, and no
\* last_modified_time comes with it.
lastModifiedTime(p) ==
    IF NaN \in {p.stateTime, p.infoTime} THEN NaN
    ELSE IF p.stateTime > p.infoTime THEN p.stateTime ELSE p.infoTime

saveDashboardRequest(e) ==
    /\ request[e] = NoRequest
    /\ request' = [request EXCEPT ![e] = [at |-> "save", content |-> page[e].present,
                                          time |-> lastModifiedTime(page[e])]]
    /\ UNCHANGED <<page, dash, clock, drawn, unsure>>

\* The answer to a save: onSave, and clearHistory.
saveDashboardRequestSuccess(e) ==
    LET p == page[e]
    IN  /\ request[e].at = "saved"
        /\ request' = [request EXCEPT ![e] = NoRequest]
        /\ \E latest \in {p.present, Unrecorded} :
             Becomes(e, [p EXCEPT !.hasUnsavedChanges = FALSE,
                                  !.maxUndoHistoryExceeded = FALSE,
                                  !.updatedColorScheme = FALSE,
                                  !.stateTime = request[e].time,
                                  !.saved = request[e].content.layout,
                                  !.past = <<>>, !.future = <<>>, !.latest = latest])
        /\ unsure' = IF p.present.layout # request[e].content.layout
                     THEN unsure \cup {e} ELSE unsure \ {e}
        /\ UNCHANGED <<dash, clock, drawn>>

\* PropertiesModal: a PUT of the title and the colours ...
submitProperties(e) ==
    /\ request[e] = NoRequest /\ drawn < MaxLayouts
    /\ drawn' = drawn + 1
    /\ request' = [request EXCEPT ![e] = [at |-> "put", title |-> drawn']]
    /\ UNCHANGED <<page, dash, clock, unsure>>

\* ... and what the header does with the answer: dashboardInfoChanged takes the
\* time from the browser's clock; the title changes outside of the history.
onSubmit(e) ==
    /\ request[e].at = "changed"
    /\ request' = [request EXCEPT ![e] = NoRequest]
    /\ Becomes(e, [page[e] EXCEPT !.infoTime = clock, !.updatedColorScheme = TRUE,
                                  !.hasUnsavedChanges = TRUE,
                                  !.present.title = request[e].title])
    /\ UNCHANGED <<dash, clock, drawn, unsure>>

-----------------------------------------------------------------------------
(* The server *)

\* save_dash reads the row and compares; a time that is no number is sent as
\* null and compares with nothing.
save_dash_check(e) ==
    /\ request[e].at = "save"
    /\ request' = [request EXCEPT ![e] =
           IF request[e].time # NaN /\ request[e].time < dash.changed_on
           THEN NoRequest ELSE [@ EXCEPT !.at = "checked"]]
    /\ UNCHANGED <<page, dash, clock, drawn, unsure>>

Written(content) ==
    IF content = dash.content THEN dash
    ELSE [content |-> content, version |-> dash.version + 1, changed_on |-> clock]

\* set_dash_metadata, merge and commit; seen is the version that the page has
\* seen last.
save_dash_commit(e) ==
    /\ request[e].at = "checked"
    /\ dash' = Written(request[e].content)
    /\ request' = [request EXCEPT ![e].at = "saved", ![e].time = dash'.changed_on]
    /\ page' = [page EXCEPT ![e].seen = dash'.version]
    /\ UNCHANGED <<clock, drawn, unsure>>

\* UpdateDashboardCommand, which compares nothing.
UpdateDashboardCommand(e) ==
    /\ request[e].at = "put"
    /\ dash' = Written([dash.content EXCEPT !.title = request[e].title])
    /\ request' = [request EXCEPT ![e].at = "changed"]
    /\ page' = [page EXCEPT ![e].seen = IF @ = dash.version THEN dash'.version ELSE @]
    /\ UNCHANGED <<clock, drawn, unsure>>

EditingNext ==
    \/ \E e \in Editors :
         \/ EditLayout(e) \/ undoLayoutAction(e) \/ redoLayoutAction(e) \/ discardChanges(e)
         \/ onChange(e) \/ \E b \in BOOLEAN : setRefreshFrequency(e, b)
         \/ saveDashboardRequest(e) \/ saveDashboardRequestSuccess(e)
         \/ submitProperties(e) \/ onSubmit(e)
         \/ save_dash_check(e) \/ save_dash_commit(e) \/ UpdateDashboardCommand(e)
    \/ Second

EditingSpec == EditingInit /\ [][EditingNext]_editingVars

-----------------------------------------------------------------------------
(***************************************************************************)
(* While the flag is off (the Save button is then disabled) the layout is  *)
(* the one that was loaded or last saved: undo, which turns the flag off   *)
(* when the history is empty, is not misled by a history that has dropped  *)
(* its oldest entries.  It is misled, and the page counts as unsure, by    *)
(* Ctrl-Z without a history, by a refresh frequency for the session only,  *)
(* by an edit while a save is on the way and by one that was not recorded. *)
(***************************************************************************)
FlagTellsOfChanges ==
    \A e \in Editors \ unsure :
        ~page[e].hasUnsavedChanges => page[e].present.layout = page[e].saved

(***************************************************************************)
(* core.py:1229 "client-side send back last_modified_time which was set    *)
(* when the dashboard was open. it was use to avoid mid-air collision":    *)
(* save_dash lets a save through only from a page that has seen the last   *)
(* version of the dashboard.                                               *)
(***************************************************************************)
NoMidAirCollision ==
    [][\A e \in Editors :
         save_dash_check(e) /\ request[e]'.at = "checked"
             => page[e].seen = dash.version]_editingVars
=============================================================================
