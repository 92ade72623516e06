---- MODULE Editor ----
(***************************************************************************)
(* The course editor of the map generator's page                           *)
(* (web/public/assets/js/mapgen-editor.js): one person's edits, the undo   *)
(* and redo stacks, the draft in the browser's storage, the live edits of  *)
(* a dragged slider or a title being typed, and the request that sends a   *)
(* course for approval while editing goes on.                              *)
(*                                                                         *)
(* A course is its number of pieces and its edit number: two courses are   *)
(* the same when their edit numbers are.  Pieces are counted from 1, and 0 *)
(* stands for the source's null selection.                                 *)
(***************************************************************************)
EXTENDS Integers, Sequences, SequencesExt, FiniteSetsExt

CONSTANTS SegCap,     \* SEG_CAP: the most pieces a course may have
          UndoCap,    \* how many states commit keeps (200)
          ShelfCap,   \* how many combos or courses the browser keeps (30)
          MaxEdits,   \* bound: edits of one visit
          MaxSends    \* bound: courses sent

ASSUME EditorAssumption ==
  SegCap \in Nat \ {0, 1} /\ UndoCap \in Nat \ {0} /\ ShelfCap \in Nat \ {0} /\ MaxEdits \in Nat /\ MaxSends \in Nat

VARIABLES course,   \* st.spec and st.selected: [n, sel, no]
          rend,     \* st.rangeEnd
          undo, redo,
          live,     \* liveBase: the state before the live edit, n = 0 when null
          drag,     \* the control being worked in: "none", "insp" (a piece's slider), "bar", "title"
          draft,    \* the stored draft: [n, no]
          clip,     \* the stored clipboard: how many pieces
          shelf,    \* the stored combos and courses, newest first: their sizes
          edits,    \* the last edit number
          mixed,    \* an edit was recorded while a live edit was open
          send      \* the build button, the requests out and sent, and the quota requests out

edVars == <<course, rend, undo, redo, live, drag, draft, clip, shelf, edits, mixed, send>>

NoBase == [n |-> 0, sel |-> 0, no |-> 0]

EdInit ==
  /\ course = [n |-> 2, sel |-> 0, no |-> 0] /\ rend = 0 /\ undo = <<>> /\ redo = <<>>
  /\ live = NoBase /\ drag = "none" /\ draft = [n |-> 2, no |-> 0] /\ clip = 0 /\ shelf = <<>>
  /\ edits = 0 /\ mixed = FALSE /\ send = [on |-> TRUE, flying |-> 0, sent |-> 0, asked |-> 1]

-----------------------------------------------------------------------------
(* Recording edits.                                                        *)

\* renderInspector replaces every control of the inspector: a slider dragged there is a
\* detached node and its change event never comes.
Redrawn == drag' = IF drag = "insp" THEN "none" ELSE drag

\* renderReport sets the build button from the course and the quota alone, which here
\* allow it: whatever is under way, the button is on again.
Reported == send' = [send EXCEPT !.on = TRUE]

Stored(c) == draft' = [n |-> c.n, no |-> c.no]

\* commit: the state before goes on the undo stack, redo is dropped, the draft stored.
CommitEdit(n, s, keep, end) ==
  LET c == [n |-> n, sel |-> IF s \in 1..n THEN s ELSE 0, no |-> edits + 1] IN
  /\ edits < MaxEdits /\ edits' = edits + 1
  /\ undo' = IF Len(undo) >= UndoCap THEN Append(Tail(undo), course) ELSE Append(undo, course)
  /\ redo' = <<>>
  /\ course' = c
  /\ rend' = IF ~keep \/ end > n THEN 0 ELSE end
  /\ Stored(c) /\ Redrawn /\ Reported
  /\ mixed' = (mixed \/ live # NoBase)
  /\ UNCHANGED live

MutTravel(from) ==
  /\ course' = Last(from) /\ Stored(Last(from)) /\ UNCHANGED rend

\* travel's other end: the popped state becomes the course, with no range.
Travel(from) ==
  /\ course' = Last(from) /\ Stored(Last(from)) /\ rend' = 0

\* Undo and redo, from the buttons and from Ctrl+Z and Ctrl+Y, also in mid-drag.
Undo ==
  /\ undo # <<>> /\ drag # "title"
  /\ Travel(undo) /\ undo' = Front(undo) /\ redo' = Append(redo, course)
  /\ Redrawn /\ Reported /\ mixed' = (mixed \/ live # NoBase)
  /\ UNCHANGED <<live, clip, shelf, edits>>

Redo ==
  /\ redo # <<>> /\ drag # "title"
  /\ Travel(redo) /\ redo' = Front(redo) /\ undo' = Append(undo, course)
  /\ Redrawn /\ Reported /\ mixed' = (mixed \/ live # NoBase)
  /\ UNCHANGED <<live, clip, shelf, edits>>

\* A slider dragged or a title typed: the course changes with no undo step and no draft.
LiveEdit(control) ==
  /\ drag \in {"none", control} /\ edits < MaxEdits
  /\ control = "insp" => course.sel # 0 /\ rend = 0
  /\ live' = IF live = NoBase THEN course ELSE live
  /\ course' = [course EXCEPT !.no = edits + 1] /\ edits' = edits + 1
  /\ drag' = control /\ Reported
  /\ UNCHANGED <<rend, undo, redo, draft, clip, shelf, mixed>>

\* The tail of a live edit: one undo step, back to the state before it.
EndLive == /\ undo' = Append(undo, live) /\ redo' = <<>> /\ live' = NoBase

\* The change event that ends a live edit.
Change ==
  /\ drag # "none" /\ edits < MaxEdits
  /\ drag = "insp" => course.sel # 0
  /\ EndLive
  /\ LET c == [course EXCEPT !.no = edits + 1] IN course' = c /\ Stored(c)
  /\ edits' = edits + 1 /\ drag' = "none" /\ Reported
  /\ UNCHANGED <<rend, clip, shelf, mixed>>

\* setFields without a drag: a toggle, a choice, a number typed, a piece painted.  A base
\* left open by a detached slider becomes the step's undo state.
SetFields ==
  /\ drag = "none"
  /\ \/ /\ live = NoBase /\ CommitEdit(course.n, course.sel, FALSE, rend)
        /\ UNCHANGED <<clip, shelf>>
     \/ /\ live # NoBase /\ edits < MaxEdits
        /\ EndLive
        /\ LET c == [course EXCEPT !.no = edits + 1] IN course' = c /\ Stored(c)
        /\ edits' = edits + 1 /\ Reported
        /\ UNCHANGED <<rend, drag, clip, shelf, mixed>>

-----------------------------------------------------------------------------
(* The operations.                                                         *)

\* Clicks and plain keys need the controls free; Ctrl shortcuts do not.
Free == drag = "none"
Shortcut == drag \in {"none", "insp", "bar"}

\* selRange
First == IF rend = 0 THEN course.sel ELSE Min({course.sel, rend})
Final == IF rend = 0 THEN course.sel ELSE Max({course.sel, rend})
Selected == course.sel # 0
Count == Final - First + 1

\* What the inspector shows: the tools of a range, of one piece, or neither.
Inspector == IF Selected /\ Count > 1 THEN "range" ELSE IF Selected THEN "piece" ELSE "none"

AddPiece ==
  /\ Free /\ course.n < SegCap
  /\ \E i \in {IF Selected THEN course.sel + 1 ELSE course.n + 1} \cup 1..(course.n + 1) :
       CommitEdit(course.n + 1, i, FALSE, rend)
  /\ UNCHANGED <<clip, shelf>>

RemovePiece ==
  /\ Free /\ Inspector = "piece" /\ course.n > 1
  /\ CommitEdit(course.n - 1, Min({course.sel, course.n - 1}), FALSE, rend)
  /\ UNCHANGED <<clip, shelf>>

MovePiece ==
  /\ Free
  /\ \E i, to \in 1..course.n : i # to /\ CommitEdit(course.n, to, FALSE, rend)
  /\ UNCHANGED <<clip, shelf>>

Duplicate ==
  /\ Shortcut /\ Selected /\ course.n < SegCap
  /\ CommitEdit(course.n + 1, course.sel + 1, FALSE, rend)
  /\ UNCHANGED <<clip, shelf>>

\* delsel, and the Delete key on a range.
RemoveRange ==
  /\ Free /\ Inspector = "range" /\ Count < course.n
  /\ CommitEdit(course.n - Count, Min({First, course.n - Count}), FALSE, rend)
  /\ UNCHANGED <<clip, shelf>>

CopySel ==
  /\ Shortcut /\ Selected /\ clip' = Count
  /\ UNCHANGED <<course, rend, undo, redo, live, drag, draft, shelf, edits, mixed, send>>

\* copySel({cut}): the clipboard is stored first; a cut of everything stops there.
CutSel ==
  /\ Shortcut /\ Selected /\ clip' = Count
  /\ \/ /\ Count >= course.n
        /\ UNCHANGED <<course, rend, undo, redo, live, drag, draft, edits, mixed, send>>
     \/ /\ Count < course.n
        /\ CommitEdit(course.n - Count, Min({First, course.n - Count}), FALSE, rend)
  /\ UNCHANGED shelf

\* insertPieces: the clipboard after the selection, or a combo; what came in is selected.
InsertPieces ==
  /\ \E k \in (IF Shortcut /\ clip > 0 THEN {clip} ELSE {}) \cup (IF Free THEN Range(shelf) ELSE {}) :
       LET i == IF Selected THEN Final + 1 ELSE course.n + 1 IN
       /\ course.n + k <= SegCap
       /\ CommitEdit(course.n + k, i, TRUE, i + k - 1)
  /\ UNCHANGED <<clip, shelf>>

\* mirrorSel and surfaceSel: the same pieces changed, the range kept.
ChangeSel ==
  /\ Free
  /\ CommitEdit(course.n, course.sel, TRUE, rend)
  /\ UNCHANGED <<clip, shelf>>

\* A new course, a starter, a course of the library, an import, or everything cleared:
\* adopt and the starters give between one piece and SegCap.
OpenCourse ==
  /\ Free
  /\ \E n \in 1..SegCap, s \in 0..1 : CommitEdit(n, s, FALSE, rend)
  /\ UNCHANGED <<clip, shelf>>

Select ==
  /\ Free
  /\ \E i \in 0..course.n, extend \in BOOLEAN :
       IF extend /\ Selected /\ i # 0
       THEN rend' = (IF i = course.sel THEN 0 ELSE i) /\ UNCHANGED course
       ELSE rend' = 0 /\ course' = [course EXCEPT !.sel = i]
  /\ Redrawn
  /\ UNCHANGED <<undo, redo, live, draft, clip, shelf, edits, mixed, send>>

\* saveCombo and saveToLibrary put the newest first and keep ShelfCap; either can be deleted.
SaveToShelf ==
  /\ Free
  /\ \E k \in {course.n} \cup (IF Selected THEN {Count} ELSE {}) :
       shelf' = SubSeq(<<k>> \o shelf, 1, Min({ShelfCap, Len(shelf) + 1}))
  /\ UNCHANGED <<course, rend, undo, redo, live, drag, draft, clip, edits, mixed, send>>

RemoveFromShelf ==
  /\ Free
  /\ \E k \in 1..Len(shelf) : shelf' = RemoveAt(shelf, k)
  /\ UNCHANGED <<course, rend, undo, redo, live, drag, draft, clip, edits, mixed, send>>

-----------------------------------------------------------------------------
(* Sending.                                                                *)

\* build disables its button before the request goes out.
Sending == [send EXCEPT !.on = FALSE, !.flying = send.flying + 1, !.sent = send.sent + 1]

BuildCourse ==
  /\ Free /\ send.on /\ send.sent < MaxSends
  /\ send' = Sending
  /\ UNCHANGED <<course, rend, undo, redo, live, drag, draft, clip, shelf, edits, mixed>>

\* The course is refused, and the report redrawn; or the request fails, and it is not.
\* Either way the quota is asked for.
BuildAnswered ==
  /\ send.flying > 0
  /\ \E shown \in {TRUE, send.on} :
       send' = [send EXCEPT !.on = shown, !.flying = send.flying - 1, !.asked = send.asked + 1]
  /\ UNCHANGED <<course, rend, undo, redo, live, drag, draft, clip, shelf, edits, mixed>>

\* loadQuota's request ends, well or not (the first is sent on mounting).
QuotaComes ==
  /\ send.asked > 0
  /\ send' = [send EXCEPT !.on = TRUE, !.asked = send.asked - 1]
  /\ UNCHANGED <<course, rend, undo, redo, live, drag, draft, clip, shelf, edits, mixed>>

\* The palette's surface, the paint mode or Escape out of it: no edit, but a refresh.
Restyle ==
  /\ Shortcut /\ Reported
  /\ UNCHANGED <<course, rend, undo, redo, live, drag, draft, clip, shelf, edits, mixed>>

\* The course is accepted (or the person leaves): the editor is unmounted and, opened
\* again, starts from the draft.
Reopen ==
  /\ course' = [n |-> draft.n, sel |-> 0, no |-> draft.no]
  /\ rend' = 0 /\ undo' = <<>> /\ redo' = <<>> /\ live' = NoBase /\ drag' = "none" /\ mixed' = FALSE
  /\ send' = [send EXCEPT !.on = TRUE, !.flying = 0, !.asked = 1]
  /\ UNCHANGED <<draft, clip, shelf, edits>>

EdCore ==
  \/ Undo \/ Redo \/ \E control \in {"insp", "bar", "title"} : LiveEdit(control)
  \/ Change \/ SetFields \/ AddPiece \/ RemovePiece \/ MovePiece \/ Duplicate \/ RemoveRange
  \/ InsertPieces \/ ChangeSel \/ OpenCourse \/ Select \/ Reopen

EdClipboard == CopySel \/ CutSel
EdShelf == SaveToShelf \/ RemoveFromShelf
EdSend == BuildCourse \/ BuildAnswered \/ QuotaComes \/ Restyle

EdNext == EdCore \/ EdClipboard \/ EdShelf \/ EdSend

EdSpec == EdInit /\ [][EdNext]_edVars

-----------------------------------------------------------------------------
(* Properties.                                                             *)

\* Every course the editor can show, undo or redo to has between one piece and SEG_CAP,
\* and the selection and its range lie inside it (removePiece, insertPieces, travel).
SelectionInside ==
  /\ \A c \in {course} \cup Range(undo) \cup Range(redo) : c.n \in 1..SegCap /\ c.sel \in 0..c.n
  /\ rend \in 0..course.n /\ (rend # 0 => Selected)

\* The stored draft is the course on screen except while a slider is being dragged or a
\* title typed: closing the page loses at most that one unfinished edit.
DraftKept == drag = "none" => draft = [n |-> course.n, no |-> course.no]

\* As long as nothing was recorded in the middle of a live edit, undo goes back through
\* the edits in the order they were made, and redo forward.
UndoOrder ==
  LET now == IF live = NoBase THEN course ELSE live
      past == Append(undo, now)
      line == past \o Reverse(redo)
  IN ~mixed => \A i, j \in 1..Len(line) : i < j => line[i].no < line[j].no

\* A build button that is off has an answer to come that turns it on again, whatever
\* requests overlap and however they end (a failed one redraws nothing itself).
ButtonReturns == send.on \/ send.flying > 0 \/ send.asked > 0

\* Why: who works in a control has a state to go back to, and edits are numbered as they
\* are made.
Shown == IF live = NoBase THEN course ELSE live
EdInv ==
  /\ SelectionInside /\ DraftKept /\ ButtonReturns
  /\ LET Courses == [n : 1..SegCap, sel : Nat, no : 0..edits] IN
     /\ edits \in Nat /\ course \in Courses /\ undo \in Seq(Courses) /\ redo \in Seq(Courses)
     /\ live \in Courses \cup {NoBase} /\ draft \in [n : 1..SegCap, no : 0..edits]
  /\ live # NoBase => live.sel \in 0..live.n
  /\ drag \in {"none", "insp", "bar", "title"} /\ (drag # "none" => live # NoBase)
  /\ clip \in Nat /\ shelf \in Seq(Nat \ {0}) /\ mixed \in BOOLEAN
  /\ send \in [on : BOOLEAN, flying : Nat, sent : Nat, asked : Nat]
  /\ ~mixed => /\ \A i, j \in 1..Len(undo) : i < j => undo[i].no < undo[j].no
               /\ \A i, j \in 1..Len(redo) : i < j => redo[j].no < redo[i].no
               /\ \A i \in 1..Len(undo) : undo[i].no < Shown.no
               /\ \A i \in 1..Len(redo) : Shown.no < redo[i].no

\* What the editor promises its user.
EditorSound == SelectionInside /\ DraftKept /\ UndoOrder /\ ButtonReturns
====
