---------------------------- MODULE PickChecklist ---------------------------
(***************************************************************************)
(* The pick checklist of the ops portal, composed with Reservations: which *)
(* allocations of a placed order staff have physically picked              *)
(* (ops_portal/orders/checklist.py and services.py).                       *)
(*                                                                         *)
(* Toggling takes no lock: it is three statements, each a step.  An edit   *)
(* reads the lines and then the marks before it waits for the lock on the  *)
(* order; the re-planning it then does and the marks it puts back are one  *)
(* transaction.  Packing an order clears its marks in the same transaction,*)
(* but only those that are there.                                          *)
(*                                                                         *)
(* Three fields are ghosts: no guard reads them.  A mark carries what the  *)
(* clerk who set it saw, and whether an edit that another one overtook     *)
(* between its two reads has put it back; an edit carries which lines it   *)
(* was overtaken on.                                                       *)
(***************************************************************************)
EXTENDS Reservations

CONSTANTS
  Clerks,   \* concurrent toggle requests
  Managers  \* concurrent edits of placed orders

VARIABLES
  marks,    \* PickChecklistMark rows: the line and batch of the allocation and,
            \* as ghosts, the quantities of the line and of the allocation
            \* when a clerk checked it, and whether it is "raced"
  clerk,    \* what each toggle request is doing, on which allocation, and
            \* whether that allocation row has been deleted meanwhile
  manager   \* what each edit is doing and remembers

checklistVars == <<marks, clerk, manager>>
allVars == <<vars, checklistVars>>

Rows == Lines \X Batches
RowsOf(o) == LinesOf(o) \X Batches
NoRow == <<-1, -1>>
NoOrder == 0

IdleClerk == [at |-> "idle", row |-> NoRow, gone |-> FALSE]
IdleManager == [at |-> "idle", order |-> NoOrder, wanted |-> <<>>, unchanged |-> {},
                checked |-> {}, overtaken |-> {}]

ChecklistInit ==
  /\ Init
  /\ marks = {}
  /\ clerk = [c \in Clerks |-> IdleClerk]
  /\ manager = [m \in Managers |-> IdleManager]

\* The allocation of a row is RESERVED.
IsReserved(r) ==
  hold[OrderOf[r[1]]] \in {"live", "lapsed", "permanent"} /\ allocated[r[1]][r[2]] > 0

IsMarked(r) == \E mark \in marks : mark.row = r

-----------------------------------------------------------------------------
(* Toggling a mark. *)

\* The order is placed and the allocation is one of its RESERVED rows.
FindAllocation(c) ==
  /\ clerk[c].at = "idle"
  /\ \E r \in Rows :
       /\ status[OrderOf[r[1]]] = "placed" /\ IsReserved(r)
       /\ clerk' = [clerk EXCEPT ![c] = [at |-> "clearing", row |-> r, gone |-> FALSE]]
  /\ UNCHANGED <<vars, marks, manager>>

\* Delete the mark; when there was one, that was the toggle.
ClearMark(c) ==
  LET r == clerk[c].row
      found == ~clerk[c].gone /\ IsMarked(r)
  IN  /\ clerk[c].at = "clearing"
      /\ marks' = IF found THEN {mark \in marks : mark.row # r} ELSE marks
      /\ clerk' = [clerk EXCEPT ![c] = IF found THEN IdleClerk
                                       ELSE [@ EXCEPT !.at = "creating"]]
      /\ UNCHANGED <<vars, manager>>

\* Otherwise create one.  It fails when the allocation has been deleted or
\* another request has created the mark.
CreateMark(c) ==
  LET r == clerk[c].row
      checked == [row |-> r, line |-> lineQuantity[r[1]], units |-> allocated[r[1]][r[2]],
                  raced |-> FALSE]
  IN  /\ clerk[c].at = "creating"
      /\ marks' = IF clerk[c].gone \/ IsMarked(r) THEN marks ELSE marks \cup {checked}
      /\ clerk' = [clerk EXCEPT ![c] = IdleClerk]
      /\ UNCHANGED <<vars, manager>>

-----------------------------------------------------------------------------
(* Editing a placed order. *)

\* Fault: every line that remains counts as unchanged.
ReadRemainingLines(m) ==
  /\ manager[m].at = "idle"
  /\ \E o \in Business : \E wanted \in [LinesOf(o) -> Quantity] :
       /\ status[o] = "placed"
       /\ manager' = [manager EXCEPT ![m] =
            [at |-> "lines read", order |-> o, wanted |-> wanted,
             unchanged |-> {l \in LinesOf(o) : wanted[l] > 0 /\ lineQuantity[l] > 0},
             checked |-> {}, overtaken |-> {}]]
  /\ UNCHANGED <<vars, marks, clerk>>

\* update_placed_order_and_preserve_checklist: the lines that keep their
\* quantity, by an unlocked read.
ReadUnchangedLines(m) ==
  /\ manager[m].at = "idle"
  /\ \E o \in Business : \E wanted \in [LinesOf(o) -> Quantity] :
       /\ status[o] = "placed"
       /\ manager' = [manager EXCEPT ![m] =
            [at |-> "lines read", order |-> o, wanted |-> wanted,
             unchanged |-> {l \in LinesOf(o) : wanted[l] = lineQuantity[l] /\ wanted[l] > 0},
             checked |-> {}, overtaken |-> {}]]
  /\ UNCHANGED <<vars, marks, clerk>>

\* The marks on reserved rows of those lines.
ReadMarks(m) ==
  LET found == {mark \in marks : mark.row[1] \in manager[m].unchanged
                               /\ IsReserved(mark.row)}
      noted(mark) ==
        [mark EXCEPT !.raced = @ \/ mark.row[1] \in manager[m].overtaken]
  IN  /\ manager[m].at = "lines read"
      /\ manager' = [manager EXCEPT ![m].at = "marks read", ![m].unchanged = {},
                       ![m].overtaken = {}, ![m].checked = {noted(mark) : mark \in found}]
      /\ UNCHANGED <<vars, marks, clerk>>

\* The order's reserved rows are deleted, and their marks with them; rows of
\* the new plan whose line and batch had been read as checked are marked
\* again.  A line that is dropped takes its identity along: what another
\* edit read of it matches no later row.
CommitEdit(m) ==
  LET o == manager[m].order
      dropped == {l \in LinesOf(o) : manager[m].wanted[l] = 0}
      changed == {l \in LinesOf(o) : manager[m].wanted[l] # lineQuantity[l]}
  IN  /\ manager[m].at = "marks read"
      /\ ReplaceLines(o, manager[m].wanted)
      /\ marks' = {mark \in marks : mark.row \notin RowsOf(o)} \cup
                    {mark \in manager[m].checked :
                       allocated'[mark.row[1]][mark.row[2]] > 0}
      /\ clerk' = [c \in Clerks |->
                     IF clerk[c].row \in RowsOf(o) THEN [clerk[c] EXCEPT !.gone = TRUE]
                     ELSE clerk[c]]
      /\ manager' = [n \in Managers |->
                       IF n = m THEN IdleManager
                       ELSE [manager[n] EXCEPT
                               !.unchanged = @ \ dropped,
                               !.checked = {mark \in @ : mark.row[1] \notin dropped},
                               !.overtaken = IF manager[n].at = "lines read"
                                             THEN @ \cup changed ELSE @]]

\* The order is no longer placed, stock does not suffice, or the process dies.
AbandonEdit(m) ==
  /\ manager[m].at # "idle"
  /\ manager' = [manager EXCEPT ![m] = IdleManager]
  /\ UNCHANGED <<vars, marks, clerk>>

-----------------------------------------------------------------------------
(* Everything else that happens to orders and stock. *)

\* Fault: packing leaves the checklist to a later clean-up.
PackAndKeepMarks(o) ==
  PackOrder(o) /\ UNCHANGED checklistVars

\* pack_order_and_clear_checklist.
PackAndClearMarks(o) ==
  /\ PackOrder(o)
  /\ marks' = {mark \in marks : mark.row \notin RowsOf(o)}
  /\ UNCHANGED <<clerk, manager>>

\* Steps of Reservations that do not touch the checklist.  Cancelling keeps
\* the allocation rows, as CANCELLED, and therefore their marks.
OtherStep ==
  /\ \/ \E o \in Orders :
          \/ CreateDraft(o) \/ EditDraft(o) \/ DiscardDraft(o) \/ PlaceBusinessOrder(o)
          \/ CancelOrder(o) \/ DeliverOrder(o) \/ PaymentStep(o)
     \/ \E b \in Batches : BatchStep(b)
     \/ NextDay
  /\ UNCHANGED checklistVars

ChecklistNext ==
  \/ \E c \in Clerks : FindAllocation(c) \/ ClearMark(c) \/ CreateMark(c)
  \/ \E m \in Managers :
       ReadUnchangedLines(m) \/ ReadMarks(m) \/ CommitEdit(m) \/ AbandonEdit(m)
  \/ \E o \in Orders : PackAndClearMarks(o)
  \/ OtherStep

ChecklistSpec == ChecklistInit /\ [][ChecklistNext]_allVars

-----------------------------------------------------------------------------
(* Correctness. *)

Marked(o) == {mark \in marks : mark.row \in RowsOf(o)}
BeingToggled(o) == \E c \in Clerks : clerk[c].row \in RowsOf(o)

\* A mark never survives a change of its line's quantity: however toggles,
\* re-planning and any number of concurrent edits interleave, the line of a
\* marked allocation of a placed order has the quantity it had when a clerk
\* checked the mark.  One interleaving alone escapes, and the field "raced"
\* tells it: an edit put the mark back although another edit had changed that
\* line after it compared the quantities and before it read the marks.
MarkedLinesWereVerified ==
  \A mark \in marks : status[OrderOf[mark.row[1]]] = "placed" /\ ~mark.raced =>
    mark.line = lineQuantity[mark.row[1]]

\* Packing ends the checklist: once an order is packed, has no marks, and no
\* toggle is under way on it, it never has a mark again; and at the moment it
\* is packed it has none.
PackedOrdersStayUnmarked ==
  [][\A o \in Orders :
       /\ status[o] = "placed" /\ status'[o] = "packed" => Marked(o)' = {}
       /\ (status[o] \in {"packed", "delivered"} /\ Marked(o) = {} /\ ~BeingToggled(o)) =>
            (Marked(o)' = {} /\ ~BeingToggled(o)')]_allVars

\* ops_portal/orders/services.py: "Quantity changes invalidate the mark: staff
\* have not physically verified the new amount" - a marked allocation has the
\* quantity it had when a clerk checked it.
MarkedQuantitiesWereVerified ==
  \A mark \in marks : status[OrderOf[mark.row[1]]] = "placed" =>
    mark.units = allocated[mark.row[1]][mark.row[2]]
=============================================================================
