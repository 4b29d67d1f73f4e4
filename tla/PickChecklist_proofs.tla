------------------------ MODULE PickChecklist_proofs -----------------------
(***************************************************************************)
(* What module PickChecklist guarantees for any number of orders, lines,   *)
(* batches, clerks and edits.  Composed with the checklist, orders and     *)
(* stock still behave as Reservations says, so every theorem about its     *)
(* Spec holds of ChecklistSpec.  A packed order never gets a mark back,    *)
(* and a mark never survives a change of its line's quantity, except where *)
(* an edit was overtaken by another one between its two reads.             *)
(***************************************************************************)
EXTENDS PickChecklist, Reservations_proofs

MarkType == [row : Rows, line : Quantity, units : Quantity, raced : BOOLEAN]
ClerkType ==
  [at : {"idle", "clearing", "creating"}, row : Rows \cup {NoRow}, gone : BOOLEAN]
ManagerType ==
  [at : {"idle", "lines read", "marks read"},
   order : Business \cup {NoOrder},
   wanted : {<<>>} \cup UNION {[LinesOf(o) -> Quantity] : o \in Business},
   unchanged : SUBSET Lines, checked : SUBSET MarkType, overtaken : SUBSET Lines]

\* What an edit remembers is of one business order: its lines and its marks.
EditIsOfItsOrder(edit) ==
  /\ edit.order \in Business
  /\ edit.wanted \in [LinesOf(edit.order) -> Quantity]
  /\ edit.unchanged \subseteq LinesOf(edit.order)
  /\ \A mark \in edit.checked : mark.row \in RowsOf(edit.order)

ChecklistTypeOK ==
  /\ marks \subseteq MarkType
  /\ clerk \in [Clerks -> ClerkType]
  /\ \A c \in Clerks : clerk[c].at # "idle" => clerk[c].row \in Rows
  /\ manager \in [Managers -> ManagerType]
  /\ \A m \in Managers : manager[m].at # "idle" => EditIsOfItsOrder(manager[m])

TypeInv == IInv /\ ChecklistTypeOK

-----------------------------------------------------------------------------
(* Rows and orders. *)

LEMMA RowBelongsToItsOrder ==
  ASSUME NEW r \in Rows, NEW o \in Orders
  PROVE  /\ r[1] \in Lines /\ r[2] \in Batches /\ OrderOf[r[1]] \in Orders
         /\ r \in RowsOf(o) <=> OrderOf[r[1]] = o
<1>1. PICK l \in Lines, b \in Batches : r = <<l, b>>
  BY DEF Rows
<1>2. r[1] = l /\ r[2] = b
  BY <1>1
<1>3. OrderOf[l] \in Orders
  BY ReservationsAssumption
<1>4. r \in RowsOf(o) <=> l \in LinesOf(o)
  BY <1>1 DEF RowsOf
<1> QED
  BY <1>2, <1>3, <1>4 DEF LinesOf

LEMMA NoRowIsNoRow ==
  /\ NoRow \notin Rows
  /\ \A o \in Orders : RowsOf(o) \subseteq Rows /\ NoRow \notin RowsOf(o)
<1>1. NoRow \notin Rows
  <2> SUFFICES ASSUME NoRow \in Rows PROVE FALSE
    OBVIOUS
  <2>1. PICK l \in Lines, b \in Batches : NoRow = <<l, b>>
    BY DEF Rows
  <2>2. l = -1 /\ l \in Nat
    BY <2>1, ReservationsAssumption DEF NoRow
  <2> QED
    BY <2>2
<1>2. \A o \in Orders : RowsOf(o) \subseteq Rows
  BY DEF RowsOf, Rows, LinesOf
<1> QED
  BY <1>1, <1>2

-----------------------------------------------------------------------------
(* The checklist leaves orders and stock to Reservations. *)

LEMMA EditReplacesLines ==
  ASSUME TypeInv, NEW m \in Managers, CommitEdit(m)
  PROVE  /\ manager[m].order \in Business /\ manager[m].order \in Orders
         /\ manager[m].wanted \in [LinesOf(manager[m].order) -> Quantity]
         /\ status[manager[m].order] = "placed"
         /\ UpdatePlacedOrder(manager[m].order)
<1>1. EditIsOfItsOrder(manager[m])
  BY DEF TypeInv, ChecklistTypeOK, CommitEdit
<1>2. ReplaceLines(manager[m].order, manager[m].wanted)
  BY DEF CommitEdit
<1> QED
  BY <1>1, <1>2 DEF EditIsOfItsOrder, UpdatePlacedOrder, ReplaceLines, Business

LEMMA ChecklistStepIsAStep ==
  ASSUME TypeInv, [ChecklistNext]_allVars
  PROVE  [Next]_vars
<1>1. ASSUME NEW c \in Clerks, FindAllocation(c) \/ ClearMark(c) \/ CreateMark(c)
      PROVE  [Next]_vars
  BY <1>1 DEF FindAllocation, ClearMark, CreateMark
<1>2. ASSUME NEW m \in Managers, ReadUnchangedLines(m) \/ ReadMarks(m) \/ AbandonEdit(m)
      PROVE  [Next]_vars
  BY <1>2 DEF ReadUnchangedLines, ReadMarks, AbandonEdit
<1>3. ASSUME NEW m \in Managers, CommitEdit(m) PROVE [Next]_vars
  BY <1>3, EditReplacesLines DEF Next, OrderStep
<1>4. ASSUME NEW o \in Orders, PackAndClearMarks(o) PROVE [Next]_vars
  BY <1>4 DEF PackAndClearMarks, Next, OrderStep
<1>5. CASE OtherStep
  BY <1>5 DEF OtherStep, Next, OrderStep
<1>6. CASE UNCHANGED allVars
  BY <1>6 DEF allVars
<1> QED
  BY <1>1, <1>2, <1>3, <1>4, <1>5, <1>6 DEF ChecklistNext

-----------------------------------------------------------------------------
(* Types. *)

LEMMA InitialChecklist == ChecklistInit => TypeInv
<1> SUFFICES ASSUME ChecklistInit PROVE TypeInv
  OBVIOUS
<1>1. IInv
  BY InitEstablishes DEF ChecklistInit
<1>2. IdleClerk \in ClerkType
  BY DEF IdleClerk, ClerkType
<1>3. IdleManager \in ManagerType
  BY DEF IdleManager, ManagerType
<1>4. /\ \A m \in Managers : manager[m].at = "idle"
      /\ \A c \in Clerks : clerk[c].at = "idle"
  BY DEF ChecklistInit, IdleManager, IdleClerk
<1> QED
  BY <1>1, <1>2, <1>3, <1>4 DEF TypeInv, ChecklistTypeOK, ChecklistInit

LEMMA TogglingKeepsTypes ==
  ASSUME TypeInv, NEW c \in Clerks, FindAllocation(c) \/ ClearMark(c) \/ CreateMark(c)
  PROVE  ChecklistTypeOK'
<1> USE DEF TypeInv, ChecklistTypeOK
<1>1. CASE FindAllocation(c)
  <2>1. PICK r \in Rows :
          clerk' = [clerk EXCEPT ![c] = [at |-> "clearing", row |-> r, gone |-> FALSE]]
    BY <1>1 DEF FindAllocation
  <2>2. [at |-> "clearing", row |-> r, gone |-> FALSE] \in ClerkType
    BY DEF ClerkType
  <2>3. /\ clerk' \in [Clerks -> ClerkType]
        /\ \A d \in Clerks : clerk'[d].at # "idle" => clerk'[d].row \in Rows
    BY <2>1, <2>2
  <2>4. marks' = marks /\ manager' = manager
    BY <1>1 DEF FindAllocation
  <2> QED
    BY <2>3, <2>4
<1>2. CASE ClearMark(c)
  <2>1. marks' \subseteq marks /\ manager' = manager
    BY <1>2 DEF ClearMark
  <2>2. /\ [clerk[c] EXCEPT !.at = "creating"] \in ClerkType /\ IdleClerk \in ClerkType
        /\ [clerk[c] EXCEPT !.at = "creating"].row = clerk[c].row /\ IdleClerk.at = "idle"
        /\ clerk[c].row \in Rows
    BY <1>2 DEF ClerkType, IdleClerk, ClearMark
  <2>3. clerk' = [clerk EXCEPT ![c] = IdleClerk]
        \/ clerk' = [clerk EXCEPT ![c] = [clerk[c] EXCEPT !.at = "creating"]]
    BY <1>2 DEF ClearMark
  <2>4. /\ clerk' \in [Clerks -> ClerkType]
        /\ \A d \in Clerks : clerk'[d].at # "idle" => clerk'[d].row \in Rows
    BY <2>2, <2>3
  <2> QED
    BY <2>1, <2>4
<1>3. CASE CreateMark(c)
  <2> DEFINE r == clerk[c].row
             checked == [row |-> r, line |-> lineQuantity[r[1]], units |-> allocated[r[1]][r[2]],
                        raced |-> FALSE]
  <2>1. manager' = manager /\ clerk' = [clerk EXCEPT ![c] = IdleClerk]
    BY <1>3 DEF CreateMark
  <2>2. IdleClerk \in ClerkType /\ IdleClerk.at = "idle"
    BY DEF ClerkType, IdleClerk
  <2>3. /\ clerk' \in [Clerks -> ClerkType]
        /\ \A d \in Clerks : clerk'[d].at # "idle" => clerk'[d].row \in Rows
    BY <2>1, <2>2
  <2>4. r \in Rows
    BY <1>3 DEF CreateMark
  <2>5. checked \in MarkType
    <3>1. r[1] \in Lines /\ r[2] \in Batches
      BY <2>4 DEF Rows
    <3>2. lineQuantity[r[1]] \in Quantity /\ allocated[r[1]][r[2]] \in Quantity
      BY <3>1 DEF IInv, TypeOK
    <3> QED
      BY <2>4, <3>2 DEF MarkType
  <2>6. marks' \subseteq marks \cup {checked}
    BY <1>3 DEF CreateMark
  <2> QED
    BY <2>1, <2>3, <2>5, <2>6
<1> QED
  BY <1>1, <1>2, <1>3

\* The marks an edit reads: copies that keep the row and what the clerk saw,
\* raced only where the mark was or the edit has been overtaken on the line.
LEMMA MarksAreCopied ==
  ASSUME TypeInv, NEW m \in Managers, ReadMarks(m)
  PROVE  \E checked \in SUBSET MarkType :
           /\ manager' = [manager EXCEPT ![m] =
                [manager[m] EXCEPT !.at = "marks read", !.unchanged = {}, !.overtaken = {},
                                   !.checked = checked]]
           /\ \A copy \in checked : \E mark \in marks :
                /\ copy.row = mark.row /\ copy.line = mark.line
                /\ mark.row[1] \in manager[m].unchanged
                /\ ~copy.raced => ~mark.raced /\ mark.row[1] \notin manager[m].overtaken
<1> DEFINE found == {mark \in marks : mark.row[1] \in manager[m].unchanged
                                        /\ IsReserved(mark.row)}
           noted(mark) == [mark EXCEPT !.raced = @ \/ mark.row[1] \in manager[m].overtaken]
           checked == {noted(mark) : mark \in found}
<1>1. ASSUME NEW mark \in marks
      PROVE  /\ noted(mark) \in MarkType
             /\ noted(mark).row = mark.row /\ noted(mark).line = mark.line
             /\ ~noted(mark).raced => ~mark.raced /\ mark.row[1] \notin manager[m].overtaken
  BY DEF TypeInv, ChecklistTypeOK, MarkType
<1>2. \A mark \in found : mark \in marks /\ mark.row[1] \in manager[m].unchanged
  OBVIOUS
<1>3. manager' = [manager EXCEPT ![m] =
                    [manager[m] EXCEPT !.at = "marks read", !.unchanged = {}, !.overtaken = {},
                                       !.checked = checked]]
  BY DEF ReadMarks, TypeInv, ChecklistTypeOK, ManagerType
<1> HIDE DEF found, noted
<1>4. checked \in SUBSET MarkType
  BY <1>1, <1>2
<1>5. ASSUME NEW copy \in checked
      PROVE  \E mark \in marks :
               /\ copy.row = mark.row /\ copy.line = mark.line
               /\ mark.row[1] \in manager[m].unchanged
               /\ ~copy.raced => ~mark.raced /\ mark.row[1] \notin manager[m].overtaken
  <2>1. PICK mark \in found : copy = noted(mark)
    OBVIOUS
  <2> QED
    BY <1>1, <1>2, <2>1
<1> HIDE DEF checked
<1> QED
  BY <1>3, <1>4, <1>5

LEMMA ReadingKeepsTypes ==
  ASSUME TypeInv, NEW m \in Managers, ReadUnchangedLines(m) \/ ReadMarks(m) \/ AbandonEdit(m)
  PROVE  ChecklistTypeOK'
<1> USE DEF TypeInv, ChecklistTypeOK
<1>1. marks' = marks /\ clerk' = clerk
  BY DEF ReadUnchangedLines, ReadMarks, AbandonEdit
<1>2. ASSUME NEW edit \in ManagerType, manager' = [manager EXCEPT ![m] = edit],
             edit.at # "idle" => EditIsOfItsOrder(edit)
      PROVE  ChecklistTypeOK'
  <2>1. manager' \in [Managers -> ManagerType]
    BY <1>2
  <2>2. ASSUME NEW n \in Managers, manager'[n].at # "idle"
        PROVE  EditIsOfItsOrder(manager[n])'
    <3>1. EditIsOfItsOrder(manager'[n])
      BY <1>2, <2>2
    <3> QED
      BY <3>1 DEF EditIsOfItsOrder, Business, LinesOf, RowsOf
  <2> QED
    BY <1>1, <2>1, <2>2
<1>3. CASE ReadUnchangedLines(m)
  <2>1. PICK o \in Business : \E w \in [LinesOf(o) -> Quantity] :
          manager' = [manager EXCEPT ![m] =
            [at |-> "lines read", order |-> o, wanted |-> w,
             unchanged |-> {l \in LinesOf(o) : w[l] = lineQuantity[l] /\ w[l] > 0},
             checked |-> {}, overtaken |-> {}]]
    BY <1>3 DEF ReadUnchangedLines
  <2>2. PICK w \in [LinesOf(o) -> Quantity] :
          manager' = [manager EXCEPT ![m] =
            [at |-> "lines read", order |-> o, wanted |-> w,
             unchanged |-> {l \in LinesOf(o) : w[l] = lineQuantity[l] /\ w[l] > 0},
             checked |-> {}, overtaken |-> {}]]
    BY <2>1
  <2> DEFINE kept == {l \in LinesOf(o) : w[l] = lineQuantity[l] /\ w[l] > 0}
             edit == [at |-> "lines read", order |-> o, wanted |-> w, unchanged |-> kept,
                      checked |-> {}, overtaken |-> {}]
  <2>3. kept \in SUBSET Lines /\ kept \subseteq LinesOf(o)
    BY DEF LinesOf
  <2>4. w \in UNION {[LinesOf(p) -> Quantity] : p \in Business}
    OBVIOUS
  <2>5. manager' = [manager EXCEPT ![m] = edit]
    BY <2>2
  <2> HIDE DEF kept
  <2>6. edit \in ManagerType
    BY <2>3, <2>4 DEF ManagerType
  <2>7. EditIsOfItsOrder(edit)
    BY <2>3 DEF EditIsOfItsOrder
  <2> QED
    BY <1>2, <2>5, <2>6, <2>7
<1>4. CASE ReadMarks(m)
  <2>1. PICK checked \in SUBSET MarkType :
          /\ manager' = [manager EXCEPT ![m] =
               [manager[m] EXCEPT !.at = "marks read", !.unchanged = {}, !.overtaken = {},
                                  !.checked = checked]]
          /\ \A copy \in checked : \E mark \in marks :
               /\ copy.row = mark.row /\ copy.line = mark.line
               /\ mark.row[1] \in manager[m].unchanged
               /\ ~copy.raced => ~mark.raced /\ mark.row[1] \notin manager[m].overtaken
    BY <1>4, MarksAreCopied
  <2> DEFINE edit == [manager[m] EXCEPT !.at = "marks read", !.unchanged = {}, !.overtaken = {},
                                        !.checked = checked]
  <2>2. manager' = [manager EXCEPT ![m] = edit]
    BY <2>1
  <2>3. EditIsOfItsOrder(manager[m])
    BY <1>4 DEF ReadMarks
  <2>4. edit \in ManagerType /\ edit.order = manager[m].order /\ edit.checked = checked
        /\ edit.wanted = manager[m].wanted /\ edit.unchanged = {}
    BY DEF ManagerType
  <2>5. ASSUME NEW copy \in checked PROVE copy.row \in RowsOf(manager[m].order)
    <3>1. manager[m].order \in Orders
      BY <2>3 DEF EditIsOfItsOrder, Business
    <3>2. copy.row \in Rows /\ copy.row[1] \in LinesOf(manager[m].order)
      BY <2>1, <2>3 DEF EditIsOfItsOrder, MarkType
    <3> QED
      BY <3>1, <3>2, RowBelongsToItsOrder DEF LinesOf
  <2> HIDE DEF edit
  <2>6. EditIsOfItsOrder(edit)
    BY <2>3, <2>4, <2>5 DEF EditIsOfItsOrder
  <2> QED
    BY <1>2, <2>2, <2>4, <2>6
<1>5. CASE AbandonEdit(m)
  <2>1. manager' = [manager EXCEPT ![m] = IdleManager]
    BY <1>5 DEF AbandonEdit
  <2>2. IdleManager \in ManagerType /\ IdleManager.at = "idle"
    BY DEF IdleManager, ManagerType
  <2> QED
    BY <1>2, <2>1, <2>2
<1> QED
  BY <1>3, <1>4, <1>5

\* An edit that commits leaves every other edit with what it remembers, less
\* the lines it drops; edits that have not read their marks yet are overtaken
\* on the lines it changes.
LEMMA OtherEditsForgetDroppedLines ==
  ASSUME TypeInv, NEW m \in Managers, CommitEdit(m), NEW n \in Managers
  PROVE  /\ n = m => manager'[n] = IdleManager
         /\ n # m => /\ manager'[n].at = manager[n].at
                     /\ manager'[n].order = manager[n].order
                     /\ manager'[n].wanted = manager[n].wanted
                     /\ manager'[n].unchanged \subseteq manager[n].unchanged
                     /\ manager'[n].checked \subseteq manager[n].checked
                     /\ manager[n].overtaken \subseteq manager'[n].overtaken
                     /\ manager[n].at = "lines read" =>
                          \A l \in LinesOf(manager[m].order) :
                            manager[m].wanted[l] # lineQuantity[l] =>
                              l \in manager'[n].overtaken
                     /\ manager'[n] \in ManagerType
<1> DEFINE dropped == {l \in LinesOf(manager[m].order) : manager[m].wanted[l] = 0}
           changed == {l \in LinesOf(manager[m].order) :
                         manager[m].wanted[l] # lineQuantity[l]}
           lines == manager[n].unchanged \ dropped
           found == {mark \in manager[n].checked : mark.row[1] \notin dropped}
           overtaken == IF manager[n].at = "lines read"
                        THEN manager[n].overtaken \cup changed ELSE manager[n].overtaken
<1>1. n = m => manager'[n] = IdleManager
  BY DEF CommitEdit
<1>2. n # m => manager'[n] = [manager[n] EXCEPT !.unchanged = lines, !.checked = found,
                                                !.overtaken = overtaken]
  BY DEF CommitEdit
<1>3. manager[n] \in ManagerType
  BY DEF TypeInv, ChecklistTypeOK
<1>4. lines \subseteq manager[n].unchanged /\ found \subseteq manager[n].checked
  OBVIOUS
<1>5. /\ overtaken \subseteq Lines /\ manager[n].overtaken \subseteq overtaken
      /\ manager[n].at = "lines read" =>
           \A l \in LinesOf(manager[m].order) :
             manager[m].wanted[l] # lineQuantity[l] => l \in overtaken
  BY <1>3 DEF ManagerType, LinesOf
<1> HIDE DEF lines, found, overtaken, dropped, changed
<1> QED
  BY <1>1, <1>2, <1>3, <1>4, <1>5 DEF ManagerType

LEMMA CommittingKeepsTypes ==
  ASSUME TypeInv, NEW m \in Managers, CommitEdit(m)
  PROVE  ChecklistTypeOK'
<1> USE DEF TypeInv, ChecklistTypeOK
<1>1. marks' \subseteq MarkType
  <2>1. marks' \subseteq marks \cup manager[m].checked
    BY DEF CommitEdit
  <2>2. manager[m].checked \subseteq MarkType
    BY DEF ManagerType
  <2> QED
    BY <2>1, <2>2
<1>2. /\ clerk' \in [Clerks -> ClerkType]
      /\ \A c \in Clerks : clerk'[c].at # "idle" => clerk'[c].row \in Rows
  <2>1. clerk' = [c \in Clerks |->
                    IF clerk[c].row \in RowsOf(manager[m].order)
                    THEN [clerk[c] EXCEPT !.gone = TRUE] ELSE clerk[c]]
    BY DEF CommitEdit
  <2>2. \A c \in Clerks : [clerk[c] EXCEPT !.gone = TRUE] \in ClerkType
    BY DEF ClerkType
  <2>3. \A c \in Clerks : /\ [clerk[c] EXCEPT !.gone = TRUE].at = clerk[c].at
                          /\ [clerk[c] EXCEPT !.gone = TRUE].row = clerk[c].row
    BY DEF ClerkType
  <2> QED
    BY <2>1, <2>2, <2>3
<1>3. IdleManager \in ManagerType /\ IdleManager.at = "idle"
  BY DEF IdleManager, ManagerType
<1>4. manager' \in [Managers -> ManagerType]
  <2>1. \A n \in Managers : manager'[n] \in ManagerType
    BY <1>3, OtherEditsForgetDroppedLines
  <2>2. manager' = [n \in Managers |-> manager'[n]]
    BY DEF CommitEdit
  <2> QED
    BY <2>1, <2>2
<1>5. ASSUME NEW n \in Managers, manager'[n].at # "idle"
      PROVE  EditIsOfItsOrder(manager[n])'
  <2>1. n # m /\ EditIsOfItsOrder(manager[n])
    BY <1>3, <1>5, OtherEditsForgetDroppedLines
  <2>2. EditIsOfItsOrder(manager'[n])
    BY <2>1, OtherEditsForgetDroppedLines DEF EditIsOfItsOrder
  <2> QED
    BY <2>2 DEF EditIsOfItsOrder, Business, LinesOf, RowsOf
<1> QED
  BY <1>1, <1>2, <1>4, <1>5

LEMMA ChecklistTypesStep ==
  ASSUME TypeInv, [ChecklistNext]_allVars
  PROVE  TypeInv'
<1>1. IInv'
  BY ChecklistStepIsAStep, StepKeeps DEF TypeInv
<1>2. ASSUME marks' \subseteq marks, clerk' = clerk, manager' = manager
      PROVE  ChecklistTypeOK'
  <2>1. \A m \in Managers : manager[m].at # "idle" => EditIsOfItsOrder(manager[m])'
    BY <1>2 DEF TypeInv, ChecklistTypeOK, EditIsOfItsOrder, RowsOf, LinesOf, Business
  <2> QED
    BY <1>2, <2>1 DEF TypeInv, ChecklistTypeOK
<1>3. ASSUME NEW o \in Orders, PackAndClearMarks(o) PROVE ChecklistTypeOK'
  <2>1. marks' \subseteq marks /\ clerk' = clerk /\ manager' = manager
    BY <1>3 DEF PackAndClearMarks
  <2> QED
    BY <1>2, <2>1
<1>4. (UNCHANGED allVars) => ChecklistTypeOK'
  BY <1>2 DEF allVars, checklistVars
<1>5. OtherStep => ChecklistTypeOK'
  BY <1>2 DEF OtherStep, checklistVars
<1>6. ChecklistTypeOK'
  BY <1>3, <1>4, <1>5, TogglingKeepsTypes, ReadingKeepsTypes, CommittingKeepsTypes
     DEF ChecklistNext
<1> QED
  BY <1>1, <1>6 DEF TypeInv

LEMMA ChecklistTypesHold == ChecklistSpec => []TypeInv
<1> QED
  BY InitialChecklist, ChecklistTypesStep, PTL DEF ChecklistSpec

\* With clerks and edits of placed orders at work, orders and stock still
\* behave as module Reservations says: no step of the checklist does anything
\* to an order that update_placed_order or pack_order alone would not do.
THEOREM ChecklistKeepsReservations == ChecklistSpec => Spec
<1>1. ChecklistInit => Init
  BY DEF ChecklistInit
<1>2. TypeInv /\ [ChecklistNext]_allVars => [Next]_vars
  BY ChecklistStepIsAStep
<1> QED
  BY <1>1, <1>2, ChecklistTypesHold, PTL DEF ChecklistSpec, Spec

-----------------------------------------------------------------------------
(* What the other steps do to orders. *)

\* The order is past its draft.
Started(o) == status[o] \notin {"none", "draft"}

\* A step that changes no order's status but p's.
LEMMA StatusOfOne ==
  ASSUME TypeOK, NEW p \in Orders, NEW s, status' = [status EXCEPT ![p] = s], NEW o \in Orders
  PROVE  status'[o] = IF o = p THEN s ELSE status[o]
<1> QED
  BY DEF TypeOK

\* Placement happens once, and nothing goes back behind it.
LEMMA OrdersOnlyAdvance ==
  ASSUME IInv, [Next]_vars, NEW o \in Orders, Started(o)
  PROVE  Started(o)' /\ (status'[o] = "placed" => status[o] = "placed")
<1> USE DEF Started
<1>1. TypeOK /\ ConfirmingOrdersAreDrafts
  BY DEF IInv
<1>2. CASE status' = status
  BY <1>2
<1>3. ASSUME NEW p \in Orders, OrderStep(p)
      PROVE  Started(o)' /\ (status'[o] = "placed" => status[o] = "placed")
  <2>1. CASE status' = status
    BY <1>2, <2>1
  <2>2. CASE CreateDraft(p) \/ DiscardDraft(p) \/ PlaceBusinessOrder(p)
    <3>1. p # o
      BY <2>2 DEF CreateDraft, DiscardDraft, PlaceBusinessOrder
    <3> QED
      BY <1>1, <2>2, <3>1, StatusOfOne DEF CreateDraft, DiscardDraft, PlaceBusinessOrder
  <2>3. CASE CancelOrder(p) \/ PackOrder(p) \/ DeliverOrder(p)
    BY <1>1, <2>3, StatusOfOne DEF CancelOrder, PackOrder, DeliverOrder
  <2>4. CASE EditDraft(p) \/ UpdatePlacedOrder(p)
    BY <2>1, <2>4 DEF EditDraft, UpdatePlacedOrder, ReplaceLines
  <2> QED
    BY <1>3, <2>2, <2>3, <2>4 DEF OrderStep
<1>4. ASSUME NEW p \in Orders, PaymentStep(p)
      PROVE  Started(o)' /\ (status'[o] = "placed" => status[o] = "placed")
  <2>1. CASE PlacePaidOrder(p)
    <3>1. p # o
      BY <1>1, <2>1 DEF PlacePaidOrder, ConfirmingOrdersAreDrafts
    <3> QED
      BY <1>1, <2>1, <3>1, StatusOfOne DEF PlacePaidOrder
  <2>2. CASE ~PlacePaidOrder(p)
    <3>1. status' = status
      BY <1>4, <2>2 DEF PaymentStep, StartRetailPayment, ReadLiveHold, AbandonConfirmation,
         FailRetailPayment, HoldLapses, orderVars
    <3> QED
      BY <1>2, <3>1
  <2> QED
    BY <2>1, <2>2
<1>5. ASSUME NEW b \in Batches, BatchStep(b) PROVE status' = status
  BY <1>5 DEF BatchStep, CreateBatch, UpdateBatch, CloseBatch, orderVars
<1>6. NextDay => status' = status
  BY DEF NextDay, orderVars
<1>7. (UNCHANGED vars) => status' = status
  BY DEF vars, orderVars
<1> QED
  BY <1>2, <1>3, <1>4, <1>5, <1>6, <1>7 DEF Next

\* Outside the checklist's own actions nothing packs an order, and nothing
\* changes the lines of one that is placed.
LEMMA OtherStepsLeavePlacedOrders ==
  ASSUME IInv, OtherStep, NEW o \in Orders, status[o] = "placed"
  PROVE  /\ status'[o] # "packed"
         /\ \A l \in LinesOf(o) : lineQuantity'[l] = lineQuantity[l]
<1>1. TypeOK /\ ConfirmingOrdersAreDrafts
  BY DEF IInv
<1>2. CASE status' = status /\ lineQuantity' = lineQuantity
  BY <1>2
<1>3. ASSUME NEW p \in Orders, CreateDraft(p) \/ EditDraft(p) \/ DiscardDraft(p)
      PROVE  /\ status'[o] # "packed"
             /\ \A l \in LinesOf(o) : lineQuantity'[l] = lineQuantity[l]
  <2>1. p # o
    BY <1>3 DEF CreateDraft, EditDraft, DiscardDraft
  <2>2. status'[o] = status[o]
    BY <1>1, <1>3, <2>1, StatusOfOne DEF CreateDraft, EditDraft, DiscardDraft
  <2>3. \A l \in LinesOf(o) : lineQuantity'[l] = lineQuantity[l]
    BY <1>3, <2>1 DEF CreateDraft, EditDraft, DiscardDraft, LinesOf
  <2> QED
    BY <2>2, <2>3
<1>4. ASSUME NEW p \in Orders,
             PlaceBusinessOrder(p) \/ CancelOrder(p) \/ DeliverOrder(p) \/ PlacePaidOrder(p)
      PROVE  /\ status'[o] # "packed"
             /\ \A l \in LinesOf(o) : lineQuantity'[l] = lineQuantity[l]
  <2>1. lineQuantity' = lineQuantity
    BY <1>4 DEF PlaceBusinessOrder, CancelOrder, DeliverOrder, PlacePaidOrder
  <2>2. status'[o] # "packed"
    BY <1>1, <1>4, StatusOfOne DEF PlaceBusinessOrder, CancelOrder, DeliverOrder, PlacePaidOrder
  <2> QED
    BY <2>1, <2>2
<1>5. ASSUME NEW p \in Orders, PaymentStep(p), ~PlacePaidOrder(p)
      PROVE  status' = status /\ lineQuantity' = lineQuantity
  BY <1>5 DEF PaymentStep, StartRetailPayment, ReadLiveHold, AbandonConfirmation,
     FailRetailPayment, HoldLapses, orderVars
<1>6. ASSUME NEW b \in Batches, BatchStep(b)
      PROVE  status' = status /\ lineQuantity' = lineQuantity
  BY <1>6 DEF BatchStep, CreateBatch, UpdateBatch, CloseBatch, orderVars
<1>7. NextDay => status' = status /\ lineQuantity' = lineQuantity
  BY DEF NextDay, orderVars
<1> QED
  BY <1>2, <1>3, <1>4, <1>5, <1>6, <1>7 DEF OtherStep

-----------------------------------------------------------------------------
(* Packing ends the checklist. *)

\* One step of the checklist, as PackedOrdersStayUnmarked sees it.
StaysUnmarked(o) ==
  /\ status[o] = "placed" /\ status'[o] = "packed" => Marked(o)' = {}
  /\ (status[o] \in {"packed", "delivered"} /\ Marked(o) = {} /\ ~BeingToggled(o)) =>
       (Marked(o)' = {} /\ ~BeingToggled(o)')

\* No new mark and no new toggle on o's rows: o stays without.
LEMMA FewerMarks ==
  ASSUME TypeInv, NEW o \in Orders,
         \A mark \in marks' : mark.row \in RowsOf(o) => mark \in marks,
         \A c \in Clerks : clerk'[c].row \in RowsOf(o) => clerk[c].row \in RowsOf(o)
  PROVE  (Marked(o) = {} /\ ~BeingToggled(o)) => (Marked(o)' = {} /\ ~BeingToggled(o)')
<1> SUFFICES ASSUME Marked(o) = {}, ~BeingToggled(o) PROVE Marked(o)' = {} /\ ~BeingToggled(o)'
  OBVIOUS
<1>1. \A mark \in marks' : mark.row \notin RowsOf(o)
  BY DEF Marked
<1>2. Marked(o)' = {}
  BY <1>1 DEF Marked, RowsOf, LinesOf
<1>3. \A c \in Clerks : clerk'[c].row \notin RowsOf(o)
  BY DEF BeingToggled
<1> QED
  BY <1>2, <1>3 DEF BeingToggled, RowsOf, LinesOf

LEMMA UnmarkedStaysUnmarked ==
  ASSUME TypeInv, [ChecklistNext]_allVars, NEW o \in Orders
  PROVE  StaysUnmarked(o)
<1> USE NoRowIsNoRow
<1>1. ASSUME NEW c \in Clerks, FindAllocation(c) PROVE StaysUnmarked(o)
  <2>1. PICK r \in Rows : /\ status[OrderOf[r[1]]] = "placed"
                          /\ clerk' = [clerk EXCEPT ![c] =
                               [at |-> "clearing", row |-> r, gone |-> FALSE]]
    BY <1>1 DEF FindAllocation
  <2>2. status' = status /\ marks' = marks
    BY <1>1 DEF FindAllocation, vars, orderVars
  <2>3. CASE status[o] \notin {"packed", "delivered"}
    BY <2>2, <2>3 DEF StaysUnmarked
  <2>4. CASE status[o] \in {"packed", "delivered"}
    <3>1. r \notin RowsOf(o)
      BY <2>1, <2>4, RowBelongsToItsOrder
    <3>2. \A d \in Clerks : clerk'[d].row \in RowsOf(o) => clerk[d].row \in RowsOf(o)
      BY <2>1, <3>1 DEF TypeInv, ChecklistTypeOK
    <3> QED
      BY <2>2, <2>4, <3>2, FewerMarks DEF StaysUnmarked
  <2> QED
    BY <2>3, <2>4
<1>2. ASSUME NEW c \in Clerks, ClearMark(c) \/ CreateMark(c) PROVE StaysUnmarked(o)
  <2>1. status' = status
    BY <1>2 DEF ClearMark, CreateMark, vars, orderVars
  <2>2. IdleClerk.row = NoRow
    BY DEF IdleClerk
  <2>3. [clerk[c] EXCEPT !.at = "creating"].row = clerk[c].row
    BY DEF TypeInv, ChecklistTypeOK, ClerkType
  <2>4. \A d \in Clerks : clerk'[d].row \in RowsOf(o) => clerk[d].row \in RowsOf(o)
    <3>1. clerk' = [clerk EXCEPT ![c] = IdleClerk]
          \/ clerk' = [clerk EXCEPT ![c] = [clerk[c] EXCEPT !.at = "creating"]]
      BY <1>2 DEF ClearMark, CreateMark
    <3> QED
      BY <2>2, <2>3, <3>1 DEF TypeInv, ChecklistTypeOK
  <2>5. CASE BeingToggled(o)
    BY <2>1, <2>5 DEF StaysUnmarked
  <2>6. CASE ~BeingToggled(o)
    <3>1. clerk[c].row \notin RowsOf(o)
      BY <2>6 DEF BeingToggled
    <3>2. \A mark \in marks' : mark.row \in RowsOf(o) => mark \in marks
      <4>1. CASE ClearMark(c)
        BY <4>1 DEF ClearMark
      <4>2. CASE CreateMark(c)
        BY <3>1, <4>2 DEF CreateMark
      <4> QED
        BY <1>2, <4>1, <4>2
    <3> QED
      BY <2>1, <2>4, <3>2, FewerMarks DEF StaysUnmarked
  <2> QED
    BY <2>5, <2>6
<1>3. ASSUME NEW m \in Managers, ReadUnchangedLines(m) \/ ReadMarks(m) \/ AbandonEdit(m)
      PROVE  StaysUnmarked(o)
  <2>1. status' = status /\ marks' = marks /\ clerk' = clerk
    BY <1>3 DEF ReadUnchangedLines, ReadMarks, AbandonEdit, vars, orderVars
  <2> QED
    BY <2>1, FewerMarks DEF StaysUnmarked
<1>4. ASSUME NEW m \in Managers, CommitEdit(m) PROVE StaysUnmarked(o)
  <2> DEFINE p == manager[m].order
  <2>1. p \in Orders /\ status[p] = "placed"
    BY <1>4, EditReplacesLines
  <2>2. status' = status
    BY <1>4 DEF CommitEdit, ReplaceLines
  <2>3. CASE status[o] \notin {"packed", "delivered"}
    BY <2>2, <2>3 DEF StaysUnmarked
  <2>4. CASE status[o] \in {"packed", "delivered"}
    <3>1. \A mark \in manager[m].checked : mark.row \in RowsOf(p) /\ mark.row \in Rows
      BY <1>4 DEF CommitEdit, TypeInv, ChecklistTypeOK, EditIsOfItsOrder, RowsOf, Rows, LinesOf
    <3>2. \A mark \in manager[m].checked : mark.row \notin RowsOf(o)
      BY <2>1, <2>4, <3>1, RowBelongsToItsOrder
    <3>3. \A mark \in marks' : mark.row \in RowsOf(o) => mark \in marks
      BY <1>4, <3>2 DEF CommitEdit
    <3>4. \A d \in Clerks : clerk'[d].row \in RowsOf(o) => clerk[d].row \in RowsOf(o)
      <4>1. clerk' = [d \in Clerks |->
                        IF clerk[d].row \in RowsOf(p)
                        THEN [clerk[d] EXCEPT !.gone = TRUE] ELSE clerk[d]]
        BY <1>4 DEF CommitEdit
      <4>2. \A d \in Clerks : [clerk[d] EXCEPT !.gone = TRUE].row = clerk[d].row
        BY DEF TypeInv, ChecklistTypeOK, ClerkType
      <4> QED
        BY <4>1, <4>2
    <3> QED
      BY <2>2, <2>4, <3>3, <3>4, FewerMarks DEF StaysUnmarked
  <2> QED
    BY <2>3, <2>4
<1>5. ASSUME NEW p \in Orders, PackAndClearMarks(p) PROVE StaysUnmarked(o)
  <2>1. marks' = {mark \in marks : mark.row \notin RowsOf(p)} /\ clerk' = clerk
    BY <1>5 DEF PackAndClearMarks
  <2>2. (Marked(o) = {} /\ ~BeingToggled(o)) => (Marked(o)' = {} /\ ~BeingToggled(o)')
    BY <2>1, FewerMarks
  <2>3. ASSUME status[o] = "placed", status'[o] = "packed" PROVE Marked(o)' = {}
    <3>1. status' = [status EXCEPT ![p] = "packed"]
      BY <1>5 DEF PackAndClearMarks, PackOrder
    <3>2. o = p
      BY <2>3, <3>1, StatusOfOne DEF TypeInv, IInv
    <3> QED
      BY <2>1, <3>2 DEF Marked, RowsOf, LinesOf
  <2> QED
    BY <2>2, <2>3 DEF StaysUnmarked
<1>6. ASSUME OtherStep PROVE StaysUnmarked(o)
  <2>1. marks' = marks /\ clerk' = clerk
    BY <1>6 DEF OtherStep, checklistVars
  <2>2. (Marked(o) = {} /\ ~BeingToggled(o)) => (Marked(o)' = {} /\ ~BeingToggled(o)')
    BY <2>1, FewerMarks
  <2> QED
    BY <1>6, <2>2, OtherStepsLeavePlacedOrders DEF StaysUnmarked, TypeInv
<1>7. ASSUME UNCHANGED allVars PROVE StaysUnmarked(o)
  <2>1. status' = status /\ marks' = marks /\ clerk' = clerk
    BY <1>7 DEF allVars, checklistVars, vars, orderVars
  <2> QED
    BY <2>1, FewerMarks DEF StaysUnmarked
<1> QED
  BY <1>1, <1>2, <1>3, <1>4, <1>5, <1>6, <1>7 DEF ChecklistNext

\* pack_order_and_clear_checklist ends the checklist of an order: at the
\* moment it is packed it has no marks, and no toggle that starts afterwards
\* and no edit that was under way brings one back.
THEOREM PackingEndsTheChecklist == ChecklistSpec => PackedOrdersStayUnmarked
<1>1. TypeInv /\ [ChecklistNext]_allVars =>
        [\A o \in Orders :
           /\ status[o] = "placed" /\ status'[o] = "packed" => Marked(o)' = {}
           /\ (status[o] \in {"packed", "delivered"} /\ Marked(o) = {} /\ ~BeingToggled(o)) =>
                (Marked(o)' = {} /\ ~BeingToggled(o)')]_allVars
  BY UnmarkedStaysUnmarked DEF StaysUnmarked
<1> QED
  BY <1>1, ChecklistTypesHold, PTL DEF ChecklistSpec, PackedOrdersStayUnmarked

-----------------------------------------------------------------------------
(* Marks are of lines that a clerk has seen as they are.                   *)

\* Whatever the checklist remembers is of orders past their draft.
MarksAreOfStartedOrders == \A mark \in marks : Started(OrderOf[mark.row[1]])
TogglesAreOfStartedOrders ==
  \A c \in Clerks : clerk[c].row \in Rows => Started(OrderOf[clerk[c].row[1]])
EditsAreOfStartedOrders ==
  \A m \in Managers : manager[m].at # "idle" => Started(manager[m].order)

\* What an edit of a placed order has read still holds: first that the lines
\* it keeps have the quantity it wants, unless another edit has overtaken it
\* on them, then that their marks were set at that quantity, raced ones apart.
EditIsCurrent(m) ==
  /\ manager[m].at = "lines read" =>
       \A l \in manager[m].unchanged \ manager[m].overtaken :
         manager[m].wanted[l] = lineQuantity[l]
  /\ manager[m].at = "marks read" =>
       \A mark \in manager[m].checked :
         ~mark.raced => mark.line = manager[m].wanted[mark.row[1]]
EditsAreCurrent ==
  \A m \in Managers :
    manager[m].at # "idle" /\ status[manager[m].order] = "placed" => EditIsCurrent(m)

VerifiedInv ==
  /\ MarksAreOfStartedOrders /\ TogglesAreOfStartedOrders /\ EditsAreOfStartedOrders
  /\ MarkedLinesWereVerified /\ EditsAreCurrent

\* No step but an edit's commit changes the lines of a placed order.
PlacedLinesKept ==
  \A o \in Orders : status[o] = "placed" =>
    \A l \in LinesOf(o) : lineQuantity'[l] = lineQuantity[l]

LEMMA MarkHasItsLine ==
  ASSUME TypeInv, NEW mark, mark \in MarkType
  PROVE  /\ mark.row \in Rows /\ mark.row[1] \in Lines /\ OrderOf[mark.row[1]] \in Orders
         /\ mark.row[1] \in LinesOf(OrderOf[mark.row[1]])
<1>1. mark.row \in Rows
  BY DEF MarkType
<1>2. mark.row[1] \in Lines
  BY <1>1 DEF Rows
<1>3. OrderOf[mark.row[1]] \in Orders
  BY <1>2, ReservationsAssumption
<1> QED
  BY <1>1, <1>2, <1>3 DEF LinesOf

LEMMA OldMarksStayVerified ==
  ASSUME TypeInv, VerifiedInv, [Next]_vars, NEW mark \in marks,
         PlacedLinesKept \/ \A l \in LinesOf(OrderOf[mark.row[1]]) :
                              lineQuantity'[l] = lineQuantity[l]
  PROVE  /\ status'[OrderOf[mark.row[1]]] \notin {"none", "draft"}
         /\ status'[OrderOf[mark.row[1]]] = "placed" /\ ~mark.raced =>
              mark.line = lineQuantity'[mark.row[1]]
<1> DEFINE o == OrderOf[mark.row[1]]
<1>1. mark \in MarkType
  BY DEF TypeInv, ChecklistTypeOK
<1>2. o \in Orders /\ mark.row[1] \in LinesOf(o)
  BY <1>1, MarkHasItsLine
<1>3. Started(o) /\ (status[o] = "placed" /\ ~mark.raced => mark.line = lineQuantity[mark.row[1]])
  BY DEF VerifiedInv, MarksAreOfStartedOrders, MarkedLinesWereVerified
<1>4. Started(o)' /\ (status'[o] = "placed" => status[o] = "placed")
  BY <1>2, <1>3, OrdersOnlyAdvance DEF TypeInv
<1> QED
  BY <1>2, <1>3, <1>4 DEF PlacedLinesKept, Started

LEMMA OldTogglesStayStarted ==
  ASSUME TypeInv, VerifiedInv, [Next]_vars,
         \A c \in Clerks : clerk'[c].row \in Rows => clerk'[c].row = clerk[c].row
  PROVE  TogglesAreOfStartedOrders'
<1> SUFFICES ASSUME NEW c \in Clerks, clerk'[c].row \in Rows
             PROVE  status'[OrderOf[clerk'[c].row[1]]] \notin {"none", "draft"}
  BY DEF Started, TogglesAreOfStartedOrders, Rows
<1>1. clerk'[c].row = clerk[c].row
  OBVIOUS
<1>2. OrderOf[clerk[c].row[1]] \in Orders
  BY <1>1, ReservationsAssumption DEF Rows
<1>3. Started(OrderOf[clerk[c].row[1]])
  BY <1>1 DEF VerifiedInv, TogglesAreOfStartedOrders
<1>4. Started(OrderOf[clerk[c].row[1]])'
  BY <1>2, <1>3, OrdersOnlyAdvance DEF TypeInv
<1> QED
  BY <1>1, <1>4 DEF Started

LEMMA OldEditsStayCurrent ==
  ASSUME TypeInv, VerifiedInv, [Next]_vars, NEW m \in Managers, PlacedLinesKept,
         manager'[m] = manager[m], manager[m].at # "idle"
  PROVE  /\ status'[manager'[m].order] \notin {"none", "draft"}
         /\ status'[manager'[m].order] = "placed" => EditIsCurrent(m)'
<1> DEFINE o == manager[m].order
<1>1. EditIsOfItsOrder(manager[m])
  BY DEF TypeInv, ChecklistTypeOK
<1>2. o \in Orders
  BY <1>1 DEF EditIsOfItsOrder, Business
<1>3. Started(o) /\ (status[o] = "placed" => EditIsCurrent(m))
  BY DEF VerifiedInv, EditsAreOfStartedOrders, EditsAreCurrent
<1>4. Started(o)' /\ (status'[o] = "placed" => status[o] = "placed")
  BY <1>2, <1>3, OrdersOnlyAdvance DEF TypeInv
<1>5. ASSUME status'[o] = "placed" PROVE EditIsCurrent(m)'
  <2>1. EditIsCurrent(m) /\ \A l \in LinesOf(o) : lineQuantity'[l] = lineQuantity[l]
    BY <1>2, <1>3, <1>4, <1>5 DEF PlacedLinesKept
  <2>2. manager[m].unchanged \subseteq LinesOf(o)
    BY <1>1 DEF EditIsOfItsOrder
  <2> QED
    BY <2>1, <2>2 DEF EditIsCurrent
<1> QED
  BY <1>4, <1>5 DEF Started

\* Steps that leave edits alone and marks as they are, or fewer.
LEMMA QuietStepsKeepVerified ==
  ASSUME TypeInv, VerifiedInv, [Next]_vars, PlacedLinesKept, marks' \subseteq marks,
         \A c \in Clerks : clerk'[c].row \in Rows => clerk'[c].row = clerk[c].row,
         manager' = manager
  PROVE  VerifiedInv'
<1>1. MarksAreOfStartedOrders' /\ MarkedLinesWereVerified'
  BY OldMarksStayVerified DEF MarksAreOfStartedOrders, MarkedLinesWereVerified, Started
<1>2. TogglesAreOfStartedOrders'
  BY OldTogglesStayStarted
<1>3. EditsAreOfStartedOrders' /\ EditsAreCurrent'
  BY OldEditsStayCurrent DEF EditsAreOfStartedOrders, EditsAreCurrent, Started
<1> QED
  BY <1>1, <1>2, <1>3 DEF VerifiedInv

LEMMA StutterKeepsLines == (UNCHANGED vars) => PlacedLinesKept
<1> QED
  BY DEF vars, orderVars, PlacedLinesKept

LEMMA TogglingKeepsVerified ==
  ASSUME TypeInv, VerifiedInv, NEW c \in Clerks,
         FindAllocation(c) \/ ClearMark(c) \/ CreateMark(c)
  PROVE  VerifiedInv'
<1>1. UNCHANGED vars /\ manager' = manager
  BY DEF FindAllocation, ClearMark, CreateMark
<1>2. [Next]_vars /\ PlacedLinesKept /\ status' = status /\ lineQuantity' = lineQuantity
  BY <1>1, StutterKeepsLines DEF vars, orderVars
<1>3. EditsAreOfStartedOrders' /\ EditsAreCurrent'
  BY <1>1, <1>2, OldEditsStayCurrent DEF EditsAreOfStartedOrders, EditsAreCurrent, Started
<1>4. CASE FindAllocation(c)
  <2>1. PICK r \in Rows : /\ status[OrderOf[r[1]]] = "placed"
                          /\ clerk' = [clerk EXCEPT ![c] =
                               [at |-> "clearing", row |-> r, gone |-> FALSE]]
    BY <1>4 DEF FindAllocation
  <2>2. ASSUME NEW d \in Clerks, clerk'[d].row \in Rows
        PROVE  status'[OrderOf[clerk'[d].row[1]]] \notin {"none", "draft"}
    <3>1. CASE d = c
      <4>1. clerk'[d].row = r
        BY <2>1, <3>1 DEF TypeInv, ChecklistTypeOK
      <4> QED
        BY <1>2, <2>1, <4>1
    <3>2. CASE d # c
      <4>1. clerk'[d] = clerk[d]
        BY <2>1, <3>2 DEF TypeInv, ChecklistTypeOK
      <4> QED
        BY <1>2, <2>2, <4>1 DEF VerifiedInv, TogglesAreOfStartedOrders, Started
    <3> QED
      BY <3>1, <3>2
  <2>3. TogglesAreOfStartedOrders'
    BY <2>2 DEF TogglesAreOfStartedOrders, Started, Rows
  <2>4. MarksAreOfStartedOrders' /\ MarkedLinesWereVerified'
    <3>1. marks' = marks
      BY <1>4 DEF FindAllocation
    <3> QED
      BY <1>2, <3>1 DEF VerifiedInv, MarksAreOfStartedOrders, MarkedLinesWereVerified, Started
  <2> QED
    BY <1>3, <2>3, <2>4 DEF VerifiedInv
<1>5. ASSUME ClearMark(c) \/ CreateMark(c) PROVE TogglesAreOfStartedOrders'
  <2>1. clerk' = [clerk EXCEPT ![c] = IdleClerk]
        \/ clerk' = [clerk EXCEPT ![c] = [clerk[c] EXCEPT !.at = "creating"]]
    BY <1>5 DEF ClearMark, CreateMark
  <2>2. IdleClerk.row \notin Rows /\ [clerk[c] EXCEPT !.at = "creating"].row = clerk[c].row
    BY NoRowIsNoRow DEF IdleClerk, TypeInv, ChecklistTypeOK, ClerkType
  <2>3. \A d \in Clerks : clerk'[d].row \in Rows => clerk'[d].row = clerk[d].row
    BY <2>1, <2>2 DEF TypeInv, ChecklistTypeOK
  <2> QED
    BY <1>2, <2>3, OldTogglesStayStarted
<1>6. CASE ClearMark(c)
  <2>1. marks' \subseteq marks
    BY <1>6 DEF ClearMark
  <2>2. MarksAreOfStartedOrders' /\ MarkedLinesWereVerified'
    BY <1>2, <2>1 DEF VerifiedInv, MarksAreOfStartedOrders, MarkedLinesWereVerified, Started
  <2> QED
    BY <1>3, <1>5, <1>6, <2>2 DEF VerifiedInv
<1>7. CASE CreateMark(c)
  <2> DEFINE r == clerk[c].row
             checked == [row |-> r, line |-> lineQuantity[r[1]], units |-> allocated[r[1]][r[2]],
                        raced |-> FALSE]
  <2>1. marks' \subseteq marks \cup {checked}
    BY <1>7 DEF CreateMark
  <2>2. r \in Rows
    BY <1>7 DEF CreateMark, TypeInv, ChecklistTypeOK
  <2>3. Started(OrderOf[checked.row[1]]) /\ checked.line = lineQuantity[checked.row[1]]
    BY <2>2 DEF VerifiedInv, TogglesAreOfStartedOrders
  <2> HIDE DEF checked
  <2>4. MarksAreOfStartedOrders' /\ MarkedLinesWereVerified'
    BY <1>2, <2>1, <2>3
       DEF VerifiedInv, MarksAreOfStartedOrders, MarkedLinesWereVerified, Started
  <2> QED
    BY <1>3, <1>5, <1>7, <2>4 DEF VerifiedInv
<1> QED
  BY <1>4, <1>6, <1>7

LEMMA ReadingKeepsVerified ==
  ASSUME TypeInv, VerifiedInv, NEW m \in Managers,
         ReadUnchangedLines(m) \/ ReadMarks(m) \/ AbandonEdit(m)
  PROVE  VerifiedInv'
<1>1. UNCHANGED vars /\ marks' = marks /\ clerk' = clerk
  BY DEF ReadUnchangedLines, ReadMarks, AbandonEdit
<1>2. [Next]_vars /\ PlacedLinesKept /\ status' = status /\ lineQuantity' = lineQuantity
  BY <1>1, StutterKeepsLines DEF vars, orderVars
<1>3. /\ MarksAreOfStartedOrders' /\ MarkedLinesWereVerified'
      /\ TogglesAreOfStartedOrders'
  BY <1>1, <1>2 DEF VerifiedInv, MarksAreOfStartedOrders, MarkedLinesWereVerified,
     TogglesAreOfStartedOrders, Started, Rows
<1>4. ASSUME NEW edit, manager' = [manager EXCEPT ![m] = edit],
             edit.at # "idle" =>
               /\ Started(edit.order)
               /\ status[edit.order] = "placed" =>
                    /\ edit.at = "lines read" =>
                         \A l \in edit.unchanged \ edit.overtaken :
                           edit.wanted[l] = lineQuantity[l]
                    /\ edit.at = "marks read" =>
                         \A mark \in edit.checked :
                           ~mark.raced => mark.line = edit.wanted[mark.row[1]]
      PROVE  VerifiedInv'
  <2>1. ASSUME NEW n \in Managers, manager'[n].at # "idle"
        PROVE  /\ status'[manager'[n].order] \notin {"none", "draft"}
               /\ status'[manager'[n].order] = "placed" => EditIsCurrent(n)'
    <3>1. CASE n = m
      <4>1. manager'[n] = edit
        BY <1>4, <3>1 DEF TypeInv, ChecklistTypeOK
      <4> QED
        BY <1>2, <1>4, <2>1, <4>1 DEF EditIsCurrent, Started
    <3>2. CASE n # m
      <4>1. manager'[n] = manager[n]
        BY <1>4, <3>2 DEF TypeInv, ChecklistTypeOK
      <4> QED
        BY <1>2, <2>1, <4>1, OldEditsStayCurrent
    <3> QED
      BY <3>1, <3>2
  <2>2. EditsAreOfStartedOrders' /\ EditsAreCurrent'
    BY <2>1 DEF EditsAreOfStartedOrders, EditsAreCurrent, Started
  <2> QED
    BY <1>3, <2>2 DEF VerifiedInv
<1>5. CASE ReadUnchangedLines(m)
  <2>1. PICK o \in Business : \E w \in [LinesOf(o) -> Quantity] :
          /\ status[o] = "placed"
          /\ manager' = [manager EXCEPT ![m] =
               [at |-> "lines read", order |-> o, wanted |-> w,
                unchanged |-> {l \in LinesOf(o) : w[l] = lineQuantity[l] /\ w[l] > 0},
                checked |-> {}, overtaken |-> {}]]
    BY <1>5 DEF ReadUnchangedLines
  <2>2. PICK w \in [LinesOf(o) -> Quantity] :
          manager' = [manager EXCEPT ![m] =
            [at |-> "lines read", order |-> o, wanted |-> w,
             unchanged |-> {l \in LinesOf(o) : w[l] = lineQuantity[l] /\ w[l] > 0},
             checked |-> {}, overtaken |-> {}]]
    BY <2>1
  <2> DEFINE edit == [at |-> "lines read", order |-> o, wanted |-> w,
                      unchanged |-> {l \in LinesOf(o) : w[l] = lineQuantity[l] /\ w[l] > 0},
                      checked |-> {}, overtaken |-> {}]
  <2>3. Started(edit.order) /\ edit.at = "lines read"
    BY <2>1 DEF Started
  <2>4. \A l \in edit.unchanged \ edit.overtaken : edit.wanted[l] = lineQuantity[l]
    OBVIOUS
  <2>5. manager' = [manager EXCEPT ![m] = edit]
    BY <2>2
  <2> HIDE DEF edit
  <2> QED
    BY <1>4, <2>3, <2>4, <2>5
<1>6. CASE ReadMarks(m)
  <2> DEFINE o == manager[m].order
  <2>1. PICK checked \in SUBSET MarkType :
          /\ manager' = [manager EXCEPT ![m] =
               [manager[m] EXCEPT !.at = "marks read", !.unchanged = {}, !.overtaken = {},
                                  !.checked = checked]]
          /\ \A copy \in checked : \E mark \in marks :
               /\ copy.row = mark.row /\ copy.line = mark.line
               /\ mark.row[1] \in manager[m].unchanged
               /\ ~copy.raced => ~mark.raced /\ mark.row[1] \notin manager[m].overtaken
    BY <1>6, MarksAreCopied
  <2> DEFINE edit == [manager[m] EXCEPT !.at = "marks read", !.unchanged = {}, !.overtaken = {},
                                        !.checked = checked]
  <2>2. manager' = [manager EXCEPT ![m] = edit]
    BY <2>1
  <2>3. edit.at = "marks read" /\ edit.order = o /\ edit.checked = checked
        /\ edit.wanted = manager[m].wanted
    BY DEF ManagerType, TypeInv, ChecklistTypeOK
  <2>4. manager[m].at = "lines read" /\ Started(o) /\ (status[o] = "placed" => EditIsCurrent(m))
    BY <1>6 DEF ReadMarks, VerifiedInv, EditsAreOfStartedOrders, EditsAreCurrent
  <2>5. ASSUME status[o] = "placed", NEW copy \in checked, ~copy.raced
        PROVE  copy.line = manager[m].wanted[copy.row[1]]
    <3>1. PICK mark \in marks :
            /\ copy.row = mark.row /\ copy.line = mark.line
            /\ mark.row[1] \in manager[m].unchanged
            /\ ~mark.raced /\ mark.row[1] \notin manager[m].overtaken
      BY <2>1, <2>5
    <3>2. mark.row[1] \in LinesOf(o)
      BY <2>4, <3>1 DEF TypeInv, ChecklistTypeOK, EditIsOfItsOrder
    <3>3. mark.line = lineQuantity[mark.row[1]]
      BY <2>5, <3>1, <3>2 DEF VerifiedInv, MarkedLinesWereVerified, LinesOf
    <3>4. manager[m].wanted[mark.row[1]] = lineQuantity[mark.row[1]]
      BY <2>4, <2>5, <3>1 DEF EditIsCurrent
    <3> QED
      BY <3>1, <3>3, <3>4
  <2> HIDE DEF edit
  <2> QED
    BY <1>4, <2>2, <2>3, <2>4, <2>5
<1>7. CASE AbandonEdit(m)
  <2>1. manager' = [manager EXCEPT ![m] = IdleManager] /\ IdleManager.at = "idle"
    BY <1>7 DEF AbandonEdit, IdleManager
  <2> QED
    BY <1>4, <2>1
<1> QED
  BY <1>5, <1>6, <1>7

\* The marks an edit puts back are of lines that have the quantity it wants;
\* no other order's lines change.
LEMMA CommittingKeepsVerified ==
  ASSUME TypeInv, VerifiedInv, NEW m \in Managers, CommitEdit(m)
  PROVE  VerifiedInv'
<1> DEFINE o == manager[m].order
           wanted == manager[m].wanted
<1>1. o \in Orders /\ o \in Business /\ status[o] = "placed" /\ wanted \in [LinesOf(o) -> Quantity]
  BY EditReplacesLines
<1>2. [Next]_vars
  BY <1>1, EditReplacesLines DEF Next, OrderStep
<1>3. /\ status' = status
      /\ \A l \in Lines : lineQuantity'[l] = IF OrderOf[l] = o THEN wanted[l] ELSE lineQuantity[l]
  BY DEF CommitEdit, ReplaceLines
<1>4. /\ EditIsOfItsOrder(manager[m]) /\ manager[m].checked \subseteq MarkType
      /\ \A mark \in manager[m].checked : ~mark.raced => mark.line = wanted[mark.row[1]]
  BY <1>1 DEF CommitEdit, TypeInv, ChecklistTypeOK, ManagerType, VerifiedInv, EditsAreCurrent,
     EditIsCurrent
<1>5. ASSUME NEW mark \in marks'
      PROVE  /\ status'[OrderOf[mark.row[1]]] \notin {"none", "draft"}
             /\ status'[OrderOf[mark.row[1]]] = "placed" /\ ~mark.raced =>
                  mark.line = lineQuantity'[mark.row[1]]
  <2>1. CASE mark \in marks /\ mark.row \notin RowsOf(o)
    <3>1. mark \in MarkType
      BY <2>1 DEF TypeInv, ChecklistTypeOK
    <3>2. OrderOf[mark.row[1]] # o
      BY <1>1, <2>1, <3>1, MarkHasItsLine, RowBelongsToItsOrder
    <3>3. \A l \in LinesOf(OrderOf[mark.row[1]]) : lineQuantity'[l] = lineQuantity[l]
      BY <1>3, <3>2 DEF LinesOf
    <3> QED
      BY <1>2, <2>1, <3>3, OldMarksStayVerified
  <2>2. CASE mark \in manager[m].checked
    <3>1. mark.row \in RowsOf(o) /\ mark.row \in Rows /\ mark.row[1] \in Lines
      BY <1>4, <2>2, MarkHasItsLine DEF EditIsOfItsOrder
    <3>2. OrderOf[mark.row[1]] = o
      BY <1>1, <3>1, RowBelongsToItsOrder
    <3> QED
      BY <1>1, <1>3, <1>4, <2>2, <3>1, <3>2
  <2>3. mark \in {old \in marks : old.row \notin RowsOf(o)} \/ mark \in manager[m].checked
    BY <1>5 DEF CommitEdit
  <2> QED
    BY <2>1, <2>2, <2>3
<1>6. MarksAreOfStartedOrders' /\ MarkedLinesWereVerified'
  BY <1>5 DEF MarksAreOfStartedOrders, MarkedLinesWereVerified, Started
<1>7. TogglesAreOfStartedOrders'
  <2>1. clerk' = [c \in Clerks |-> IF clerk[c].row \in RowsOf(o)
                                   THEN [clerk[c] EXCEPT !.gone = TRUE] ELSE clerk[c]]
    BY DEF CommitEdit
  <2>2. \A c \in Clerks : [clerk[c] EXCEPT !.gone = TRUE].row = clerk[c].row
    BY DEF TypeInv, ChecklistTypeOK, ClerkType
  <2>3. \A c \in Clerks : clerk'[c].row = clerk[c].row
    BY <2>1, <2>2
  <2> QED
    BY <1>2, <2>3, OldTogglesStayStarted
<1>8. ASSUME NEW n \in Managers, manager'[n].at # "idle"
      PROVE  /\ status'[manager'[n].order] \notin {"none", "draft"}
             /\ status'[manager'[n].order] = "placed" => EditIsCurrent(n)'
  <2>1. n # m
    <3>1. IdleManager.at = "idle"
      BY DEF IdleManager
    <3>2. n = m => manager'[n] = IdleManager
      BY OtherEditsForgetDroppedLines
    <3> HIDE DEF o, wanted
    <3> QED
      BY <1>8, <3>1, <3>2
  <2>2. /\ n # m /\ manager'[n].at = manager[n].at /\ manager'[n].order = manager[n].order
        /\ manager'[n].wanted = manager[n].wanted
        /\ manager'[n].unchanged \subseteq manager[n].unchanged
        /\ manager'[n].checked \subseteq manager[n].checked
        /\ manager[n].overtaken \subseteq manager'[n].overtaken
        /\ manager[n].at = "lines read" =>
             \A l \in LinesOf(o) : wanted[l] # lineQuantity[l] => l \in manager'[n].overtaken
    BY <2>1, OtherEditsForgetDroppedLines
  <2>3. /\ Started(manager[n].order)
        /\ status[manager[n].order] = "placed" => EditIsCurrent(n)
    BY <1>8, <2>2 DEF VerifiedInv, EditsAreOfStartedOrders, EditsAreCurrent
  <2>4. manager[n].unchanged \subseteq Lines
    BY DEF TypeInv, ChecklistTypeOK, ManagerType
  <2>5. ASSUME status[manager[n].order] = "placed", manager[n].at = "lines read",
               NEW l \in manager'[n].unchanged \ manager'[n].overtaken
        PROVE  manager[n].wanted[l] = lineQuantity'[l]
    <3>1. manager[n].wanted[l] = lineQuantity[l]
      BY <2>2, <2>3, <2>5 DEF EditIsCurrent
    <3>2. l \in Lines /\ (OrderOf[l] = o => wanted[l] = lineQuantity[l])
      BY <2>2, <2>4, <2>5 DEF LinesOf
    <3> QED
      BY <1>3, <3>1, <3>2
  <2>6. status[manager[n].order] = "placed" => EditIsCurrent(n)'
    BY <2>2, <2>3, <2>5 DEF EditIsCurrent
  <2> QED
    BY <1>3, <2>2, <2>3, <2>6 DEF Started
<1>9. EditsAreOfStartedOrders' /\ EditsAreCurrent'
  BY <1>8 DEF EditsAreOfStartedOrders, EditsAreCurrent, Started
<1> QED
  BY <1>6, <1>7, <1>9 DEF VerifiedInv

LEMMA VerifiedStep ==
  ASSUME TypeInv, VerifiedInv, [ChecklistNext]_allVars
  PROVE  VerifiedInv'
<1>1. [Next]_vars
  BY ChecklistStepIsAStep
<1>2. ASSUME NEW m \in Managers, CommitEdit(m) PROVE VerifiedInv'
  BY <1>2, CommittingKeepsVerified
<1>3. ASSUME NEW o \in Orders, PackAndClearMarks(o) PROVE VerifiedInv'
  <2>1. PlacedLinesKept
    BY <1>3 DEF PackAndClearMarks, PackOrder, PlacedLinesKept
  <2>2. marks' \subseteq marks /\ clerk' = clerk /\ manager' = manager
    BY <1>3 DEF PackAndClearMarks
  <2> QED
    BY <1>1, <2>1, <2>2, QuietStepsKeepVerified
<1>4. OtherStep => VerifiedInv'
  <2> SUFFICES ASSUME OtherStep PROVE VerifiedInv'
    OBVIOUS
  <2>1. PlacedLinesKept
    BY OtherStepsLeavePlacedOrders DEF PlacedLinesKept, TypeInv
  <2>2. marks' = marks /\ clerk' = clerk /\ manager' = manager
    BY DEF OtherStep, checklistVars
  <2> QED
    BY <1>1, <2>1, <2>2, QuietStepsKeepVerified
<1>5. (UNCHANGED allVars) => VerifiedInv'
  <2> SUFFICES ASSUME UNCHANGED allVars PROVE VerifiedInv'
    OBVIOUS
  <2>1. UNCHANGED vars /\ marks' = marks /\ clerk' = clerk /\ manager' = manager
    BY DEF allVars, checklistVars
  <2> QED
    BY <1>1, <2>1, StutterKeepsLines, QuietStepsKeepVerified
<1> QED
  BY <1>2, <1>3, <1>4, <1>5, TogglingKeepsVerified, ReadingKeepsVerified DEF ChecklistNext

\* A mark says that staff saw the line as it is: with any number of clerks
\* and concurrent edits, a mark on a placed order is of a line whose quantity
\* has not changed since it was set.  The one exception is told by the mark:
\* an edit put it back after another edit had changed the line between its
\* comparison of the quantities and its reading of the marks.
THEOREM MarksAreOfVerifiedLines == ChecklistSpec => []MarkedLinesWereVerified
<1>1. ChecklistInit => VerifiedInv
  <2> SUFFICES ASSUME ChecklistInit PROVE VerifiedInv
    OBVIOUS
  <2>1. /\ marks = {} /\ \A c \in Clerks : clerk[c].row \notin Rows
        /\ \A m \in Managers : manager[m].at = "idle"
    BY NoRowIsNoRow DEF ChecklistInit, IdleClerk, IdleManager
  <2> QED
    BY <2>1 DEF VerifiedInv, MarksAreOfStartedOrders, TogglesAreOfStartedOrders,
       EditsAreOfStartedOrders, MarkedLinesWereVerified, EditsAreCurrent
<1>2. TypeInv /\ VerifiedInv /\ [ChecklistNext]_allVars => VerifiedInv'
  BY VerifiedStep
<1>3. VerifiedInv => MarkedLinesWereVerified
  BY DEF VerifiedInv
<1> QED
  BY <1>1, <1>2, <1>3, ChecklistTypesHold, PTL DEF ChecklistSpec
=============================================================================
