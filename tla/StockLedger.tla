---------------------------- MODULE StockLedger -----------------------------
(***************************************************************************)
(* What inventory and reservations promise together, without orders, lines *)
(* or clocks: per batch, physical stock and the part of it that is         *)
(* promised.  The stock of an open batch may be corrected, promises may be *)
(* made and taken back, promised stock may be issued, and a batch without  *)
(* promises may be closed for good; nothing is ever promised twice.        *)
(***************************************************************************)
EXTENDS Integers

CONSTANT Batches

VARIABLES
  stock,     \* physical units on the shelf
  promised,  \* units that reservations in force count against the batch
  phase      \* a batch is "absent", then "open", then "closed" for good

vars == <<stock, promised, phase>>

LedgerTypeOK ==
  /\ stock \in [Batches -> Nat]
  /\ promised \in [Batches -> Nat]
  /\ phase \in [Batches -> {"absent", "open", "closed"}]

Init ==
  /\ stock = [b \in Batches |-> 0]
  /\ promised = [b \in Batches |-> 0]
  /\ phase = [b \in Batches |-> "absent"]

\* A delivery creates a batch.
Receive(b) ==
  /\ phase[b] = "absent"
  /\ stock'[b] \in Nat \ {0}
  /\ stock' = [stock EXCEPT ![b] = stock'[b]]
  /\ phase' = [phase EXCEPT ![b] = "open"]
  /\ UNCHANGED promised

\* A stock count corrects an open batch, not below what is promised.
Correct(b) ==
  /\ phase[b] = "open"
  /\ stock'[b] \in Nat /\ stock'[b] >= promised[b]
  /\ stock' = [stock EXCEPT ![b] = stock'[b]]
  /\ UNCHANGED <<promised, phase>>

\* Promises are made on open batches and taken back from any, on several
\* batches at once when an order is re-planned.
Rebook ==
  /\ promised' \in [Batches -> Nat]
  /\ \A b \in Batches :
       /\ promised'[b] <= stock[b]
       /\ promised'[b] > promised[b] => phase[b] = "open"
  /\ UNCHANGED <<stock, phase>>

\* Promised units leave the shelf, and the promise with them.
Issue ==
  /\ stock' \in [Batches -> Nat] /\ promised' \in [Batches -> Nat]
  /\ \A b \in Batches :
       /\ stock'[b] <= stock[b]
       /\ stock[b] - stock'[b] = promised[b] - promised'[b]
       /\ stock'[b] < stock[b] => phase[b] = "open"
  /\ UNCHANGED phase

\* A batch without promises is closed.
Close(b) ==
  /\ phase[b] = "open" /\ promised[b] = 0
  /\ phase' = [phase EXCEPT ![b] = "closed"]
  /\ UNCHANGED <<stock, promised>>

Next ==
  \/ \E b \in Batches : Receive(b) \/ Correct(b) \/ Close(b)
  \/ Rebook
  \/ Issue

Spec == Init /\ [][Next]_vars

\* Nothing is promised that is not on the shelf, and a batch that takes no
\* part in stock operations carries no promise.
PromisesAreBacked ==
  \A b \in Batches : promised[b] <= stock[b] /\ (promised[b] > 0 => phase[b] = "open")
=============================================================================
