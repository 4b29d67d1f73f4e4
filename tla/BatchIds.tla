------------------------------ MODULE BatchIds ------------------------------
(***************************************************************************)
(* Generated batch ids of one product: create_batch without a batch_id,    *)
(* inventory/services.py.  An id is the product's prefix and a number      *)
(* padded to BATCH_ID_SEQUENCE_WIDTH digits; only the number is modelled.  *)
(*                                                                         *)
(* The next number follows the id that is last in string order.  Padded    *)
(* numbers are ordered like numbers, but one digit more sorts before them: *)
(* "1000" comes before "999".                                              *)
(***************************************************************************)
EXTENDS Integers, FiniteSets

CONSTANTS
  Makers,      \* requests that create a batch of the product
  LastPadded   \* the largest number of the padded width (999)

ASSUME BatchIdsAssumption == LastPadded \in Nat \ {0, 1}

VARIABLES
  numbers,  \* the numbers of the product's batches
  maker     \* the number each request has generated (0: none)

idsVars == <<numbers, maker>>

Number == 1 .. LastPadded + 1

IdsTypeOK ==
  /\ numbers \subseteq Number
  /\ maker \in [Makers -> Number \cup {0}]

IdsInit == numbers = {} /\ maker = [m \in Makers |-> 0]

Largest(set) == CHOOSE n \in set : \A k \in set : k <= n

\* Fault: ids are not padded, so that "10" sorts before "9".
LatestUnpadded ==
  LET short == numbers \cap (1 .. LastPadded - 1)
  IN  IF short = {} THEN 0 ELSE Largest(short)

\* order_by("-batch_id").first()
Latest ==
  LET padded == numbers \cap (1 .. LastPadded)
  IN  IF padded = {} THEN 0 ELSE Largest(padded)

-----------------------------------------------------------------------------
\* _generate_batch_id: read the latest id.
Generate(m) ==
  /\ maker[m] = 0
  /\ maker' = [maker EXCEPT ![m] = Latest + 1]
  /\ UNCHANGED numbers

\* The row is inserted and committed; InventoryBatch.batch_id is unique.
Insert(m) ==
  /\ maker[m] \notin numbers \cup {0}
  /\ numbers' = numbers \cup {maker[m]}
  /\ maker' = [maker EXCEPT ![m] = 0]

\* IntegrityError inside create_batch's transaction: the next attempt's query
\* is refused (TransactionManagementError) and the request fails.
Collide(m) ==
  /\ maker[m] \in numbers
  /\ maker' = [maker EXCEPT ![m] = 0]
  /\ UNCHANGED numbers

\* The special pricing saved with the batch is refused, or the process dies.
RollBack(m) ==
  /\ maker[m] # 0
  /\ maker' = [maker EXCEPT ![m] = 0]
  /\ UNCHANGED numbers

IdsNext == \E m \in Makers : Generate(m) \/ Insert(m) \/ Collide(m) \/ RollBack(m)

IdsSpec == IdsInit /\ [][IdsNext]_idsVars

-----------------------------------------------------------------------------
(* Correctness. *)

\* A generated number is free when it is generated, as long as the padded
\* width is not used up: a request collides only with a batch that another
\* request committed meanwhile.
GeneratedNumbersAreFree ==
  [][\A m \in Makers :
       maker[m] = 0 /\ maker'[m] # 0 /\ LastPadded + 1 \notin numbers => maker'[m] \notin numbers]_idsVars
=============================================================================
