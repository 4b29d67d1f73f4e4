--------------------------- MODULE MCRequestRaces ---------------------------
(***************************************************************************)
(* Four places where requests of the web application race for few rows: a  *)
(* browser's cart, the accounts that manage accounts, the next batch id,   *)
(* the row locks of orders, payments and stock.                            *)
(* They share no state, so that a behaviour of the system is one of each;  *)
(* the run explores them side by side, each behaviour taking its steps in  *)
(* one of them.                                                            *)
(***************************************************************************)
EXTENDS RetailCart, StaffAccess, BatchIds, LockOrder

\* Product P has batches p1 and p2, the second one with a retail offer of its
\* own; product Q has q1.  Two business orders want P and Q in opposite order.
MCFefo == <<"p1", "q1", "p2">>
MCProductOf == [p1 |-> "P", q1 |-> "Q", p2 |-> "P"]
MCPoolsOf ==
  [B1 |-> <<{"p1", "p2"}, {"q1"}>>, B2 |-> <<{"q1"}, {"p1", "p2"}>>, R1 |-> <<{"p2"}, {"p1"}>>]

VARIABLE place

raceVars == <<cartVars, accessVars, idsVars, lockVars, place>>

RacesInit ==
  /\ CartInit /\ AccessInit /\ IdsInit /\ LocksInit
  /\ place \in {"cart", "accounts", "batch ids", "row locks"}
  \* What does not move starts in one way only.
  /\ place # "cart" => onSale = {}
  /\ place # "accounts" =>
       role[CHOOSE a \in Accounts : TRUE] # "none" /\ Taken(CHOOSE e \in Emails : TRUE, {})

RacesNext ==
  /\ UNCHANGED place
  /\ \/ place = "cart" /\ CartNext /\ UNCHANGED <<accessVars, idsVars, lockVars>>
     \/ place = "accounts" /\ AccessNext /\ UNCHANGED <<cartVars, idsVars, lockVars>>
     \/ place = "batch ids" /\ IdsNext /\ UNCHANGED <<cartVars, accessVars, lockVars>>
     \/ place = "row locks" /\ LocksNext /\ UNCHANGED <<cartVars, accessVars, idsVars>>

RacesSpec == RacesInit /\ [][RacesNext]_raceVars

\* Every row and every request of the four places has a legal value.
TypeOK == CartTypeOK /\ AccessTypeOK /\ IdsTypeOK /\ LocksTypeOK
=============================================================================
