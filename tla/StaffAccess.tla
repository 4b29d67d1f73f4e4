---------------------------- MODULE StaffAccess -----------------------------
(***************************************************************************)
(* Accounts and who may manage them: accounts/services.py behind the views *)
(* of ops_portal/accounts.  A request is admitted on the role its account  *)
(* has when it starts (accounts/middleware.py) and is not asked again when *)
(* it commits, so the role may be gone by then.                            *)
(*                                                                         *)
(* A superuser (the owner) stands above all this and is not modelled.      *)
(***************************************************************************)
EXTENDS Integers, FiniteSets

CONSTANTS
  Accounts,  \* user rows
  Desks,     \* requests that managers may have under way
  Emails,
  NoEmail    \* an account that does not exist yet

ASSUME AccessAssumption == NoEmail \notin Emails

VARIABLES
  role,    \* StaffAccount.access_level, "customer" or "none": not created
  enabled, \* User.is_active
  email,   \* User.username and User.email, which are one value
  desk     \* each request: who sent it, what it asks for and how far it is

accessVars == <<role, enabled, email, desk>>

StaffLevels == {"restricted", "full"}
Staff(a) == role[a] \in StaffLevels

Idle == [at |-> "idle"]
\* What the forms submit: a new account, new values of all fields of a staff
\* account, or a customer account's status.
Forms ==
  [at : {"admitted", "checked"}, by : Accounts, does : {"create"}, email : Emails,
   role : StaffLevels \cup {"customer"}]
  \cup
  [at : {"admitted", "checked"}, by : Accounts, does : {"edit"}, target : Accounts,
   email : Emails, role : StaffLevels, enabled : BOOLEAN]
  \cup
  [at : {"admitted"}, by : Accounts, does : {"status"}, target : Accounts, enabled : BOOLEAN]

AccessTypeOK ==
  /\ role \in [Accounts -> StaffLevels \cup {"customer", "none"}]
  /\ enabled \in [Accounts -> BOOLEAN]
  /\ email \in [Accounts -> Emails \cup {NoEmail}]
  /\ desk \in [Desks -> Forms \cup {Idle}]
  /\ \A a \in Accounts : (role[a] = "none") = (email[a] = NoEmail)
  /\ \A a, b \in Accounts : email[a] = email[b] /\ email[a] # NoEmail => a = b

\* The first manager's account was created by a command.
AccessInit ==
  \E m \in Accounts, e \in Emails :
    /\ role = [a \in Accounts |-> IF a = m THEN "full" ELSE "none"]
    /\ enabled = [a \in Accounts |-> a = m]
    /\ email = [a \in Accounts |-> IF a = m THEN e ELSE NoEmail]
    /\ desk = [d \in Desks |-> Idle]

\* RoleSpec.allows(MANAGE_ACCOUNTS); an inactive user has no session.
Managers == {a \in Accounts : role[a] = "full" /\ enabled[a]}

Taken(e, except) == \E a \in Accounts \ except : email[a] = e

\* The rows of a staff account are locked from the check to the commit.
Locked(b) ==
  \E d \in Desks : desk[d] # Idle /\ desk[d].at = "checked"
                  /\ desk[d].does = "edit" /\ desk[d].target = b

Close(d) == desk' = [desk EXCEPT ![d] = Idle]
Refused(d) == Close(d) /\ UNCHANGED <<role, enabled, email>>

-----------------------------------------------------------------------------
\* ViewCapabilityMiddleware lets the request in.
Admit(d) ==
  /\ desk[d] = Idle
  /\ \E form \in Forms :
       /\ form.at = "admitted" /\ form.by \in Managers
       /\ form.does = "edit" => Staff(form.target)
       /\ form.does = "status" => role[form.target] = "customer"
       /\ desk' = [desk EXCEPT ![d] = form]
  /\ UNCHANGED <<role, enabled, email>>

Checked(d) ==
  /\ desk' = [desk EXCEPT ![d].at = "checked"]
  /\ UNCHANGED <<role, enabled, email>>

\* _create_user_for_account asks whether the address is taken.
CheckNewAccount(d) ==
  /\ desk[d] # Idle /\ desk[d].does = "create" /\ desk[d].at = "admitted"
  /\ IF Taken(desk[d].email, {}) THEN Refused(d) ELSE Checked(d)

\* Fault: only deactivation is looked at.
HarmlessUnlessDisabled(form) == form.target = form.by => form.enabled

\* "You cannot deactivate your own account", "You cannot remove your own
\* account management access".
HarmlessToOneself(form) ==
  form.target = form.by =>
    form.enabled /\ ~(role[form.by] = "full" /\ form.role = "restricted")

\* update_internal_account locks the rows and validates.
CheckEdit(d) ==
  /\ desk[d] # Idle /\ desk[d].does = "edit" /\ desk[d].at = "admitted"
  /\ ~Locked(desk[d].target)
  /\ IF Taken(desk[d].email, {desk[d].target}) \/ ~HarmlessToOneself(desk[d])
     THEN Refused(d) ELSE Checked(d)

\* The user and its StaffAccount or CustomerMembership are inserted, unless
\* the unique username is taken by now (IntegrityError).
CommitNewAccount(d) ==
  /\ desk[d] # Idle /\ desk[d].does = "create" /\ desk[d].at = "checked"
  /\ \/ /\ ~Taken(desk[d].email, {})
        /\ \E b \in Accounts :
             /\ role[b] = "none"
             /\ role' = [role EXCEPT ![b] = desk[d].role]
             /\ enabled' = [enabled EXCEPT ![b] = TRUE]
             /\ email' = [email EXCEPT ![b] = desk[d].email]
        /\ Close(d)
     \/ Taken(desk[d].email, {}) /\ Refused(d)

\* All submitted fields are saved; the unique username decides again.
CommitEdit(d) ==
  LET form == desk[d]
  IN  /\ form # Idle /\ form.does = "edit" /\ form.at = "checked"
      /\ IF Taken(form.email, {form.target}) THEN Refused(d)
         ELSE /\ role' = [role EXCEPT ![form.target] = form.role]
              /\ enabled' = [enabled EXCEPT ![form.target] = form.enabled]
              /\ email' = [email EXCEPT ![form.target] = form.email]
              /\ Close(d)

\* set_customer_account_active_status; its actor is staff, never the target.
CommitStatus(d) ==
  /\ desk[d] # Idle /\ desk[d].does = "status"
  /\ enabled' = [enabled EXCEPT ![desk[d].target] = desk[d].enabled]
  /\ Close(d)
  /\ UNCHANGED <<role, email>>

-----------------------------------------------------------------------------
AccessNext ==
  \E d \in Desks :
    \/ Admit(d) \/ CheckNewAccount(d) \/ CommitNewAccount(d)
    \/ CheckEdit(d) \/ CommitEdit(d) \/ CommitStatus(d)

AccessSpec == AccessInit /\ [][AccessNext]_accessVars

-----------------------------------------------------------------------------
(* Correctness. *)

\* No manager gives up the last managing account: when none is left after a
\* request, whoever sent it had itself lost the role while the request was
\* under way (two managers who demote each other).
LastManagerIsLostOnlyToARace ==
  [][Managers # {} /\ Managers' = {} =>
       \E d \in Desks : desk[d] # Idle /\ desk'[d] = Idle /\ desk[d].by \notin Managers]_accessVars
=============================================================================
