---------------------------- MODULE SigningContext ----------------------------
(***************************************************************************)
(* The signing side of the SDK's Context: the Signing Manager and the      *)
(* signing address, and the two asynchronous operations that change them.  *)
(* Each is cut where it awaits SigningManager.getAccounts().               *)
(***************************************************************************)
EXTENDS Naturals, Sequences

CONSTANTS
  Managers, NoManager,   \* Signing Managers
  Accounts, NoAccount,   \* addresses
  AccountsOf,            \* the accounts each manager lists
  Ops,                   \* calls of setSigningManager and setSigningAccount
  Overlap,               \* may one be made while another is pending?
  AccountsMayFail        \* may getAccounts() reject?

ASSUME ManagerAssumption  == NoManager \notin Managers /\ NoAccount \notin Accounts
ASSUME AccountsAssumption == AccountsOf \in [Managers -> Seq(Accounts)]
ASSUME OpsAssumption      == Overlap \in BOOLEAN /\ AccountsMayFail \in BOOLEAN

VARIABLES
  context,   \* the Context: its _signingManager and signingAddress
  op         \* where each operation stands, and what its closure holds

contextVars == <<context, op>>

Signing == [manager : Managers \cup {NoManager}, address : Accounts \cup {NoAccount}]
Closure == [at : {"idle", "first", "find", "done", "failed"},
            manager : Managers \cup {NoManager}, address : Accounts \cup {NoAccount}]

Lists(m, a)   == \E i \in 1 .. Len(AccountsOf[m]) : AccountsOf[m][i] = a
Consistent(x) == x.address = NoAccount \/ (x.manager # NoManager /\ Lists(x.manager, x.address))

Pending(u) == op[u].at \in {"first", "find"}

ContextTypeOK ==
  /\ context \in Signing
  /\ op \in [Ops -> Closure]

(* The SDK was connected without a manager, or with one whose first account *)
(* was taken, if it has one (Context.create).                              *)
Connected(m) ==
  [manager |-> m,
   address |-> IF AccountsOf[m] = <<>> THEN NoAccount ELSE Head(AccountsOf[m])]

ContextInit ==
  /\ context \in {[manager |-> NoManager, address |-> NoAccount]}
                  \cup {Connected(m) : m \in Managers}
  /\ op = [u \in Ops |-> [at |-> "idle", manager |-> NoManager, address |-> NoAccount]]

-----------------------------------------------------------------------------
Starts(u) == op[u].at = "idle" /\ (Overlap \/ \A v \in Ops : ~Pending(v))

Ends(u, how) ==
  op' = [op EXCEPT ![u] = [at |-> how, manager |-> NoManager, address |-> NoAccount]]

UnsetSigningManager(u) ==
  /\ Starts(u) /\ Ends(u, "done")
  /\ context' = [manager |-> NoManager, address |-> NoAccount]

(* The manager is replaced at once, the address only when the accounts     *)
(* have been listed.                                                       *)
SetSigningManager(u, m) ==
  /\ Starts(u)
  /\ context' = [context EXCEPT !.manager = m]
  /\ op' = [op EXCEPT ![u] = [at |-> "first", manager |-> m, address |-> NoAccount]]

(* What setSigningAddress keeps across its await.  Mutant: swapped.        *)
Finding_Swapped(m, a) == [at |-> "find", manager |-> a, address |-> m]
Finding(m, a) == [at |-> "find", manager |-> m, address |-> a]

(* setSigningAddress: the manager is read now and asked for its accounts.  *)
(* A getter throws when there is none.                                     *)
LookUp(u, a) ==
  IF context.manager = NoManager
    THEN Ends(u, "failed")
    ELSE op' = [op EXCEPT ![u] = Finding(context.manager, a)]

FirstAccount(u) ==
  /\ op[u].at = "first"
  /\ IF AccountsOf[op[u].manager] = <<>>
       THEN context' = [context EXCEPT !.address = NoAccount] /\ Ends(u, "done")
       ELSE LookUp(u, Head(AccountsOf[op[u].manager])) /\ UNCHANGED context

SetSigningAddress(u, a) ==
  /\ Starts(u)
  /\ LookUp(u, a) /\ UNCHANGED context

(* Is the address in the Signing Manager?  Mutant: any valid address is    *)
(* taken.                                                                  *)
IsKnown_Any(m, a) == a \in Accounts
IsKnown(m, a) == Lists(m, a)

FindAccount(u) ==
  /\ op[u].at = "find"
  /\ IF IsKnown(op[u].manager, op[u].address)
       THEN context' = [context EXCEPT !.address = op[u].address] /\ Ends(u, "done")
       ELSE Ends(u, "failed") /\ UNCHANGED context

AccountsFail(u) ==
  /\ AccountsMayFail /\ Pending(u)
  /\ Ends(u, "failed") /\ UNCHANGED context

ContextNext ==
  \E u \in Ops :
    \/ UnsetSigningManager(u)
    \/ \E m \in Managers : SetSigningManager(u, m)
    \/ \E a \in Accounts : SetSigningAddress(u, a)
    \/ FirstAccount(u) \/ FindAccount(u) \/ AccountsFail(u)

-----------------------------------------------------------------------------
(* Properties *)

(* setSigningAccount() "throws if the passed Account is not present in the *)
(* Signing Manager (or there is no Signing Manager)": once no operation is *)
(* pending, and if none failed half way, the signing account is one of the *)
(* attached manager's.                                                     *)
AddressBelongs ==
  (\A u \in Ops : op[u].at \in {"idle", "done"}) => Consistent(context)
=============================================================================
