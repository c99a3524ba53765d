-------------------------------- MODULE Ledger --------------------------------
(***************************************************************************)
(* What the bank promises about money, with no mailbox, message, retry or  *)
(* timer in it: an account is never overdrawn, and a transfer that took    *)
(* an amount from one account gives it to the other or returns it, once.   *)
(* Only from an account that was stopped may a transfer give what nobody   *)
(* took: such an account answers every call, and does nothing.             *)
(***************************************************************************)
EXTENDS Naturals

CONSTANTS Accounts, Orders, None

VARIABLES
  order,     \* what each order asks for, None before it is placed
  balance,   \* the balance of each account
  stopped,   \* the accounts that were stopped
  phase      \* how far each order has got

vars == <<order, balance, stopped, phase>>

Init ==
  /\ order = [o \in Orders |-> None]
  /\ balance \in [Accounts -> Nat]
  /\ stopped = {}
  /\ phase = [o \in Orders |-> "new"]

Place(o) ==
  /\ order[o] = None
  /\ \A p \in Orders \ {o} : order'[p] = order[p]
  /\ UNCHANGED <<balance, stopped, phase>>

Stop(a) ==
  /\ stopped' = stopped \cup {a}
  /\ UNCHANGED <<order, balance, phase>>

IsFor(o, kinds) == order[o] # None /\ order[o].kind \in kinds

Take(o) ==
  /\ phase[o] = "new"
  /\ IsFor(o, {"withdraw", "transfer"})
  /\ order[o].kind = "transfer" => order[o].from # order[o].to
  /\ order[o].amount <= balance[order[o].from]
  /\ phase' = [phase EXCEPT ![o] = "taken"]
  /\ balance' = [balance EXCEPT ![order[o].from] = @ - order[o].amount]
  /\ UNCHANGED <<order, stopped>>

Give(o) ==
  /\ \/ phase[o] = "new" /\ IsFor(o, {"deposit"})
     \/ phase[o] = "taken" /\ IsFor(o, {"transfer"})
     \/ phase[o] = "new" /\ IsFor(o, {"transfer"}) /\ order[o].from \in stopped
  /\ phase' = [phase EXCEPT ![o] = "given"]
  /\ balance' = [balance EXCEPT ![order[o].to] = @ + order[o].amount]
  /\ UNCHANGED <<order, stopped>>

Return(o) ==
  /\ phase[o] = "taken" /\ IsFor(o, {"transfer"})
  /\ phase' = [phase EXCEPT ![o] = "returned"]
  /\ balance' = [balance EXCEPT ![order[o].from] = @ + order[o].amount]
  /\ UNCHANGED <<order, stopped>>

Next ==
  \/ \E o \in Orders : Place(o) \/ Take(o) \/ Give(o) \/ Return(o)
  \/ \E a \in Accounts : Stop(a)

Spec == Init /\ [][Next]_vars
=============================================================================
