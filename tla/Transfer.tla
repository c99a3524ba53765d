------------------------------- MODULE Transfer -------------------------------
(***************************************************************************)
(* The transfers of the bank example: TransferCoordinatorActor takes an    *)
(* amount from one account, records the transfer, and tries to deposit in  *)
(* the other, again after a while if that fails, and in the end refunds.   *)
(* Each step is a message of the coordinator to itself, and it awaits the  *)
(* accounts, so that the steps of several transfers, the failures of the   *)
(* coordinator and of accounts, and their resumption by the supervisors    *)
(* interleave.                                                             *)
(*                                                                         *)
(* BankActor and TellerActor pass orders on and are not state here: their  *)
(* own mailboxes only make an order arrive later.  An account records an   *)
(* operation in its history in the step that carries it out, for nothing   *)
(* suspends a history and its handlers never throw.  TransferSupervisor    *)
(* and AccountSupervisor resume whatever fails, some time after it failed. *)
(*                                                                         *)
(* Calls are sent and begun within a turn of the event loop: the handlers  *)
(* that a step begins run up to their first await before anything else     *)
(* happens.  No handler does more after its last send in a turn, so they   *)
(* run one after the other, in the order begun.                            *)
(***************************************************************************)
EXTENDS MailboxRecord, FiniteSets

CONSTANTS
  Accounts,      \* the account numbers
  MaxOrders,     \* bound on what clients ask of the bank
  Coordinator,   \* the transfer coordinator
  Requests,      \* what they may ask
  Opening,       \* the initial balance of each account
  MAX_RETRY_ATTEMPTS,
  Refusing,      \* accounts that may refuse a deposit, as the protocol allows
  Stoppable,     \* accounts that may be stopped
  None

Orders == 1..MaxOrders

ASSUME NamesAssumption == Coordinator \notin Accounts /\ Accounts \cap Nat = {}
ASSUME OrdersAssumption == MaxOrders \in Nat
ASSUME BalanceAssumption == Opening \in [Accounts -> Nat]
\* A deposit or a withdrawal is of one account.
ASSUME RequestsAssumption ==
  /\ Requests \subseteq [kind : {"deposit", "withdraw", "transfer"}, from : Accounts,
                         to : Accounts, amount : Nat]
  /\ \A r \in Requests : r.kind # "transfer" => r.from = r.to
ASSUME AttemptsAssumption == MAX_RETRY_ATTEMPTS \in Nat \ {0}
ASSUME OptionsAssumption == Refusing \subseteq Accounts /\ Stoppable \subseteq Accounts

Actors == Accounts \cup {Coordinator}

\* A call of the method kind for order or account id, in attempt n.
Steps == {"initiateTransfer", "recordPendingTransfer", "attemptDeposit",
          "handleDepositFailure", "processRefund", "completeTransfer"}
Operations == {"withdraw", "deposit", "refund"}
Calls ==
  [kind : {"registerAccount"}, id : Accounts, n : {0}]
    \cup [kind : Steps \cup Operations, id : Orders, n : 0..MAX_RETRY_ATTEMPTS]
Call(k, i, n) == [kind |-> k, id |-> i, n |-> n]

PendingTransfer ==
  [status : {"withdrawn", "failed-deposit", "refunded"}, attempts : 0..MAX_RETRY_ATTEMPTS]

ASSUME NoneAssumption == None \notin Requests /\ None \notin PendingTransfer

VARIABLES
  mailbox,          \* the mailbox of each actor
  begun,            \* calls whose handlers are to run, in this turn
  awaiting,         \* steps that await an account
  threw,            \* calls whose handler threw, before deliver() knows
  answers,          \* operations that were answered, and whether they succeeded
  failures,         \* failed calls whose actor no supervisor has resumed yet
  timers,           \* scheduled attempts
  order,            \* what each order asks for
  opened,           \* accounts of the bank
  accounts,         \* accounts the coordinator knows
  pendingTransfers, \* of the coordinator
  balance,          \* of each account
  history           \* the operations each account carried out

turnVars == <<mailbox, begun>>
callVars == <<awaiting, threw, answers, failures, timers>>
bankVars == <<order, opened, accounts, pendingTransfers>>
accountVars == <<balance, history>>
vars == <<turnVars, callVars, bankVars, accountVars>>

TypeOK ==
  /\ mailbox \in [Actors -> MailboxOf(Calls)]
  /\ begun \in Seq(Calls)
  /\ awaiting \subseteq Calls /\ threw \subseteq Calls /\ failures \subseteq Calls
  /\ answers \subseteq Calls \X BOOLEAN
  /\ timers \subseteq Calls
  /\ order \in [Orders -> Requests \cup {None}]
  /\ accounts \subseteq opened /\ opened \subseteq Accounts
  /\ pendingTransfers \in [Orders -> PendingTransfer \cup {None}]
  /\ balance \in [Accounts -> Nat]
  /\ history \in [Accounts -> SUBSET Calls]

Init ==
  /\ mailbox = [a \in Actors |-> EmptyMailbox]
  /\ begun = << >>
  /\ awaiting = {} /\ threw = {} /\ answers = {} /\ failures = {} /\ timers = {}
  /\ order = [o \in Orders |-> None]
  /\ opened = {} /\ accounts = {}
  /\ pendingTransfers = [o \in Orders |-> None]
  /\ balance = Opening
  /\ history = [a \in Accounts |-> {}]

-----------------------------------------------------------------------------
(* Calls *)

\* No handler is to run first in this turn, and no dispatch loop to go on.
Quiet == begun = << >> /\ \A a \in Actors : mailbox[a].settling = {}
Begun == {begun[i] : i \in 1..Len(begun)}
Rest == IF begun = << >> THEN << >> ELSE Tail(begun)

\* The actor that handles m.
Target(m) ==
  CASE m.kind \in {"withdraw", "refund"} -> order[m.id].from
    [] m.kind = "deposit" -> order[m.id].to
    [] OTHER -> Coordinator

\* The mailbox of a becomes b, after the calls by which b's queue is shorter
\* than q were begun.
Becomes(a, q, b) ==
  /\ mailbox' = [mailbox EXCEPT ![a] = b]
  /\ begun' = Rest \o SubSeq(q, 1, Len(q) - Len(b.queue))

SendNothing == begun' = Rest /\ UNCHANGED mailbox

\* The call m is sent to a; a closed mailbox makes a dead letter of it.
Send(a, m) ==
  IF mailbox[a].closed THEN SendNothing
  ELSE Becomes(a, Append(mailbox[a].queue, m), Sent(mailbox[a], m))

\* The coordinator sends itself m and then n; nothing stops a coordinator.
SendBoth(m, n) ==
  LET b == mailbox[Coordinator] IN
    Becomes(Coordinator, Append(Append(b.queue, m), n), Sent(Sent(b, m), n))

\* The operation that step m awaits.
OperationOf == [initiateTransfer |-> "withdraw", attemptDeposit |-> "deposit",
                processRefund |-> "refund"]
AskedBy(m) == [m EXCEPT !.kind = OperationOf[@]]
Awaited(op) == \E m \in awaiting : AskedBy(m) = op

\* Step m calls its account, which answers at once if it was stopped.
Ask(m) ==
  LET op == AskedBy(m) IN
    /\ Send(Target(op), op)
    /\ awaiting' = awaiting \cup {m}
    /\ answers' = IF mailbox[Target(op)].closed THEN answers \cup {<<op, TRUE>>} ELSE answers

-----------------------------------------------------------------------------
(* The clients *)

IsNext(o) == order[o] = None /\ \A p \in 1..(o - 1) : order[p] # None

\* BankActor.openAccount().
openAccount(a) ==
  /\ Quiet
  /\ a \notin opened
  /\ opened' = opened \cup {a}
  /\ Send(Coordinator, Call("registerAccount", a, 0))
  /\ UNCHANGED <<callVars, order, accounts, pendingTransfers, accountVars>>

\* BankActor.transfer() asks the coordinator, whatever accounts there are.
transfer(o) ==
  /\ Quiet
  /\ IsNext(o)
  /\ \E r \in Requests : r.kind = "transfer" /\ order' = [order EXCEPT ![o] = r]
  /\ Send(Coordinator, Call("initiateTransfer", o, 0))
  /\ UNCHANGED <<callVars, opened, accounts, pendingTransfers, accountVars>>

\* BankActor.deposit() and withdraw() ask an account of the bank.
depositOrWithdraw(o) ==
  /\ Quiet
  /\ IsNext(o)
  /\ \E r \in Requests :
       /\ r.kind # "transfer"
       /\ r.to \in opened
       /\ order' = [order EXCEPT ![o] = r]
       /\ Send(r.to, Call(r.kind, o, 0))
  /\ UNCHANGED <<callVars, opened, accounts, pendingTransfers, accountVars>>

\* Whoever has the proxy of an account may stop it.
StopAccount(a) ==
  /\ Quiet
  /\ a \in opened \cap Stoppable
  /\ ~mailbox[a].closed
  /\ mailbox' = [mailbox EXCEPT ![a] = Closed(@)]
  /\ UNCHANGED <<begun, callVars, bankVars, accountVars>>

-----------------------------------------------------------------------------
(* TransferCoordinatorActor: the handlers, up to their first await *)

Runs(k) == begun # << >> /\ Head(begun).kind = k
Current == Head(begun)
Transferred == pendingTransfers[Current.id]

registerAccount ==
  /\ Runs("registerAccount")
  /\ accounts' = accounts \cup {Current.id}
  /\ SendNothing
  /\ UNCHANGED <<callVars, order, opened, pendingTransfers, accountVars>>

Valid(r) == {r.from, r.to} \subseteq accounts /\ r.from # r.to

InitiateRefused ==
  /\ Runs("initiateTransfer")
  /\ ~Valid(order[Current.id])
  /\ threw' = threw \cup {Current}
  /\ SendNothing
  /\ UNCHANGED <<awaiting, answers, failures, timers, bankVars, accountVars>>

initiateTransfer ==
  /\ Runs("initiateTransfer")
  /\ Valid(order[Current.id])
  /\ Ask(Current)
  /\ UNCHANGED <<threw, failures, timers, bankVars, accountVars>>

recordPendingTransfer ==
  /\ Runs("recordPendingTransfer")
  /\ pendingTransfers' =
       [pendingTransfers EXCEPT ![Current.id] = [status |-> "withdrawn", attempts |-> 0]]
  /\ SendNothing
  /\ UNCHANGED <<callVars, order, opened, accounts, accountVars>>

\* The accounts are found, as they were when the transfer was initiated.
attemptDeposit ==
  /\ Runs("attemptDeposit")
  /\ IF Transferred = None THEN SendNothing /\ UNCHANGED <<awaiting, answers>> ELSE Ask(Current)
  /\ UNCHANGED <<threw, failures, timers, bankVars, accountVars>>

Retry(o, n) ==
  /\ pendingTransfers' = [pendingTransfers EXCEPT ![o].attempts = n]
  /\ timers' = timers \cup {Call("attemptDeposit", o, n)}
  /\ SendNothing

GiveUp(o, n) ==
  /\ pendingTransfers' = [pendingTransfers EXCEPT ![o] = [status |-> "failed-deposit", attempts |-> n]]
  /\ Send(Coordinator, Call("processRefund", o, 0))
  /\ UNCHANGED timers

handleDepositFailure ==
  /\ Runs("handleDepositFailure")
  /\ IF Transferred = None THEN SendNothing /\ UNCHANGED <<pendingTransfers, timers>>
     ELSE LET attempts == Transferred.attempts + 1 IN
            IF attempts < MAX_RETRY_ATTEMPTS THEN Retry(Current.id, attempts)
            ELSE GiveUp(Current.id, attempts)
  /\ UNCHANGED <<awaiting, threw, answers, failures, order, opened, accounts, accountVars>>

processRefund ==
  /\ Runs("processRefund")
  /\ IF Transferred = None THEN SendNothing /\ UNCHANGED <<awaiting, answers>> ELSE Ask(Current)
  /\ UNCHANGED <<threw, failures, timers, bankVars, accountVars>>

completeTransfer ==
  /\ Runs("completeTransfer")
  /\ pendingTransfers' = [pendingTransfers EXCEPT ![Current.id] = None]
  /\ SendNothing
  /\ UNCHANGED <<callVars, order, opened, accounts, accountVars>>

-----------------------------------------------------------------------------
(* TransferCoordinatorActor: the handlers, after their await *)

Answered(m, ok) == m \in awaiting /\ <<AskedBy(m), ok>> \in answers

GoesOn(m, ok) ==
  /\ Quiet
  /\ Answered(m, ok)
  /\ awaiting' = awaiting \ {m}
  /\ answers' = answers \ {<<AskedBy(m), ok>>}
  /\ UNCHANGED <<failures, order, opened, accounts, accountVars>>

\* Mutant of Withdrawn: the deposit is attempted before the record is made.
WithdrawnSwapped(m) ==
  /\ m.kind = "initiateTransfer"
  /\ GoesOn(m, TRUE)
  /\ SendBoth(Call("attemptDeposit", m.id, 0), Call("recordPendingTransfer", m.id, 0))
  /\ UNCHANGED <<threw, timers, pendingTransfers>>

Withdrawn(m) ==
  /\ m.kind = "initiateTransfer"
  /\ GoesOn(m, TRUE)
  /\ SendBoth(Call("recordPendingTransfer", m.id, 0), Call("attemptDeposit", m.id, 0))
  /\ UNCHANGED <<threw, timers, pendingTransfers>>

\* Mutant of NotWithdrawn: the error is logged and not thrown again.
NotWithdrawnSwallowed(m) ==
  /\ m.kind = "initiateTransfer"
  /\ GoesOn(m, FALSE)
  /\ SendBoth(Call("recordPendingTransfer", m.id, 0), Call("attemptDeposit", m.id, 0))
  /\ UNCHANGED <<threw, timers, pendingTransfers>>

NotWithdrawn(m) ==
  /\ m.kind = "initiateTransfer"
  /\ GoesOn(m, FALSE)
  /\ threw' = threw \cup {m}
  /\ UNCHANGED <<turnVars, timers, pendingTransfers>>

Deposited(m) ==
  /\ m.kind = "attemptDeposit"
  /\ GoesOn(m, TRUE)
  /\ Send(Coordinator, Call("completeTransfer", m.id, 0))
  /\ UNCHANGED <<threw, timers, pendingTransfers>>

NotDeposited(m) ==
  /\ m.kind = "attemptDeposit"
  /\ GoesOn(m, FALSE)
  /\ Send(Coordinator, Call("handleDepositFailure", m.id, m.n))
  /\ UNCHANGED <<threw, timers, pendingTransfers>>

\* Mutant of Refunded: the transfer stays pending.
RefundedOnly(m) ==
  /\ m.kind = "processRefund"
  /\ GoesOn(m, TRUE)
  /\ pendingTransfers' = [pendingTransfers EXCEPT ![m.id].status = "refunded"]
  /\ UNCHANGED <<turnVars, threw, timers>>

Refunded(m) ==
  /\ m.kind = "processRefund"
  /\ GoesOn(m, TRUE)
  /\ pendingTransfers' = [pendingTransfers EXCEPT ![m.id].status = "refunded"]
  /\ Send(Coordinator, Call("completeTransfer", m.id, 0))
  /\ UNCHANGED <<threw, timers>>

\* Nothing is ready but timers.
Idle ==
  /\ Quiet
  /\ failures = {}
  /\ \A a \in Actors : mailbox[a].running \subseteq awaiting

\* The task of scheduleOnce(): timers fire when all promises have settled.
RetryFires(m) ==
  /\ Idle
  /\ m \in timers
  /\ timers' = timers \ {m}
  /\ Send(Coordinator, m)
  /\ UNCHANGED <<awaiting, threw, answers, failures, bankVars, accountVars>>

-----------------------------------------------------------------------------
(* AccountActor *)

CarryOut(a, amount) ==
  /\ balance' = [balance EXCEPT ![a] = amount]
  /\ history' = [history EXCEPT ![a] = @ \cup {Current}]

\* Mutant of withdraw: whatever the balance is.
withdrawUnchecked ==
  /\ Runs("withdraw")
  /\ CarryOut(Target(Current), balance[Target(Current)] - order[Current.id].amount)
  /\ SendNothing
  /\ UNCHANGED <<callVars, bankVars>>

withdraw ==
  /\ Runs("withdraw")
  /\ LET a == Target(Current)
         amount == order[Current.id].amount IN
       IF amount > balance[a] THEN threw' = threw \cup {Current} /\ UNCHANGED accountVars
       ELSE CarryOut(a, balance[a] - amount) /\ UNCHANGED threw
  /\ SendNothing
  /\ UNCHANGED <<awaiting, answers, failures, timers, bankVars>>

\* An implementation of Account refuses the deposit before it has any effect.
DepositRefused ==
  /\ Runs("deposit")
  /\ Target(Current) \in Refusing
  /\ threw' = threw \cup {Current}
  /\ SendNothing
  /\ UNCHANGED <<awaiting, answers, failures, timers, bankVars, accountVars>>

\* deposit() and refund().
Credit ==
  /\ Runs("deposit") \/ Runs("refund")
  /\ CarryOut(Target(Current), balance[Target(Current)] + order[Current.id].amount)
  /\ SendNothing
  /\ UNCHANGED <<callVars, bankVars>>

-----------------------------------------------------------------------------
(* LocalMessage.deliver(), ArrayMailbox.dispatch() and the supervisors *)

Reply(op, ok) == answers' = IF Awaited(op) THEN answers \cup {<<op, ok>>} ELSE answers

HandlerReturns(a, m) ==
  /\ Quiet
  /\ m \in mailbox[a].running \ (awaiting \cup threw)
  /\ mailbox' = [mailbox EXCEPT ![a] = Ended(@, m)]
  /\ Reply(m, TRUE)
  /\ UNCHANGED <<begun, awaiting, threw, failures, timers, bankVars, accountVars>>

HandlerThrows(a, m) ==
  /\ Quiet
  /\ m \in mailbox[a].running \cap threw
  /\ threw' = threw \ {m}
  /\ failures' = failures \cup {m}
  /\ mailbox' = [mailbox EXCEPT ![a] = Failed(@, m)]
  /\ Reply(m, FALSE)
  /\ UNCHANGED <<begun, awaiting, timers, bankVars, accountVars>>

Continue(a, m) ==
  /\ begun = << >>
  /\ m \in mailbox[a].settling
  /\ Becomes(a, mailbox[a].queue, Continued(mailbox[a], m))
  /\ UNCHANGED <<callVars, bankVars, accountVars>>

SupervisorResumes(m) ==
  /\ Quiet
  /\ m \in failures
  /\ failures' = failures \ {m}
  /\ Becomes(Target(m), mailbox[Target(m)].queue, Resumed(mailbox[Target(m)]))
  /\ UNCHANGED <<awaiting, threw, answers, timers, bankVars, accountVars>>

-----------------------------------------------------------------------------
CoordinatorRuns ==
  \/ registerAccount \/ InitiateRefused \/ initiateTransfer \/ recordPendingTransfer
  \/ attemptDeposit \/ handleDepositFailure \/ processRefund \/ completeTransfer

AccountRuns == withdraw \/ DepositRefused \/ Credit

CoordinatorGoesOn(m) ==
  Withdrawn(m) \/ NotWithdrawn(m) \/ Deposited(m) \/ NotDeposited(m) \/ Refunded(m)

EventLoop ==
  \/ CoordinatorRuns
  \/ AccountRuns
  \/ \E m \in awaiting : CoordinatorGoesOn(m)
  \/ \E m \in timers : RetryFires(m)
  \/ \E a \in Actors : \E m \in mailbox[a].running : HandlerReturns(a, m) \/ HandlerThrows(a, m)
  \/ \E a \in Actors : \E m \in mailbox[a].settling : Continue(a, m)
  \/ \E m \in failures : SupervisorResumes(m)

Clients ==
  \/ \E a \in Accounts : openAccount(a) \/ StopAccount(a)
  \/ \E o \in Orders : transfer(o) \/ depositOrWithdraw(o)

Next == EventLoop \/ Clients

Spec == Init /\ [][Next]_vars

(***************************************************************************)
(* Fairness: the event loop runs what is ready.  Every order leads to      *)
(* finitely many steps, so it gets to each.                                *)
(***************************************************************************)
FairSpec == Spec /\ WF_vars(EventLoop)

-----------------------------------------------------------------------------
Did(o, k) == \E a \in Accounts : \E m \in history[a] : m.id = o /\ m.kind = k
IsTransfer(o) == order[o] # None /\ order[o].kind = "transfer"
Taken(o) == IsTransfer(o) /\ Did(o, "withdraw")
Settled(o) == Did(o, "deposit") \/ Did(o, "refund")
HasStoppedAccount(o) ==
  order[o] # None /\ \E a \in {order[o].from, order[o].to} : mailbox[a].closed

\* The calls and timers by which the coordinator will go on with o.
Carriers(o) ==
  {m \in Queue(mailbox[Coordinator]) \cup Begun \cup awaiting \cup timers :
     m.id = o /\ m.kind \in Steps \ {"recordPendingTransfer"}}

(***************************************************************************)
(* From the withdrawal to the end, a transfer is carried on by exactly one *)
(* call or timer of the coordinator: it is never forgotten and never taken *)
(* up twice, over awaits, retries, failures of other transfers and resumed *)
(* mailboxes.  When it has none, the coordinator has no record of it, and  *)
(* the amount was given or returned, or met an account that was stopped.   *)
(***************************************************************************)
OneCarrier ==
  \A o \in Orders : Taken(o) =>
    \/ Cardinality(Carriers(o)) = 1
    \/ /\ Carriers(o) = {}
       /\ pendingTransfers[o] = None
       /\ Settled(o) \/ HasStoppedAccount(o)

Phase(o) ==
  IF Did(o, "refund") THEN "returned"
  ELSE IF Did(o, "deposit") THEN "given"
  ELSE IF Did(o, "withdraw") THEN "taken" ELSE "new"

Promise == INSTANCE Ledger WITH
  Accounts <- Accounts,
  Orders <- Orders,
  None <- None,
  order <- order,
  balance <- balance,
  stopped <- {a \in Accounts : mailbox[a].closed},
  phase <- [o \in Orders |-> Phase(o)]

(***************************************************************************)
(* The bank keeps what Ledger says of money: no account is overdrawn, no   *)
(* amount is given twice or both given and returned, and a transfer that   *)
(* is refused has taken nothing.                                           *)
(***************************************************************************)
ImplementsLedger == Promise!Spec

\* A step awaits an account that was stopped with the operation in its queue.
Stranded ==
  \E m \in awaiting : LET a == Target(AskedBy(m)) IN
    mailbox[a].closed /\ AskedBy(m) \in Queue(mailbox[a])

(***************************************************************************)
(* A transfer that took an amount gives it or returns it and is no longer  *)
(* pending in the end, unless one of its accounts is stopped, or another   *)
(* account is, with an operation in its queue that the coordinator awaits: *)
(* whatever the coordinator has queued behind that step may then stay.     *)
(***************************************************************************)
TransfersEnd ==
  \A o \in Orders :
    Taken(o) ~> (HasStoppedAccount(o) \/ Stranded \/ (Settled(o) /\ pendingTransfers[o] = None))
=============================================================================
