# DomoActors in TLA+

DomoActors is an actor framework for TypeScript. An actor is an object with a
mailbox; its clients hold a proxy, each call of which becomes a message; a
stage creates actors, keeps them in a directory, supervises the ones that fail
and stops them. Everything runs on one JavaScript thread, so nothing is ever
interrupted between two statements. What makes the framework hard is that every
handler may await: between two awaits anything else runs, the next message of
the same actor included.

These modules model that: an action is the code that runs between two awaits,
and what was read before an await may be stale after it.

- [The system](#the-system): its parts, their state and the behaviours that are hard
- [The modules](#the-modules): what each models, and how it corresponds to the code
- [The runs](#the-runs): what TLC checks, with which bounds and fairness
- [What the runs refute](#what-the-runs-refute)
- [The proofs](#the-proofs): what TLAPS checks, and along which argument
- [What is not modelled](#what-is-not-modelled)
- [The plan](#the-plan)

To check a module: `tlc -config Stopping.cfg MCStopping`, `tlapm StoppingProofs.tla`.

## The system

Paths are below `src/src/actors/` unless they say otherwise.

| Component | State it keeps | Operations | What makes it correct |
| --- | --- | --- | --- |
| Mailbox (`ArrayMailbox.ts`, `BoundedMailbox.ts`, `OverflowPolicy.ts`) | queue, suspended, closed, dropped count | `send`, `receive`, `dispatch`, `suspend`, `resume`, `close`, overflow | messages start in order and once; every caller is answered once; nothing starts while suspended; no message sleeps in an open mailbox |
| Delivery (`LocalMessage.ts`, `DeferredPromise.ts`) | the promise of the caller, the context of the message | `deliver` | success, failure and dead letters settle the promise exactly once |
| Proxy (`ActorProxy.ts`) | none | a call becomes a message, or a direct read for the methods in its list | a message for every asynchronous call |
| Dead letters (`DeadLetters.ts`) | listeners | `failedDelivery` | told exactly of the messages that were refused |
| Supervision (`Supervisor.ts`, `DefaultSupervisor.ts`, `PublicRootActor.ts`, `PrivateRootActor.ts`) | none beyond the mailboxes | `inform`, `restartWithin`, `resume`, `stop`, `escalate` | a failed actor comes back or is stopped; a failure is acted upon once |
| Directory (`Directory.ts`) | buckets of a hash table, an index from type to address | `set`, `get`, `remove`, `findByType`, `all`, `size`, `clear` | the three views agree |
| Scheduler (`Scheduler.ts`) | tasks, their timers, cancelled, closed | `schedule`, `scheduleOnce`, `cancel`, `close`, the timers | silent once cancelled; served until then; `close()` reaches every task |
| Life cycle (`LifeCycle.ts`, `Environment.ts`, `Actor.ts`) | parent, children, supervisor, stopped | `stop`, `stopWithTimeout`, `restart`, the start and stop hooks | children stop first; an answered stop means a stopped actor |
| Stage (`LocalStage.ts`, `Stage.ts`) | directory, scheduler, supervisors, registered values, whether the roots exist | `actorFor`, `actorProxyFor`, `registerValue`, `handleFailureOf`, `close` | actors stop before the supervisors, and these before the roots |
| Execution context (`ExecutionContext.ts`) | a map for each actor, and the context of its current message | `setValue`, `copy`, `propagate`, `reset` | a failure is explained with the context of its own message |
| Bank example (`src/examples/bank/model/`) | of an account: balance, history; of the coordinator: known accounts, pending transfers; of the bank: its accounts | open an account, withdraw, deposit; a transfer with its retries and refund | a transfer is carried on by one message at a time; money is neither made nor lost |

How they interact: a proxy call makes a `LocalMessage` and a deferred promise
and calls `send` of the mailbox. `send` dispatches at once when it may, and
`dispatch` awaits `deliver`, which awaits the handler. When a handler throws,
`deliver` rejects the promise, suspends the mailbox and calls `handleFailureOf`
of the stage, which sends `inform` to the supervisor: one more message, to one
more mailbox. The supervisor decides and calls the failed actor's life cycle
directly. `stop()` is a message as well; its handler awaits `beforeStop()`, then
sends `stop()` to each child and awaits the answer, then removes the actor from
its parent and the directory and closes the mailbox. `stage.close()` does the
same for each actor it finds, in four groups.

The hard behaviours, each listed under `hazards` in `PROJECT.json` at its line:

- `send` and `resume` start a dispatch loop whether one runs or not, so several
  loops, and several handlers of one actor, are under way at once;
- one `suspended` flag stands for all the failures of an actor that overlap;
- a supervisor is an actor: it may be suspended, may throw, and may be gone;
- `stop()` overlaps with itself, with timeouts, with failures and with new
  children, and works from a copy of the children;
- timers outlive the tasks they belong to;
- one context of an actor is set and reset by all its handlers that overlap;
- the type index of the directory holds one actor per type;
- a start hook that fails is reported by two parties, or before there is a mailbox
  to suspend;
- an actor made while the stage closes, or after, has nobody to stop it;
- a transfer of the bank withdraws before it knows that it can deposit, and goes on
  by messages, timers and answers between which other transfers and failures come.

## The modules

| Module | Models | Composes |
| --- | --- | --- |
| `Mailbox` | what both mailboxes share, and `LocalMessage.deliver` | |
| `ArrayMailbox` | the unbounded mailbox | extends `Mailbox` |
| `BoundedMailbox` | the bounded mailbox and its policies | extends `Mailbox` |
| `Delivery` | the contract of a mailbox, with no queue and no loop in it | implemented by both |
| `MailboxRecord` | a mailbox as a value, for modules with several actors | |
| `Supervision` | start hooks, workers, their supervisor and its root | extends `MailboxRecord` |
| `Directory` | the hash table and the type index | |
| `Scheduler` | tasks and timers | |
| `Stopping` | the tree of actors, `stop()` and `close()` | |
| `MessageContext` | execution contexts along calls, handlers and failures | |
| `Ledger` | what the bank promises about money, without any actor | implemented by `Transfer` |
| `Transfer` | the accounts and the transfer coordinator of the bank | extends `MailboxRecord` |
| `MC*` | the instances TLC checks | extend the modules above |
| `*Proofs` | the theorems; `MailboxProofs` is about both mailboxes | extend the modules above |

### Mailbox, ArrayMailbox, BoundedMailbox, Delivery

Message *m* is the *m*-th message sent. The variables are the fields of the
mailbox, and for what the code keeps on the stack: `running`, the messages whose
handler awaits, and `settling`, those that ended while their `dispatch()` has not
gone on yet. There is one loop for each of these messages, which is why no
variable stands for loops. `outcome` is the caller's promise.

| Action | Code |
| --- | --- |
| `SendSuspended`, `SendAndDispatch`, `SendToClosed` | the three ways through `ArrayMailbox.send` |
| `Complete`, `Fail` | `deliver` after `await this.function()(actor)` |
| `Continue` | `dispatch` after `await message.deliver()` |
| `Suspend`, `Resume`, `Close` | the calls of the same names |
| `SendFits`, `Overflow*` | `BoundedMailbox.send` and `handleOverflow`, one action per policy |

`Delivery` says what a client may rely on: messages begin in the order they were
sent, once, and are answered at most once; a message may be refused when it is sent,
or displaced by a newer one while it is the oldest that waits. The refinement mapping
is `status`, computed from `running` and `outcome` only (`Contract`, an instance of
`Delivery` in each mailbox).

In `BoundedMailbox`, the branch of `handleOverflow` that dispatches after it
dropped the oldest message needs a full mailbox that is not suspended; `HasRoom`
shows that there is none, so that the branch is never taken.

### MailboxRecord, Supervision

A mailbox is a record here, and each operator of `MailboxRecord` returns the mailbox
after one call. Messages are of three kinds: work for a worker (its `start()` has
number 0), the `inform` that tells the supervisor of a failed one, and the
`supervisor()` query that `escalate()` sends. A failure is named by the message that
failed and by who reported it: `deliver`, or the stage.

| Action | Code |
| --- | --- |
| `actorFor` | `LocalStage.start`: `beforeStart()` succeeds, `start()` is sent |
| `BeforeStartFails` | `beforeStart()` throws: reported, no mailbox suspended, and `start()` is sent nevertheless. If the lookup of the supervisor throws, so does `actorFor`, and leaves in the directory an actor that was never started |
| `WorkFails`, `WorkFailsUnsupervised` | the `catch` of `deliver`, `handleFailureOf`, and the lookup in `Environment.supervisor()` that finds the supervisor or throws |
| `StartRejected` | the `catch` on the promise of `start()`, which reports its failure a second time unless the actor left the directory |
| `DecideResume` ... `DecideForAll` | `DefaultSupervisor.inform` after its await, one action per directive and scope |
| `RestartDone`, `StopDone` | the `then` of `restartWithin`, and `stop()` after its await |
| `InformFails` | the failure of the supervisor's own handler, up to the restart the public root asks for |
| `SupervisorStops` | a stop of the supervisor by the application |

`decideDirective` is a choice from `Directives`. Two runs of microtasks that nothing
can look into are one step each: a handler that returns and its dispatch loop going
on (`Returned`), and the end of `inform` after its decision. The public root never
throws, so its handler is folded into the step that sends to it. `lost` is a history
variable: the failures no supervisor will act upon, because the message went to a
closed mailbox or was left in one, the lookup threw, or the directive threw.

### Directory

`bucketFor` keeps the code's arithmetic: the absolute value of the hash code,
modulo the number of buckets. `Remove` deletes the type of the actor it removed
from the index, whichever actor the index holds.

### Scheduler

A timer callback runs to its end before anything else. While `current` is a task,
the calls of the scheduler are those its callback makes; `CallbacksCall` says
whether it makes any. `first` tells the timeout of `schedule()`, which goes on to
set an interval, from the interval itself.

### Stopping

One stop is named by who asked for it: a client's request or, for `close()`, the
actor that close stops; the stops it sends to children carry the same name.
`call[r][a]` says how far the stop of *a* under *r* has got:

    none -> queued -> before -> children -> stopped
                  \-> skipped

`queued` waits in a suspended mailbox (or behind a stop that does), `before`
awaits `beforeStop()`, `children` awaits the child in `awaits[r][a]` with `todo`
left; `skipped` is a stop that found the actor stopped.

| Action | Code |
| --- | --- |
| `RequestStop`, `SupervisorStops` | `stop()` through the proxy; `StageSupervisedActor.stop(One)`, a direct call that a suspension does not hold up |
| `StopStarts`, `Resume` | the dispatch loop that reaches a stop |
| `BeforeStopDone`, `StopNextChild`, `Finish` | the three stretches of `LifeCycle.stop` between its awaits |
| `StopExpires` | the timer of `stopWithTimeout`, which closes the mailbox while the sequence goes on |
| `actorFor`, `childActorFor` | creation under a parent; the fallback to the default parent once the maker is gone |
| `close`, `CloseNext`, `CloseEnds` | `LocalStage.close` and its four groups, told apart by `Turn` |

Siblings are stopped in any order, of which the code's is one. `snapshot`,
`expired` and `listed` are history variables the properties need.

The default parent is the public root. Once it stopped there is none: the stage does
not make the roots twice, and whatever is made then has no parent, so that nothing
ever stops it (`SurvivorsAreLate`). One `close()` is modelled.

### MessageContext

A context is one value, or `Empty`. `own` is the context the clients of an actor
set and collaborators are told, `current` the one `deliver` sets and resets. A call
of a free actor starts its handler before the call returns, so `turn` is a stack:
the innermost handler goes on until it awaits, then the one that called it.

| Action | Code |
| --- | --- |
| `ClientSets`, `ClientCalls` | `executionContext().reset()` and `setValue`, and a call through the proxy |
| `HandlerCalls`, `HandlerAwaits`, `HandlerGoesOn` | the stretches of a handler between its awaits |
| `Complete`, `Fail` | the rest of `deliver`, up to the reset in its `finally` |
| `Continue` | `dispatch` after `await message.deliver()` |
| `SupervisorResumes`, `SupervisorContinues` | the supervisor's mailbox, whose next `inform` reads the context of the failed actor before its own await, as the supervisors of the bank do |
| `Decide` | `inform` after its await; the directive is always `Resume` here, the others are in `Supervision` |

`fresh` and `early` mark the calls a handler makes before its first await, and
`overlapped` is a history variable. Calls are restricted to actors that are
collaborators, which form a forest, and to an actor's own proxy.

### Ledger, Transfer

`Transfer` models the transfers of the bank example end to end: the handlers of
`TransferCoordinatorActor` and `AccountActor`, with their mailboxes, the timers of the
retries and the supervisors that resume whatever fails. A call is named by its
method, its order and its attempt. A call that is sent to a free actor is begun
within the turn, so `begun` lists the handlers to run, up to their first await,
before anything else happens; `awaiting`, `threw` and `answers` are what is left on
the stack and in promises afterwards.

| Action | Code |
| --- | --- |
| `openAccount`, `transfer`, `depositOrWithdraw` | the handlers of `BankActor` of the same names, with the `registerAccount` they send to the coordinator |
| `registerAccount`, `recordPendingTransfer`, `completeTransfer` | handlers of the coordinator that await nothing |
| `initiateTransfer`, `attemptDeposit`, `processRefund`, `InitiateRefused` | its handlers up to the call of the account they await, or to the check that fails |
| `handleDepositFailure` (`Retry`, `GiveUp`) | another attempt after a while, or the refund |
| `Withdrawn`, `NotWithdrawn`, `Deposited`, `NotDeposited`, `Refunded` | what the coordinator does when the account has answered |
| `RetryFires` | the task of `scheduleOnce`, when nothing but timers is ready (`Idle`) |
| `withdraw`, `Credit`, `DepositRefused` | the handlers of an account |
| `HandlerReturns`, `HandlerThrows`, `Continue`, `SupervisorResumes` | `deliver`, `dispatch`, and the supervisors of the bank, which resume |
| `StopAccount` | a stop of an account by whoever has its proxy |

`BankActor` and `TellerActor` only pass orders on: their mailboxes make an order
arrive later, and an order may come at any time anyway. An account records an
operation in its history in the step that carries it out, since nothing suspends a
history and `TransactionHistoryActor` never throws. The branches for accounts that are not found after a withdrawal are left
out: an account the coordinator knows is never forgotten. A valid amount is never
refused by `AccountActor.deposit` itself; `Refusing` are accounts of which another
implementation of the protocol refuses it before it has had any effect, which is what
retries and refunds are for. A history that fails is not among these cases and not
modelled: `deposit` and `withdraw` change the balance before they await the history
(`AccountActor.ts:43`), so a deposit that fails this way would be credited again by its retry.

`Ledger` has none of this: an order is placed; its amount is taken, given, returned,
each at most once and in this order; and no account is overdrawn. The mapping is
`Phase`, computed from the histories.

## The runs

Passing runs:

| Run | States | Shows |
| --- | --- | --- |
| `array_mailbox` | 21,367 | the contract and its parts under all interleavings of five messages |
| `bounded_mailbox` | 51,510 | the same for three policies and capacities 1 to 3, with four messages |
| `supervision` | 294,872 | start hooks and overlapping failures of two workers, all directives and scopes, a supervisor that throws and may be stopped |
| `directory` | 144 | two types, three buckets, one shared by actors whose hash codes differ in sign |
| `scheduler` | 2,537 | three tasks that cancel, schedule and close from their callbacks |
| `message_context` | 8,761,225 | one actor that fails and its collaborator, two contexts, four messages that overlap and nest |
| `stopping` | 35,182 | a client's stop with a timeout, a supervisor's stop and `close()` over a tree of two failing actors that may be made at any time, also when the roots are gone |
| `transfer` | 378,938 | two orders of any kind between two accounts, one of which refuses deposits and may be stopped |

The bounds. Two messages show an overlap of handlers, three an overlap with a message
left in the queue, four fill a mailbox of capacity 3; five leave room for a
suspension in between. Two messages of work to two workers are two overlapping
failures of one worker or one failure each of two, and two reports are both reports
of one failed `start()` or those of two failures (`MaxReports`). Three tasks let one
callback cancel a second and schedule a third. With two actors and the roots the tree
has four levels at most, or two siblings; `close()` and the client's request are two
stops of the same actor that overlap, and each of them overlaps with a supervisor's.
In `MessageContext` four messages let a handler call itself in another context and
its collaborator after that; only the actor called by clients fails (`Failing`), and
the two contexts are symmetric. Two orders are two transfers that overlap in either
direction, or a transfer and what a client does to its accounts meanwhile; the
opening balances, 1 and 0, let a second withdrawal fail, and three attempts, as in
the code, are two retries and the refund. The safety properties of all these modules
are also proved, for any number of messages, capacities, actors, buckets, tasks,
requests, orders and accounts.

Fairness. Every continuation of an await that has settled is run by the event loop,
so `Continue`, `BeforeStopDone`, `StopNextChild`, `Finish`, `CloseNext` and the like
are weakly fair. A handler ends: an assumption on the actors, which every framework
of this kind needs. `StopStarts` is not fair: nothing makes a dispatch loop come to a
stop that waits behind another one. In `Supervision` and `Transfer` one condition on
`EventLoop` is enough, because a failure and an order lead to finitely many of its
steps each. `SupervisorFairness`, which the liveness of `ArrayMailbox` needs, says
that a suspended mailbox is resumed or closed in the end; module `Supervision` shows
where the code keeps that promise (`ReturnsUnlessLost`) and where it does not. In
`Scheduler` the timers are strongly fair, because a timer only fires when no callback
runs and callbacks of other timers come in between. Nothing is assumed of clients:
they need not send, stop or schedule anything.

Deadlock is not checked in `Supervision`, `Scheduler`, `Stopping`, `MessageContext` and
`Transfer`, where the system may come to rest: all work done, the scheduler closed,
the stage closed, all messages sent, all orders carried out.

`lost` and `Stranded` are the exceptions the liveness properties make.
`ReturnsUnlessLost` excuses a worker one of whose failures was lost, and
`AnsweredUnlessStranded` a behaviour in which some stop lies in a closed mailbox; the
next section shows both do happen. `TransfersEnd` makes two, a transfer of which an
account was stopped, and a behaviour in which the coordinator awaits an operation that
lies in the queue of a stopped account (`Stranded`); `Ledger` makes the first of them
too. They are described there as well.

## What the runs refute

Four runs each check one statement of the documentation or the comments, and TLC
finds a behaviour of the code that violates it.

- `array_mailbox_one_at_a_time`: messages of one actor are not processed one at a
  time. `send` calls `dispatch` while another dispatch awaits a handler. What does
  hold is that they start in order (`StartedBeforeQueued`).
- `supervision_escalate`: `escalate()` calls `inform` on the result of a proxy
  call, which is a promise; it throws, and the actor stays suspended.
- `scheduler_leak`: a task that is cancelled by its first delayed callback gets an
  interval that nothing clears. It stays silent (`SilentOnceCancelled`), so this is
  a leak of the timer, which also keeps the process alive.
- `stopping_hangs`: a child fails, its parent's stop sends it `stop()`, which waits
  in the suspended mailbox; the child's supervisor stops the child, which closes
  that mailbox with the message in it. The parent's stop is never answered and
  `close()` never returns.

The models show more of this kind that no run is spent on:

- For the scope `All` the siblings are looked up through a proxy as in `escalate()`,
  with the same effect (`DecideForAll`).
- A `decideDirective` that reads the context of a failure, as the example in
  `DefaultSupervisor.ts:142` does, runs after the await of `inform`, when `finally` has
  reset that context (`Fail`, `Decide`).
- The removal of one actor of a type makes the others of that type impossible to
  find by it (`Remove`, `Directory.ts:159`; `IndexLostByRemoval` states the exact effect).
- A `start()` that fails informs the supervisor twice, so its directive is applied
  twice: an actor whose restart the first one asked for may be stopped by the second
  (`StartRejected`).
- A stopped account answers every call with success, since its mailbox resolves what
  it refuses. A transfer from it deposits money nobody withdrew, and one to it
  completes and loses the amount (`Ask`), where `examples/bank/README.md:312` says money
  is never lost.
- An account that is stopped while it is suspended keeps what its queue holds and
  answers none of it, so a coordinator's handler that awaits such an operation waits
  for ever. That may hold up transfers between other accounts: `resume()` starts one
  dispatch loop however many messages waited, the loop stays with that handler, and
  the rest sleeps in the open mailbox until the coordinator is sent something else.
  It takes three orders and three accounts (with two accounts the orders that sleep
  have the stopped account in them); with the exception `Stranded` of `TransfersEnd`
  that instance passes too, in 16.8 million states.
- `MAX_RETRY_ATTEMPTS` is the number of attempts: there are two retries, where
  `examples/bank/README.md:177` has three (`handleDepositFailure`).

## The proofs

| Module | Theorems |
| --- | --- |
| `MailboxProofs` | of both mailboxes: the type invariant, `PromiseAccounting`, `StartedBeforeQueued`, and that they implement `Delivery`; of the unbounded one `NoLostWakeup`, and that nothing starts while suspended (`NoStartPastSuspension`); of the bounded one `HasRoom`, `DeadLettersTold`, `AcceptedIsKept` |
| `MailboxRecordProofs` | lemmas only: what each operation of a `MailboxRecord` does to the calls in it and to their order, and that it leaves no message asleep |
| `DirectoryProofs` | `TypeOK`, `FoundWhereListed`, `IndexIsLive`, `IndexLostByRemoval` |
| `SchedulerProofs` | `TypeOK`, `CloseReachesAll`, `SilentOnceCancelled`; that timers are cleared when callbacks make no calls |
| `StoppingProofs` | `TypeOK`, `AnsweredIsStopped`, `ChildrenStopFirst`, `StoppedIsDetached`, `RootsStopLast`, `SurvivorsAreLate`; that stops never wait in a circle (`NoDeadlock`) |
| `SupervisionProofs` | `TypeOK`, `NoFailureForgotten`, `AnsweredOnce`; that everything is answered when supervision comes to rest (`SupervisionEndsAtRest`) |
| `MessageContextProofs` | `TypeOK`, `CurrentIsRunning`, `CallsInContext`, `ExplainedInContext` |
| `TransferProofs` | `TypeOK`, `OneCarrier`, that the bank implements `Ledger`; that an order is withdrawn, deposited and refunded at most once each and never both given and returned (`OnceAndNotBoth`); that every transfer is over when the bank comes to rest (`TransfersEndAtRest`) |

The assumptions are the named ones on the constants, no others.

*Mailboxes.* The order of the queue is the heart of it: `StartedBeforeQueued` is not
inductive, since `Dispatch` starts the head and the rest must be newer. `MailboxInv`
adds that the queue is ascending, that the messages sent are those below the first
one unsent, and that exactly the queued and the running messages are pending, none of
them both (`Sound`). Refinement then follows action by action: a dispatch is
`Delivery`'s start of its oldest waiting message, and the message `DropOldest` gives
up is the oldest one too.

*Directory.* An actor in a bucket is in the one its hash code selects
(`InOwnBucket`); with that, `get` and `all` agree for every hash function and number
of buckets.

*Scheduler.* A repeating task stays in `_tasks` until it is cancelled, and so does
one whose timeout is due; a task that was called has no timeout left (`Tracked`).

*Stopping.* Five layers, each inductive relative to the ones before it. `TypeInv`:
the types, and that roots and whatever is called exist. `StopInv`: what a stop found
among the children and is done with is closed. `TreeInv`: whatever is in a list of
children has that parent. `CloseInv`: the same progress for the actors `close()`
listed, and that only `close()` stops a root. `LateInv`: the public root is stopped
only after `close()` began, so an actor without a parent is not on its list.

Two requests meet on one actor and each waits for what it sent itself, so a circle
of waiting would have to lie within one request. `WaitInv` excludes it: an actor awaits
a child it has sent a stop to, and the relation of parent and child has no cycle in
any set of actors (`NoCycle`). From a stop that has not been answered the chain of
waits then leads down to one that can proceed or is held up by a suspended or closed
mailbox. `NoCircularWait` says that nothing else holds up a stop or `close()`; it is
the safety half of `AnsweredUnlessStranded` and `ClosesUnlessStranded`.

*Supervision.* `TypeInv` adds to the types that a mailbox holds only mail for its own
actor; `NoFailureForgotten` is inductive given that. `AnsweredOnce` is not: a second
`inform` for the same failure must be impossible to come about. `WorkersOnce` says
that the messages of a worker are distinct, that those not yet sent are in no
mailbox, and that the rejection of a `start()` comes after its failure and once;
`SupervisorOnce` says that a failure is in one stage only, queued, deciding, being
carried out or lost, and that one that may still come has not been reported. All
this holds for any number of workers, messages and reports.

*MessageContext.* `Inv`: messages wait in one queue only and not after they began, and
the handlers still before their first await are those in turn. With it
`CurrentIsRunning` follows for each way in which `deliver` sets and resets the
context. `AloneIsCurrent` says that a handler that overlapped with nothing has the
current context to itself; a failure is then explained in its own. For `CallsInContext`
(`CallInv`), the collaborators are ordered, since they form a forest: each handler of
the turn belongs to the actor of those below it or to one under theirs. So a handler
of the same actor can only begin within another if that one called its own actor,
and until then nobody else may change what the collaborators were told (`ToldBy`).

*Transfer.* `IInv` has three parts. `MailInv` says where calls are: each in the mailbox
of the actor that handles it, once, and none begun on a stopped account. The lemmas
that follow it reduce a step to its effect on a few sets (`Lined`, `Busy`, `Done`,
`awaiting`, `timers`), so that the rest needs no queues. `CallInv`: a call in line has
had no effect, one that an account is busy with has, an answer tells which, and an
account is asked for a transfer only by a step that awaits it. `TransferInv`: a
transfer has no step left and is over (`Over`), or has one that carries it on
(`Carries`): it is the only step there is, but for the record to be handled before it,
and the record and the histories are as that step expects. The order of the record
and the first attempt in the coordinator's queue (`Ahead`) is what makes it inductive:
swapped, the attempt would find no record and forget the transfer. `OneCarrier` and
`OnceAndNotBoth` follow, and with them each step of `Transfer` is a step of `Ledger` or
none: an amount is given only by what was asked by the one carrier, after it was
taken.

*At rest.* `AtRest` says, in `TransferProofs` and in `SupervisionProofs`, that the event
loop has nothing left to do: no action of `EventLoop` is possible. `EndsAtRest` is what
must hold then. It needs that an open mailbox with a message is suspended, busy, or has
a loop about to go on (`NeverAsleep`), for every call leaves it so (`StaysAwake`), and
that a suspension has somebody to end it: a failure still to be handled in the bank
(`SuspendedByFailure`), the supervisor's own restart in `Supervision`
(`SuspendedByRestart`). In the bank, an operation a step awaits is also in line, under
way or answered (`Pursued`). Hence a step that still awaits at rest awaits an operation
in a closed mailbox, which is `Stranded`; otherwise nothing waits in an open mailbox
and, by `Carries`, no transfer has a step left. For supervision it follows that an open
supervisor has answered every failure, that an open worker is suspended only by a
failure that was lost, and that one with messages it can take is at work. So these
systems do not come to rest early; that they come to rest is what TLC checks.

Liveness under fairness is out of the prover's reach, so the leads-to properties
(`EverySendAnswered`, `EveryTaskIsServed`, `ReturnsUnlessLost`, `InformsHandled`,
`AnsweredUnlessStranded`, `ClosesUnlessStranded`, `TransfersEnd`) are checked by TLC
only. All other properties of the passing runs are proved.

## What is not modelled

- The creation of the roots and the registries of values and supervisors: maps that
  are written once and read.
- A second `close()`, and what a closed stage does with actors made later beyond the
  fact that nothing stops them.
- The queries, texts and command line of the bank, and the teller that reads them.
- Restart intensity and period: the code takes and ignores them.
- What handlers compute, logging, addresses beyond their identity and hash code,
  definitions and protocols (immutable values), the test kit.
- Listeners of dead letters; only which messages become dead letters.
- Handlers that never end.
- A failure of a supervisor below the root whose own supervisor is not the root.

## The plan

In this order:

1. `Stopping` over `Supervision`: the supervisor's decision and the stop sequence in
   one module, to state which of the failures above cause a stranded stop.
2. The creation of the roots and a second `close()`.
