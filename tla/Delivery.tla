------------------------------- MODULE Delivery -------------------------------
(***************************************************************************)
(* What a mailbox promises the clients of its actor, with no queue, no     *)
(* suspension and no dispatch loop in it: a message accepted is begun at   *)
(* most once, the oldest waiting message first, and is answered at most    *)
(* once; a message may instead be refused when sent, or displaced by a     *)
(* newer one while it is the oldest waiting.                               *)
(***************************************************************************)
EXTENDS Naturals

CONSTANT MaxSends         \* bound on the messages sent

VARIABLE status           \* where each message stands

Message == 1..MaxSends

Refusals == {"actor stopped", "mailbox full", "message dropped"}
Status == {"unsent", "waiting", "handling", "resolved", "rejected"} \cup Refusals

TypeOK == status \in [Message -> Status]

Init == status = [m \in Message |-> "unsent"]

IsNextSend(m) ==
  /\ status[m] = "unsent"
  /\ \A k \in Message : k < m => status[k] # "unsent"

\* k is the oldest message waiting in s.
IsOldest(s, k) ==
  /\ s[k] = "waiting"
  /\ \A j \in Message : s[j] = "waiting" => k <= j

\* From s, the oldest waiting message is begun, or none is.
MayBegin(s) ==
  \/ status' = s
  \/ \E k \in Message : IsOldest(s, k) /\ status' = [s EXCEPT ![k] = "handling"]

Accept(m) ==
  /\ IsNextSend(m)
  /\ MayBegin([status EXCEPT ![m] = "waiting"])

Refuse(m) ==
  /\ IsNextSend(m)
  /\ \E r \in Refusals : status' = [status EXCEPT ![m] = r]

\* The newer message m takes the place of the oldest waiting message k.
Displace(m, k) ==
  /\ IsNextSend(m)
  /\ IsOldest(status, k)
  /\ MayBegin([status EXCEPT ![k] = "message dropped", ![m] = "waiting"])

Begin == \E k \in Message : IsOldest(status, k) /\ status' = [status EXCEPT ![k] = "handling"]

Finish(m) ==
  /\ status[m] = "handling"
  /\ \E r \in {"resolved", "rejected"} : status' = [status EXCEPT ![m] = r]

Next ==
  \/ \E m \in Message : Accept(m) \/ Refuse(m) \/ Finish(m)
  \/ \E m, k \in Message : Displace(m, k)
  \/ Begin

Spec == Init /\ [][Next]_status
=============================================================================
