\* The comment of Mailbox.ts on sequential delivery.
CONSTANT MaxSends = 2
SPECIFICATION ArraySpec
INVARIANT OneAtATime
