------------------------------- MODULE Inbox -------------------------------
(***************************************************************************)
(* What a mailbox promises: a message that was written waits unread, and   *)
(* the next consume takes everything unread, in order, once.  When the     *)
(* lock was forced, or a writer died with the file half written, nothing   *)
(* is promised any more.                                                   *)
(***************************************************************************)
EXTENDS Sequences

CONSTANT Messages

VARIABLES
    unread,     \* messages waiting
    taken,      \* messages consumed so far
    broken      \* the promise is void

vars == <<unread, taken, broken>>

Init == unread = <<>> /\ taken = <<>> /\ broken = FALSE

Put(m) == unread' = Append(unread, m) /\ UNCHANGED <<taken, broken>>
Take == taken' = taken \o unread /\ unread' = <<>> /\ UNCHANGED broken
Wipe == unread' = <<>> /\ UNCHANGED <<taken, broken>>
Break == broken' = TRUE
Anything == broken /\ broken'

Next == (\E m \in Messages : Put(m)) \/ Take \/ Wipe \/ Break \/ Anything

Spec == Init /\ [][Next]_vars
=============================================================================
