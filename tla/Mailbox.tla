-------------------------------- MODULE Mailbox --------------------------------
(***************************************************************************)
(* What IPC.h promises the user of an ID, read as a queue: messages sent   *)
(* to it are processed in the order they were sent in, each at least once  *)
(* unless it is lost; a crash may repeat the last one processed.           *)
(* Messages are numbered in the order they are sent in.                    *)
(***************************************************************************)
EXTENDS Naturals, FiniteSetsExt

VARIABLES
    sent,       \* the newest message sent to this ID
    pending,    \* messages that have still to be processed
    last        \* the message processed last; 0 before the first

mvars == <<sent, pending, last>>

Init == sent = 0 /\ pending = {} /\ last = 0

Send ==
    /\ sent' > sent
    /\ sent' \in pending'
    /\ pending' \subseteq pending \cup {sent'}
    /\ UNCHANGED last

Process ==
    /\ pending # {}
    /\ last' = Min(pending)
    /\ pending' = pending \ {Min(pending)}
    /\ UNCHANGED sent

Lose ==
    /\ pending' \subseteq pending
    /\ UNCHANGED <<sent, last>>

Crash ==
    /\ last # 0
    /\ pending' \subseteq pending \cup {last}
    /\ UNCHANGED <<sent, last>>

Next == Send \/ Process \/ Lose \/ Crash

Spec == Init /\ [][Next]_mvars
===============================================================================
