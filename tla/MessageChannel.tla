--------------------------- MODULE MessageChannel ---------------------------
(***************************************************************************)
(* What sendmsg and recvmsg promise a program that passes file descriptors *)
(* over a socket: a call sends the list it was given whole or not at all,  *)
(* and a call that receives hands over a list from its first descriptor    *)
(* on, cut short where the program's buffer is too small.                  *)
(***************************************************************************)
EXTENDS Integers, Sequences

VARIABLES
    given,     \* the list the present call of sendmsg was given, if there is one
    queue,     \* the lists in transit
    received,  \* the list the last call of recvmsg handed over, likewise
    stopped    \* the program has failed an assertion

cvars == <<given, queue, received, stopped>>

(* given and received are sequences of at most one list.                   *)
Init == given = <<>> /\ queue = <<>> /\ received = <<>> /\ stopped = FALSE

Give ==
    /\ ~stopped /\ given = <<>>
    /\ Len(given') = 1 /\ Head(given') \in Seq(Nat)
    /\ UNCHANGED <<queue, received, stopped>>

Send ==
    /\ given # <<>>
    /\ queue' = Append(queue, Head(given))
    /\ given' = <<>>
    /\ UNCHANGED <<received, stopped>>

Refuse ==
    /\ given # <<>>
    /\ given' = <<>>
    /\ UNCHANGED <<queue, received, stopped>>

Receive ==
    /\ ~stopped /\ queue # <<>> /\ received = <<>>
    /\ \E n \in 0..Len(Head(queue)) : received' = <<SubSeq(Head(queue), 1, n)>>
    /\ queue' = Tail(queue)
    /\ UNCHANGED <<given, stopped>>

Forget ==
    /\ received # <<>>
    /\ received' = <<>>
    /\ UNCHANGED <<given, queue, stopped>>

(* A message whose reception stops the program is gone.                    *)
Stop ==
    /\ ~stopped /\ stopped' = TRUE
    /\ given' = <<>>
    /\ \/ UNCHANGED queue
       \/ given = <<>> /\ queue # <<>> /\ queue' = Tail(queue)
    /\ UNCHANGED received

Next == Give \/ Send \/ Refuse \/ Receive \/ Forget \/ Stop
Spec == Init /\ [][Next]_cvars
=============================================================================
