----------------------------- MODULE MessageFifo -----------------------------
(***************************************************************************)
(* What two peers expect of the protocol on top of TCP: the receiver is    *)
(* told of each message that was sent, once, in order, by what its headers *)
(* say, and of nothing else.  EpStream implements it with formatters, a    *)
(* stream of bytes and the accessors of the headers.                       *)
(***************************************************************************)
EXTENDS Naturals, Sequences

CONSTANT Contents   \* what the headers of a message may say

VARIABLES sent, taken
vars == <<sent, taken>>

Init == sent = <<>> /\ taken = <<>>

Send == /\ \E c \in Contents : sent' = Append(sent, c)
        /\ UNCHANGED taken

Take == /\ Len(taken) < Len(sent)
        /\ taken' = Append(taken, sent[Len(taken) + 1])
        /\ UNCHANGED sent

Next == Send \/ Take

\* What is sent is received.
Spec == Init /\ [][Next]_vars /\ WF_vars(Take)
=============================================================================
