------------------------------- MODULE EpStream -------------------------------
(***************************************************************************)
(* Two peers and a TCP connection from one to the other.  The sender has   *)
(* one buffer: it formats a message (EpFormat), numbers it with epf_seq    *)
(* ("Incremented by one for each message sent", README) and writes the     *)
(* bytes the formatter says the message has.  The receiver reads what has  *)
(* come of the stream into one buffer, asks the accessors of the headers   *)
(* what is at its front, and takes as many bytes off as epp_msg_length     *)
(* says.  The library has the formatters and the accessors; the loops      *)
(* around them are the peers'.                                             *)
(*                                                                         *)
(* The accessors are asked as soon as there are bytes: each checks for its *)
(* header and answers with a code where it is not all there, and behind    *)
(* the bytes that have come are those of the message before.               *)
(***************************************************************************)
EXTENDS EpFormat

VARIABLES unsent,  \* the sender has not sent what it formatted last
          wire,    \* the messages sent: [of, head, from, to], with their
           \* headers and their offsets in the stream
          got,     \* bytes of the stream that have come
          front,   \* offset in the stream of the front of the receiver's buffer
          left,    \* the fields at the front, before the bytes since then
          kind,    \* what the receiver took the message at the front for
          taken    \* what it made of the messages so far
senderVars   == <<vars, unsent>>
receiverVars == <<front, left, kind, taken>>
streamVars   == <<senderVars, wire, got, receiverVars>>

Unknown == "UNKNOWN"
Kinds   == [type : MsgTypes \cup {"ERROR"}, dir : Dirs \cup {"ERROR"},
            act : Actions, op : Ops \cup {"ERROR", Unknown}]
NoKind  == [type |-> "ERROR", dir |-> "ERROR", act |-> "INVALID", op |-> "ERROR"]

\* Bytes the sender has written.
Written == IF wire = <<>> THEN 0 ELSE wire[Len(wire)].to

StreamTypeOK == /\ unsent \in BOOLEAN
                /\ wire \in Seq([of : Messages, head : Headers, from : Nat, to : Nat])
                /\ got \in 0..Written
                /\ front \in 0..got
                /\ left \in Headers
                /\ kind \in Kinds
                /\ taken \in Seq([kind : Kinds, seq : 0..MaxSeq])

StreamInit == /\ Init
              /\ unsent = FALSE
              /\ wire = <<>> /\ got = 0
              /\ front = 0
              /\ left = hdr
              /\ kind = NoKind
              /\ taken = <<>>

-----------------------------------------------------------------------------
(* The sender.                                                             *)

\* External: the number of the next message.
NextSeq == Len(wire) + 1

\* External: a message is formatted, in place of one not sent at most.
Compose(m, s) == /\ Call(m, s) /\ hasBuf'
                 /\ unsent' = TRUE
                 /\ UNCHANGED <<wire, got, receiverVars>>

Formatting == Format /\ UNCHANGED <<unsent, wire, got, receiverVars>>

\* External: it is numbered, if there is one.
Number == /\ unsent /\ ret > 0
          /\ SetSeq /\ hdr'.seq = NextSeq
          /\ UNCHANGED <<unsent, wire, got, receiverVars>>

\* External: what the formatter returned is the number of bytes written.
Transmit == /\ unsent /\ pc = "done" /\ ret > 0
            /\ hdr.seq = NextSeq
            /\ wire' = Append(wire, [of |-> msg, head |-> hdr, from |-> Written,
                                     to |-> Written + ret])
            /\ unsent' = FALSE
            /\ UNCHANGED <<vars, got, receiverVars>>

-----------------------------------------------------------------------------
(* The connection: bytes come in order, in portions of any size.           *)

\* External.
Arrive == /\ got < Written
          /\ got' = got + 1
          /\ UNCHANGED <<senderVars, wire, receiverVars>>

-----------------------------------------------------------------------------
(* The accessors, on a buffer with n bytes of a message, in which the      *)
(* fields are h.                                                           *)

epp_msg_type(h, n) == IF n < SizeofHdr THEN "ERROR" ELSE h.type
epp_dir(h, n)      == IF n < SizeofHdr THEN "ERROR" ELSE h.dir
\* EP_ERROR as an uint32_t, which is a number a message may have.
epp_seq(h, n)      == IF n < SizeofHdr THEN -1 ELSE h.seq

\* Mutant of epp_msg_length: the length is taken for that of the body.
epp_msg_lengthOfBody(h, n) ==
  IF n < SizeofHdr THEN U16 - 1 ELSE h.len + SizeofHdr

\* EP_ERROR as an uint16_t.
epp_msg_length(h, n) == IF n < SizeofHdr THEN U16 - 1 ELSE h.len

\* Mutant of EventType: the event header is read as soon as it is known
\* what event it is.
EventTypeUnchecked(h, n) == h.act

\* epp_single_type, epp_schedule_type, epp_trigger_type
EventType(h, n) ==
  IF n < SizeofHdr + SizeofEvent(h.type) THEN "INVALID" ELSE h.act

\* epp_single_op, epp_trigger_op; there is none for a schedule event.
EventOp(h, n) ==
  IF h.type = "SCHEDULE" THEN Unknown
  ELSE IF n < SizeofHdr + SizeofEvent(h.type)
       THEN IF h.type = "TRIGGER" THEN "UNSPECIFIED" ELSE "ERROR"
       ELSE h.op

-----------------------------------------------------------------------------
(* The receiver.                                                           *)

have == got - front

\* The end of each field, as an offset in the message.
FieldEnd == [type |-> 1, dir |-> 18, seq |-> 22, len |-> 24, act |-> 26,
             op |-> 27]

\* The fields in the receiver's buffer: those of the message at its front
\* as far as they have come, otherwise what was there before.  Only a
\* message stands at the front (InPlace).
Seen == LET at == {i \in DOMAIN wire : wire[i].from = front} IN
        [f \in DOMAIN FieldEnd |->
           IF at # {} /\ have >= FieldEnd[f]
           THEN wire[CHOOSE i \in at : TRUE].head[f] ELSE left[f]]

\* External: what is it?  Asked until the accessors know the type of the
\* message and of the event; then the operation is there as well.
Announce == /\ kind = NoKind
            /\ epp_msg_type(Seen, have) # "ERROR"
            /\ EventType(Seen, have) # "INVALID"
            /\ kind' = [type |-> epp_msg_type(Seen, have),
                        dir  |-> epp_dir(Seen, have),
                        act  |-> EventType(Seen, have),
                        op   |-> EventOp(Seen, have)]
            /\ UNCHANGED <<senderVars, wire, got, front, left, taken>>

\* External: when all of it is there, it is taken off the buffer; what lies
\* behind is moved to the front.
Deliver == /\ kind # NoKind
           /\ have >= epp_msg_length(Seen, have)
           /\ taken' = Append(taken, [kind |-> kind, seq |-> epp_seq(Seen, have)])
           /\ front' = front + epp_msg_length(Seen, have)
           /\ left' = Seen
           /\ kind' = NoKind
           /\ UNCHANGED <<senderVars, wire, got>>

StreamNext == \/ \E m \in Messages, s \in Sizes : Compose(m, s)
              \/ Formatting \/ Number \/ Transmit
              \/ Arrive
              \/ Announce \/ Deliver

StreamSpec == StreamInit /\ [][StreamNext]_streamVars

\* TCP brings every byte, and the receiver keeps reading.  The sender may
\* stop at any time.
StreamFairSpec == /\ StreamSpec
                  /\ WF_streamVars(Arrive)
                  /\ WF_streamVars(Announce)
                  /\ WF_streamVars(Deliver)

-----------------------------------------------------------------------------
(* Properties.                                                             *)

(* The receiver never loses its place in the stream: a message, or the end *)
(* of the last one, stands at the front of its buffer, whatever the        *)
(* formatters returned and however the bytes come.                         *)
InPlace == \/ front = Written
           \/ \E i \in DOMAIN wire : wire[i].from = front

\* What message m with number q is to be taken for, by a receiver that can
\* ask for all but the operation of a schedule event.
Meaning(m, q) == [kind |-> [type |-> m.evt, dir |-> m.dir, act |-> m.act,
                            op |-> IF m.evt = "SCHEDULE" THEN Unknown ELSE m.op],
                  seq  |-> q]

Meanings == {Meaning(m, q) : m \in Messages, q \in 1..MaxSeq}
Sent     == [i \in DOMAIN wire |-> Meaning(wire[i].of, i)]

Fifo == INSTANCE MessageFifo WITH
          Contents <- Meanings, sent <- Sent, taken <- taken

(* The receiver is told of each message once, in order, for what it was    *)
(* meant to be, although it asks before the message is there and an      *)
(* earlier one shows through; and it is told of every message sent.        *)
ImplementsFifo == Fifo!Spec
=============================================================================
