------------------------------ MODULE EpDetails ------------------------------
(***************************************************************************)
(* What the caller of a public parser may expect: the details change once, *)
(* as a whole, to what the message says.  A token that the message does    *)
(* not have leaves its entry alone, unless the parser zeroes the details;  *)
(* an array holds what was sent, in order, up to its size.  EpParse        *)
(* implements it; cursors, bounds and the bytes of the receive buffer are  *)
(* its own affair, but for one thing: where a parser does not take the     *)
(* headers off the size, an array may have more entries behind its own.    *)
(***************************************************************************)
EXTENDS EpParsers

CONSTANTS Messages   \* the messages that may arrive

VARIABLES msg,     \* the last message and its number: [m, no]
          given,   \* the caller gives details to be filled
          dirty,   \* there may be something behind it in the receive buffer
          det,     \* the caller's details
          ret      \* "NONE" during a call, then what it returned
vars == <<msg, given, dirty, det, ret>>

p == msg.m.parser

Init == /\ msg = [m |-> CHOOSE m \in Messages : TRUE, no |-> 0]
        /\ given = TRUE /\ dirty = FALSE
        /\ det = NoDetails
        /\ ret = "SUCCESS"

\* The next message; the caller may zero its details.
Arrive == /\ ret # "NONE"
          /\ msg'.m \in Messages /\ msg'.no = msg.no + 1
          /\ given' \in BOOLEAN /\ dirty' \in BOOLEAN
          /\ det' \in {det, NoDetails}
          /\ ret' = "NONE"

\* What the message says of a kind of token, in order.
Own(type) == Contents(msg.m.toks, msg.no, type)[Len(msg.m.toks)]

\* An entry of the details from `old' to `new'.
ArrayTaken(f, new) ==
  LET own == SubSeq(Own(f), 1, AtMost(Len(Own(f)), Limit(f))) IN
  /\ Len(new) \in Len(own)..Limit(f)
  /\ SubSeq(new, 1, Len(own)) = own
  /\ (p.taken # 0 \/ ~dirty) => Len(new) = Len(own)
TokenTaken(f, old, new) ==
  new = IF Own(f) # <<>> THEN Own(f)
        ELSE IF f \in p.clears THEN <<>> ELSE old
PartTaken(f, new) ==
  /\ Len(new) = 1
  /\ msg.m.whole => new = <<Entry(msg.no, 0, 0)>>

FieldTaken(f, old, new) ==
  /\ f \in p.takes /\ Limit(f) > 1 => ArrayTaken(f, new)
  /\ f \in p.takes /\ Limit(f) = 1 => TokenTaken(f, old, new)
  /\ f \in p.keeps => PartTaken(f, new)

\* A message that no formatter writes may say anything: it does not fill more
\* than there is.
Takes == /\ \A f \in Fields \ (p.takes \cup p.keeps) : det'[f] = det[f]
         /\ IF WellFormed(msg.m)
            THEN \A f \in Fields : FieldTaken(f, det[f], det'[f])
            ELSE \A f \in Fields : Len(det'[f]) <= Limit(f)

\* Is the fixed part there, as far as the parser can see?
Whole == msg.m.size - p.taken >= p.fixed

Take == /\ ret = "NONE" /\ Whole
        /\ IF given \/ p.null \notin {"error", "nothing"}
           THEN Takes
           ELSE p.null = "nothing" /\ UNCHANGED det
        /\ ret' = "SUCCESS"
        /\ UNCHANGED <<msg, given, dirty>>

Refuse == /\ ret = "NONE"
          /\ ~Whole \/ (~given /\ p.null = "error")
          /\ ret' = "ERROR"
          /\ UNCHANGED <<msg, given, dirty, det>>

\* The caller gave no details to a parser that asks for them unawares.
Crash == /\ ret = "NONE"
         /\ ~given /\ p.null \in {"at once", "with a token"}
         /\ ret' = "CRASH"
         /\ UNCHANGED <<msg, given, dirty, det>>

Next == Arrive \/ Take \/ Refuse \/ Crash

Spec == Init /\ [][Next]_vars
=============================================================================
