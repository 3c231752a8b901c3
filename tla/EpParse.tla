------------------------------- MODULE EpParse -------------------------------
(***************************************************************************)
(* One public parser at work on the buffer its caller has read a message   *)
(* into.  The caller uses one buffer, and one set of details, for message  *)
(* after message: behind a message are the bytes of earlier, longer ones,  *)
(* unless the caller zeroes the buffer, and the details are what earlier   *)
(* calls left, unless it zeroes them.  Some parsers do not take the        *)
(* headers they skip off the size, and look behind the message.            *)
(*                                                                         *)
(* The buffer is represented by the messages that were read into it: a     *)
(* byte is that of the last message long enough to have it.  A cursor that *)
(* stands in an earlier message, but not at one of its tokens, reads       *)
(* payload as a token: any type, any length.                               *)
(***************************************************************************)
EXTENDS EpParsers, Functions

CONSTANTS Messages,   \* the messages that may arrive, of this library or not
          UintMod,    \* one more than the largest unsigned int
          MaxMsgs     \* bound: messages in a behaviour

ASSUME UintAssumption   == UintMod \in Nat \ {0}
ASSUME BoundsAssumption == MaxMsgs \in Nat
ASSUME NonEmptyAssumption == Messages # {}

ASSUME MessagesAssumption ==
         \A m \in Messages : Shaped(m) /\ m.size < UintMod

VARIABLES rx,     \* what was read into the buffer, as <<[m, no], ...>>
          given,  \* the caller gives details to be filled
          det,    \* the caller's details
          was,    \* history: the details when the parser was called
          pc,     \* "call", "loop", "done" or "crash"
          c,      \* the cursor of the loop, as an offset in the buffer
          ret     \* what the parser returned
vars == <<rx, given, det, was, pc, c, ret>>

msg == rx[Len(rx)]
p   == msg.m.parser

Received == [m : Messages, no : 0..MaxMsgs]
Entries  == [from : 0..MaxMsgs, at : Nat, num : Nat]

TypeOK == /\ rx \in Seq(Received) /\ rx # <<>>
          /\ given \in BOOLEAN
          /\ det \in [Fields -> Seq(Entries)]
          /\ \A f \in Fields : Len(det[f]) <= Limit(f)
          /\ \A e \in Range(det["RNTI_REPORT"]) : e.num <= EP_RAN_USERS_MAX
          /\ was \in [Fields -> Seq(Entries)]
          /\ pc \in {"call", "loop", "done", "crash"}
          /\ c \in Nat
          /\ ret \in {"SUCCESS", "ERROR"}

\* A zeroed buffer, and nothing parsed.
Init == /\ rx = <<[m |-> CHOOSE m \in Messages : TRUE, no |-> 0]>>
        /\ given = TRUE
        /\ det = NoDetails /\ was = NoDetails
        /\ pc = "done"
        /\ c = 0
        /\ ret = "SUCCESS"

-----------------------------------------------------------------------------
(* The caller.                                                             *)

\* External: a message is read into the buffer and given to its parser.
Receive(m, zeroBuffer, zeroDetails) ==
  /\ pc = "done"
  /\ msg.no < MaxMsgs
  /\ LET r == [m |-> m, no |-> msg.no + 1] IN
        rx' = IF zeroBuffer \/ msg.no = 0 THEN <<r>> ELSE Append(rx, r)
  /\ given' \in IF m.parser.null = "none" THEN {TRUE} ELSE BOOLEAN
  /\ was' = IF zeroDetails THEN NoDetails ELSE det
  /\ det' = was'
  /\ pc' = "call"
  /\ UNCHANGED <<c, ret>>

-----------------------------------------------------------------------------
(* The body parser: what comes before the tokens.                          *)

\* Mutant of Room: the headers are never taken off.
RoomOfAll == msg.m.size % UintMod

\* `size' of the body parser.
Room == (msg.m.size - p.taken) % UintMod

\* The message whose bytes are at an offset of the buffer; 0: zeros.
Owner(o) == LET long == {i \in DOMAIN rx : rx[i].m.size > o} IN
            IF long = {} THEN 0
            ELSE CHOOSE i \in long : \A h \in long : h <= i

NoDetailsGiven == ~given /\ p.null = "error"
TooShort       == Room < p.fixed
Refuse == /\ pc = "call"
          /\ NoDetailsGiven \/ TooShort
          /\ pc' = "done" /\ ret' = "ERROR"
          /\ UNCHANGED <<rx, given, det, was, c>>

\* *interval is written without a look at the pointer.
CrashAtOnce == /\ pc = "call"
               /\ ~given /\ p.null = "at once"
               /\ pc' = "crash"
               /\ UNCHANGED <<rx, given, det, was, c, ret>>

\* The fixed part under the cursor is copied; the interval lies before it, at
\* the end of the schedule header.
PartAt == IF "interval" \in p.keeps THEN p.skip - SizeofInterval ELSE p.skip
Part == LET k == Owner(PartAt) IN
        Entry(IF k = 0 THEN 0 ELSE rx[k].no, 0, 0)

\* The details are zeroed, and the fixed part is stored.
Opened == [f \in Fields |-> IF f \in p.keeps THEN <<Part>>
                            ELSE IF f \in p.clears THEN <<>> ELSE det[f]]

Open == /\ pc = "call"
        /\ ~NoDetailsGiven /\ ~TooShort
        /\ given \/ p.null # "at once"
        /\ IF given \/ p.null # "nothing"
           THEN /\ det' = Opened
                /\ pc' = IF p.walks THEN "loop" ELSE "done"
           ELSE pc' = "done" /\ UNCHANGED det
        /\ c' = p.skip + p.fixed
        /\ ret' = "SUCCESS"
        /\ UNCHANGED <<rx, given, was>>

-----------------------------------------------------------------------------
(* The token loop.                                                         *)

\* buf + size
End == p.skip + Room

\* What is read at the cursor: [type, len, num] of a token and its number in
\* its message.  Over payload, a token of any type the parser takes or of
\* none, of each length that matters.
Zeros == [from |-> 0, at |-> 0, type |-> "INVALID", len |-> 0, num |-> 0]
Payload == [from : {0}, at : {0}, type : p.takes \cup {"INVALID"},
            len : 0..(End - c), num : {0}]
Read == LET k == Owner(c) IN
        IF k = 0 THEN {Zeros}
        ELSE LET r  == rx[k]
                 js == {j \in DOMAIN r.m.toks : r.m.offset[j] = c} IN
             IF js = {} THEN Payload
             ELSE {[from |-> r.no, at |-> j, type |-> r.m.toks[j].type,
                    len |-> r.m.toks[j].len, num |-> r.m.toks[j].num] :
                     j \in js}

\* Mutant of Beyond: every loop has the bound of epp_ecap_rep.
BeyondClosed(t) == c + SizeofTLV + t.len >= End

\* The token would reach beyond the end.  epp_ecap_rep also stops at one that
\* reaches it.
Beyond(t) == IF p.closed THEN c + SizeofTLV + t.len >= End
             ELSE c + SizeofTLV + t.len > End

\* Mutant of Stored: an array takes one entry more than it has room for.
StoredBeyond(t) ==
  LET e == Entry(t.from, t.at, Arrives(t)) IN
  [det EXCEPT ![t.type] = IF Limit(t.type) = 1 THEN <<e>>
                          ELSE IF Len(@) <= Limit(t.type) THEN Append(@, e)
                          ELSE @]

\* epp_ecap_single_TLV, epp_uemeas_rep_TLV, epp_uemeas_req_TLV,
\* epp_cell_meas_rep_TLV, epp_ran_eup_TLV, epp_ran_TLV: an array takes the
\* entry while it has room, anything else is overwritten.
Stored(t) ==
  LET e == Entry(t.from, t.at, Arrives(t)) IN
  [det EXCEPT ![t.type] = IF Limit(t.type) = 1 THEN <<e>>
                          ELSE IF Len(@) < Limit(t.type) THEN Append(@, e)
                          ELSE @]

\* Mutant of Step: over the body of the token only.
StepBody(t) == c + t.len

Step(t) == c + SizeofTLV + t.len

\* One turn of the loop, over the token t.
Turn(t) == /\ pc = "loop" /\ c < End
           /\ ~Beyond(t)
           /\ IF t.type \in p.takes
              THEN /\ given \/ p.null # "with a token"
                   /\ det' = Stored(t)
              ELSE UNCHANGED det
           /\ c' = Step(t)
           /\ UNCHANGED <<rx, given, was, pc, ret>>

\* epp_ran_TLV writes to the details it was not given.
CrashAtToken(t) == /\ pc = "loop" /\ c < End
                   /\ ~Beyond(t)
                   /\ t.type \in p.takes
                   /\ ~given /\ p.null = "with a token"
                   /\ pc' = "crash"
                   /\ UNCHANGED <<rx, given, det, was, c, ret>>

Leave == /\ pc = "loop"
         /\ c < End => \E t \in Read : Beyond(t)
         /\ pc' = "done"
         /\ UNCHANGED <<rx, given, det, was, c, ret>>

Parse == \/ Refuse \/ CrashAtOnce \/ Open \/ Leave
         \/ pc = "loop" /\ \E t \in Read : Turn(t) \/ CrashAtToken(t)

Next == \/ \E m \in Messages, zb, zd \in BOOLEAN : Receive(m, zb, zd)
        \/ Parse

Spec == Init /\ [][Next]_vars

\* A parser runs to its end once it is called.
FairSpec == Spec /\ WF_vars(Parse)

-----------------------------------------------------------------------------
(* Properties.                                                             *)

\* What the caller sees: nothing of a call before its end.
Dirty    == Len(rx) > 1
Shown    == IF pc = "done" THEN det ELSE was
Returned == IF pc \in {"call", "loop"} THEN "NONE"
            ELSE IF pc = "crash" THEN "CRASH" ELSE ret

Details == INSTANCE EpDetails WITH dirty <- Dirty, det <- Shown, ret <- Returned

(* Every public parser implements the transfer of a message's contents as  *)
(* one step: its own tokens are found whatever lies behind the message,    *)
(* stored in order up to the limits, and nothing else is touched; where    *)
(* it does not take the headers off the size, what it finds behind the     *)
(* message comes after the message's own.  It fails only for a message     *)
(* too short for its fixed part, or for details that are not given.        *)
ImplementsDetails == Details!Spec

(* The details of a parser are those of the message after a success        *)
(* ("Users of this slice", epRAN.h): what it can store and the message     *)
(* does not carry is not there, and numbers arrive as they were asked for. *)
Asked(type) ==
  LET is(j) == msg.m.toks[j].type = type
      at    == SelectSeq([j \in 1..Len(msg.m.toks) |-> j], is)
  IN [k \in 1..Len(at) |-> Entry(msg.no, at[k], msg.m.toks[at[k]].asked)]
WholeDetails == pc = "done" /\ msg.no > 0 /\ ret = "SUCCESS" /\ given =>
                  /\ \A f \in p.takes : det[f] = Asked(f)
                  /\ \A f \in p.keeps : det[f] = <<Entry(msg.no, 0, 0)>>

\* What of the message reaches field f.
Told(f) == LET own == Contents(msg.m.toks, msg.no, f)[Len(msg.m.toks)] IN
           IF f \in p.takes THEN SubSeq(own, 1, AtMost(Len(own), Limit(f)))
           ELSE IF f \in p.keeps THEN <<Entry(msg.no, 0, 0)>> ELSE <<>>

(* A caller that zeroes its details before each call finds in them after a *)
(* success what the message says, up to the limits, and nothing else: of   *)
(* no earlier message, in the buffer or in the details.  Only where the    *)
(* parser does not take the headers off the size (p.taken = 0) must it     *)
(* zero the buffer as well; and a message sent without its fixed part      *)
(* (epf_sched_hello_rep) says nothing.  What a message that no formatter   *)
(* writes says is not defined.                                             *)
CleanDetails ==
  /\ pc = "done" /\ msg.no > 0 /\ ret = "SUCCESS" /\ given
  /\ was = NoDetails
  /\ p.taken # 0 \/ ~Dirty
  /\ msg.m.whole /\ WellFormed(msg.m)
  => \A f \in Fields : det[f] = Told(f)

(* Every call returns, or crashes for want of details: no bytes behind a   *)
(* message make a token loop run forever.                                  *)
ParseEnds == pc = "call" ~> pc \in {"done", "crash"}
=============================================================================
