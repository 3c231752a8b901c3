------------------------------- MODULE EpFormat -------------------------------
(***************************************************************************)
(* One public formatter at work on the buffer its caller gives it.  All of *)
(* them (EpMessages) have the same body:                                   *)
(*                                                                         *)
(*   epf_head -> epf_single | epf_schedule | epf_trigger -> the body       *)
(*            -> epf_msg_length -> return the size                         *)
(*                                                                         *)
(* and return -1 as soon as one of the first three does.  The caller may   *)
(* use one buffer for call after call: only what a call writes changes.    *)
(* Bytes are counted, not represented, but for the fields of the headers   *)
(* that say what the message is.                                           *)
(***************************************************************************)
EXTENDS EpMessages

CONSTANTS Messages,   \* the calls considered, as records of EpMessages
          Sizes,      \* the values of the argument `size'
          UintMod,    \* one more than the largest unsigned int
          MaxCalls,   \* bound: calls in a behaviour
          MaxSeq      \* bound: sequence numbers the caller uses

ASSUME MessagesAssumption ==
         \A m \in Messages : /\ m.evt \in {"SINGLE", "SCHEDULE", "TRIGGER"}
                             /\ m.dir \in Dirs
                             /\ m.act \in Actions
                             /\ m.op \in Ops
                             /\ m.counted \in BOOLEAN
                             /\ m.det \in {"ok", "refused", "read", "short"}
                             /\ m.body \in Seq(Loops)
                             /\ m.inner \in Seq(Loops)
ASSUME SizesAssumption == UintMod \in Nat /\ Sizes \subseteq 0..(UintMod - 1)
ASSUME NonEmptyAssumption == Messages # {} /\ Sizes # {}
ASSUME BoundsAssumption == MaxCalls \in Nat /\ MaxSeq \in Nat

VARIABLES hdr,     \* the fields of ep_hdr and of the event header in the
                   \* buffer: type, dir, seq, len; act, op
          msg,     \* the call in progress, or the last one
          size,    \* its argument `size'
          hasBuf,  \* its argument `buf' is not NULL
          pc,      \* where it is; "idle": no call was made yet
          k,       \* the loop it is in, of the body or of the inner call
          turn,    \* turns made of that loop
          pos,     \* bytes laid out so far
          room,    \* bytes left, as the function at work reckons
          mark,    \* bytes laid out when the inner call started
          ret,     \* `ret' of the function; what it returns once "done"
          calls    \* number of calls
vars == <<hdr, msg, size, hasBuf, pc, k, turn, pos, room, mark, ret, calls>>
callVars == <<msg, size, hasBuf, calls>>

Headers == [type : MsgTypes, dir : Dirs, seq : 0..MaxSeq, len : 0..(U16 - 1),
            act : Actions, op : Ops]

TypeOK == /\ hdr \in Headers
          /\ msg \in Messages
          /\ size \in Sizes
          /\ hasBuf \in BOOLEAN
          /\ pc \in {"idle", "head", "event", "body", "inner", "length",
                     "done", "crash"}
          /\ k \in Nat \ {0}
          /\ turn \in Nat
          /\ pos \in Nat
          /\ room \in Int
          /\ mark \in Nat
          /\ ret \in Nat \cup {-1}
          /\ calls \in 0..MaxCalls

\* A zeroed buffer.
Init == /\ hdr = [type |-> "INVALID", dir |-> "REQ", seq |-> 0, len |-> 0,
                  act |-> "INVALID", op |-> "UNSPECIFIED"]
        /\ msg = CHOOSE m \in Messages : TRUE
        /\ size = CHOOSE s \in Sizes : TRUE
        /\ hasBuf = TRUE
        /\ pc = "idle"
        /\ k = 1 /\ turn = 0 /\ pos = 0 /\ room = 0 /\ mark = 0
        /\ ret = -1
        /\ calls = 0

\* epf_schedule, which is given what follows the header, asks for the header.
EventNeed(evt) == IF evt = "SCHEDULE" THEN SizeofHdr + SizeofSchedule
                                      ELSE SizeofEvent(evt)

Return(r) == pc' = "done" /\ ret' = r

-----------------------------------------------------------------------------
(* The caller.                                                             *)

\* External: calls a formatter on the buffer.
Call(m, s) == /\ pc \in {"idle", "done"}
              /\ calls < MaxCalls
              /\ calls' = calls + 1
              /\ msg' = m /\ size' = s /\ hasBuf' \in BOOLEAN
              /\ pc' = "head"
              /\ k' = 1 /\ turn' = 0 /\ pos' = 0 /\ room' = s /\ mark' = 0
              /\ ret' = 0
              /\ UNCHANGED hdr

\* epf_seq, on the message just formatted.
SetSeq == /\ pc = "done" /\ hasBuf
          /\ size >= SizeofHdr
          /\ \E q \in 0..MaxSeq : hdr' = [hdr EXCEPT !.seq = q]
          /\ UNCHANGED <<callVars, pc, k, turn, pos, room, mark, ret>>

-----------------------------------------------------------------------------
(* The formatter.                                                          *)

\* The first check of every formatter, and of some for the details.
Refuses  == ~hasBuf \/ msg.det = "refused"
NoBuffer == /\ pc = "head" /\ Refuses
            /\ Return(-1)
            /\ UNCHANGED <<callVars, hdr, k, turn, pos, room, mark>>

\* Mutant of MasterHead: it clears the whole header first.
MasterHeadClear == /\ pc = "head" /\ ~Refuses
                   /\ IF room < SizeofHdr
                      THEN Return(-1) /\ UNCHANGED <<hdr, pos, room>>
                      ELSE /\ hdr' = [hdr EXCEPT !.type = msg.evt,
                                     !.dir = msg.dir, !.seq = 0, !.len = 0]
                           /\ pos' = SizeofHdr
                           /\ room' = size - SizeofHdr
                           /\ ret' = SizeofHdr
                           /\ pc' = "event"
                   /\ UNCHANGED <<callVars, k, turn, mark>>

\* epf_head.  It leaves seq and length alone.
MasterHead == /\ pc = "head" /\ ~Refuses
              /\ IF room < SizeofHdr
                 THEN Return(-1) /\ UNCHANGED <<hdr, pos, room>>
                 ELSE /\ hdr' = [hdr EXCEPT !.type = msg.evt, !.dir = msg.dir]
                      /\ pos' = SizeofHdr
                      /\ room' = size - SizeofHdr
                      /\ ret' = SizeofHdr
                      /\ pc' = "event"
              /\ UNCHANGED <<callVars, k, turn, mark>>

\* Mutants of EventFields: the operation is not written, or is written in
\* place of the action.
EventFieldsNoOp    == [hdr EXCEPT !.act = msg.act]
EventFieldsSwapped == [hdr EXCEPT !.act = msg.op, !.op = msg.act]

EventFields == [hdr EXCEPT !.act = msg.act, !.op = msg.op]

\* epf_single, epf_schedule or epf_trigger.
EventHead == /\ pc = "event"
             /\ IF room < EventNeed(msg.evt)
                THEN Return(-1) /\ UNCHANGED <<hdr, pos, room>>
                ELSE /\ hdr' = EventFields
                     /\ pos' = pos + SizeofEvent(msg.evt)
                     /\ room' = size - pos'
                     /\ ret' = pos'
                     /\ pc' = "body"
             /\ UNCHANGED <<callVars, k, turn, mark>>

\* One turn of the loop it is in: the function at work checks for room and
\* writes.  Turns(loops): there is one to make.
Turns(loops)  == k <= Len(loops) /\ turn < loops[k].turns
\* Mutants of NoRoom: a chunk that just fits is refused; the header of a
\* token is forgotten.
NoRoomTight(loops)  == Turns(loops) /\ loops[k].need >= room
NoRoomNoTLV(loops)  == Turns(loops) /\ loops[k].need - SizeofTLV > room

NoRoom(loops) == Turns(loops) /\ loops[k].need > room
Put(loops) == /\ Turns(loops)
              /\ ~NoRoom(loops)
              /\ pos' = pos + loops[k].put
              /\ room' = room - loops[k].put
              /\ turn' = turn + 1
              /\ UNCHANGED <<callVars, hdr, pc, k, mark, ret>>
\* The loop ends.
Leave(loops) == /\ k <= Len(loops)
                /\ turn = loops[k].turns
                /\ k' = k + 1
                /\ turn' = 0
                /\ UNCHANGED <<callVars, hdr, pc, pos, room, mark, ret>>

BodyTurn == pc = "body" /\ msg.det # "read" /\ (Put(msg.body) \/ Leave(msg.body))

\* The body returns -1; a caller that does not look goes on.
BodyFails == /\ pc = "body" /\ msg.det # "read"
             /\ NoRoom(msg.body)
             /\ IF msg.counted THEN Return(-1)
                ELSE pc' = "length" /\ UNCHANGED ret
             /\ UNCHANGED <<callVars, hdr, k, turn, pos, room, mark>>

\* The body is complete.  An inner call gets `size' less what is laid out.
BodyEnds == /\ pc = "body" /\ msg.det # "read"
            /\ k > Len(msg.body)
            /\ ret' = IF msg.counted THEN pos ELSE ret
            /\ IF msg.inner = <<>>
               THEN pc' = "length" /\ UNCHANGED <<k, turn, room, mark>>
               ELSE /\ pc' = "inner"
                    /\ k' = 1 /\ turn' = 0
                    /\ mark' = pos
                    /\ room' = (size - pos) % UintMod
            /\ UNCHANGED <<callVars, hdr, pos>>

\* epf_ecap_rep and epf_uemeas_req read the details they are not given.
ReadsNull == pc = "body" /\ msg.det = "read"
\* epf_TLV_rnti_report reads behind the array of users: undefined, it may
\* crash or go on (InnerTurn) with what lies there.
ReadsPastUsers == /\ pc = "inner" /\ msg.det = "short"
                  /\ k = Len(msg.inner)
                  /\ Turns(msg.inner) /\ ~NoRoom(msg.inner)
                  /\ turn + 1 >= EP_RAN_USERS_MAX
Crash == /\ ReadsNull \/ ReadsPastUsers
         /\ pc' = "crash"
         /\ UNCHANGED <<callVars, hdr, k, turn, pos, room, mark, ret>>

InnerTurn == pc = "inner" /\ (Put(msg.inner) \/ Leave(msg.inner))

\* The inner call returns -1, which is added to the size like any other.
InnerFails == /\ pc = "inner"
              /\ NoRoom(msg.inner)
              /\ ret' = mark - 1
              /\ pc' = "length"
              /\ UNCHANGED <<callVars, hdr, k, turn, pos, room, mark>>

InnerEnds == /\ pc = "inner"
             /\ k > Len(msg.inner)
             /\ ret' = pos
             /\ pc' = "length"
             /\ UNCHANGED <<callVars, hdr, k, turn, pos, room, mark>>

\* Mutant of LengthField: of what follows the header.
LengthOfData == (ret - SizeofHdr) % U16

LengthField == ret % U16

\* epf_msg_length, and the return.
Length == /\ pc = "length"
          /\ hdr' = [hdr EXCEPT !.len = LengthField]
          /\ Return(ret)
          /\ UNCHANGED <<callVars, k, turn, pos, room, mark>>

Format == \/ NoBuffer \/ MasterHead \/ EventHead \/ Crash
          \/ BodyTurn \/ BodyFails \/ BodyEnds
          \/ InnerTurn \/ InnerFails \/ InnerEnds
          \/ Length

Next == (\E m \in Messages, s \in Sizes : Call(m, s)) \/ SetSeq \/ Format

Spec == Init /\ [][Next]_vars

-----------------------------------------------------------------------------
(* Properties.                                                             *)

Succeeded == pc = "done" /\ ret >= 0

(* "Returns the size of the message, or a negative error number": the size *)
(* a formatter returns is never more than the size it was given.           *)
SuccessFits == Succeeded => ret <= size

(* A formatter that succeeds returns the bytes of the whole message, and   *)
(* the length in the header says the same ("Length of the whole packet"):  *)
(* the receiver, which frames the stream by it, gets all of the message.   *)
WholePacket == Succeeded => /\ ret = WholeSize(msg)
                            /\ hdr.len = WholeSize(msg)

\* Failed for want of room, not of a buffer or of details.
OutOfRoom == pc = "done" /\ ret = -1 /\ ~Refuses

(* A formatter fails only when it is given less room than its message      *)
(* takes, and one of a schedule event also below what epf_schedule, which  *)
(* counts the header twice (epsched.c:34), asks.                           *)
FailsForRoom == OutOfRoom => \/ size < WholeSize(msg)
                             \/ /\ msg.evt = "SCHEDULE"
                                /\ size < SizeofHdr + EventNeed("SCHEDULE")

(* What a caller expects instead: no formatter fails when there is room    *)
(* for its message.  epf_schedule does not keep it.                        *)
FailsOnlyShort == OutOfRoom => size < WholeSize(msg)

(* After a success the headers in a reused buffer are those of the message *)
(* all through: no field but seq is left from an earlier call, failed or   *)
(* not.                                                                    *)
HeadersOfMessage == Succeeded => /\ hdr.type = msg.evt /\ hdr.dir = msg.dir
                                 /\ hdr.act = msg.act /\ hdr.op = msg.op
                                 /\ hdr.len = ret % U16

(* The length in the buffer changes only together with the successful      *)
(* return of a formatter: a failed call leaves the length of the message   *)
(* before it.                                                              *)
LengthOnSuccess == [][hdr'.len # hdr.len => pc' = "done" /\ ret' >= 0]_vars

(* No formatter touches the sequence number that epf_seq has put in the    *)
(* buffer, from its call to its return.                                    *)
SeqKept == [][pc \notin {"idle", "done"} => hdr'.seq = hdr.seq]_vars

(* No call reads details it was not given, or more users than there are.   *)
NoCrash == pc # "crash"
=============================================================================
