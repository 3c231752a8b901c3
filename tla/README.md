# OpenEmpower protocol library: TLA+ models, checks and proofs

The repository is a C library that an agent in an LTE base station (eNB) and a
controller link to format (`epf_*`) and parse (`epp_*`) the messages of the
OpenEmpower protocol, version 1. It keeps no state of its own, starts no
threads and does no I/O. Its difficulties are those of code that computes in
bytes: sizes that are checked in one function and used in another, buffers and
tables that callers use again, tokens of variable length, partial failures, and
the correspondence between what one side writes and what the other side
believes. This directory models that code as state machines, checks the models
with TLC and proves what matters most with TLAPS.

## 1. Inventory

| Component | Code | State it works on | Operations |
|---|---|---|---|
| Wire format | `include/emproto/v1/*.h` | none: packed structures, codes of types, actions, operations, tokens | - |
| Master header | `proto/1/ephdr.c` | the first 24 bytes of a message | `epf_head`, `epf_seq`, `epf_msg_length`; `epp_head`, `epp_msg_type`, `epp_dir`, `epp_seq`, `epp_msg_length` |
| Event headers | `epsingle.c`, `epsched.c`, `eptrig.c` | the 3 or 7 bytes after it | `epf_single`, `epf_schedule`, `epf_trigger`; `epp_*_type`, `epp_single_op`, `epp_trigger_op`, `epp_sched_interval` |
| TLV tokens | `epTLV.c` and a loop in each parser | a cursor over the bytes of a body | the token loops; `epf_TLV_rnti_report`, `epp_TLV_rnti_report` |
| UE report | `epuerep.c` | the base station's array of UEs, the controller's table of UEs | `epf_trigger_uerep_{req,rep,rep_fail}`, `epp_trigger_uerep_{req,rep}` |
| UE measurements | `epuemeas.c` | an array of at most 8 requests or reports | `epf_`/`epp_trigger_uemeas_*` |
| Cell measurements | `epcellmeas.c` | one record of used resource blocks | `epf_`/`epp_{sched,trigger}_cell_meas_*` |
| Hello | `ephello.c` | one identifier | `epf_`/`epp_{single,sched}_hello_*` |
| eNB capabilities | `epenbcap.c` | two arrays of at most 8 cells | `epf_`/`epp_single_ecap_*` |
| Handover | `epho.c` | the fields of one message | `epf_`/`epp_single_ho_*` |
| RAN setup, slices | `epRAN.c` | capabilities; a slice's resources, scheduler and users | `epf_`/`epp_single_ran_*` |
| Cell capabilities | `epcellcap.c` | - | compiled out (`#if 0`) |
| Debug log | `proto/epdbg.c` | a file pointer, a ready flag | `ep_dbg`, `ep_dbg_log`, `ep_dbg_init` (debug build only) |

**Interaction.** A public formatter calls `epf_head`, then the formatter of its
event header on what is left of the buffer, then that of its body, then
`epf_msg_length`; each returns the bytes it wrote or -1. The result is sent
over TCP, framed by the length in the header. The receiver dispatches on the
type, action, direction and operation it reads with the accessors, and calls
one public parser with the whole message and its size; that parser skips the
headers and walks the body, mostly a sequence of type-length-value tokens, into
a structure of its caller. Callers own all memory: what is in a table, in a
receive buffer and in a sending buffer before a call is what earlier calls, or
nobody, left there.

**What is hard.**

- *State that outlives a call.* The UE table is updated, never rebuilt; slice
  details are merged token by token; a sending buffer keeps `seq` and `length`
  of an earlier message; a receive buffer keeps the tail of a longer one.
- *Sizes.* The public parsers pass the size of the whole message to a body
  parser that starts after the headers. Formatters check for less, or more,
  than they write, or not at all; unsigned subtractions may wrap around; the
  length on the wire has 16 bits.
- *Partial failure.* A callee's -1 may be returned, ignored or added to a size.
- *Limits.* 8 cells, 8 measurements, 32 users, `max_ues` slots.
- *Termination* of the token loops over bytes that are no token.
- *Concurrency* only in the debug log's lazy initialisation: the library has no
  other shared state. Concurrency between the two ends (UEs coming and going
  while reports are in flight and being parsed) decides what the tables hold.
  Nothing is persisted and the transport is reliable and ordered, so crash
  recovery and loss of messages are not this library's.

**What makes each component correct.**

- *UE report:* a table never holds an RNTI twice; a parse evicts nobody; a slot
  is found; after a parse the table has every reported UE under its latest
  identity, and, for a cleared table, nobody else; state and identity belong
  together; the loop ends.
- *Formatters:* success means that the whole message fits the buffer and the
  header says its size; failure happens only for want of room; headers never
  mix two messages; only a success changes the length; `seq` is the caller's.
- *Parsers with limits (capabilities, measurements, slices):* no more entries
  than the limit, those that are stored equal what was sent in order, nothing
  from an earlier message; the call ends, also over bytes that are no token.
- *Headers and dispatch:* an accessor returns what the formatter put there, and
  an error can be told from a value.
- *Debug log:* there is an output when initialisation is over, it stays the
  same, and nobody writes through a file pointer that is not set.

`PROJECT.json` lists the hazards behind this, each at its line, with the
properties that cover it or the reason why none does.

## 2. Modules

In the order they were built: first the one component whose state evolves over
many messages, then what all formatters share, then what all parsers share,
then the composition of formatters and accessors over a connection, and the
debug log.

| Module | Contents | Uses |
|---|---|---|
| `EpWire` | sizes and codes | - |
| `UeDirectory` | abstract: identities told and learnt per RNTI | - |
| `EpUeRep`, `MCEpUeRep` | UE report end to end, implements `UeDirectory` | `EpWire` |
| `NatLemmas` | facts about the natural numbers that several proofs need | - |
| `EpUeRep_proofs` | typing, uniqueness, no eviction, the cursor, a slot is found, the refinement | `EpUeRep` |
| `EpUeRepView_proofs` | the count, what is stored, and the complete view of a controller that clears its table | `EpUeRep_proofs` |
| `EpMessages` | what each public formatter lays out | `EpWire` |
| `EpFormat`, `MCEpFormat` | formatters at work on a reused buffer | `EpMessages` |
| `EpFormat_proofs` | typing, headers, length and sequence number, success fits, the size returned is that of the message, failures are for room | `EpFormat`, `EpMessages_proofs` |
| `EpParsers` | what each public parser does, and the tokens each formatter sends it | `EpMessages` |
| `EpDetails` | abstract: a message's contents are transferred to the caller at once | `EpParsers` |
| `EpMessages_proofs` | formatters and parsers agree on where the parts of a message are | `EpParsers` |
| `EpParse`, `MCEpParse` | a public parser at work on a reused buffer, implements `EpDetails` | `EpParsers` |
| `EpParse_proofs` | typing and limits, the refinement | `EpParse` |
| `MessageFifo` | abstract: messages sent are taken once, in order | - |
| `EpStream`, `MCEpStream` | a sender's formatters, a byte stream, a receiver's accessors; implements `MessageFifo` | `EpFormat` |
| `EpStream_proofs` | typing, the receiver keeps its place, the refinement | `EpStream`, `EpFormat_proofs` |
| `EpDbg`, `MCEpDbg` | the debug log used by several threads | - |
| `EpDbg_proofs` | typing, there is an output, it stays, crashes have a cause | `EpDbg` |

Every invariant and every action property of a passing run, and the safety part
of each refinement, is a theorem as well (section 5). Left to do: the same for
what callers of several parts get, such as a controller that takes messages off
a connection and parses them.

## 3. The models

### EpWire

The `sizeof` of each packed structure as computed from its declaration, and the
codes of the headers as strings named like the enumerators.

### EpUeRep: UE reports, from the base station's array to the controller's table

| Model | Code |
|---|---|
| `aues` | the array given to `epf_trigger_uerep_rep`; an entry with RNTI 0 is unused |
| `Report`, `Orders`, `Fits` | `epf_uerep_rep`: one token per used entry, by index, with its check for room |
| `wire` | reports sent and not yet received, in order |
| `rx`, `n` | the receive buffer after the headers, in cells of one token, and the number of tokens of the report in it |
| `Receive` | `epp_trigger_uerep_rep` called on a report read over the old contents of the buffer |
| `ReceiveOther` | a message of another kind read into the same buffer: cells of `Payload` |
| `Refuse` | the check for missing pointers in `epp_uerep_rep` |
| `c`, `End`, `Read`, `Advance`, `ParseTurn`, `ParseEnd` | the cursor, bound and loop of `epp_uerep_rep`, one action per turn |
| `Selected`, `Store`, `Count` | `epp_uerep_rep_TLV`: search, store, `*nof_ues` |
| `ues`, `nof` | the controller's table and `*nof_ues` |
| `stray` | history: `ues[-1]` was written |
| `told` | history: the identities reported so far |

The bound of the loop is modelled as the code computes it: the size of the
*whole* message counted from the *body*, so the loop runs over the 27 bytes
after the message as well. What is there depends on what the controller uses
its receive buffer for, the constant `Buffer`: zeros only ("zeroed"), tokens of
earlier reports as well ("reports"), or bytes of any message ("shared"). A cell
of a report is read as its token; over zeros the loop advances 4 bytes at a
time (tokens of type and length 0), which is why the cursor is a number of
bytes although cells are whole tokens; over anything else `Read` offers every
token, that of any UE and of any length among them. A buffer that is zeroed or
used for reports alone never holds zeros before a used cell, since messages are
written from the start. With "shared" the cursor may leave the beginnings of
cells, and a UE may be stored that nobody has reported: `InStep`, `SlotFound`
and `ImplementsDirectory` are properties of the other two.

After a write to `ues[-1]` the model goes on as if nothing had been hit: it
says when this happens (`stray`), not what it destroys.

Callers are not in the repository. Attaching, detaching and marking UEs,
receiving, freeing entries and going on after a parse are marked external in
`PROJECT.json`; `Caller` says what the controller does with its table between
messages ("keep", "forget" single entries, "clear" before each parse). A UE's
PLMN, IMSI and TMSI are one model value, its identity, since the code copies
them together.

`UeDirectory` is what a controller may expect: for each RNTI at most one
identity, always one the base station has told for it, changed one RNTI at a
time. `EpUeRep` implements it with the directory read off the table.

### EpMessages and EpFormat: the formatters

`EpMessages` has one operator for each public formatter, with its name: what
the two headers will say and the list of chunks of the body, each a loop with a
number of turns, the bytes it asks for (`need`) and the bytes it writes
(`put`). Where `need` and `put` differ, the code's check differs from what it
writes. The RAN slice messages have a second list for the call whose result is
added to the size unchecked.

`EpFormat` performs one such description on a buffer, one action per check or
write: `MasterHead` (`epf_head`), `EventHead` (`epf_single`, `epf_schedule`,
`epf_trigger`), turns of the body, the inner call, `Length` (`epf_msg_length`)
and the return. `room` is what the function at work believes is left; for the
inner call it is an unsigned difference, taken modulo `UintMod`. A call may come
without a buffer or without the details (`det` of a message): some formatters
refuse (`NoBuffer`), others read through the null pointer (`Crash`), and one
that is told of more users than there are reads past their array, which may
crash or send what lies there (`ReadsPastUsers`). The buffer is
used call after call, with `SetSeq` (`epf_seq`) in between. Of the bytes only
the header fields that say what the message is are represented; the others are
counted. The identifiers of base station, cell and module are written by
`epf_head` like type and direction and are left out.

### EpParsers, EpDetails and EpParse: the parsers

`EpParsers` has one operator for each parser, with its name: how many bytes of
headers a public parser skips, and how many of them it takes off the size it
passes on (most do, hello, handover and capabilities do not), the fixed part
its body parser asks for and keeps, the tokens it looks into, whether it zeroes
the details first, the comparison at its bound, and what it does without
details from its caller. The second half says which tokens each formatter
sends: `EcapOut`, `SliceOut` and the like follow the loops of the formatters.
Of the contents of a token its origin is represented (which message, which
position) and one number where the number sent may differ from the one that
arrives: the length of a user list (sent modulo 2^16, cut at 32), `max_slices`
(a 16-bit field swapped as 32 bits: always 0) and the interval of a measurement
(never written).

`EpParse` performs one such description: `Refuse`, `CrashAtOnce`, `Open` (the
checks, the zeroing, the fixed part), `Turn` (one token), `CrashAtToken`,
`Leave`. The buffer is the sequence of messages read into it: a byte is that of
the last message long enough to have it (`Owner`), so what a parser reads behind
its message is a token of an earlier one, zeros, or payload, which may look
like any token of any length (`Read`). Details live from call to call; the
caller may zero buffer or details before each.

What `EpParse` assumes of a message is `Shaped`, in `EpParsers`: it is no shorter
than its headers and goes to a parser of this library. A message of a foreign
peer may have tokens of any kind, number and length anywhere, or none and
payload in their place. What a message's contents are is defined for
`WellFormed` ones: the tokens follow the fixed part without a gap and end with
the message, one of each kind that is not an array. `EpMessages_proofs` proves
this of `LibraryPackets`, all that the library's formatters send below 65536
bytes but the UE report (which has `EpUeRep`), for any number of cells,
measurements and users; of the message of a peer that does not cut its lists,
TLC evaluates it.

`EpDetails` is what a caller may expect: one step that takes a well-formed
message's own tokens into the details and leaves alone everything else. Where
the size is not reduced, an array may have more entries behind its own, since
stale tokens are found there; where a message is shorter than its fixed part
(`epf_sched_hello_rep`), the part may be anything. Of a malformed message it
says only that no array has more entries than it has room for and that the
fields of other parsers stay as they are.

### MessageFifo and EpStream: two peers

`EpStream` extends `EpFormat` with the rest of a connection. The sender
composes messages in one buffer, numbers them with `epf_seq` and writes as many
bytes as the formatter returned. `Arrive` brings one byte. The receiver asks
the accessors as soon as it likes: each checks for its header (`epp_msg_type`,
`epp_dir`, `epp_seq`, `epp_msg_length`; `EventType` and `EventOp` stand for the
functions of the three events), and behind the bytes that have come are the
fields of the message before (`Seen`). When type and action are known
(`Announce`) and the length it is told is there, it takes that many bytes off
the buffer (`Deliver`). The loops of both peers are not in the repository and
are marked external; the order in which a receiver asks is the most eager one
that the return codes allow. There is no accessor for the operation of a
schedule event, so a receiver cannot tell a scheduled reply of success from one
of failure: its operation is `Unknown` in the abstract messages as well.

### EpDbg: the debug log

One action per access to a global variable, in the order of the code: the debug
build is not optimised (proto/Makefile). `Dump` (`ep_dbg`) checks
`ep_dbg_ready` and may run `ep_dbg_init` (`Open`, `Store`, `Test`, `Fallback`,
`SetReady`); `ReadStd`, `ReadFd` and `Write` are `ep_dbg_log`, once per piece;
`Complain` is a formatter or parser that calls `ep_dbg_log` without `ep_dbg`.
`fopen` may fail at any time. Writing to a null `FILE` ends the process.

## 4. Runs

| Run | Question | Result |
|---|---|---|
| `MCEpUeRep_forget` | the table under all interleavings, stale tokens in the buffer and freed entries | `TypeOK`, `UniqueRnti`, `SlotFound`, `InStep`, `CountBounded`, `NoEviction`, `ImplementsDirectory` hold |
| `MCEpUeRep_clear` | the complete view for a caller that clears table and buffer; termination | `CompleteView`, `ParseTerminates` hold |
| `MCEpUeRep_shared` | a table of three slots and a buffer shared with messages of every kind | `UniqueRnti`, `AllStored` hold |
| `MCEpUeRep_stale` | the same view without clearing the buffer | `CompleteView` violated: a UE of an earlier report comes back |
| `MCEpUeRep_churn` | a caller that never frees entries, its buffer zeroed for each report | `SlotFound` violated: index -1 |
| `MCEpFormat_sizes` | formatters that return what their callees say, and the longest report, at the sizes around each message | `TypeOK`, `WholePacket`, `FailsForRoom` hold |
| `MCEpFormat_reuse` | two calls of any formatters that never overrun, on one buffer, also without details or with more users than these hold | `SuccessFits`, `HeadersOfMessage`, `LengthOnSuccess`, `SeqKept` hold |
| `MCEpFormat_unchecked` | chunks written without a check, or with one for less | `SuccessFits` violated: a cell measurement reply overruns a buffer of the headers' size |
| `MCEpParse_details` | every parser on any two messages, malformed ones among them, stale buffers and details, no details | `TypeOK`, `CleanDetails`, `ImplementsDetails`, `ParseEnds` hold |
| `MCEpParse_slices` | replies about two slices, with users and without | `WholeDetails` violated: the users of the slice before |
| `MCEpStream_stream` | formatter, connection, accessors | `StreamTypeOK`, `InPlace`, `ImplementsFifo` hold |
| `MCEpDbg_dbg` | three threads and the log | `TypeOK`, `HasOutput`, `OutputStays`, `CrashExplained` hold |

Each violated property states what a header, a comment or the repository's
README says; `PROJECT.json` quotes the line under "findings".

**Known divergences without a run of their own.** TLC shows each when a
configuration is changed as told here.

| Divergence | To see it |
|---|---|
| The state of a UE is sent but never stored (epuerep.c:104) | `MCEpUeRep_clear` with two `States`, invariant `StateStored` |
| `epf_sched_hello_rep` does not count its body (ephello.c:361); slice add and set add a callee's -1 to the size (epRAN.c:456) | `MCEpFormat_sizes` with `Messages <- UncountedMessages`: `WholePacket` |
| `epf_single_ecap_rep_fail` passes no details to a formatter that reads them (epenbcap.c:277); `epf_single_ecap_rep` and `epf_trigger_uemeas_req` do not look whether there are any (epenbcap.c:300, epuemeas.c:383) | `MCEpFormat_reuse` with `Messages <- UnguardedCalls`, invariant `NoCrash` only |
| No formatter compares `nof_users` with the 32 entries of the array (epTLV.c:48) | `MCEpFormat_reuse` with `Messages <- LongLists`, invariant `NoCrash` only |
| `epf_schedule` is given what follows the master header but asks for the master header too (epsched.c:34), so that small messages that fit are refused | `MCEpFormat_sizes` with the invariant `FailsOnlyShort` |
| `epf_ran_sup` computes `size - sizeof(ep_ran_sinf)` unsigned, so that with less than 8 bytes left everything seems to fit (epRAN.c:386) | `MCEpFormat_unchecked` with `Messages <- SliceReplies` |
| `epf_uerep_rep` asks for a token's body and writes its header as well: up to 4 bytes too many (epuerep.c:41) | `MCEpFormat_unchecked` with `Messages <- UeReports` |
| `max_slices` arrives as 0 (epenbcap.c:142) | `MCEpParse_slices` with `Messages <- RanCaps` |
| Capabilities behind the message are taken for its own (epenbcap.c:182) | `MCEpParse_slices` with `Messages <- CellCaps` |
| Bytes of another message behind a report are stored as a UE that was never reported (epuerep.c:318) | `MCEpUeRep_shared` without `SYMMETRY`, property `ImplementsDirectory` |
| The interval of a measurement is not written (epuemeas.c:157) | `MCEpParse_slices` with `Messages <- UeMeasMessages` |

Some are in the models and need no run. A user list of more than 32 is sent
whole and cut by the parser (epRAN.c:114). `*nof_ues` restarts at each token
and so is 0 or 1 (epuerep.c:81): `CountBounded` bounds it, and does not say
what it counts. The operations the repository's README gives for the
capabilities reply (SUCCESS/FAIL) and the cell measurement request
(ADD/SET/GET/REM) are UNSPECIFIED in the code (epenbcap.c:323, epcellmeas.c:404
and 656). The length field has 16 bits and the size of a report of 2849 UEs or
more does not fit it (ephdr.c:213): `MCEpFormat_sizes` has the report of 2848;
with 2849 and a size of 65554, `WholePacket` is violated, and a receiver would
lose its place. `ep_dbg_log` before the first dump writes to a null `FILE`, and
so may a thread whose `fopen` succeeded if that of another failed: the two
exceptions of `CrashExplained`.

**Bounds.** *UE report:* two or three RNTIs, two identities, one to two entries
at the base station, two or three slots, one report in flight. A slot search
distinguishes three kinds of slot (holds the RNTI, free, other) and their
order; two RNTIs and two slots have every such table but the one with a free
slot between two others, for which `_shared` has three. A stale tail needs a
message of two tokens before one of one or none; the loop runs at most 27
bytes, just over one cell, past the message, so two cells after the longest
message are enough. `MaxWire` bounds only how far the base station may be
ahead: one report in flight besides the one in the buffer. In `_shared` reports
have one UE at most, which leaves two of the three cells to payload; tokens
over payload have every length up to one too long to be taken. `TxRoom` 42 is
the least room for two tokens and 19 for one (the code asks for the last body,
not for its header); one more or less changes only which reports are sent.
*Formatters:* sizes 0 to 72 have every boundary of the headers and of bodies of
up to 45 bytes, and the listed larger ones both sides of the lengths of the
longest messages; 65526 to 65531 are those around the report of 2848 UEs (65531
bytes), of which the lower four let it overrun, since it asks for 4 bytes less
than it writes: `SuccessFits` is not among the properties of `_sizes`. Token
counts are 0, 1, several and one more than the limit of 8. `UintMod` is 2^30
because TLC computes in 32 bits; any modulus above all sizes behaves the same,
a wrapped difference being larger than any message. Two calls show all that one
call can leave to the next, since a call changes the header fields and reads
none of them. `MaxSeq` 1 gives two sequence numbers. *Parsers:* two messages,
so that one is behind the other; token counts 0, 1, 2 and one more than the
limit of 8 (or 32 users), also from a peer that does not cut its lists; two
messages, of an array and of a slice, are payload all through. Entries of a
third message would come to lie where those of the first do. The public parsers
are independent of each other, but all of them take turns on one buffer and one
set of details. *Stream:* three messages, one of each event: one whose returned
size is short of its body, one that may be sent without its tokens; sizes that
make each fail or succeed. One byte at a time includes every way of reading: a
larger read is several arrivals before the receiver looks. Three messages make
one under way, one in the receiver's buffer and one that left its fields there.
*Debug log:* three threads, so that two may race while a third comes late or
complains; two pieces per dump separate the first from those after it.

**Symmetry** is used in `_shared` only (RNTIs and identities, two invariants,
no temporal property); the specification treats both as uninterpreted.

**Deadlock** is checked in the UE report's runs. The formatter's runs end after
`MaxCalls` calls, the parsers' after `MaxMsgs` messages, the stream's when all
is delivered, and a crash ends the caller or the process, so there it is not.

**Fairness.** `ParseTerminates` assumes weak fairness of the loop of
`epp_uerep_rep`, `ParseEnds` of every parser: looping code without blocking
calls, so a thread that is in it keeps running. `ImplementsFifo` has the
fairness of `MessageFifo` to implement: TCP brings every byte, and the receiver
keeps asking and taking; the sender may stop at any time. Nothing else is
assumed of callers, base station or network.

**Mutants.** Modules define, before some definitions, mutants of them
(`OrdersOfAll`, `SelectedEager`, ...): variants with a plausible bug. They are
used by no specification; each property is violated when its mutant, named in
`PROJECT.json`, takes the place of the definition.

## 5. Proofs

Every invariant of a passing run is proved for all values of the constants that
meet the assumptions named below, and so are the action properties and the
safety part of the three refinements. Recursion needs no induction scheme:
`LeastExists` (`NatLemmas`, from the well-foundedness of the natural numbers)
gives the least counterexample, which is then refuted. That is how
`FirstBytes`, the sum over a message's loops, and `Contents`, what its first
tokens say, are shown to exist and to obey their recursion.

**The UE report.** `EpUeRep_proofs` holds for every value of the constants under
the assumptions of `EpUeRep` (0 is not a valid RNTI, sizes are natural numbers,
finitely many RNTIs). The first three theorems hold for every receive buffer.
The others assume that nothing but zeros and tokens of reports lies behind a
report, and say so: `Buffer # "shared"`. With a shared buffer they are false.

- `TypeCorrect`: `Spec => []TypeOK`. `TypeOK` is inductive. The step that
  takes work is `ParseToken`, which reads beyond the message: `TokenInBuffer`
  shows that a cursor below `End` is in one of the two cells after the longest
  message, by arithmetic on the sizes.
- `UniqueRntiAlways`: `Spec => []UniqueRnti`. `UniqueRnti` is inductive
  relative to `TypeOK`. `ParseEffect` reduces a turn of the loop to what it
  does to the RNTIs of the table: nothing, or one slot that held the RNTI or,
  if none did, was free, gets it.
- `NoEvictionAlways`: `Spec => NoEviction`, from `ParseEffect` as well.
- `InStepAlways`, if the buffer is not shared. `BufferInv`: used cells come before
  zeros, the message's own are used, and there is no payload; `CursorInv`: the
  cursor leaves the beginnings of cells only over zeros, behind which are zeros
  only.
- `SlotAlwaysFound`: if the buffer is not shared and there are at least as many
  slots as RNTIs, `Spec => []SlotFound`. The pigeonhole argument (`SomeSlot`):
  a table without a free slot that does not hold an RNTI maps its slots into
  fewer RNTIs, so two slots hold the same one, against `UniqueRnti`.
  `FirstExists` provides the first of a set of slots, from `LeastExists`. The
  assumption is needed: `MCEpUeRep_churn` shows what happens without it.

- `TableImplementsDirectory`: `Spec => ImplementsDirectory` if the buffer is
  not shared, the refinement of `UeDirectory` with the directory read off the
  table (`Known`). The invariant it needs is `TokensTold`: every token in
  flight or in the receive buffer, stale ones included, was told. `KnownFacts`
  turns the `CHOOSE` in `Known` into "the slot that holds the RNTI", by
  `UniqueRnti`; `OneEntry` shows that a step that changes one slot changes one
  entry. Each action then maps to `Tell`, `Learn`, `Forget` or a stutter.
- `TableHoldsWhatWasTold`: an invariant of `UeDirectory` that the table
  inherits.

`EpUeRepView_proofs` goes on from there, token by token.

- `CountAlwaysBounded`, if the buffer is not shared, from `CountInv`: the number
  returned is 0, or 1 and a slot is in use.
- `AllStoredAlways`: `Spec => []AllStored` for every buffer, if there is a slot
  for each RNTI: the property is about reports with zeros behind them.
  `StoredInv`: the UE of each token passed so
  far is in the table. It survives the next token because no report names an
  RNTI twice (`DistinctInv`, which goes back to the base station's array and
  through the reports in flight).
- `CompleteViewAlways`: `Spec => []CompleteView` and `[]SlotFound`, if the
  controller clears table and buffer and has as many slots as the base station
  has entries, however many RNTIs there are. `OnlyInv`: each UE in the table is
  that of a token passed; the slot for the next one exists because those
  passed are fewer than the slots (`SlotForNext`). `MCEpUeRep_stale` and
  `MCEpUeRep_churn` show that neither assumption can be dropped.

**The formatters.** `EpFormat_proofs` holds for every list of messages, all
sizes and any number of calls, under the assumptions of `EpFormat` (typing of
its constants; sizes are below `UintMod`).

- `TypeCorrect`: `Spec => []TypeOK`.
- `HeadersAreOfMessage`: `Spec => []HeadersOfMessage`. `HeadersInv` strengthens
  it with what is in the header at each stage of a call, and with the size to
  be returned being a size: an inner failure lowers it by one, which keeps it
  above -1 only because the headers were counted before.
- `LengthChangesOnSuccess` and `SeqAlwaysKept`, from the same invariants.
- `CheckedFits`: `Spec => []SuccessFits` if every loop of every message asks for
  at least what it writes (`AsksForIt`). `FitInv` says that `room` is what is
  left of the buffer; in particular the unsigned difference given to an inner
  call does not wrap around (`ModSmall`). The assumption is exactly what the
  messages of `MCEpFormat_unchecked` lack. Dropping results of callees does not
  break this property.
- `FormattersFit`: the assumption holds of all formatters of the library but
  the UE report and the replies of cell measurements and slices, for every
  number of cells, measurements and users.
- `FailsOnlyForRoom`, `SuccessIsWhole`, `WholePacketAlways`: if no check asks for
  more than what is written after it (`AsksNoMore`), a formatter fails only for
  want of room; what it returns is the size of the whole message, unless it
  drops what its body returned or its inner call had not the room
  (`WholeUnless`); and it puts that in the header, if the message has less than
  65536 bytes. `SumInv` says where in the message the formatter is: `pos` is the
  sum of the loops passed and of the turns made of this one (`At`).
- `FormattersFailForRoom`: no formatter of the library asks for more than it
  writes, but epf_schedule for the size of a header; `FailsForRoom` excepts
  messages of schedule events below 55 bytes, some of which fit and are
  refused. `FormattersFailOnlyShort`: the others never fail with room for their
  message. `FormattersWhole`: `WholePacket` for those that return what their
  callees say, with up to 2848 UEs in a report.

**Both ends of a message.** `EpMessages_proofs` has the sums over loops, the
sizes of tokens and the shapes of the parsers, and from them
`PacketsWellFormed`: formatters and parsers agree on where every part of a
message below 65536 bytes lies; a list of 32768 users or more, whose length is
cut to 16 bits, makes a longer one. For each family (`FixedPackets`,
`ArrayPackets`, `CellPackets`, `RefusalPackets`, `RanSetupPackets`,
`SlicePackets`) it shows that the bytes laid out are those of the fixed part
and of the tokens (`Agree`), and that this makes the message `WellFormed`.

**The parsers.** `EpParse_proofs` holds for every set of messages that are
`Shaped`, malformed ones included, any number of calls, any bytes behind a
message.

- `ParseTypeCorrect`: `Spec => []TypeOK`, which includes that no array of the
  caller's details is overrun, whatever the messages.
- `ParserImplementsDetails`: `Spec => ImplementsDetails`. The invariant is
  `LoopInv`: the fields of other parsers are as before the call (`Untouched`);
  of a well-formed message the loop has passed the first `k` tokens, or all of
  them, and each field holds what these say (`Along`, `FieldAt`); an array has
  more only from behind the message, and only where the headers are not taken
  off. `ReadOwn` shows that a cursor at one of the message's tokens reads this
  token and no other, `LeaveAtEnd` that the loop is not left before the last
  one, the one place where the `>=` of epp_ecap_rep and its unreduced size
  matter together.
- `CleanDetailsAlways`: `Spec => []CleanDetails`, which is about well-formed
  messages, from `FilledInv`: after a success the fields are as at the end of
  the loop. A caller that clears its details is safe from the divergence of
  `MCEpParse_slices`.

**The connection.** `EpStream_proofs` holds for any messages, sizes and
sequences of calls.

- `StreamTypeCorrect`: `StreamSpec => []StreamTypeOK`, also for messages too long
  for their length.
- `ShortInPlace` and `ShortTakesInOrder`: as long as no size returned reaches
  65536 (`Short`), `InPlace` holds and `Fifo!Init /\ [][Fifo!Next]_Fifo!vars` is
  implemented. `StreamInv` is the invariant: the messages on the wire follow
  each other without a gap and carry the headers of what was composed
  (`WireInv`), the front of the buffer is where the first message not yet taken
  starts, and what the receiver took it for is what it is (`PlaceInv`).
- When `Short` holds: `SmallBuffersInPlace` (buffers below 65536 bytes),
  `ShortMessagesInPlace` (messages below that: `ReturnInv` bounds what is
  returned by the whole message, also where results of callees are dropped or
  a failure is added) and `FormattersInPlace` (all formatters of the library).

**The debug log.** `EpDbg_proofs` holds for any number of threads; `fopen` may
fail at any call.

- `OutputThere`: `Spec => []HasOutput`. It is not inductive: a thread may set
  `ep_dbg_ready` while another has just overwritten the pointer with null.
  `OutputComing` says that then someone is between storing the pointer and the
  fallback.
- `CrashHasCause`: `Spec => []CrashExplained`, by `Given` (a null pointer past
  the test means that some `fopen` failed; a log that is ready and not on
  standard output, that one succeeded) and `Written` (the same of a thread
  about to write).
- `OutputStaysSame`: `Spec => OutputStays`, and `TypeCorrect`. The invariant,
  `IInv`, is proved one conjunct per lemma, one step per action.

**Only model-checked:** liveness (`ParseTerminates`, `ParseEnds`, the receipt
of every message in `ImplementsFifo`), which the prover does not reach.
`WholeDetails` and the other properties of the runs that expect a violation are
false of the code. That the messages of a peer which does not cut its lists are
`WellFormed` is evaluated by TLC for the one of `MCEpParse_details`.

## 6. What is not modelled

The cell capabilities messages, which are compiled out. `epp_head`, which reads
what the single accessors read, and the protocol version and identifiers, which
no property tells apart. Byte order, where it is applied consistently; where it
is not, `max_slices` is modelled and `flags`, which both sides leave as it is,
is read back as written on machines of one byte order only. The contents of
fields that are copied through. What a formatter reads behind the array of users,
and what a write to `ues[-1]` hits. Messages shorter than their headers as parsers
would see them: the receiver of `EpStream` never passes one on. What the log
prints. TCP, TLS, and the policies of agent and controller, which are not in
the repository. Memory touched by a call that fails: the models count the bytes
of messages.
