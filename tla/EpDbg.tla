-------------------------------- MODULE EpDbg --------------------------------
(***************************************************************************)
(* The log of a debug build (epdbg.c), as the threads of a process use it. *)
(* Every formatter and parser dumps what it has done with ep_dbg, which    *)
(* opens the log when it finds it is not ready, and tells of failures with *)
(* ep_dbg_log, which takes it to be open.  No lock protects the three      *)
(* global variables.  The debug build is not optimised (proto/Makefile):   *)
(* memory is read and written where the code says, in its order.           *)
(*                                                                         *)
(* A thread that writes through a null pointer ends the process.  A file   *)
(* is known by the thread that opened it: none opens two.                  *)
(***************************************************************************)
EXTENDS Integers

CONSTANTS Threads,    \* the threads of the process
          MaxPieces,  \* bound: calls of ep_dbg_log in one dump
          Null, Stdout

ASSUME ThreadsAssumption == Null \notin Threads /\ Stdout \notin Threads
                            /\ Null # Stdout
ASSUME PiecesAssumption  == MaxPieces \in Nat

VARIABLES ready,   \* ep_dbg_ready
          std,     \* ep_dbg_std
          fd,      \* ep_dbg_fd
          pc,      \* where a thread is; "idle": in none of these functions
          file,    \* the thread's `fd', or what fopen gave it
          pieces,  \* pieces its call still has to write
          early,   \* history: its call is to ep_dbg_log, and began before
                   \* the log was ready
          opened,  \* history: the threads fopen gave a file
          failed,  \* history: the threads fopen gave none
          crashed  \* threads that wrote to a null pointer
vars == <<ready, std, fd, pc, file, pieces, early, opened, failed, crashed>>
globals == <<ready, std, fd>>
history == <<early, opened, failed>>

InInit == {"open", "store", "test", "fallback", "set"}
InLog  == {"log", "read", "write"}

TypeOK == /\ ready \in BOOLEAN
          /\ std \in BOOLEAN
          /\ fd \in Threads \cup {Null}
          /\ pc \in [Threads -> {"idle", "check"} \cup InInit \cup InLog]
          /\ file \in [Threads -> Threads \cup {Null, Stdout}]
          /\ pieces \in [Threads -> Nat]
          /\ early \in [Threads -> BOOLEAN]
          /\ opened \subseteq Threads /\ failed \subseteq Threads
          /\ crashed \subseteq Threads

Init == /\ ready = FALSE /\ std = FALSE /\ fd = Null
        /\ pc = [t \in Threads |-> "idle"]
        /\ file = [t \in Threads |-> Null]
        /\ pieces = [t \in Threads |-> 0]
        /\ early = [t \in Threads |-> FALSE]
        /\ opened = {} /\ failed = {} /\ crashed = {}

Goto(t, where) == pc' = [pc EXCEPT ![t] = where]
At(t, where)   == crashed = {} /\ pc[t] = where

-----------------------------------------------------------------------------
(* The callers.                                                            *)

\* ep_dbg: a prologue, the bytes and an end of line.
Dump(t, n) == /\ At(t, "idle")
              /\ Goto(t, "check")
              /\ pieces' = [pieces EXCEPT ![t] = n]
              /\ early' = [early EXCEPT ![t] = FALSE]
              /\ UNCHANGED <<globals, file, opened, failed, crashed>>

\* ep_dbg_log, where a formatter or parser gives up.
Complain(t) == /\ At(t, "idle")
               /\ Goto(t, "log")
               /\ pieces' = [pieces EXCEPT ![t] = 1]
               /\ early' = [early EXCEPT ![t] = ~ready]
               /\ UNCHANGED <<globals, file, opened, failed, crashed>>

-----------------------------------------------------------------------------
(* ep_dbg and ep_dbg_init.                                                 *)

\* Mutant of Check: opens a file once more when there is none to write to.
CheckStd(t) == /\ At(t, "check")
               /\ Goto(t, IF ready /\ ~std THEN "log" ELSE "open")
               /\ UNCHANGED <<globals, file, pieces, history, crashed>>

Check(t) == /\ At(t, "check")
            /\ Goto(t, IF ready THEN "log" ELSE "open")
            /\ UNCHANGED <<globals, file, pieces, history, crashed>>

\* Mutant of Open: the log is marked as ready first.
OpenReady(t) == /\ At(t, "open")
                /\ \/ file' = [file EXCEPT ![t] = t]
                      /\ opened' = opened \cup {t} /\ UNCHANGED failed
                   \/ file' = [file EXCEPT ![t] = Null]
                      /\ failed' = failed \cup {t} /\ UNCHANGED opened
                /\ ready' = TRUE
                /\ Goto(t, "store")
                /\ UNCHANGED <<std, fd, pieces, early, crashed>>

\* fopen may find no file to give.
Open(t) == /\ At(t, "open")
           /\ \/ file' = [file EXCEPT ![t] = t]
                 /\ opened' = opened \cup {t} /\ UNCHANGED failed
              \/ file' = [file EXCEPT ![t] = Null]
                 /\ failed' = failed \cup {t} /\ UNCHANGED opened
           /\ Goto(t, "store")
           /\ UNCHANGED <<globals, pieces, early, crashed>>

Store(t) == /\ At(t, "store")
            /\ fd' = file[t]
            /\ Goto(t, "test")
            /\ UNCHANGED <<ready, std, file, pieces, history, crashed>>

\* Mutant of Test: no look at what fopen gave.
TestNot(t) == /\ At(t, "test")
              /\ Goto(t, "set")
              /\ UNCHANGED <<globals, file, pieces, history, crashed>>

\* The global pointer is looked at, which may be another thread's by now.
Test(t) == /\ At(t, "test")
           /\ Goto(t, IF fd = Null THEN "fallback" ELSE "set")
           /\ UNCHANGED <<globals, file, pieces, history, crashed>>

Fallback(t) == /\ At(t, "fallback")
               /\ std' = TRUE
               /\ Goto(t, "set")
               /\ UNCHANGED <<ready, fd, file, pieces, history, crashed>>

SetReady(t) == /\ At(t, "set")
               /\ ready' = TRUE
               /\ Goto(t, "log")
               /\ UNCHANGED <<std, fd, file, pieces, history, crashed>>

-----------------------------------------------------------------------------
(* ep_dbg_log.                                                             *)

ReadStd(t) == /\ At(t, "log")
              /\ IF std
                 THEN Goto(t, "write") /\ file' = [file EXCEPT ![t] = Stdout]
                 ELSE Goto(t, "read") /\ UNCHANGED file
              /\ UNCHANGED <<globals, pieces, history, crashed>>

ReadFd(t) == /\ At(t, "read")
             /\ file' = [file EXCEPT ![t] = fd]
             /\ Goto(t, "write")
             /\ UNCHANGED <<globals, pieces, history, crashed>>

\* Mutant of Left: the loop over the bytes makes one turn too many.
LeftBelow(t) == pieces[t] - 2

Left(t) == pieces[t] - 1

\* vfprintf and fflush; then the next piece, or the return.
Write(t) == /\ At(t, "write") /\ file[t] # Null
            /\ pieces' = [pieces EXCEPT ![t] = Left(t)]
            /\ Goto(t, IF pieces'[t] = 0 THEN "idle" ELSE "log")
            /\ UNCHANGED <<globals, file, history, crashed>>

Crash(t) == /\ At(t, "write") /\ file[t] = Null
            /\ crashed' = {t}
            /\ UNCHANGED <<globals, pc, file, pieces, history>>

Run(t) == \/ Check(t) \/ Open(t) \/ Store(t) \/ Test(t) \/ Fallback(t)
          \/ SetReady(t) \/ ReadStd(t) \/ ReadFd(t) \/ Write(t) \/ Crash(t)

Next == \E t \in Threads : \/ \E n \in 2..MaxPieces : Dump(t, n)
                           \/ Complain(t)
                           \/ Run(t)

Spec == Init /\ [][Next]_vars

-----------------------------------------------------------------------------
(* Properties.                                                             *)

\* The log is ready, and no thread is at work on it.
Settled == ready /\ \A t \in Threads : pc[t] \notin InInit

(* However many threads initialised the log at once, and with whatever     *)
(* luck, in the end there is an output: "tries first to open the standard  *)
(* FD; if it's not possible, it then dump everything on the standard       *)
(* output" (epdbg.c).                                                      *)
HasOutput == Settled => std \/ fd # Null

(* From then on the output is the same for good: no call of any thread     *)
(* opens the file once more, which would empty it.                         *)
OutputStays == [][Settled => Settled' /\ UNCHANGED <<std, fd>>]_vars

(* A process only dies of its log when it complains before anything was    *)
(* dumped, or when two threads initialised it at once and fopen had a file *)
(* for one but not for the other.                                          *)
CrashExplained ==
  \A t \in crashed : early[t] \/ (opened # {} /\ failed # {})
=============================================================================
