----------------------------- MODULE EpDbg_proofs -----------------------------
(***************************************************************************)
(* Theorems about the log of a debug build, for any number of threads.     *)
(***************************************************************************)
EXTENDS EpDbg, TLAPS

-----------------------------------------------------------------------------
(* The inductive invariant.                                                *)

\* A thread past the test has seen to it that there is an output: a file it
\* saw, or standard output, now or when the thread that found none has gone
\* on.
OutputComing ==
  (ready \/ \E t \in Threads : pc[t] = "set") /\ ~std /\ fd = Null
    => \E u \in Threads : pc[u] \in {"test", "fallback"}

\* What a thread stores is what fopen gave it, and what is stored was given.
Given ==
  /\ \A t \in Threads : pc[t] = "store" =>
       \/ file[t] = Null /\ failed # {}
       \/ file[t] \in Threads /\ opened # {}
  /\ fd # Null => opened # {}
  /\ (ready \/ \E t \in Threads : pc[t] \in {"test", "fallback", "set"})
       /\ fd = Null => failed # {}
  /\ (ready \/ \E t \in Threads : pc[t] = "set") /\ ~std => opened # {}

\* A thread that writes to a null pointer came early, or read the pointer
\* after another's attempt had failed.
Written ==
  \A t \in Threads : ~early[t] =>
    /\ pc[t] \in InLog => ready
    /\ pc[t] = "read" => opened # {}
    /\ pc[t] = "write" /\ file[t] = Null => opened # {} /\ failed # {}

\* A call that is not over has something to write.
ToWrite == \A t \in Threads : pc[t] # "idle" => pieces[t] > 0

IInv == /\ TypeOK /\ ToWrite
        /\ OutputComing /\ Given /\ Written
        /\ CrashExplained

-----------------------------------------------------------------------------
(* Each conjunct is kept by each step.                                     *)

(* Every step keeps the types. *)
LEMMA TypeStep ==
  ASSUME TypeOK, Given, ToWrite, [Next]_vars
  PROVE  TypeOK'
<1>. USE ThreadsAssumption DEF TypeOK, Given, ToWrite,
        At, Goto, globals, history, InInit, InLog
<1>1. ASSUME NEW t \in Threads, NEW n \in 2..MaxPieces, Dump(t, n)
      PROVE  TypeOK'
  BY <1>1 DEF Dump
<1>2. ASSUME NEW t \in Threads, Complain(t) PROVE TypeOK'
  BY <1>2 DEF Complain
<1>3. ASSUME NEW t \in Threads, Check(t) PROVE TypeOK'
  BY <1>3 DEF Check
<1>4. ASSUME NEW t \in Threads, Open(t) PROVE TypeOK'
  BY <1>4 DEF Open
<1>5. ASSUME NEW t \in Threads, Store(t) PROVE TypeOK'
  BY <1>5 DEF Store
<1>6. ASSUME NEW t \in Threads, Test(t) PROVE TypeOK'
  BY <1>6 DEF Test
<1>7. ASSUME NEW t \in Threads, Fallback(t) PROVE TypeOK'
  BY <1>7 DEF Fallback
<1>8. ASSUME NEW t \in Threads, SetReady(t) PROVE TypeOK'
  BY <1>8 DEF SetReady
<1>9. ASSUME NEW t \in Threads, ReadStd(t) PROVE TypeOK'
  BY <1>9 DEF ReadStd
<1>10. ASSUME NEW t \in Threads, ReadFd(t) PROVE TypeOK'
  BY <1>10 DEF ReadFd
<1>11. ASSUME NEW t \in Threads, Write(t) PROVE TypeOK'
  BY <1>11 DEF Write, Left
<1>12. ASSUME NEW t \in Threads, Crash(t) PROVE TypeOK'
  BY <1>12 DEF Crash
<1>13. CASE UNCHANGED vars
  BY <1>13 DEF vars
<1>. QED
  BY <1>1, <1>2, <1>3, <1>4, <1>5, <1>6, <1>7, <1>8, <1>9, <1>10, <1>11, <1>12, <1>13
     DEF Next, Run

(* A call goes on until nothing is left to write. *)
LEMMA ToWriteStep ==
  ASSUME TypeOK, ToWrite, [Next]_vars
  PROVE  ToWrite'
<1>. USE ThreadsAssumption DEF TypeOK, ToWrite,
        At, Goto, globals, history, InInit, InLog
<1>1. ASSUME NEW t \in Threads, NEW n \in 2..MaxPieces, Dump(t, n)
      PROVE  ToWrite'
  BY <1>1 DEF Dump
<1>2. ASSUME NEW t \in Threads, Complain(t) PROVE ToWrite'
  BY <1>2 DEF Complain
<1>3. ASSUME NEW t \in Threads, Check(t) PROVE ToWrite'
  BY <1>3 DEF Check
<1>4. ASSUME NEW t \in Threads, Open(t) PROVE ToWrite'
  BY <1>4 DEF Open
<1>5. ASSUME NEW t \in Threads, Store(t) PROVE ToWrite'
  BY <1>5 DEF Store
<1>6. ASSUME NEW t \in Threads, Test(t) PROVE ToWrite'
  BY <1>6 DEF Test
<1>7. ASSUME NEW t \in Threads, Fallback(t) PROVE ToWrite'
  BY <1>7 DEF Fallback
<1>8. ASSUME NEW t \in Threads, SetReady(t) PROVE ToWrite'
  BY <1>8 DEF SetReady
<1>9. ASSUME NEW t \in Threads, ReadStd(t) PROVE ToWrite'
  BY <1>9 DEF ReadStd
<1>10. ASSUME NEW t \in Threads, ReadFd(t) PROVE ToWrite'
  BY <1>10 DEF ReadFd
<1>11. ASSUME NEW t \in Threads, Write(t) PROVE ToWrite'
  BY <1>11 DEF Write, Left
<1>12. ASSUME NEW t \in Threads, Crash(t) PROVE ToWrite'
  BY <1>12 DEF Crash
<1>13. CASE UNCHANGED vars
  BY <1>13 DEF vars
<1>. QED
  BY <1>1, <1>2, <1>3, <1>4, <1>5, <1>6, <1>7, <1>8, <1>9, <1>10, <1>11, <1>12, <1>13
     DEF Next, Run

(* No step leaves the log without an output. *)
LEMMA ComingStep ==
  ASSUME TypeOK, OutputComing, [Next]_vars
  PROVE  OutputComing'
<1>. USE ThreadsAssumption DEF TypeOK, OutputComing,
        At, Goto, globals, history, InInit, InLog
<1>1. ASSUME NEW t \in Threads, NEW n \in 2..MaxPieces, Dump(t, n)
      PROVE  OutputComing'
  BY <1>1 DEF Dump
<1>2. ASSUME NEW t \in Threads, Complain(t) PROVE OutputComing'
  BY <1>2 DEF Complain
<1>3. ASSUME NEW t \in Threads, Check(t) PROVE OutputComing'
  BY <1>3 DEF Check
<1>4. ASSUME NEW t \in Threads, Open(t) PROVE OutputComing'
  BY <1>4 DEF Open
<1>5. ASSUME NEW t \in Threads, Store(t) PROVE OutputComing'
  BY <1>5 DEF Store
<1>6. ASSUME NEW t \in Threads, Test(t) PROVE OutputComing'
  BY <1>6 DEF Test
<1>7. ASSUME NEW t \in Threads, Fallback(t) PROVE OutputComing'
  BY <1>7 DEF Fallback
<1>8. ASSUME NEW t \in Threads, SetReady(t) PROVE OutputComing'
  BY <1>8 DEF SetReady
<1>9. ASSUME NEW t \in Threads, ReadStd(t) PROVE OutputComing'
  BY <1>9 DEF ReadStd
<1>10. ASSUME NEW t \in Threads, ReadFd(t) PROVE OutputComing'
  BY <1>10 DEF ReadFd
<1>11. ASSUME NEW t \in Threads, Write(t) PROVE OutputComing'
  BY <1>11 DEF Write, Left
<1>12. ASSUME NEW t \in Threads, Crash(t) PROVE OutputComing'
  BY <1>12 DEF Crash
<1>13. CASE UNCHANGED vars
  BY <1>13 DEF vars
<1>. QED
  BY <1>1, <1>2, <1>3, <1>4, <1>5, <1>6, <1>7, <1>8, <1>9, <1>10, <1>11, <1>12, <1>13
     DEF Next, Run

(* What the pointer says was given by fopen. *)
LEMMA GivenStep ==
  ASSUME TypeOK, Given, [Next]_vars
  PROVE  Given'
<1>. USE ThreadsAssumption DEF TypeOK, Given,
        At, Goto, globals, history, InInit, InLog
<1>1. ASSUME NEW t \in Threads, NEW n \in 2..MaxPieces, Dump(t, n)
      PROVE  Given'
  BY <1>1 DEF Dump
<1>2. ASSUME NEW t \in Threads, Complain(t) PROVE Given'
  BY <1>2 DEF Complain
<1>3. ASSUME NEW t \in Threads, Check(t) PROVE Given'
  BY <1>3 DEF Check
<1>4. ASSUME NEW t \in Threads, Open(t) PROVE Given'
  BY <1>4 DEF Open
<1>5. ASSUME NEW t \in Threads, Store(t) PROVE Given'
  BY <1>5 DEF Store
<1>6. ASSUME NEW t \in Threads, Test(t) PROVE Given'
  BY <1>6 DEF Test
<1>7. ASSUME NEW t \in Threads, Fallback(t) PROVE Given'
  BY <1>7 DEF Fallback
<1>8. ASSUME NEW t \in Threads, SetReady(t) PROVE Given'
  BY <1>8 DEF SetReady
<1>9. ASSUME NEW t \in Threads, ReadStd(t) PROVE Given'
  BY <1>9 DEF ReadStd
<1>10. ASSUME NEW t \in Threads, ReadFd(t) PROVE Given'
  BY <1>10 DEF ReadFd
<1>11. ASSUME NEW t \in Threads, Write(t) PROVE Given'
  BY <1>11 DEF Write, Left
<1>12. ASSUME NEW t \in Threads, Crash(t) PROVE Given'
  BY <1>12 DEF Crash
<1>13. CASE UNCHANGED vars
  BY <1>13 DEF vars
<1>. QED
  BY <1>1, <1>2, <1>3, <1>4, <1>5, <1>6, <1>7, <1>8, <1>9, <1>10, <1>11, <1>12, <1>13
     DEF Next, Run

(* A null pointer is written to for a reason. *)
LEMMA WrittenStep ==
  ASSUME TypeOK, Given, Written, [Next]_vars
  PROVE  Written'
<1>. USE ThreadsAssumption DEF TypeOK, Given, Written,
        At, Goto, globals, history, InInit, InLog
<1>1. ASSUME NEW t \in Threads, NEW n \in 2..MaxPieces, Dump(t, n)
      PROVE  Written'
  BY <1>1 DEF Dump
<1>2. ASSUME NEW t \in Threads, Complain(t) PROVE Written'
  BY <1>2 DEF Complain
<1>3. ASSUME NEW t \in Threads, Check(t) PROVE Written'
  BY <1>3 DEF Check
<1>4. ASSUME NEW t \in Threads, Open(t) PROVE Written'
  BY <1>4 DEF Open
<1>5. ASSUME NEW t \in Threads, Store(t) PROVE Written'
  BY <1>5 DEF Store
<1>6. ASSUME NEW t \in Threads, Test(t) PROVE Written'
  BY <1>6 DEF Test
<1>7. ASSUME NEW t \in Threads, Fallback(t) PROVE Written'
  BY <1>7 DEF Fallback
<1>8. ASSUME NEW t \in Threads, SetReady(t) PROVE Written'
  BY <1>8 DEF SetReady
<1>9. ASSUME NEW t \in Threads, ReadStd(t) PROVE Written'
  BY <1>9 DEF ReadStd
<1>10. ASSUME NEW t \in Threads, ReadFd(t) PROVE Written'
  BY <1>10 DEF ReadFd
<1>11. ASSUME NEW t \in Threads, Write(t) PROVE Written'
  BY <1>11 DEF Write, Left
<1>12. ASSUME NEW t \in Threads, Crash(t) PROVE Written'
  BY <1>12 DEF Crash
<1>13. CASE UNCHANGED vars
  BY <1>13 DEF vars
<1>. QED
  BY <1>1, <1>2, <1>3, <1>4, <1>5, <1>6, <1>7, <1>8, <1>9, <1>10, <1>11, <1>12, <1>13
     DEF Next, Run

(* A crash is explained. *)
LEMMA CrashStep ==
  ASSUME TypeOK, Written, CrashExplained, [Next]_vars
  PROVE  CrashExplained'
<1>. USE ThreadsAssumption DEF TypeOK, Written, CrashExplained,
        At, Goto, globals, history, InInit, InLog
<1>1. ASSUME NEW t \in Threads, NEW n \in 2..MaxPieces, Dump(t, n)
      PROVE  CrashExplained'
  BY <1>1 DEF Dump
<1>2. ASSUME NEW t \in Threads, Complain(t) PROVE CrashExplained'
  BY <1>2 DEF Complain
<1>3. ASSUME NEW t \in Threads, Check(t) PROVE CrashExplained'
  BY <1>3 DEF Check
<1>4. ASSUME NEW t \in Threads, Open(t) PROVE CrashExplained'
  BY <1>4 DEF Open
<1>5. ASSUME NEW t \in Threads, Store(t) PROVE CrashExplained'
  BY <1>5 DEF Store
<1>6. ASSUME NEW t \in Threads, Test(t) PROVE CrashExplained'
  BY <1>6 DEF Test
<1>7. ASSUME NEW t \in Threads, Fallback(t) PROVE CrashExplained'
  BY <1>7 DEF Fallback
<1>8. ASSUME NEW t \in Threads, SetReady(t) PROVE CrashExplained'
  BY <1>8 DEF SetReady
<1>9. ASSUME NEW t \in Threads, ReadStd(t) PROVE CrashExplained'
  BY <1>9 DEF ReadStd
<1>10. ASSUME NEW t \in Threads, ReadFd(t) PROVE CrashExplained'
  BY <1>10 DEF ReadFd
<1>11. ASSUME NEW t \in Threads, Write(t) PROVE CrashExplained'
  BY <1>11 DEF Write, Left
<1>12. ASSUME NEW t \in Threads, Crash(t) PROVE CrashExplained'
  BY <1>12 DEF Crash
<1>13. CASE UNCHANGED vars
  BY <1>13 DEF vars
<1>. QED
  BY <1>1, <1>2, <1>3, <1>4, <1>5, <1>6, <1>7, <1>8, <1>9, <1>10, <1>11, <1>12, <1>13
     DEF Next, Run

(* The invariant is inductive. *)
LEMMA Inductive == Spec => []IInv
<1>1. Init => IInv
  <2>. SUFFICES ASSUME Init PROVE IInv
    OBVIOUS
  <2>. USE DEF Init
  <2>1. TypeOK
    BY DEF TypeOK
  <2>2. ToWrite /\ OutputComing
    BY DEF ToWrite, OutputComing
  <2>3. Given
    BY DEF Given
  <2>4. Written /\ CrashExplained
    BY DEF Written, CrashExplained, InLog
  <2>. QED
    BY <2>1, <2>2, <2>3, <2>4 DEF IInv
<1>2. IInv /\ [Next]_vars => IInv'
  BY TypeStep, ToWriteStep, ComingStep, GivenStep, WrittenStep, CrashStep
     DEF IInv
<1>. QED
  BY <1>1, <1>2, PTL DEF Spec

-----------------------------------------------------------------------------
(* Every variable keeps its type: the pointer is one that fopen returned,  *)
(* and no call writes more pieces than it has.                             *)
THEOREM TypeCorrect == Spec => []TypeOK
<1>1. IInv => TypeOK
  BY DEF IInv
<1>. QED
  BY <1>1, Inductive, PTL

(* However many threads initialise the log at once (ep_dbg_init), there is *)
(* an output when they are through.                                        *)
THEOREM OutputThere == Spec => []HasOutput
<1>1. IInv => HasOutput
  BY DEF IInv, OutputComing, HasOutput, Settled, InInit
<1>. QED
  BY <1>1, Inductive, PTL

(* Once the log is ready and no thread is in ep_dbg_init, none enters it   *)
(* again: the file is not opened, and emptied, a second time.              *)
THEOREM OutputStaysSame == Spec => OutputStays
<1>1. ASSUME IInv, [Next]_vars, Settled
      PROVE  Settled' /\ UNCHANGED <<std, fd>>
  <2>. USE DEF Settled, InInit, InLog, At, Goto, globals, history
  <2>0. IInv => TypeOK
    BY DEF IInv
  <2>1. ASSUME NEW t \in Threads, NEW n \in 2..MaxPieces, Dump(t, n)
        PROVE  Settled' /\ UNCHANGED <<std, fd>>
    BY <1>1, <2>0, <2>1 DEF TypeOK, Dump
  <2>2. ASSUME NEW t \in Threads, Complain(t)
        PROVE  Settled' /\ UNCHANGED <<std, fd>>
    BY <1>1, <2>0, <2>2 DEF TypeOK, Complain
  <2>3. ASSUME NEW t \in Threads, Check(t)
        PROVE  Settled' /\ UNCHANGED <<std, fd>>
    BY <1>1, <2>0, <2>3 DEF TypeOK, Check
  <2>4. \A t \in Threads : ~(\/ Open(t) \/ Store(t) \/ Test(t)
                           \/ Fallback(t) \/ SetReady(t))
    BY <1>1 DEF Open, Store, Test, Fallback, SetReady
  <2>5. ASSUME NEW t \in Threads, ReadStd(t) \/ ReadFd(t) \/ Crash(t)
        PROVE  Settled' /\ UNCHANGED <<std, fd>>
    BY <1>1, <2>0, <2>5 DEF TypeOK, ReadStd, ReadFd, Crash
  <2>6. ASSUME NEW t \in Threads, Write(t)
        PROVE  Settled' /\ UNCHANGED <<std, fd>>
    BY <1>1, <2>0, <2>6 DEF TypeOK, Write
  <2>7. CASE UNCHANGED vars
    BY <1>1, <2>7 DEF vars
  <2>. QED
    BY <1>1, <2>1, <2>2, <2>3, <2>4, <2>5, <2>6, <2>7 DEF Next, Run
<1>. QED
  BY <1>1, Inductive, PTL DEF Spec, OutputStays

(* A write to a null pointer has one of two causes, both needed to be      *)
(* ruled out by whoever uses a debug build: a complaint before anything    *)
(* was dumped, or an fopen that failed for one thread and not for another. *)
THEOREM CrashHasCause == Spec => []CrashExplained
<1>1. IInv => CrashExplained
  BY DEF IInv
<1>. QED
  BY <1>1, Inductive, PTL
===============================================================================
