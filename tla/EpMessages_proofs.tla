--------------------------- MODULE EpMessages_proofs ---------------------------
(***************************************************************************)
(* Proofs about what the formatters lay out (EpMessages) and what the      *)
(* parsers look for (EpParsers): the sums over the parts of a message,     *)
(* which are defined by recursion, and that the two agree.                 *)
(***************************************************************************)
EXTENDS EpParsers, TLAPS, NatLemmas

-----------------------------------------------------------------------------
(* Sums.                                                                   *)

\* f is, on 0..n, the sum of the first values of g.
IsSum(f, g, n) == f = [i \in 0..n |-> IF i = 0 THEN 0 ELSE f[i - 1] + g[i]]

(* The recursion has a solution: there is no shortest beginning without    *)
(* one.                                                                    *)
LEMMA SumExists ==
  ASSUME NEW g, NEW n \in Nat
  PROVE  \E f : IsSum(f, g, n)
<1> DEFINE Bad == {m \in Nat : ~ \E f : IsSum(f, g, m)}
<1>1. SUFFICES ASSUME Bad # {} PROVE FALSE
  OBVIOUS
<1>2. PICK m \in Bad : \A h \in Bad : m <= h
  BY <1>1, LeastExists
<1>3. CASE m = 0
  <2> DEFINE f == [i \in 0..0 |-> 0]
  <2>1. IsSum(f, g, 0)
    BY DEF IsSum
  <2>2. QED
    BY <1>3, <2>1
<1>4. CASE m # 0
  <2>1. m \in Nat /\ m - 1 \in Nat
    BY <1>4
  <2>2. m - 1 \notin Bad
    BY <1>2, <2>1
  <2>3. PICK f : IsSum(f, g, m - 1)
    BY <2>1, <2>2
  <2> DEFINE s == [i \in 0..m |-> IF i = m THEN f[m - 1] + g[m] ELSE f[i]]
  <2>4. ASSUME NEW i \in 0..m
        PROVE  s[i] = IF i = 0 THEN 0 ELSE s[i - 1] + g[i]
    <3>1. CASE i = m
      <4>1. s[i] = f[m - 1] + g[m]
        BY <3>1
      <4>2. i - 1 \in 0..m /\ i - 1 # m /\ s[i - 1] = f[i - 1]
        BY <1>4, <2>1, <3>1
      <4>3. QED
        BY <1>4, <3>1, <4>1, <4>2
    <3>2. CASE i # m
      <4>1. i \in 0..(m - 1) /\ s[i] = f[i]
        BY <2>1, <3>2
      <4>2. f[i] = IF i = 0 THEN 0 ELSE f[i - 1] + g[i]
        BY <2>3, <4>1 DEF IsSum
      <4>3. i # 0 => i - 1 \in 0..m /\ i - 1 # m /\ s[i - 1] = f[i - 1]
        BY <2>1, <4>1
      <4>4. QED
        BY <4>1, <4>2, <4>3
    <3>3. QED
      BY <3>1, <3>2
  <2>5. s = [i \in 0..m |-> s[i]]
    OBVIOUS
  <2>6. IsSum(s, g, m)
    <3> HIDE DEF s
    <3> QED
      BY <2>4, <2>5 DEF IsSum
  <2>7. QED
    BY <2>6
<1>5. QED
  BY <1>3, <1>4

(* The recursion, and the type, of a sum.                                  *)
LEMMA SumSteps ==
  ASSUME NEW n \in Nat, NEW g \in [1..n -> Nat], NEW f, IsSum(f, g, n)
  PROVE  /\ f[0] = 0
         /\ \A i \in 1..n : f[i] = f[i - 1] + g[i]
         /\ \A i \in 0..n : f[i] \in Nat
<1> DEFINE Bad == {i \in 0..n : f[i] \notin Nat}
<1>1. f[0] = 0 /\ \A i \in 1..n : f[i] = f[i - 1] + g[i]
  BY DEF IsSum
<1>2. Bad = {}
  <2>1. SUFFICES ASSUME Bad # {} PROVE FALSE
    OBVIOUS
  <2>2. PICK i \in Bad : \A h \in Bad : i <= h
    <3>1. Bad \in SUBSET Nat
      OBVIOUS
    <3> HIDE DEF Bad
    <3>2. QED
      BY <2>1, <3>1, LeastExists
  <2>3. i \in 1..n
    BY <1>1, <2>2
  <2>4. i - 1 \in 0..n /\ i - 1 \notin Bad
    BY <2>2, <2>3
  <2>5. f[i - 1] \in Nat /\ g[i] \in Nat
    BY <2>3, <2>4
  <2>6. f[i] \in Nat
    BY <1>1, <2>3, <2>5
  <2>7. QED
    BY <2>2, <2>6
<1>3. QED
  BY <1>1, <1>2

(* The first values are not more than all.                                 *)
LEMMA SumGrows ==
  ASSUME NEW n \in Nat, NEW g \in [1..n -> Nat], NEW f, IsSum(f, g, n),
         NEW i \in 0..n
  PROVE  f[i] <= f[n]
<1> DEFINE Bad == {j \in i..n : ~(f[i] <= f[j])}
<1>1. /\ \A j \in 1..n : f[j] = f[j - 1] + g[j]
      /\ \A j \in 0..n : f[j] \in Nat
  BY SumSteps
<1>2. Bad = {}
  <2>1. SUFFICES ASSUME Bad # {} PROVE FALSE
    OBVIOUS
  <2>2. PICK j \in Bad : \A h \in Bad : j <= h
    <3>1. Bad \in SUBSET Nat
      OBVIOUS
    <3> HIDE DEF Bad
    <3>2. QED
      BY <2>1, <3>1, LeastExists
  <2>3. j # i /\ j \in 1..n /\ i \in Nat /\ i <= j
    BY <1>1, <2>2
  <2>4. j - 1 \in i..n /\ j - 1 \notin Bad
    BY <2>2, <2>3
  <2>5. g[j] \in Nat /\ f[i] \in Nat /\ f[j - 1] \in Nat /\ f[j] \in Nat
    BY <1>1, <2>3, <2>4
  <2>6. f[i] <= f[j - 1] /\ f[j] = f[j - 1] + g[j]
    BY <1>1, <2>3, <2>4
  <2>7. QED
    BY <2>2, <2>5, <2>6
<1>3. n \in i..n
  OBVIOUS
<1>4. QED
  BY <1>2, <1>3

\* t is the sum of e, which is g with h behind it, of which f and s are the
\* sums.
Joined(f, g, n, s, h, o, t, e, k) ==
  /\ n \in Nat /\ g \in [1..n -> Nat] /\ IsSum(f, g, n)
  /\ o \in Nat /\ h \in [1..o -> Nat] /\ IsSum(s, h, o)
  /\ k \in Nat /\ e \in [1..k -> Nat] /\ IsSum(t, e, k)
  /\ k = n + o
  /\ \A i \in 1..n : e[i] = g[i]
  /\ \A i \in 1..o : e[n + i] = h[i]

(* The sum of one sequence behind another.                                 *)
LEMMA SumConcat ==
  ASSUME NEW f, NEW g, NEW n, NEW s, NEW h, NEW o, NEW t, NEW e, NEW k,
         Joined(f, g, n, s, h, o, t, e, k)
  PROVE  t[k] = f[n] + s[o]
<1> USE DEF Joined
<1>1. /\ f[0] = 0 /\ \A i \in 1..n : f[i] = f[i - 1] + g[i]
      /\ \A i \in 0..n : f[i] \in Nat
  BY SumSteps
<1>2. /\ s[0] = 0 /\ \A i \in 1..o : s[i] = s[i - 1] + h[i]
      /\ \A i \in 0..o : s[i] \in Nat
  BY SumSteps
<1>3. /\ t[0] = 0 /\ \A i \in 1..(n + o) : t[i] = t[i - 1] + e[i]
      /\ \A i \in 0..(n + o) : t[i] \in Nat
  BY SumSteps
<1>4. t[n] = f[n]
  <2> DEFINE Bad == {i \in 0..n : t[i] # f[i]}
  <2>1. SUFFICES ASSUME Bad # {} PROVE FALSE
    <3>1. n \in 0..n
      OBVIOUS
    <3>2. QED
      BY <3>1
  <2>2. PICK i \in Bad : \A j \in Bad : i <= j
    <3>1. Bad \in SUBSET Nat
      OBVIOUS
    <3> HIDE DEF Bad
    <3>2. QED
      BY <2>1, <3>1, LeastExists
  <2>3. i \in 1..n /\ i \in 1..(n + o)
    BY <1>1, <1>3, <2>2
  <2>4. i - 1 \in 0..n /\ i - 1 \notin Bad
    BY <2>2, <2>3
  <2>5. t[i] = t[i - 1] + e[i] /\ f[i] = f[i - 1] + g[i] /\ e[i] = g[i]
    BY <1>1, <1>3, <2>3
  <2>6. QED
    BY <2>2, <2>4, <2>5
<1>5. t[n + o] = f[n] + s[o]
  <2> DEFINE Bad == {i \in 0..o : t[n + i] # f[n] + s[i]}
  <2>1. SUFFICES ASSUME Bad # {} PROVE FALSE
    <3>1. o \in 0..o
      OBVIOUS
    <3>2. QED
      BY <3>1
  <2>2. PICK i \in Bad : \A j \in Bad : i <= j
    <3>1. Bad \in SUBSET Nat
      OBVIOUS
    <3> HIDE DEF Bad
    <3>2. QED
      BY <2>1, <3>1, LeastExists
  <2>3. f[n] \in Nat
    BY <1>1
  <2>4. i # 0
    BY <1>2, <1>4, <2>2, <2>3
  <2>5. i \in 1..o /\ n + i \in 1..(n + o) /\ (n + i) - 1 = n + (i - 1)
    BY <2>2, <2>4
  <2>6. i - 1 \in 0..o /\ i - 1 \notin Bad
    BY <2>2, <2>5
  <2>7. t[n + i] = t[n + (i - 1)] + e[n + i] /\ e[n + i] = h[i]
    BY <1>3, <2>5
  <2>8. t[n + (i - 1)] = f[n] + s[i - 1]
    BY <2>6
  <2>9. s[i] = s[i - 1] + h[i] /\ s[i - 1] \in Nat /\ h[i] \in Nat
    BY <1>2, <2>5, <2>6
  <2>10. QED
    BY <2>2, <2>3, <2>7, <2>8, <2>9
<1>6. QED
  BY <1>5

LEMMA TimesGrows ==
  ASSUME NEW a \in Nat, NEW b \in Nat, NEW d \in Nat, a < b
  PROVE  a * d + d <= b * d /\ (a + 1) * d = a * d + d
<1>1. (a + 1) * d = a * d + d
  OBVIOUS
<1>2. b * d = (a + 1) * d + (b - (a + 1)) * d
  OBVIOUS
<1>3. (b - (a + 1)) * d \in Nat
  BY TimesNat
<1>4. (a + 1) * d \in Nat
  BY TimesNat
<1>5. QED
  BY <1>1, <1>2, <1>3, <1>4

(* The sum of n times the same.                                            *)
LEMMA SumSame ==
  ASSUME NEW n \in Nat, NEW g \in [1..n -> Nat], NEW f, IsSum(f, g, n),
         NEW d \in Nat, \A i \in 1..n : g[i] = d
  PROVE  f[n] = n * d
<1> DEFINE Bad == {i \in 0..n : f[i] # i * d}
<1>1. /\ f[0] = 0 /\ \A i \in 1..n : f[i] = f[i - 1] + d
      /\ \A i \in 0..n : f[i] \in Nat
  <2>1. \A i \in 1..n : f[i] = f[i - 1] + g[i]
    BY SumSteps
  <2>2. QED
    BY <2>1, SumSteps
<1>2. SUFFICES ASSUME Bad # {} PROVE FALSE
  <2>1. n \in 0..n
    OBVIOUS
  <2>2. QED
    BY <2>1
<1>3. PICK i \in Bad : \A j \in Bad : i <= j
  <2>1. Bad \in SUBSET Nat
    OBVIOUS
  <2> HIDE DEF Bad
  <2>2. QED
    BY <1>2, <2>1, LeastExists
<1>4. i # 0
  <2>1. 0 * d = 0
    OBVIOUS
  <2>2. QED
    BY <1>1, <1>3, <2>1
<1>5. i \in 1..n /\ i - 1 \in 0..n /\ i - 1 \in Nat /\ i - 1 \notin Bad
  BY <1>3, <1>4
<1>6. f[i - 1] = (i - 1) * d
  BY <1>5
<1>7. ((i - 1) + 1) * d = (i - 1) * d + d
  BY <1>5, TimesGrows
<1>8. (i - 1) + 1 = i
  BY <1>5
<1>9. f[i] = i * d
  BY <1>1, <1>5, <1>6, <1>7, <1>8
<1>10. QED
  BY <1>3, <1>9

-----------------------------------------------------------------------------
(* The bytes of loops.                                                     *)

LEMMA LoopsAreNat ==
  ASSUME NEW loops \in Seq(Loops), NEW i \in 1..Len(loops)
  PROVE  /\ loops[i].turns \in Nat
         /\ loops[i].need \in Nat
         /\ loops[i].put \in Nat
<1>1. loops[i] \in Loops
  OBVIOUS
<1>2. QED
  BY <1>1 DEF Loops

LoopBytes(loops) == [i \in 1..Len(loops) |-> loops[i].turns * loops[i].put]

LEMMA BytesAreSum ==
  ASSUME NEW loops \in Seq(Loops)
  PROVE  /\ Len(loops) \in Nat
         /\ LoopBytes(loops) \in [1..Len(loops) -> Nat]
         /\ IsSum(FirstBytes(loops), LoopBytes(loops), Len(loops))
<1> DEFINE n == Len(loops)
           IsIt(f) == f = [i \in 0..n |-> IF i = 0 THEN 0
                             ELSE f[i - 1] + loops[i].turns * loops[i].put]
<1>1. n \in Nat
  OBVIOUS
<1>2. ASSUME NEW i \in 1..n PROVE LoopBytes(loops)[i] \in Nat
  BY <1>2, LoopsAreNat, TimesNat DEF LoopBytes
<1>3. LoopBytes(loops) \in [1..n -> Nat]
  BY <1>2 DEF LoopBytes
<1>4. \A f : IsSum(f, LoopBytes(loops), n) <=> IsIt(f)
  <2>1. \A i \in 0..n : i # 0 =>
          LoopBytes(loops)[i] = loops[i].turns * loops[i].put
    BY <1>1 DEF LoopBytes
  <2>2. QED
    BY <2>1 DEF IsSum
<1>5. FirstBytes(loops) = CHOOSE f : IsIt(f)
  BY Zenon DEF FirstBytes
<1>6. \E f : IsIt(f)
  <2> HIDE DEF IsIt
  <2> QED
    BY <1>1, <1>4, SumExists
<1>7. IsIt(FirstBytes(loops))
  BY <1>5, <1>6, Zenon
<1>8. QED
  <2> HIDE DEF IsIt
  <2> QED
    BY <1>1, <1>3, <1>4, <1>7

(* The recursion, and the type, of the bytes.                              *)
LEMMA BytesSteps ==
  ASSUME NEW loops \in Seq(Loops)
  PROVE  /\ FirstBytes(loops)[0] = 0
         /\ \A i \in 1..Len(loops) :
              FirstBytes(loops)[i] = FirstBytes(loops)[i - 1]
                                     + loops[i].turns * loops[i].put
         /\ \A i \in 0..Len(loops) : FirstBytes(loops)[i] \in Nat
         /\ Bytes(loops) = FirstBytes(loops)[Len(loops)]
         /\ Bytes(loops) \in Nat
<1>1. Len(loops) \in Nat /\ Len(loops) \in 0..Len(loops)
  OBVIOUS
<1>2. /\ FirstBytes(loops)[0] = 0
      /\ \A i \in 1..Len(loops) :
           FirstBytes(loops)[i] = FirstBytes(loops)[i - 1] + LoopBytes(loops)[i]
      /\ \A i \in 0..Len(loops) : FirstBytes(loops)[i] \in Nat
  BY BytesAreSum, SumSteps
<1>3. \A i \in 1..Len(loops) :
        LoopBytes(loops)[i] = loops[i].turns * loops[i].put
  BY DEF LoopBytes
<1>4. QED
  BY <1>1, <1>2, <1>3 DEF Bytes

(* Whatever a loop writes next belongs to the whole.                       *)
LEMMA TurnWithin ==
  ASSUME NEW loops \in Seq(Loops), NEW i \in 1..Len(loops), NEW t \in Nat,
         t < loops[i].turns
  PROVE  FirstBytes(loops)[i - 1] + t * loops[i].put + loops[i].put
           <= Bytes(loops)
<1> DEFINE a == FirstBytes(loops)[i - 1]
           b == FirstBytes(loops)[i]
           d == loops[i].put
           u == loops[i].turns
<1>1. d \in Nat /\ u \in Nat
  BY LoopsAreNat
<1>2. a \in Nat /\ b \in Nat /\ Bytes(loops) \in Nat
  <2>1. i - 1 \in 0..Len(loops) /\ i \in 0..Len(loops)
    OBVIOUS
  <2>2. QED
    BY <2>1, BytesSteps
<1>3. b = a + u * d
  BY BytesSteps
<1>4. b <= Bytes(loops)
  <2>1. i \in 0..Len(loops)
    OBVIOUS
  <2>2. QED
    BY <2>1, BytesAreSum, SumGrows DEF Bytes
<1>5. t * d + d <= u * d /\ t * d \in Nat /\ u * d \in Nat
  BY <1>1, TimesGrows, TimesNat
<1> DEFINE x == t * d
           y == u * d
<1>6. a + x + d <= Bytes(loops)
  <2>1. b = a + y /\ x + d <= y /\ x \in Nat /\ y \in Nat
    BY <1>3, <1>5
  <2> HIDE DEF a, b, d, u, x, y
  <2>2. QED
    BY <1>1, <1>2, <1>4, <2>1
<1>7. QED
  BY <1>6

LEMMA BytesNone == <<>> \in Seq(Loops) /\ Bytes(<<>>) = 0
<1>1. <<>> \in Seq(Loops) /\ Len(<<>>) = 0
  OBVIOUS
<1>2. QED
  BY <1>1, BytesSteps

LEMMA BytesOne ==
  ASSUME NEW t \in Nat, NEW a \in Nat, NEW b \in Nat
  PROVE  /\ <<Loop(t, a, b)>> \in Seq(Loops)
         /\ Bytes(<<Loop(t, a, b)>>) = t * b
<1> DEFINE loops == <<Loop(t, a, b)>>
<1>1. loops \in Seq(Loops) /\ Len(loops) = 1 /\ loops[1] = Loop(t, a, b)
  BY DEF Loop, Loops
<1> HIDE DEF loops
<1>2. LoopBytes(loops)[1] = t * b /\ t * b \in Nat
  BY <1>1, TimesNat DEF LoopBytes, Loop
<1>3. \A i \in 1..Len(loops) : LoopBytes(loops)[i] = t * b
  BY <1>1, <1>2
<1> DEFINE d == t * b
           f == FirstBytes(loops)
           g == LoopBytes(loops)
           n == Len(loops)
<1>4. f[n] = n * d
  <2>1. g \in [1..n -> Nat] /\ IsSum(f, g, n) /\ n \in Nat
    BY <1>1, BytesAreSum
  <2>2. d \in Nat /\ \A i \in 1..n : g[i] = d
    BY <1>2, <1>3
  <2> HIDE DEF d, f, g, n
  <2>3. QED
    BY <2>1, <2>2, SumSame
<1>5. Bytes(loops) = t * b
  <2>1. Bytes(loops) = 1 * d /\ d \in Nat
    BY <1>1, <1>2, <1>4 DEF Bytes
  <2> HIDE DEF d
  <2>2. Bytes(loops) = d
    BY <2>1
  <2>3. QED
    BY <2>2 DEF d
<1>6. QED
  BY <1>1, <1>5 DEF loops

LEMMA BytesConcat ==
  ASSUME NEW a \in Seq(Loops), NEW b \in Seq(Loops)
  PROVE  a \o b \in Seq(Loops) /\ Bytes(a \o b) = Bytes(a) + Bytes(b)
<1>1. /\ a \o b \in Seq(Loops) /\ Len(a \o b) = Len(a) + Len(b)
      /\ Len(a) \in Nat /\ Len(b) \in Nat
      /\ \A i \in 1..Len(a) : (a \o b)[i] = a[i]
      /\ \A i \in 1..Len(b) : (a \o b)[Len(a) + i] = b[i]
  OBVIOUS
<1> DEFINE e == a \o b
<1>2. e \in Seq(Loops)
  BY <1>1
<1>3. \A i \in 1..Len(a) : i \in 1..Len(e) /\ e[i] = a[i]
  BY <1>1
<1>4. \A i \in 1..Len(b) : Len(a) + i \in 1..Len(e) /\ e[Len(a) + i] = b[i]
  BY <1>1
<1>5. Len(e) = Len(a) + Len(b)
  BY <1>1
<1> HIDE DEF e
<1>6. \A i \in 1..Len(a) : LoopBytes(e)[i] = LoopBytes(a)[i]
  BY <1>3 DEF LoopBytes
<1>7. \A i \in 1..Len(b) : LoopBytes(e)[Len(a) + i] = LoopBytes(b)[i]
  BY <1>4 DEF LoopBytes
<1> DEFINE n == Len(a)
           o == Len(b)
           k == Len(e)
           f == FirstBytes(a)
           g == LoopBytes(a)
           s == FirstBytes(b)
           h == LoopBytes(b)
           t == FirstBytes(e)
           d == LoopBytes(e)
<1>8. t[k] = f[n] + s[o]
  <2>1. n \in Nat /\ g \in [1..n -> Nat] /\ IsSum(f, g, n)
    BY BytesAreSum
  <2>2. o \in Nat /\ h \in [1..o -> Nat] /\ IsSum(s, h, o)
    BY BytesAreSum
  <2>3. k \in Nat /\ d \in [1..k -> Nat] /\ IsSum(t, d, k)
    BY <1>2, BytesAreSum
  <2>4. k = n + o
    BY <1>5
  <2>5. /\ \A i \in 1..n : d[i] = g[i]
        /\ \A i \in 1..o : d[n + i] = h[i]
    BY <1>6, <1>7
  <2> HIDE DEF n, o, k, f, g, s, h, t, d
  <2>6. Joined(f, g, n, s, h, o, t, d, k)
    BY <2>1, <2>2, <2>3, <2>4, <2>5 DEF Joined
  <2>7. QED
    BY <2>6, SumConcat
<1>9. QED
  BY <1>2, <1>5, <1>8 DEF Bytes, e

LEMMA BytesOfTwo ==
  \A t, b, u, d \in Nat : Bytes(Times(t, b) \o Times(u, d)) = t * b + u * d
<1> TAKE t, b, u, d \in Nat
<1>1. Times(t, b) \in Seq(Loops) /\ Bytes(Times(t, b)) = t * b
  BY BytesOne DEF Times
<1>2. Times(u, d) \in Seq(Loops) /\ Bytes(Times(u, d)) = u * d
  BY BytesOne DEF Times
<1>3. QED
  BY <1>1, <1>2, BytesConcat

-----------------------------------------------------------------------------
(* The bytes of tokens.                                                    *)

TokenSizes(toks) == [i \in 1..Len(toks) |-> SizeofTLV + toks[i].len]

LEMMA TokensAreNat ==
  ASSUME NEW toks \in Seq(Tokens), NEW i \in 1..Len(toks)
  PROVE  toks[i] \in Tokens /\ toks[i].len \in Nat
<1>1. toks[i] \in Tokens
  OBVIOUS
<1>2. QED
  BY <1>1 DEF Tokens

LEMMA TokenBytesAreSum ==
  ASSUME NEW toks \in Seq(Tokens)
  PROVE  /\ Len(toks) \in Nat
         /\ TokenSizes(toks) \in [1..Len(toks) -> Nat]
         /\ IsSum(FirstTokenBytes(toks), TokenSizes(toks), Len(toks))
<1> DEFINE n == Len(toks)
           IsIt(f) == f = [i \in 0..n |-> IF i = 0 THEN 0
                             ELSE f[i - 1] + (SizeofTLV + toks[i].len)]
<1>1. n \in Nat
  OBVIOUS
<1>2. ASSUME NEW i \in 1..n PROVE TokenSizes(toks)[i] \in Nat
  BY <1>2, TokensAreNat DEF TokenSizes, SizeofTLV
<1>3. TokenSizes(toks) \in [1..n -> Nat]
  BY <1>2 DEF TokenSizes
<1>4. \A f : IsSum(f, TokenSizes(toks), n) <=> IsIt(f)
  <2>1. \A i \in 0..n : i # 0 => TokenSizes(toks)[i] = SizeofTLV + toks[i].len
    BY <1>1 DEF TokenSizes
  <2>2. QED
    BY <2>1 DEF IsSum
<1>5. FirstTokenBytes(toks) = CHOOSE f : IsIt(f)
  BY Zenon DEF FirstTokenBytes
<1>6. \E f : IsIt(f)
  <2> HIDE DEF IsIt
  <2> QED
    BY <1>1, <1>4, SumExists
<1>7. IsIt(FirstTokenBytes(toks))
  BY <1>5, <1>6, Zenon
<1>8. QED
  <2> HIDE DEF IsIt
  <2> QED
    BY <1>1, <1>3, <1>4, <1>7

LEMMA TokenBytesSteps ==
  ASSUME NEW toks \in Seq(Tokens)
  PROVE  /\ FirstTokenBytes(toks)[0] = 0
         /\ \A i \in 1..Len(toks) :
              FirstTokenBytes(toks)[i] = FirstTokenBytes(toks)[i - 1]
                                         + (SizeofTLV + toks[i].len)
         /\ \A i \in 0..Len(toks) :
              /\ FirstTokenBytes(toks)[i] \in Nat
              /\ FirstTokenBytes(toks)[i] <= TokenBytes(toks)
         /\ TokenBytes(toks) = FirstTokenBytes(toks)[Len(toks)]
         /\ TokenBytes(toks) \in Nat
<1>1. Len(toks) \in Nat /\ Len(toks) \in 0..Len(toks)
  OBVIOUS
<1>2. /\ FirstTokenBytes(toks)[0] = 0
      /\ \A i \in 1..Len(toks) :
           FirstTokenBytes(toks)[i] = FirstTokenBytes(toks)[i - 1]
                                      + TokenSizes(toks)[i]
      /\ \A i \in 0..Len(toks) : FirstTokenBytes(toks)[i] \in Nat
  BY TokenBytesAreSum, SumSteps
<1>3. \A i \in 0..Len(toks) :
        FirstTokenBytes(toks)[i] <= FirstTokenBytes(toks)[Len(toks)]
  BY TokenBytesAreSum, SumGrows
<1>4. \A i \in 1..Len(toks) : TokenSizes(toks)[i] = SizeofTLV + toks[i].len
  BY DEF TokenSizes
<1>5. QED
  BY <1>1, <1>2, <1>3, <1>4 DEF TokenBytes

LEMMA TokensNone == <<>> \in Seq(Tokens) /\ TokenBytes(<<>>) = 0
<1>1. <<>> \in Seq(Tokens) /\ Len(<<>>) = 0
  OBVIOUS
<1>2. QED
  BY <1>1, TokenBytesSteps

LEMMA TokensSame ==
  ASSUME NEW n \in Nat, NEW t \in Tokens
  PROVE  /\ Repeat(n, t) \in Seq(Tokens) /\ Len(Repeat(n, t)) = n
         /\ \A i \in 1..n : Repeat(n, t)[i] = t
         /\ TokenBytes(Repeat(n, t)) = n * (SizeofTLV + t.len)
<1> DEFINE s == Repeat(n, t)
           d == SizeofTLV + t.len
<1>1. s \in Seq(Tokens) /\ Len(s) = n /\ \A i \in 1..n : s[i] = t
  BY DEF Repeat
<1> HIDE DEF s
<1>2. d \in Nat
  BY DEF Tokens, SizeofTLV
<1>3. \A i \in 1..n : TokenSizes(s)[i] = d
  BY <1>1 DEF TokenSizes
<1> HIDE DEF d
<1>4. FirstTokenBytes(s)[n] = n * d
  BY <1>1, <1>2, <1>3, TokenBytesAreSum, SumSame
<1>5. TokenBytes(s) = n * d
  BY <1>1, <1>4 DEF TokenBytes
<1>6. QED
  BY <1>1, <1>5 DEF s, d

LEMMA TokensConcat ==
  ASSUME NEW a \in Seq(Tokens), NEW b \in Seq(Tokens)
  PROVE  /\ a \o b \in Seq(Tokens) /\ Len(a \o b) = Len(a) + Len(b)
         /\ \A i \in 1..Len(a) : (a \o b)[i] = a[i]
         /\ \A i \in 1..Len(b) : (a \o b)[Len(a) + i] = b[i]
         /\ TokenBytes(a \o b) = TokenBytes(a) + TokenBytes(b)
<1>1. /\ a \o b \in Seq(Tokens) /\ Len(a \o b) = Len(a) + Len(b)
      /\ Len(a) \in Nat /\ Len(b) \in Nat
      /\ \A i \in 1..Len(a) : (a \o b)[i] = a[i]
      /\ \A i \in 1..Len(b) : (a \o b)[Len(a) + i] = b[i]
  OBVIOUS
<1> DEFINE e == a \o b
<1>2. e \in Seq(Tokens)
  BY <1>1
<1>3. \A i \in 1..Len(a) : i \in 1..Len(e) /\ e[i] = a[i]
  BY <1>1
<1>4. \A i \in 1..Len(b) : Len(a) + i \in 1..Len(e) /\ e[Len(a) + i] = b[i]
  BY <1>1
<1>5. Len(e) = Len(a) + Len(b)
  BY <1>1
<1> HIDE DEF e
<1>6. \A i \in 1..Len(a) : TokenSizes(e)[i] = TokenSizes(a)[i]
  BY <1>3 DEF TokenSizes
<1>7. \A i \in 1..Len(b) : TokenSizes(e)[Len(a) + i] = TokenSizes(b)[i]
  BY <1>4 DEF TokenSizes
<1> DEFINE n == Len(a)
           o == Len(b)
           k == Len(e)
           f == FirstTokenBytes(a)
           g == TokenSizes(a)
           s == FirstTokenBytes(b)
           h == TokenSizes(b)
           t == FirstTokenBytes(e)
           d == TokenSizes(e)
<1>8. t[k] = f[n] + s[o]
  <2>1. n \in Nat /\ g \in [1..n -> Nat] /\ IsSum(f, g, n)
    BY TokenBytesAreSum
  <2>2. o \in Nat /\ h \in [1..o -> Nat] /\ IsSum(s, h, o)
    BY TokenBytesAreSum
  <2>3. k \in Nat /\ d \in [1..k -> Nat] /\ IsSum(t, d, k)
    BY <1>2, TokenBytesAreSum
  <2>4. k = n + o
    BY <1>5
  <2>5. /\ \A i \in 1..n : d[i] = g[i]
        /\ \A i \in 1..o : d[n + i] = h[i]
    BY <1>6, <1>7
  <2> HIDE DEF n, o, k, f, g, s, h, t, d
  <2>6. Joined(f, g, n, s, h, o, t, d, k)
    BY <2>1, <2>2, <2>3, <2>4, <2>5 DEF Joined
  <2>7. QED
    BY <2>6, SumConcat
<1>9. TokenBytes(e) = TokenBytes(a) + TokenBytes(b)
  BY <1>5, <1>8 DEF TokenBytes
<1>10. QED
  BY <1>1, <1>9 DEF e

LEMMA TokensOne ==
  ASSUME NEW t \in Tokens
  PROVE  /\ <<t>> \in Seq(Tokens) /\ Len(<<t>>) = 1 /\ <<t>>[1] = t
         /\ TokenBytes(<<t>>) = SizeofTLV + t.len
<1> DEFINE s == <<t>>
<1>1. s \in Seq(Tokens) /\ Len(s) = 1 /\ s[1] = t
  OBVIOUS
<1> HIDE DEF s
<1>2. /\ FirstTokenBytes(s)[1] = FirstTokenBytes(s)[1 - 1]
                                 + (SizeofTLV + s[1].len)
      /\ FirstTokenBytes(s)[0] = 0
      /\ TokenBytes(s) = FirstTokenBytes(s)[1]
  <2>1. 1 \in 1..Len(s)
    BY <1>1
  <2>2. QED
    BY <1>1, <2>1, TokenBytesSteps
<1>3. SizeofTLV + s[1].len \in Nat
  BY <1>1 DEF Tokens, SizeofTLV
<1>4. TokenBytes(s) = SizeofTLV + s[1].len
  BY <1>2, <1>3
<1>5. QED
  BY <1>1, <1>4 DEF s

-----------------------------------------------------------------------------
(* The parsers.                                                            *)

Bodies == [skip : Nat, taken : Nat, fixed : Nat, keeps : SUBSET FixedParts,
           walks : BOOLEAN, takes : SUBSET TokenTypes, closed : BOOLEAN,
           clears : SUBSET TokenTypes,
           null : {"error", "nothing", "at once", "with a token", "none"}]

\* A parser, part by part.
Is(q, skip, taken, fixed, keeps, walks, takes, closed, clears) ==
  /\ q \in Bodies
  /\ q.skip = skip /\ q.taken = taken /\ q.fixed = fixed /\ q.keeps = keeps
  /\ q.walks = walks /\ q.takes = takes /\ q.closed = closed
  /\ q.clears = clears

LEMMA HeadersSkipped ==
  ASSUME NEW q, NEW n \in Nat, NEW fixed, NEW keeps, NEW walks, NEW takes,
         NEW closed, NEW clears,
         Is(q, 0, 0, fixed, keeps, walks, takes, closed, clears)
  PROVE  /\ Is(Behind(n, q), n, n, fixed, keeps, walks, takes, closed, clears)
         /\ Is(Unreduced(n, q), n, 0, fixed, keeps, walks, takes, closed,
               clears)
<1>1. Is(Behind(n, q), n, n, fixed, keeps, walks, takes, closed, clears)
  BY DEF Is, Behind, Bodies
<1>2. Is(Unreduced(n, q), n, 0, fixed, keeps, walks, takes, closed, clears)
  BY DEF Is, Unreduced, Bodies
<1>3. QED
  BY <1>1, <1>2

LEMMA NoBodyIs == Is(NoBody, 0, 0, 0, {}, FALSE, {}, FALSE, {})
BY DEF NoBody, Is, Bodies

LEMMA FixedIs ==
  ASSUME NEW n \in Nat, NEW f \in FixedParts
  PROVE  Is(FixedBody(n, f), 0, 0, n, {f}, FALSE, {}, FALSE, {})
BY NoBodyIs DEF FixedBody, Is, Bodies

LEMMA WalksIs ==
  ASSUME NEW t \in SUBSET TokenTypes
  PROVE  Is(Cleared(t), 0, 0, 0, {}, TRUE, t, FALSE, t)
BY NoBodyIs DEF Cleared, Is, Bodies

LEMMA OthersAre ==
  /\ Is(epp_uerep_req, 0, 0, 1, {}, FALSE, {}, FALSE, {})
  /\ Is(epp_ecap_rep, 0, 0, 0, {}, TRUE, epp_ecap_single_TLV, TRUE,
        epp_ecap_single_TLV)
  /\ Is(epp_cell_meas_req, 0, 0, 0, {}, TRUE, {}, FALSE, {})
  /\ Is(epp_ran_eup, 0, 0, 12, {"masks"}, TRUE, epp_ran_eup_TLV, FALSE, {})
  /\ Is(SliceBody, 0, 0, 8, {"slice"}, TRUE, epp_ran_TLV, FALSE, {})
<1>1. Is(epp_uerep_req, 0, 0, 1, {}, FALSE, {}, FALSE, {})
  BY NoBodyIs DEF epp_uerep_req, SizeofUeRepReq, Is, Bodies
<1>2. Is(epp_ecap_rep, 0, 0, 0, {}, TRUE, epp_ecap_single_TLV, TRUE,
         epp_ecap_single_TLV)
  <2>1. epp_ecap_single_TLV \in SUBSET TokenTypes
    BY DEF epp_ecap_single_TLV, TokenTypes
  <2>2. QED
    BY <2>1, NoBodyIs DEF epp_ecap_rep, Is, Bodies
<1>3. Is(epp_cell_meas_req, 0, 0, 0, {}, TRUE, {}, FALSE, {})
  BY NoBodyIs DEF epp_cell_meas_req, Is, Bodies
<1>4. Is(epp_ran_eup, 0, 0, 12, {"masks"}, TRUE, epp_ran_eup_TLV, FALSE, {})
  <2>1. epp_ran_eup_TLV \in SUBSET TokenTypes
    BY DEF epp_ran_eup_TLV, TokenTypes
  <2>2. Is(FixedBody(12, "masks"), 0, 0, 12, {"masks"}, FALSE, {}, FALSE, {})
    BY FixedIs DEF FixedParts
  <2>3. QED
    BY <2>1, <2>2 DEF epp_ran_eup, SizeofRanSetup, Is, Bodies
<1>5. Is(SliceBody, 0, 0, 8, {"slice"}, TRUE, epp_ran_TLV, FALSE, {})
  <2>1. epp_ran_TLV \in SUBSET TokenTypes
    BY DEF epp_ran_TLV, TokenTypes
  <2>2. Is(FixedBody(8, "slice"), 0, 0, 8, {"slice"}, FALSE, {}, FALSE, {})
    BY FixedIs DEF FixedParts
  <2>3. QED
    BY <2>1, <2>2 DEF SliceBody, SizeofSliceInf, Is, Bodies
<1>6. QED
  BY <1>1, <1>2, <1>3, <1>4, <1>5

\* What the agreement of a formatter with a parser depends on.
Reads(q, skip, taken, fixed, keeps, walks) ==
  /\ Parser(q)
  /\ q.skip = skip /\ q.taken = taken /\ q.fixed = fixed
  /\ q.keeps = keeps /\ q.walks = walks

LEMMA IsReads ==
  ASSUME NEW q, NEW skip, NEW taken \in {0, skip}, NEW fixed, NEW keeps,
         Is(q, skip, taken, fixed, keeps, FALSE, {}, FALSE, {})
  PROVE  Reads(q, skip, taken, fixed, keeps, FALSE)
BY DEF Is, Reads, Parser, Bodies

\* The arrays among the tokens taken are counted from zero.
Counted(takes, clears) ==
  clears \subseteq takes /\ \A f \in takes : Limit(f) > 1 => f \in clears

LEMMA IsWalk ==
  ASSUME NEW q, NEW skip, NEW fixed, NEW keeps, NEW takes, NEW clears,
         Is(q, skip, skip, fixed, keeps, TRUE, takes, FALSE, clears),
         Counted(takes, clears)
  PROVE  Reads(q, skip, skip, fixed, keeps, TRUE)
BY DEF Is, Reads, Parser, Bodies, Counted

LEMMA FixedReads ==
  ASSUME NEW n \in Nat, NEW skip \in Nat, NEW f \in FixedParts
  PROVE  /\ Reads(Behind(skip, FixedBody(n, f)), skip, skip, n, {f}, FALSE)
         /\ Reads(Unreduced(skip, FixedBody(n, f)), skip, 0, n, {f}, FALSE)
<1>1. Is(FixedBody(n, f), 0, 0, n, {f}, FALSE, {}, FALSE, {})
  BY FixedIs
<1>2. /\ Is(Behind(skip, FixedBody(n, f)), skip, skip, n, {f}, FALSE, {},
            FALSE, {})
      /\ Is(Unreduced(skip, FixedBody(n, f)), skip, 0, n, {f}, FALSE, {},
            FALSE, {})
  BY <1>1, HeadersSkipped
<1>3. QED
  BY <1>2, IsReads

LEMMA FixedParsers ==
  /\ Reads(epp_single_hello_req, 27, 0, 4, {"hello"}, FALSE)
  /\ Reads(epp_single_hello_rep, 27, 0, 4, {"hello"}, FALSE)
  /\ Reads(epp_sched_hello_req, 31, 0, 4, {"hello"}, FALSE)
  /\ Reads(epp_sched_hello_rep, 31, 0, 4, {"hello"}, FALSE)
  /\ Reads(epp_single_ho_req, 27, 0, 13, {"handover"}, FALSE)
  /\ Reads(epp_single_ho_rep, 27, 0, 14, {"handover"}, FALSE)
  /\ Reads(epp_single_ran_slice_req, 27, 27, 8, {"slice"}, FALSE)
  /\ Reads(epp_single_ran_slice_rem, 27, 27, 8, {"slice"}, FALSE)
  /\ Reads(epp_trigger_uerep_req, 0, 0, 1, {}, FALSE)
  /\ Reads(epp_single_ecap_req, 27, 0, 0, {}, FALSE)
  /\ Reads(epp_single_ran_setup_req, 27, 27, 0, {}, FALSE)
<1>1. /\ SingleSkip = 27 /\ ScheduleSkip = 31
      /\ {"hello", "handover", "slice"} \subseteq FixedParts
  BY DEF SingleSkip, ScheduleSkip, SizeofHdr, SizeofSingle, SizeofSchedule,
         FixedParts
<1>2. /\ Reads(epp_single_hello_req, 27, 0, 4, {"hello"}, FALSE)
      /\ Reads(epp_single_hello_rep, 27, 0, 4, {"hello"}, FALSE)
      /\ Reads(epp_sched_hello_req, 31, 0, 4, {"hello"}, FALSE)
      /\ Reads(epp_sched_hello_rep, 31, 0, 4, {"hello"}, FALSE)
  BY <1>1, FixedReads
     DEF epp_single_hello_req, epp_single_hello_rep, epp_sched_hello_req,
         epp_sched_hello_rep, epp_hello_req, epp_hello_rep, SizeofHello
<1>3. /\ Reads(epp_single_ho_req, 27, 0, 13, {"handover"}, FALSE)
      /\ Reads(epp_single_ho_rep, 27, 0, 14, {"handover"}, FALSE)
  BY <1>1, FixedReads
     DEF epp_single_ho_req, epp_single_ho_rep, epp_ho_req, epp_ho_rep,
         SizeofHoReq, SizeofHoRep
<1>4. /\ Reads(epp_single_ran_slice_req, 27, 27, 8, {"slice"}, FALSE)
      /\ Reads(epp_single_ran_slice_rem, 27, 27, 8, {"slice"}, FALSE)
  BY <1>1, FixedReads
     DEF epp_single_ran_slice_req, epp_single_ran_slice_rem, epp_ran_suq,
         epp_ran_srq, SizeofSliceInf
<1>5. Reads(epp_trigger_uerep_req, 0, 0, 1, {}, FALSE)
  <2>1. Is(epp_trigger_uerep_req, 0, 0, 1, {}, FALSE, {}, FALSE, {})
    BY OthersAre, HeadersSkipped DEF epp_trigger_uerep_req
  <2>2. QED
    BY <2>1, IsReads
<1>6. Reads(epp_single_ecap_req, 27, 0, 0, {}, FALSE)
  <2>1. Is(epp_single_ecap_req, 27, 0, 0, {}, FALSE, {}, FALSE, {})
    BY <1>1, NoBodyIs, HeadersSkipped DEF epp_single_ecap_req, epp_ecap_req
  <2>2. QED
    BY <2>1, IsReads
<1>7. Reads(epp_single_ran_setup_req, 27, 27, 0, {}, FALSE)
  <2>1. Is(epp_single_ran_setup_req, 27, 27, 0, {}, FALSE, {}, FALSE, {})
    BY <1>1, NoBodyIs, HeadersSkipped DEF epp_single_ran_setup_req, epp_ran_euq
  <2>2. QED
    BY <2>1, IsReads
<1>8. QED
  BY <1>2, <1>3, <1>4, <1>5, <1>6, <1>7

LEMMA ArrayParsers ==
  /\ Reads(epp_single_ecap_rep, 27, 0, 0, {}, TRUE)
  /\ Reads(epp_trigger_uemeas_rep, 27, 27, 0, {}, TRUE)
  /\ Reads(epp_trigger_uemeas_req, 27, 27, 0, {}, TRUE)
  /\ Reads(epp_sched_cell_meas_rep, 31, 31, 0, {}, TRUE)
  /\ Reads(epp_trigger_cell_meas_rep, 27, 27, 0, {}, TRUE)
<1>1. /\ SingleSkip = 27 /\ TriggerSkip = 27 /\ ScheduleSkip = 31
  BY DEF SingleSkip, TriggerSkip, ScheduleSkip, SizeofHdr, SizeofSingle,
         SizeofTrigger, SizeofSchedule
<1>2. Reads(epp_single_ecap_rep, 27, 0, 0, {}, TRUE)
  <2>1. Is(epp_single_ecap_rep, 27, 0, 0, {}, TRUE, epp_ecap_single_TLV, TRUE,
           epp_ecap_single_TLV)
    BY <1>1, OthersAre, HeadersSkipped DEF epp_single_ecap_rep
  <2>2. \A f \in epp_ecap_single_TLV : Limit(f) > 1
    BY DEF epp_ecap_single_TLV, Limit, EP_ECAP_CELL_MAX
  <2> DEFINE q == epp_single_ecap_rep
             t == epp_ecap_single_TLV
  <2>3. /\ q \in Bodies /\ q.skip = 27 /\ q.taken = 0 /\ q.fixed = 0
        /\ q.keeps = {} /\ q.walks = TRUE /\ q.takes = t /\ q.clears = t
    BY <2>1 DEF Is
  <2> HIDE DEF q, t
  <2>4. Parser(q)
    <3>1. \A f \in t : Limit(f) > 1
      BY <2>2 DEF t
    <3>2. q \in [skip : Nat, taken : Nat, fixed : Nat, keeps : SUBSET FixedParts,
            walks : BOOLEAN, takes : SUBSET TokenTypes, closed : BOOLEAN,
            clears : SUBSET TokenTypes,
            null : {"error", "nothing", "at once", "with a token", "none"}]
      BY <2>3 DEF Bodies
    <3>3. /\ q.taken \in {0, q.skip} /\ q.clears \subseteq q.takes
          /\ (q.takes # {} => q.walks)
          /\ (q.closed => q.taken # q.skip)
      BY <2>3
    <3>4. \A f \in q.takes : Limit(f) > 1 => f \in q.clears
      BY <2>3
    <3>5. q.walks /\ q.taken # q.skip => \A f \in q.takes : Limit(f) > 1
      BY <2>3, <3>1
    <3>6. QED
      BY <3>2, <3>3, <3>4, <3>5 DEF Parser
  <2>5. QED
    BY <2>3, <2>4 DEF Reads, q
<1>3. ASSUME NEW t \in SUBSET TokenTypes, NEW n \in Nat
      PROVE  Reads(Behind(n, Cleared(t)), n, n, 0, {}, TRUE)
  <2>1. Is(Behind(n, Cleared(t)), n, n, 0, {}, TRUE, t, FALSE, t)
    BY WalksIs, HeadersSkipped
  <2>2. Counted(t, t)
    BY DEF Counted
  <2>3. QED
    BY <2>1, <2>2, IsWalk
<1>4. /\ epp_uemeas_rep_TLV \in SUBSET TokenTypes
      /\ epp_uemeas_req_TLV \in SUBSET TokenTypes
      /\ epp_cell_meas_rep_TLV \in SUBSET TokenTypes
  BY DEF epp_uemeas_rep_TLV, epp_uemeas_req_TLV, epp_cell_meas_rep_TLV,
         TokenTypes
<1>5. /\ Reads(epp_trigger_uemeas_rep, 27, 27, 0, {}, TRUE)
      /\ Reads(epp_trigger_uemeas_req, 27, 27, 0, {}, TRUE)
      /\ Reads(epp_sched_cell_meas_rep, 31, 31, 0, {}, TRUE)
      /\ Reads(epp_trigger_cell_meas_rep, 27, 27, 0, {}, TRUE)
  BY <1>1, <1>3, <1>4
     DEF epp_trigger_uemeas_rep, epp_trigger_uemeas_req,
         epp_sched_cell_meas_rep, epp_trigger_cell_meas_rep, epp_uemeas_rep,
         epp_uemeas_req, epp_cell_meas_rep
<1>6. QED
  BY <1>2, <1>5

LEMMA WalkingParsers ==
  /\ Reads(epp_trigger_cell_meas_req, 27, 27, 0, {}, TRUE)
  /\ Reads(epp_sched_cell_meas_req, 31, 31, 0, {"interval"}, TRUE)
  /\ Reads(epp_single_ran_setup_rep, 27, 27, 12, {"masks"}, TRUE)
  /\ Reads(epp_single_ran_slice_rep, 27, 27, 8, {"slice"}, TRUE)
  /\ Reads(epp_single_ran_slice_add, 27, 27, 8, {"slice"}, TRUE)
  /\ Reads(epp_single_ran_slice_set, 27, 27, 8, {"slice"}, TRUE)
<1>1. SingleSkip = 27 /\ TriggerSkip = 27 /\ ScheduleSkip = 31
  BY DEF SingleSkip, TriggerSkip, ScheduleSkip, SizeofHdr, SizeofSingle,
         SizeofTrigger, SizeofSchedule
<1>2. Is(epp_trigger_cell_meas_req, 27, 27, 0, {}, TRUE, {}, FALSE, {})
  BY <1>1, OthersAre, HeadersSkipped DEF epp_trigger_cell_meas_req
<1>3. Is(epp_sched_cell_meas_req, 31, 31, 0, {"interval"}, TRUE, {}, FALSE, {})
  <2>1. Is(Behind(31, epp_cell_meas_req), 31, 31, 0, {}, TRUE, {}, FALSE, {})
    BY OthersAre, HeadersSkipped
  <2>2. "interval" \in FixedParts
    BY DEF FixedParts
  <2>3. QED
    BY <1>1, <2>1, <2>2 DEF epp_sched_cell_meas_req, Is, Bodies
<1>4. Is(epp_single_ran_setup_rep, 27, 27, 12, {"masks"}, TRUE,
         epp_ran_eup_TLV, FALSE, {})
  BY <1>1, OthersAre, HeadersSkipped DEF epp_single_ran_setup_rep
<1>5. Is(Behind(27, SliceBody), 27, 27, 8, {"slice"}, TRUE, epp_ran_TLV,
         FALSE, {})
  BY OthersAre, HeadersSkipped
<1>6. Counted({}, {}) /\ Counted(epp_ran_eup_TLV, {}) /\ Counted(epp_ran_TLV, {})
  BY DEF epp_ran_eup_TLV, epp_ran_TLV, Limit, Counted
<1>7. /\ Reads(epp_trigger_cell_meas_req, 27, 27, 0, {}, TRUE)
      /\ Reads(epp_sched_cell_meas_req, 31, 31, 0, {"interval"}, TRUE)
      /\ Reads(epp_single_ran_setup_rep, 27, 27, 12, {"masks"}, TRUE)
  BY <1>2, <1>3, <1>4, <1>6, IsWalk
<1>8. Reads(Behind(27, SliceBody), 27, 27, 8, {"slice"}, TRUE)
  BY <1>5, <1>6, IsWalk
<1>9. QED
  BY <1>1, <1>7, <1>8
     DEF epp_single_ran_slice_rep, epp_single_ran_slice_add,
         epp_single_ran_slice_set, epp_ran_sup, epp_ran_saq, epp_ran_ssq

-----------------------------------------------------------------------------
(* A formatter and a parser that agree.                                    *)

\* Tokens of which there is no array come once.
OneOfEach(toks) ==
  \A i, j \in DOMAIN toks :
    toks[i].type = toks[j].type /\ Limit(toks[i].type) = 1 => i = j

\* The tokens fill the message from its fixed part to its end.
Agree(fmt, q, toks) ==
  /\ Parser(q)
  /\ fmt.counted \in BOOLEAN
  /\ SizeSent(fmt) \in Nat /\ q.taken <= SizeSent(fmt)
  /\ toks \in Seq(Tokens) /\ Len(toks) <= 2 * EP_ECAP_CELL_MAX
  /\ OneOfEach(toks)
  /\ toks # <<>> => /\ fmt.counted
                    /\ WholeSize(fmt) = q.skip + q.fixed + TokenBytes(toks)
  /\ q.walks /\ toks = <<>> => SizeSent(fmt) <= q.skip + q.fixed
  /\ fmt.counted /\ q.keeps # {} /\ q.taken + q.fixed <= SizeSent(fmt)
       => q.skip < SizeSent(fmt)

(* What it takes for a packet to be what EpParse assumes.                  *)
LEMMA AgreeWellFormed ==
  ASSUME NEW fmt, NEW q, NEW toks, Agree(fmt, q, toks)
  PROVE  WellFormed(Packet(fmt, q, toks))
<1> DEFINE m == Packet(fmt, q, toks)
           n == Len(toks)
           F == FirstTokenBytes(toks)
           start == q.skip + q.fixed
           ends(j) == m.offset[j] + SizeofTLV + m.toks[j].len
<1>1. /\ m.size = SizeSent(fmt) /\ m.whole = fmt.counted /\ m.parser = q
      /\ m.toks = toks
      /\ m.offset = [j \in 1..n |-> WholeSize(fmt) - TokenBytes(toks) + F[j - 1]]
  BY DEF Packet
<1>2. start \in Nat /\ n \in Nat /\ toks \in Seq(Tokens)
  <2>1. Parser(q) /\ toks \in Seq(Tokens)
    BY DEF Agree
  <2>2. q.skip \in Nat /\ q.fixed \in Nat
    BY <2>1 DEF Parser
  <2>3. QED
    BY <2>1, <2>2
<1>3. ASSUME NEW j \in 1..n
      PROVE  /\ m.offset[j] = start + F[j - 1]
             /\ toks[j].len \in Nat
             /\ F[j - 1] \in Nat
             /\ F[j] = F[j - 1] + (SizeofTLV + toks[j].len)
  <2>1. toks # <<>>
    BY <1>2, <1>3
  <2>2. WholeSize(fmt) = start + TokenBytes(toks) /\ TokenBytes(toks) \in Nat
    BY <1>2, <2>1, TokenBytesSteps DEF Agree
  <2>3. j - 1 \in 0..n
    BY <1>2
  <2>4. /\ F[j - 1] \in Nat
        /\ F[j] = F[j - 1] + (SizeofTLV + toks[j].len)
    BY <1>2, <2>3, TokenBytesSteps
  <2>5. toks[j].len \in Nat
    BY <1>2, TokensAreNat
  <2>6. m.offset[j] = WholeSize(fmt) - TokenBytes(toks) + F[j - 1]
    BY <1>1
  <2> HIDE DEF m, F, start, n
  <2>7. QED
    BY <1>2, <2>2, <2>4, <2>5, <2>6
<1>4. m.offset \in [1..n -> Nat]
  <2>1. \A j \in 1..n : m.offset[j] \in Nat
    <3> HIDE DEF m, F, start
    <3> QED
      BY <1>2, <1>3
  <2>2. QED
    BY <1>1, <2>1
<1>5. ASSUME NEW j \in 1..n
      PROVE  m.offset[j] = IF j = 1 THEN start ELSE ends(j - 1)
  <2>1. CASE j = 1
    <3>1. F[0] = 0
      BY <1>2, TokenBytesSteps
    <3> HIDE DEF m, F, start, n, ends
    <3>2. QED
      BY <1>2, <1>3, <2>1, <3>1
  <2>2. CASE j # 1
    <3>1. j - 1 \in 1..n
      BY <1>2, <2>2
    <3>2. ends(j - 1) = (start + F[(j - 1) - 1]) + SizeofTLV + toks[j - 1].len
      BY <1>1, <1>3, <3>1, Zenon
    <3>3. /\ F[(j - 1) - 1] \in Nat /\ toks[j - 1].len \in Nat
          /\ F[j - 1] = F[(j - 1) - 1] + (SizeofTLV + toks[j - 1].len)
      BY <1>3, <3>1
    <3>4. m.offset[j] = start + F[j - 1]
      BY <1>3
    <3> DEFINE a == F[(j - 1) - 1]
               b == toks[j - 1].len
    <3>5. /\ ends(j - 1) = (start + a) + 4 + b
          /\ F[j - 1] = a + (4 + b) /\ a \in Nat /\ b \in Nat
      BY <3>2, <3>3 DEF SizeofTLV
    <3> HIDE DEF m, F, start, n, ends, a, b
    <3>6. ends(j - 1) = start + F[j - 1]
      BY <1>2, <3>5
    <3>7. QED
      BY <2>2, <3>4, <3>6
  <2>3. QED
    BY <2>1, <2>2
<1>6. ASSUME n \in 1..n PROVE ends(n) = m.size
  <2>1. toks # <<>>
    BY <1>2, <1>6
  <2>2. WholeSize(fmt) = start + F[n] /\ fmt.counted
    BY <1>2, <2>1, TokenBytesSteps DEF Agree
  <2>3. m.size = start + F[n]
    BY <1>1, <2>2 DEF SizeSent
  <2>4. ends(n) = (start + F[n - 1]) + SizeofTLV + toks[n].len
    BY <1>1, <1>3, <1>6, Zenon
  <2>5. /\ F[n - 1] \in Nat /\ toks[n].len \in Nat
        /\ F[n] = F[n - 1] + (SizeofTLV + toks[n].len)
    BY <1>3, <1>6
  <2> DEFINE a == F[n - 1]
             b == toks[n].len
  <2>6. /\ ends(n) = (start + a) + 4 + b
        /\ F[n] = a + (4 + b) /\ a \in Nat /\ b \in Nat
    BY <2>4, <2>5 DEF SizeofTLV
  <2> HIDE DEF m, F, start, n, ends, a, b
  <2>7. QED
    BY <1>2, <2>3, <2>6
<1>7. DOMAIN m.toks = 1..n
  BY <1>1, <1>2
<1>8. /\ Parser(m.parser)
      /\ m.size \in Nat /\ m.parser.taken <= m.size /\ m.whole \in BOOLEAN
      /\ m.toks \in Seq(Tokens) /\ Len(m.toks) <= 2 * EP_ECAP_CELL_MAX
      /\ OneOfEach(m.toks)
      /\ (m.parser.walks /\ m.toks = <<>> => m.size <= start)
      /\ (m.whole /\ m.parser.keeps # {}
            /\ m.parser.taken + m.parser.fixed <= m.size
            => m.parser.skip < m.size)
  <2> HIDE DEF m, start
  <2> QED
    BY <1>1 DEF Agree, start
<1>9. \A j \in DOMAIN m.toks :
        /\ m.offset[j] = IF j = 1 THEN start ELSE ends(j - 1)
        /\ j = Len(m.toks) => ends(j) = m.size
  <2>1. ASSUME NEW j \in 1..n
        PROVE  /\ m.offset[j] = IF j = 1 THEN start ELSE ends(j - 1)
               /\ j = Len(m.toks) => ends(j) = m.size
    <3>1. j = Len(m.toks) => ends(j) = m.size
      BY <1>1, <1>6
    <3>2. QED
      BY <1>5, <3>1
  <2> HIDE DEF m, n, ends, start
  <2>2. QED
    BY <1>7, <2>1
<1>10. m.offset \in [1..Len(m.toks) -> Nat]
  BY <1>1, <1>4
<1> HIDE DEF m
<1>11. Shaped(m)
  BY <1>8, <1>10 DEF Shaped
<1>13. WellFormed(m)
  BY <1>1, <1>8, <1>9, <1>11 DEF WellFormed, OneOfEach
<1>12. QED
  BY <1>13 DEF m

\* The whole of a message is sent, so many bytes behind its headers.
Sends(fmt, head, bytes) ==
  /\ head \in {27, 31} /\ bytes \in Nat
  /\ fmt.counted = TRUE
  /\ WholeSize(fmt) = head + bytes /\ SizeSent(fmt) = head + bytes

\* What is in a message.
Has(fmt, head, body, inner) ==
  /\ fmt.counted = TRUE
  /\ head = IF fmt.evt = "SCHEDULE" THEN 31 ELSE 27
  /\ fmt.body = body /\ fmt.inner = inner

LEMMA HasSends ==
  ASSUME NEW fmt, NEW head, NEW body, NEW inner, Has(fmt, head, body, inner),
         Bytes(body) \in Nat, Bytes(inner) \in Nat
  PROVE  Sends(fmt, head, Bytes(body) + Bytes(inner))
<1> DEFINE a == Bytes(body)
           b == Bytes(inner)
<1>1. /\ head \in {27, 31} /\ SizeofHdr + SizeofEvent(fmt.evt) = head
      /\ fmt.counted = TRUE
  BY DEF Has, SizeofEvent, SizeofHdr, SizeofSchedule, SizeofSingle
<1>2. WholeSize(fmt) = SizeofHdr + SizeofEvent(fmt.evt) + a + b
  BY DEF Has, WholeSize
<1> HIDE DEF a, b
<1>3. a \in Nat /\ b \in Nat
  BY DEF a, b
<1>4. WholeSize(fmt) = head + (a + b)
  BY <1>1, <1>2, <1>3
<1>5. Sends(fmt, head, a + b)
  BY <1>1, <1>3, <1>4 DEF Sends, SizeSent
<1>6. QED
  BY <1>5 DEF a, b

LEMMA HasNone ==
  ASSUME NEW fmt, NEW head, Has(fmt, head, <<>>, <<>>)
  PROVE  Sends(fmt, head, 0)
<1>1. Sends(fmt, head, Bytes(<<>>) + Bytes(<<>>))
  BY BytesNone, HasSends
<1>2. QED
  BY <1>1, BytesNone

LEMMA HasOnce ==
  ASSUME NEW fmt, NEW head, NEW n \in Nat, Has(fmt, head, Once(n), <<>>)
  PROVE  Sends(fmt, head, n)
<1>1. Bytes(Once(n)) = 1 * n
  BY BytesOne DEF Once, Times
<1>2. Bytes(Once(n)) = n
  BY <1>1
<1>3. Sends(fmt, head, Bytes(Once(n)) + Bytes(<<>>))
  BY <1>2, BytesNone, HasSends
<1>4. QED
  BY <1>2, <1>3, BytesNone

(* A message without tokens.                                               *)
LEMMA PlainAgree ==
  ASSUME NEW fmt, NEW head, NEW bytes, Sends(fmt, head, bytes),
         NEW q, NEW skip, NEW taken, NEW fixed, NEW keeps, NEW walks,
         Reads(q, skip, taken, fixed, keeps, walks),
         taken <= head + bytes,
         walks => head + bytes <= skip + fixed,
         keeps # {} /\ taken + fixed <= head + bytes => skip < head + bytes
  PROVE  Agree(fmt, q, <<>>)
<1>1. /\ <<>> \in Seq(Tokens) /\ Len(<<>>) = 0 /\ OneOfEach(<<>>)
      /\ 0 <= 2 * EP_ECAP_CELL_MAX
  BY DEF OneOfEach, EP_ECAP_CELL_MAX
<1>2. head + bytes \in Nat
  BY DEF Sends
<1>3. QED
  BY <1>1, <1>2 DEF Agree, Reads, Sends

\* With a fixed part and no more.
LEMMA FixedAgree ==
  ASSUME NEW fmt, NEW skip, NEW fixed, Sends(fmt, skip, fixed), fixed # 0,
         NEW q, NEW taken, NEW keeps, Reads(q, skip, taken, fixed, keeps, FALSE)
  PROVE  Agree(fmt, q, <<>>)
<1>1. skip \in {27, 31} /\ fixed \in Nat
  BY DEF Sends
<1>2. q.taken \in {0, q.skip} /\ q.taken = taken /\ q.skip = skip
  BY DEF Reads, Parser
<1>3. taken \in {0, skip}
  BY <1>2
<1>4. taken <= skip + fixed /\ skip < skip + fixed
  BY <1>1, <1>3
<1>5. QED
  BY <1>4, PlainAgree

FixedPackets ==
  {Packet(epf_single_hello_req, epp_single_hello_req, <<>>),
   Packet(epf_single_hello_rep, epp_single_hello_rep, <<>>),
   Packet(epf_sched_hello_req, epp_sched_hello_req, <<>>),
   Packet(epf_sched_hello_rep, epp_sched_hello_rep, <<>>),
   Packet(epf_single_ho_req, epp_single_ho_req, <<>>),
   Packet(epf_single_ho_rep, epp_single_ho_rep, <<>>),
   Packet(epf_single_ho_rep_fail, epp_single_ho_rep, <<>>),
   Packet(epf_single_ho_rep_ns, epp_single_ho_rep, <<>>),
   Packet(epf_single_ecap_req, epp_single_ecap_req, <<>>),
   Packet(epf_single_ran_setup_req, epp_single_ran_setup_req, <<>>),
   Packet(epf_single_ran_slice_req, epp_single_ran_slice_req, <<>>),
   Packet(epf_single_ran_slice_rem, epp_single_ran_slice_rem, <<>>)}
  \cup {Packet(epf_trigger_uerep_req(op), epp_trigger_uerep_req, <<>>) :
          op \in Ops}

LEMMA FixedSizes ==
  /\ Sends(epf_single_hello_req, 27, 4) /\ Sends(epf_single_hello_rep, 27, 4)
  /\ Sends(epf_sched_hello_req, 31, 4)
  /\ Sends(epf_single_ho_req, 27, 13) /\ Sends(epf_single_ho_rep, 27, 14)
  /\ Sends(epf_single_ho_rep_fail, 27, 14)
  /\ Sends(epf_single_ho_rep_ns, 27, 14)
  /\ Sends(epf_single_ecap_req, 27, 0) /\ Sends(epf_single_ran_setup_req, 27, 0)
  /\ Sends(epf_single_ran_slice_req, 27, 8)
  /\ Sends(epf_single_ran_slice_rem, 27, 8)
  /\ \A op \in Ops : Sends(epf_trigger_uerep_req(op), 27, 1)
<1>1. /\ Has(epf_single_hello_req, 27, Once(4), <<>>)
      /\ Has(epf_single_hello_rep, 27, Once(4), <<>>)
      /\ Has(epf_sched_hello_req, 31, Once(4), <<>>)
  BY DEF Has, epf_single_hello_req, epf_single_hello_rep, epf_sched_hello_req,
         HelloReqBody, HelloRepBody, Message, SizeofHello
<1>2. /\ Has(epf_single_ho_req, 27, Once(13), <<>>)
      /\ Has(epf_single_ho_rep, 27, Once(14), <<>>)
      /\ Has(epf_single_ho_rep_fail, 27, Once(14), <<>>)
      /\ Has(epf_single_ho_rep_ns, 27, Once(14), <<>>)
  BY DEF Has, epf_single_ho_req, epf_single_ho_rep, epf_single_ho_rep_fail,
         epf_single_ho_rep_ns, HoReqBody, HoRepBody, Handover, Message,
         SizeofHoReq, SizeofHoRep
<1>3. /\ Has(epf_single_ecap_req, 27, <<>>, <<>>)
      /\ Has(epf_single_ran_setup_req, 27, <<>>, <<>>)
  BY DEF Has, epf_single_ecap_req, epf_single_ran_setup_req, Ran, Message
<1>4. /\ Has(epf_single_ran_slice_req, 27, Once(8), <<>>)
      /\ Has(epf_single_ran_slice_rem, 27, Once(8), <<>>)
  BY DEF Has, epf_single_ran_slice_req, epf_single_ran_slice_rem, Slice, Ran,
         SliceId, Message, SizeofSliceInf
<1>5. ASSUME NEW op \in Ops
      PROVE  Has(epf_trigger_uerep_req(op), 27, Once(1), <<>>)
  BY DEF Has, epf_trigger_uerep_req, Message, SizeofUeRepReq
<1>6. QED
  BY <1>1, <1>2, <1>3, <1>4, <1>5, HasNone, HasOnce

LEMMA FixedWellFormed == \A m \in FixedPackets : WellFormed(m)
<1>1. Agree(epf_sched_hello_rep, epp_sched_hello_rep, <<>>)
  <2>1. epf_sched_hello_rep.counted = FALSE /\ SizeSent(epf_sched_hello_rep) = 31
    BY DEF epf_sched_hello_rep, Message, SizeSent, SizeofEvent, SizeofHdr,
           SizeofSchedule
  <2>2. <<>> \in Seq(Tokens) /\ Len(<<>>) = 0 /\ OneOfEach(<<>>)
    BY DEF OneOfEach
  <2>3. /\ Parser(epp_sched_hello_rep) /\ epp_sched_hello_rep.walks = FALSE
        /\ epp_sched_hello_rep.taken = 0
    BY FixedParsers DEF Reads
  <2> DEFINE fmt == epf_sched_hello_rep
             q == epp_sched_hello_rep
             none == <<>>
  <2>4. /\ SizeSent(fmt) \in Nat /\ q.taken <= SizeSent(fmt)
        /\ Len(none) <= 2 * EP_ECAP_CELL_MAX
    BY <2>1, <2>2, <2>3 DEF EP_ECAP_CELL_MAX
  <2> HIDE DEF fmt, q
  <2>5. QED
    BY <2>1, <2>2, <2>3, <2>4 DEF Agree, fmt, q
<1>2. /\ Agree(epf_single_hello_req, epp_single_hello_req, <<>>)
      /\ Agree(epf_single_hello_rep, epp_single_hello_rep, <<>>)
      /\ Agree(epf_sched_hello_req, epp_sched_hello_req, <<>>)
      /\ Agree(epf_single_ho_req, epp_single_ho_req, <<>>)
      /\ Agree(epf_single_ho_rep, epp_single_ho_rep, <<>>)
      /\ Agree(epf_single_ho_rep_fail, epp_single_ho_rep, <<>>)
      /\ Agree(epf_single_ho_rep_ns, epp_single_ho_rep, <<>>)
      /\ Agree(epf_single_ran_slice_req, epp_single_ran_slice_req, <<>>)
      /\ Agree(epf_single_ran_slice_rem, epp_single_ran_slice_rem, <<>>)
  <2>1. 4 # 0 /\ 8 # 0 /\ 13 # 0 /\ 14 # 0
    OBVIOUS
  <2>2. QED
    BY <2>1, FixedSizes, FixedParsers, FixedAgree, Zenon
<1>3. /\ Agree(epf_single_ecap_req, epp_single_ecap_req, <<>>)
      /\ Agree(epf_single_ran_setup_req, epp_single_ran_setup_req, <<>>)
      /\ \A op \in Ops :
           Agree(epf_trigger_uerep_req(op), epp_trigger_uerep_req, <<>>)
  <2>1. ASSUME NEW fmt, NEW bytes, Sends(fmt, 27, bytes),
               NEW q, NEW skip, NEW taken \in {0, 27}, NEW fixed,
               Reads(q, skip, taken, fixed, {}, FALSE)
        PROVE  Agree(fmt, q, <<>>)
    <3>1. taken <= 27 + bytes
      BY <2>1 DEF Sends
    <3>2. QED
      BY <2>1, <3>1, PlainAgree
  <2>2. Agree(epf_single_ecap_req, epp_single_ecap_req, <<>>)
    BY <2>1, FixedSizes, FixedParsers
  <2>3. Agree(epf_single_ran_setup_req, epp_single_ran_setup_req, <<>>)
    BY <2>1, FixedSizes, FixedParsers
  <2>4. ASSUME NEW op \in Ops
        PROVE  Agree(epf_trigger_uerep_req(op), epp_trigger_uerep_req, <<>>)
    BY <2>1, FixedSizes, FixedParsers
  <2>5. QED
    BY <2>2, <2>3, <2>4
<1>4. QED
  BY <1>1, <1>2, <1>3, AgreeWellFormed DEF FixedPackets

-----------------------------------------------------------------------------
(* Tokens side by side.                                                    *)

\* Every token is one of these types.
Only(toks, types) == \A i \in 1..Len(toks) : toks[i].type \in types

(* What to know of a sequence of tokens: its length, its bytes, its types, *)
(* and that those without an array come once.                              *)
Row(toks, n, bytes, types) ==
  /\ toks \in Seq(Tokens) /\ Len(toks) = n
  /\ TokenBytes(toks) = bytes /\ bytes \in Nat
  /\ Only(toks, types) /\ OneOfEach(toks)

LEMMA RowsJoin ==
  ASSUME NEW a, NEW b, NEW n, NEW o, NEW x, NEW y, NEW s, NEW t,
         Row(a, n, x, s), Row(b, o, y, t), s \cap t = {}
  PROVE  Row(a \o b, n + o, x + y, s \cup t)
<1> DEFINE e == a \o b
<1>1. /\ a \in Seq(Tokens) /\ Len(a) = n /\ TokenBytes(a) = x /\ x \in Nat
      /\ b \in Seq(Tokens) /\ Len(b) = o /\ TokenBytes(b) = y /\ y \in Nat
      /\ n \in Nat /\ o \in Nat
  BY DEF Row
<1>2. /\ e \in Seq(Tokens) /\ Len(e) = n + o /\ TokenBytes(e) = x + y
      /\ \A i \in 1..n : e[i] = a[i]
      /\ \A i \in 1..o : e[n + i] = b[i]
  BY <1>1, TokensConcat
<1> HIDE DEF e
<1>3. ASSUME NEW i \in 1..(n + o)
      PROVE  \/ i \in 1..n /\ e[i] = a[i]
             \/ i - n \in 1..o /\ e[i] = b[i - n]
  <2>1. CASE i <= n
    BY <1>1, <1>2, <2>1
  <2>2. CASE ~(i <= n)
    <3>1. i - n \in 1..o /\ n + (i - n) = i
      BY <1>1, <2>2
    <3>2. e[n + (i - n)] = b[i - n]
      BY <1>2, <3>1
    <3>3. QED
      BY <3>1, <3>2
  <2>3. QED
    BY <2>1, <2>2
<1>4. Only(e, s \cup t)
  <2>1. \A i \in 1..n : a[i].type \in s
    BY <1>1 DEF Row, Only
  <2>2. \A i \in 1..o : b[i].type \in t
    BY <1>1 DEF Row, Only
  <2>3. QED
    BY <1>2, <1>3, <2>1, <2>2 DEF Only
<1>5. OneOfEach(e)
  <2> DEFINE k == n + o
  <2>0. DOMAIN e = 1..k
    BY <1>1, <1>2
  <2>1. SUFFICES ASSUME NEW i \in 1..k, NEW j \in 1..k,
                        e[i].type = e[j].type, Limit(e[i].type) = 1
                 PROVE  i = j
    <3> HIDE DEF k
    <3> QED
      BY <2>0, Zenon DEF OneOfEach
  <2>2. \A h \in 1..n : a[h].type \in s
    BY <1>1 DEF Row, Only
  <2>3. \A h \in 1..o : b[h].type \in t
    BY <1>1 DEF Row, Only
  <2>4. \A h, z \in 1..n :
          a[h].type = a[z].type /\ Limit(a[h].type) = 1 => h = z
    BY <1>1 DEF Row, OneOfEach
  <2>5. \A h, z \in 1..o :
          b[h].type = b[z].type /\ Limit(b[h].type) = 1 => h = z
    BY <1>1 DEF Row, OneOfEach
  <2>6. CASE i \in 1..n /\ e[i] = a[i] /\ j \in 1..n /\ e[j] = a[j]
    BY <2>1, <2>4, <2>6
  <2>7. CASE i - n \in 1..o /\ e[i] = b[i - n] /\ j - n \in 1..o
             /\ e[j] = b[j - n]
    <3>1. i - n = j - n
      BY <2>1, <2>5, <2>7
    <3>2. QED
      BY <1>1, <3>1
  <2>8. CASE i \in 1..n /\ e[i] = a[i] /\ j - n \in 1..o /\ e[j] = b[j - n]
    BY <2>1, <2>2, <2>3, <2>8
  <2>9. CASE i - n \in 1..o /\ e[i] = b[i - n] /\ j \in 1..n /\ e[j] = a[j]
    BY <2>1, <2>2, <2>3, <2>9
  <2>10. QED
    BY <1>3, <2>6, <2>7, <2>8, <2>9
<1>6. x + y \in Nat
  BY <1>1
<1>7. Row(e, n + o, x + y, s \cup t)
  BY <1>2, <1>4, <1>5, <1>6 DEF Row
<1>8. QED
  BY <1>7 DEF e

LEMMA RowNone == \A s : Row(<<>>, 0, 0, s)
<1>1. /\ <<>> \in Seq(Tokens) /\ Len(<<>>) = 0 /\ TokenBytes(<<>>) = 0
  BY TokensNone
<1>2. OneOfEach(<<>>) /\ \A s : Only(<<>>, s)
  BY <1>1 DEF OneOfEach, Only
<1>3. QED
  BY <1>1, <1>2 DEF Row

LEMMA RowOne ==
  ASSUME NEW t \in Tokens
  PROVE  Row(<<t>>, 1, SizeofTLV + t.len, {t.type})
<1>1. /\ <<t>> \in Seq(Tokens) /\ Len(<<t>>) = 1 /\ <<t>>[1] = t
      /\ TokenBytes(<<t>>) = SizeofTLV + t.len
  BY TokensOne
<1>2. SizeofTLV + t.len \in Nat
  BY DEF Tokens, SizeofTLV
<1> DEFINE s == <<t>>
<1> HIDE DEF s
<1>3. Only(s, {t.type}) /\ OneOfEach(s)
  BY <1>1 DEF Only, OneOfEach, s
<1>4. QED
  BY <1>1, <1>2, <1>3 DEF Row, s

LEMMA RowRepeat ==
  ASSUME NEW n \in Nat, NEW t \in Tokens, Limit(t.type) # 1
  PROVE  Row(Repeat(n, t), n, n * (SizeofTLV + t.len), {t.type})
<1> DEFINE s == Repeat(n, t)
           d == SizeofTLV + t.len
<1>1. /\ s \in Seq(Tokens) /\ Len(s) = n /\ \A i \in 1..n : s[i] = t
      /\ TokenBytes(s) = n * d
  BY TokensSame
<1>2. n * d \in Nat
  <2>1. d \in Nat
    BY DEF Tokens, SizeofTLV
  <2> HIDE DEF d
  <2>2. QED
    BY <2>1, TimesNat
<1> HIDE DEF s, d
<1>3. Only(s, {t.type}) /\ OneOfEach(s)
  BY <1>1 DEF Only, OneOfEach
<1>4. Row(s, n, n * d, {t.type})
  BY <1>1, <1>2, <1>3 DEF Row
<1>5. QED
  BY <1>4 DEF s, d

LEMMA TokenIs ==
  ASSUME NEW type \in TokenTypes \cup {"CELL_PRB_REQ"}, NEW n \in Nat,
         n >= SizeofTLV, NEW num \in Nat
  PROVE  /\ Token(type, n, num) \in Tokens
         /\ Token(type, n, num).type = type
         /\ SizeofTLV + Token(type, n, num).len = n
BY DEF Token, Tokens, SizeofTLV

LEMMA RowWhen ==
  ASSUME NEW b \in BOOLEAN, NEW t \in Tokens
  PROVE  Row(When(b, t), IF b THEN 1 ELSE 0,
             IF b THEN SizeofTLV + t.len ELSE 0, {t.type})
<1>1. CASE b
  BY <1>1, RowOne DEF When
<1>2. CASE ~b
  BY <1>2, RowNone DEF When
<1>3. QED
  BY <1>1, <1>2

LEMMA BytesOpt ==
  ASSUME NEW b \in BOOLEAN, NEW n \in Nat
  PROVE  /\ Opt(b, n) \in Seq(Loops)
         /\ Bytes(Opt(b, n)) = IF b THEN n ELSE 0
<1> DEFINE t == IF b THEN 1 ELSE 0
<1>1. Opt(b, n) = <<Loop(t, n, n)>> /\ t \in Nat
  BY DEF Opt, Times
<1>2. Opt(b, n) \in Seq(Loops) /\ Bytes(Opt(b, n)) = t * n
  BY <1>1, BytesOne
<1>3. t * n = IF b THEN n ELSE 0
  OBVIOUS
<1>4. QED
  BY <1>2, <1>3

(* A message whose tokens fill it, behind a fixed part.                    *)
LEMMA RowAgrees ==
  ASSUME NEW fmt, NEW head, NEW size, Sends(fmt, head, size),
         NEW q, NEW taken, NEW fixed, NEW keeps,
         Reads(q, head, taken, fixed, keeps, TRUE),
         NEW toks, NEW n, NEW bytes, NEW types, Row(toks, n, bytes, types),
         n <= 16, size = fixed + bytes, keeps = {} \/ size # 0
  PROVE  Agree(fmt, q, toks)
<1>1. /\ head \in {27, 31} /\ size \in Nat /\ fmt.counted = TRUE
      /\ WholeSize(fmt) = head + size /\ SizeSent(fmt) = head + size
  BY DEF Sends
<1>2. /\ Parser(q) /\ q.skip = head /\ q.taken = taken /\ q.fixed = fixed
      /\ q.keeps = keeps /\ q.walks = TRUE
  BY DEF Reads
<1>3. taken \in {0, head} /\ fixed \in Nat
  BY <1>2 DEF Parser
<1>4. /\ toks \in Seq(Tokens) /\ Len(toks) = n /\ TokenBytes(toks) = bytes
      /\ bytes \in Nat /\ OneOfEach(toks)
  BY DEF Row
<1>5. toks = <<>> => bytes = 0
  BY <1>4, TokensNone
<1>6. /\ SizeSent(fmt) \in Nat /\ taken <= SizeSent(fmt)
      /\ WholeSize(fmt) = head + fixed + bytes
      /\ (toks = <<>> => SizeSent(fmt) <= head + fixed)
      /\ (keeps # {} => head < SizeSent(fmt))
  BY <1>1, <1>3, <1>4, <1>5
<1>7. Len(toks) <= 2 * EP_ECAP_CELL_MAX
  BY <1>4 DEF EP_ECAP_CELL_MAX
<1>8. QED
  BY <1>1, <1>2, <1>4, <1>6, <1>7 DEF Agree

-----------------------------------------------------------------------------
(* The messages with tokens.                                               *)

ArrayPackets ==
  {Packet(epf_single_ecap_rep(cells, ran), epp_single_ecap_rep,
          EcapOut(cells, ran, maxSlices)) :
     cells \in Nat, ran \in Nat, maxSlices \in Nat}
  \cup {Packet(epf_trigger_uemeas_rep(rrc), epp_trigger_uemeas_rep,
               UeMeasRepOut(rrc)) : rrc \in Nat}
  \cup {Packet(epf_trigger_uemeas_req(op, rrc), epp_trigger_uemeas_req,
               UeMeasReqOut(rrc, interval, inBuffer)) :
          op \in Ops, rrc \in Nat, interval \in Nat, inBuffer \in Nat}

LEMMA EcapAgrees ==
  ASSUME NEW cells \in Nat, NEW ran \in Nat, NEW maxSlices \in Nat
  PROVE  Agree(epf_single_ecap_rep(cells, ran), epp_single_ecap_rep,
               EcapOut(cells, ran, maxSlices))
<1> DEFINE x == AtMost(cells, EP_ECAP_CELL_MAX)
           y == AtMost(ran, EP_ECAP_CELL_MAX)
           s == Token("CELL_CAP", 18, 0)
           t == Token("RAN_CAP", 24, maxSlices)
           fmt == epf_single_ecap_rep(cells, ran)
           toks == EcapOut(cells, ran, maxSlices)
           body == Times(x, 18) \o Times(y, 24)
<1>1. x \in 0..8 /\ y \in 0..8
  BY DEF AtMost, EP_ECAP_CELL_MAX
<1>2. /\ s \in Tokens /\ s.type = "CELL_CAP" /\ SizeofTLV + s.len = 18
      /\ t \in Tokens /\ t.type = "RAN_CAP" /\ SizeofTLV + t.len = 24
  BY TokenIs DEF TokenTypes, SizeofTLV
<1>3. Limit("CELL_CAP") # 1 /\ Limit("RAN_CAP") # 1
  BY DEF Limit, EP_ECAP_CELL_MAX
<1>4. Has(fmt, 27, body, <<>>)
  BY DEF Has, epf_single_ecap_rep, EcapBody, Message, SizeofCellCap,
         SizeofRanCaps
<1>5. toks = Repeat(x, s) \o Repeat(y, t)
  BY DEF EcapOut, SizeofCellCap, SizeofRanCaps
<1> HIDE DEF x, y, s, t, fmt, toks
<1>6. Row(toks, x + y, x * 18 + y * 24, {"CELL_CAP"} \cup {"RAN_CAP"})
  <2>1. /\ Row(Repeat(x, s), x, x * 18, {"CELL_CAP"})
        /\ Row(Repeat(y, t), y, y * 24, {"RAN_CAP"})
    <3>1. /\ Row(Repeat(x, s), x, x * (SizeofTLV + s.len), {s.type})
          /\ Row(Repeat(y, t), y, y * (SizeofTLV + t.len), {t.type})
      <4>1. x \in Nat /\ y \in Nat /\ Limit(s.type) # 1 /\ Limit(t.type) # 1
        BY <1>1, <1>2, <1>3
      <4>2. QED
        BY <1>2, <4>1, RowRepeat
    <3>2. QED
      BY <1>2, <3>1, Zenon
  <2>2. {"CELL_CAP"} \cap {"RAN_CAP"} = {}
    OBVIOUS
  <2>3. QED
    BY <1>5, <2>1, <2>2, RowsJoin, Zenon
<1>7. Bytes(body) = x * 18 + y * 24 /\ Bytes(body) \in Nat
  <2>1. x \in Nat /\ y \in Nat /\ 18 \in Nat /\ 24 \in Nat
    BY <1>1
  <2>2. Bytes(body) = x * 18 + y * 24
    BY <2>1, BytesOfTwo
  <2> HIDE DEF body
  <2>3. QED
    BY <2>1, <2>2
<1>8. Sends(fmt, 27, Bytes(body))
  <2> HIDE DEF body
  <2>1. Sends(fmt, 27, Bytes(body) + Bytes(<<>>)) /\ Bytes(<<>>) = 0
    BY <1>4, <1>7, BytesNone, HasSends
  <2>2. QED
    BY <1>7, <2>1
<1>9. Reads(epp_single_ecap_rep, 27, 0, 0, {}, TRUE)
  BY ArrayParsers
<1>10. x + y <= 16 /\ Bytes(body) = 0 + (x * 18 + y * 24)
  <2> HIDE DEF body
  <2> QED
    BY <1>1, <1>7
<1> HIDE DEF body
<1>11. Agree(fmt, epp_single_ecap_rep, toks)
  BY <1>6, <1>8, <1>9, <1>10, RowAgrees
<1>12. QED
  BY <1>11 DEF fmt, toks

(* A message of which the body is n times a token without a fixed part.    *)
LEMMA RepeatAgrees ==
  ASSUME NEW fmt, NEW n, NEW t \in Tokens, n \in 0..8,
         Has(fmt, 27, Times(n, SizeofTLV + t.len), <<>>),
         Limit(t.type) # 1,
         NEW q, Reads(q, 27, 27, 0, {}, TRUE)
  PROVE  Agree(fmt, q, Repeat(n, t))
<1> DEFINE d == SizeofTLV + t.len
           body == Times(n, d)
<1>1. n \in Nat /\ d \in Nat
  BY DEF Tokens, SizeofTLV
<1>2. Row(Repeat(n, t), n, n * d, {t.type})
  BY <1>1, RowRepeat
<1>3. n * d \in Nat
  <2> HIDE DEF d
  <2> QED
    BY <1>1, TimesNat
<1>4. Bytes(body) = n * d
  <2> HIDE DEF d
  <2> QED
    BY <1>1, BytesOne DEF Times
<1> DEFINE x == n * d
<1> HIDE DEF body, x
<1>5. Sends(fmt, 27, Bytes(body) + Bytes(<<>>))
  <2>1. Bytes(body) \in Nat /\ Bytes(<<>>) \in Nat
    BY <1>3, <1>4, BytesNone
  <2>2. Has(fmt, 27, body, <<>>)
    BY DEF body
  <2>3. QED
    BY <2>1, <2>2, HasSends
<1>6. Sends(fmt, 27, x)
  <2>1. Bytes(body) = x /\ x \in Nat /\ Bytes(<<>>) = 0
    BY <1>3, <1>4, BytesNone DEF x
  <2>2. Bytes(body) + Bytes(<<>>) = x
    BY <2>1
  <2>3. QED
    BY <1>5, <2>2
<1>7. Row(Repeat(n, t), n, x, {t.type}) /\ x = 0 + x /\ n <= 16
  BY <1>2, <1>3 DEF x
<1>8. QED
  BY <1>6, <1>7, RowAgrees

LEMMA UeMeasAgree ==
  ASSUME NEW op \in Ops, NEW rrc \in Nat, NEW interval \in Nat,
         NEW inBuffer \in Nat
  PROVE  /\ Agree(epf_trigger_uemeas_rep(rrc), epp_trigger_uemeas_rep,
                  UeMeasRepOut(rrc))
         /\ Agree(epf_trigger_uemeas_req(op, rrc), epp_trigger_uemeas_req,
                  UeMeasReqOut(rrc, interval, inBuffer))
<1> DEFINE n == AtMost(rrc, EP_UE_RRC_MEAS_MAX)
           s == Token("UE_RRC_REPORT", 12, 0)
           r == Token("UE_RRC_MEAS", 16, inBuffer)
           t == [r EXCEPT !.asked = interval]
<1>1. n \in 0..8
  BY DEF AtMost, EP_UE_RRC_MEAS_MAX
<1>2. /\ s \in Tokens /\ s.type = "UE_RRC_REPORT" /\ SizeofTLV + s.len = 12
      /\ r \in Tokens /\ r.type = "UE_RRC_MEAS" /\ SizeofTLV + r.len = 16
  BY TokenIs DEF TokenTypes, SizeofTLV
<1>3. t \in Tokens /\ t.type = "UE_RRC_MEAS" /\ SizeofTLV + t.len = 16
  <2> HIDE DEF r
  <2> QED
    BY <1>2 DEF Tokens
<1>4. Limit("UE_RRC_REPORT") # 1 /\ Limit("UE_RRC_MEAS") # 1
  BY DEF Limit, EP_UE_RRC_MEAS_MAX
<1>5. /\ Has(epf_trigger_uemeas_rep(rrc), 27, Times(n, 12), <<>>)
      /\ Has(epf_trigger_uemeas_req(op, rrc), 27, Times(n, 16), <<>>)
  BY DEF Has, epf_trigger_uemeas_rep, epf_trigger_uemeas_req, UeMeasRepBody,
         UeMeasReqBody, Message, SizeofRrcRep, SizeofRrcReq
<1>6. /\ UeMeasRepOut(rrc) = Repeat(n, s)
      /\ UeMeasReqOut(rrc, interval, inBuffer) = Repeat(n, t)
  BY DEF UeMeasRepOut, UeMeasReqOut, SizeofRrcRep, SizeofRrcReq
<1> HIDE DEF n, s, t
<1>7. Agree(epf_trigger_uemeas_rep(rrc), epp_trigger_uemeas_rep, Repeat(n, s))
  BY <1>1, <1>2, <1>4, <1>5, RepeatAgrees, ArrayParsers
<1>8. Agree(epf_trigger_uemeas_req(op, rrc), epp_trigger_uemeas_req,
            Repeat(n, t))
  BY <1>1, <1>3, <1>4, <1>5, RepeatAgrees, ArrayParsers
<1>9. QED
  BY <1>6, <1>7, <1>8

LEMMA ArraysWellFormed == \A m \in ArrayPackets : WellFormed(m)
<1>1. ASSUME NEW cells \in Nat, NEW ran \in Nat, NEW maxSlices \in Nat
      PROVE  WellFormed(Packet(epf_single_ecap_rep(cells, ran),
                               epp_single_ecap_rep,
                               EcapOut(cells, ran, maxSlices)))
  BY EcapAgrees, AgreeWellFormed
<1>2. ASSUME NEW op \in Ops, NEW rrc \in Nat, NEW interval \in Nat,
             NEW inBuffer \in Nat
      PROVE  /\ WellFormed(Packet(epf_trigger_uemeas_rep(rrc),
                                  epp_trigger_uemeas_rep, UeMeasRepOut(rrc)))
             /\ WellFormed(Packet(epf_trigger_uemeas_req(op, rrc),
                                  epp_trigger_uemeas_req,
                                  UeMeasReqOut(rrc, interval, inBuffer)))
  BY UeMeasAgree, AgreeWellFormed
<1>3. 0 \in Nat /\ "ADD" \in Ops
  BY DEF Ops
<1>4. SUFFICES ASSUME NEW m \in ArrayPackets PROVE WellFormed(m)
  OBVIOUS
<1>5. CASE \E cells, ran, maxSlices \in Nat :
             m = Packet(epf_single_ecap_rep(cells, ran), epp_single_ecap_rep,
                        EcapOut(cells, ran, maxSlices))
  BY <1>1, <1>5, Zenon
<1>6. CASE \E rrc \in Nat : m = Packet(epf_trigger_uemeas_rep(rrc),
                                      epp_trigger_uemeas_rep,
                                      UeMeasRepOut(rrc))
  BY <1>2, <1>3, <1>6, Zenon
<1>7. CASE \E op \in Ops, rrc, interval, inBuffer \in Nat :
             m = Packet(epf_trigger_uemeas_req(op, rrc),
                        epp_trigger_uemeas_req,
                        UeMeasReqOut(rrc, interval, inBuffer))
  BY <1>2, <1>7, Zenon
<1>8. QED
  BY <1>5, <1>6, <1>7 DEF ArrayPackets

\* The requests and the replies, and the replies without details, which
\* reach the parser of the reply with details.
CellPackets ==
  {Packet(epf_sched_cell_meas_req, epp_sched_cell_meas_req, CellMeasReqOut),
   Packet(epf_trigger_cell_meas_req, epp_trigger_cell_meas_req,
          CellMeasReqOut)}
  \cup {Packet(epf_sched_cell_meas_rep(b), epp_sched_cell_meas_rep,
               CellMeasRepOut(b)) : b \in BOOLEAN}
  \cup {Packet(epf_trigger_cell_meas_rep(b), epp_trigger_cell_meas_rep,
               CellMeasRepOut(b)) : b \in BOOLEAN}

RefusalPackets ==
  {Packet(epf_trigger_uemeas_rep_fail, epp_trigger_uemeas_rep, <<>>),
   Packet(epf_sched_cell_meas_fail, epp_sched_cell_meas_rep, <<>>),
   Packet(epf_sched_cell_meas_ns, epp_sched_cell_meas_rep, <<>>),
   Packet(epf_trigger_cell_meas_fail, epp_trigger_cell_meas_rep, <<>>),
   Packet(epf_trigger_cell_meas_ns, epp_trigger_cell_meas_rep, <<>>),
   Packet(epf_single_ran_rep_success("RAN_SETUP"), epp_single_ran_setup_rep,
          <<>>),
   Packet(epf_single_ran_rep_fail("RAN_SETUP"), epp_single_ran_setup_rep, <<>>),
   Packet(epf_single_ran_rep_ns("RAN_SETUP"), epp_single_ran_setup_rep, <<>>),
   Packet(epf_single_ran_rep_success("RAN_SLICE"), epp_single_ran_slice_rep,
          <<>>),
   Packet(epf_single_ran_rep_fail("RAN_SLICE"), epp_single_ran_slice_rep, <<>>),
   Packet(epf_single_ran_rep_ns("RAN_SLICE"), epp_single_ran_slice_rep, <<>>)}

LEMMA RefusalsWellFormed == \A m \in RefusalPackets : WellFormed(m)
<1>1. ASSUME NEW fmt, NEW head, Has(fmt, head, <<>>, <<>>),
             NEW q, Reads(q, head, head, 0, {}, TRUE)
      PROVE  WellFormed(Packet(fmt, q, <<>>))
  <2>1. Sends(fmt, head, 0)
    BY <1>1, HasNone
  <2>2. 0 = 0 + 0 /\ 0 <= 16 /\ Row(<<>>, 0, 0, {})
    BY RowNone
  <2>3. Agree(fmt, q, <<>>)
    BY <1>1, <2>1, <2>2, RowAgrees
  <2>4. QED
    BY <2>3, AgreeWellFormed
\* A reply that is shorter than the fixed part.
<1>2. ASSUME NEW fmt, NEW bytes \in Nat, Sends(fmt, 27, bytes),
             NEW q, NEW fixed \in Nat, NEW f,
             Reads(q, 27, 27, fixed, {f}, TRUE), bytes <= fixed, fixed # 0
      PROVE  WellFormed(Packet(fmt, q, <<>>))
  <2>1. /\ 27 <= 27 + bytes /\ 27 + bytes <= 27 + fixed
        /\ (27 + fixed <= 27 + bytes => 27 < 27 + bytes)
    BY <1>2
  <2>2. Agree(fmt, q, <<>>)
    BY <1>2, <2>1, PlainAgree
  <2>3. QED
    BY <2>2, AgreeWellFormed
<1>3. /\ Has(epf_trigger_uemeas_rep_fail, 27, <<>>, <<>>)
      /\ Has(epf_sched_cell_meas_fail, 31, <<>>, <<>>)
      /\ Has(epf_sched_cell_meas_ns, 31, <<>>, <<>>)
      /\ Has(epf_trigger_cell_meas_fail, 27, <<>>, <<>>)
      /\ Has(epf_trigger_cell_meas_ns, 27, <<>>, <<>>)
  BY DEF Has, epf_trigger_uemeas_rep_fail, epf_sched_cell_meas_fail,
         epf_sched_cell_meas_ns, epf_trigger_cell_meas_fail,
         epf_trigger_cell_meas_ns, CellMeas, Message
<1>4. ASSUME NEW act
      PROVE  /\ Sends(epf_single_ran_rep_success(act), 27, 0)
             /\ Sends(epf_single_ran_rep_fail(act), 27, 8)
             /\ Sends(epf_single_ran_rep_ns(act), 27, 0)
  <2>1. /\ Has(epf_single_ran_rep_success(act), 27, <<>>, <<>>)
        /\ Has(epf_single_ran_rep_fail(act), 27, Once(8), <<>>)
        /\ Has(epf_single_ran_rep_ns(act), 27, <<>>, <<>>)
    BY DEF Has, epf_single_ran_rep_success, epf_single_ran_rep_fail,
           epf_single_ran_rep_ns, Ran, Message, SizeofSliceInf
  <2>2. 8 \in Nat
    OBVIOUS
  <2>3. QED
    BY <2>1, <2>2, HasNone, HasOnce
<1>5. /\ WellFormed(Packet(epf_trigger_uemeas_rep_fail, epp_trigger_uemeas_rep,
                           <<>>))
      /\ WellFormed(Packet(epf_sched_cell_meas_fail, epp_sched_cell_meas_rep,
                           <<>>))
      /\ WellFormed(Packet(epf_sched_cell_meas_ns, epp_sched_cell_meas_rep,
                           <<>>))
      /\ WellFormed(Packet(epf_trigger_cell_meas_fail,
                           epp_trigger_cell_meas_rep, <<>>))
      /\ WellFormed(Packet(epf_trigger_cell_meas_ns, epp_trigger_cell_meas_rep,
                           <<>>))
  BY <1>1, <1>3, ArrayParsers, Zenon
<1>6. ASSUME NEW act
      PROVE  /\ WellFormed(Packet(epf_single_ran_rep_success(act),
                                  epp_single_ran_setup_rep, <<>>))
             /\ WellFormed(Packet(epf_single_ran_rep_fail(act),
                                  epp_single_ran_setup_rep, <<>>))
             /\ WellFormed(Packet(epf_single_ran_rep_ns(act),
                                  epp_single_ran_setup_rep, <<>>))
             /\ WellFormed(Packet(epf_single_ran_rep_success(act),
                                  epp_single_ran_slice_rep, <<>>))
             /\ WellFormed(Packet(epf_single_ran_rep_fail(act),
                                  epp_single_ran_slice_rep, <<>>))
             /\ WellFormed(Packet(epf_single_ran_rep_ns(act),
                                  epp_single_ran_slice_rep, <<>>))
  <2>1. /\ 0 \in Nat /\ 8 \in Nat /\ 12 \in Nat /\ 8 # 0 /\ 12 # 0
        /\ 0 <= 8 /\ 0 <= 12 /\ 8 <= 8 /\ 8 <= 12
    OBVIOUS
  <2>2. QED
    BY <1>2, <1>4, <2>1, WalkingParsers, Zenon
<1>7. QED
  BY <1>5, <1>6 DEF RefusalPackets

LEMMA CellsWellFormed == \A m \in CellPackets : WellFormed(m)
<1> DEFINE r == Token("CELL_PRB_REQ", 4, 0)
           p == Token("CELL_PRB_REPORT", 14, 0)
<1>1. /\ r \in Tokens /\ r.type = "CELL_PRB_REQ" /\ SizeofTLV + r.len = 4
      /\ p \in Tokens /\ p.type = "CELL_PRB_REPORT" /\ SizeofTLV + p.len = 14
  BY TokenIs DEF TokenTypes, SizeofTLV
<1>2. CellMeasReqOut = <<r>> /\ \A b \in BOOLEAN : CellMeasRepOut(b) = When(b, p)
  BY DEF CellMeasReqOut, CellMeasRepOut, SizeofPrbReq, SizeofPrbRep
<1> HIDE DEF r, p
<1>3. Row(CellMeasReqOut, 1, 4, {"CELL_PRB_REQ"})
  BY <1>1, <1>2, RowOne
<1>4. /\ Sends(epf_sched_cell_meas_req, 31, 4)
      /\ Sends(epf_trigger_cell_meas_req, 27, 4)
  <2>1. /\ Has(epf_sched_cell_meas_req, 31, Once(4), <<>>)
        /\ Has(epf_trigger_cell_meas_req, 27, Once(4), <<>>)
    BY DEF Has, epf_sched_cell_meas_req, epf_trigger_cell_meas_req,
           CellMeasReqBody, CellMeas, Message, SizeofPrbReq
  <2>2. 4 \in Nat
    OBVIOUS
  <2>3. QED
    BY <2>1, <2>2, HasOnce
<1>5. /\ Agree(epf_sched_cell_meas_req, epp_sched_cell_meas_req, CellMeasReqOut)
      /\ Agree(epf_trigger_cell_meas_req, epp_trigger_cell_meas_req,
               CellMeasReqOut)
  <2>1. 1 <= 16 /\ 4 = 0 + 4 /\ 4 # 0
    OBVIOUS
  <2>2. QED
    BY <1>3, <1>4, <2>1, WalkingParsers, RowAgrees, Zenon
<1>6. ASSUME NEW b \in BOOLEAN
      PROVE  /\ Agree(epf_sched_cell_meas_rep(b), epp_sched_cell_meas_rep,
                      CellMeasRepOut(b))
             /\ Agree(epf_trigger_cell_meas_rep(b), epp_trigger_cell_meas_rep,
                      CellMeasRepOut(b))
  <2> DEFINE n == IF b THEN 1 ELSE 0
             x == IF b THEN 14 ELSE 0
             body == CellMeasRepBody(b)
  <2>1. Row(CellMeasRepOut(b), n, x, {"CELL_PRB_REPORT"})
    BY <1>1, <1>2, RowWhen
  <2>2. Bytes(body) = n * 14
    BY BytesOne DEF CellMeasRepBody, SizeofPrbRep
  <2>3. Bytes(body) = x /\ x \in Nat /\ x = x + 0 /\ x = 0 + x /\ n <= 16
    BY <2>2
  <2>4. /\ Has(epf_sched_cell_meas_rep(b), 31, body, <<>>)
        /\ Has(epf_trigger_cell_meas_rep(b), 27, body, <<>>)
    BY DEF Has, epf_sched_cell_meas_rep, epf_trigger_cell_meas_rep, CellMeas,
           Message
  <2> HIDE DEF n, x, body
  <2>5. /\ Sends(epf_sched_cell_meas_rep(b), 31, Bytes(body) + Bytes(<<>>))
        /\ Sends(epf_trigger_cell_meas_rep(b), 27, Bytes(body) + Bytes(<<>>))
    BY <2>3, <2>4, BytesNone, HasSends
  <2>6. /\ Sends(epf_sched_cell_meas_rep(b), 31, x)
        /\ Sends(epf_trigger_cell_meas_rep(b), 27, x)
    BY <2>3, <2>5, BytesNone
  <2>7. QED
    BY <2>1, <2>3, <2>6, ArrayParsers, RowAgrees, Zenon
<1>7. QED
  <2>1. /\ WellFormed(Packet(epf_sched_cell_meas_req, epp_sched_cell_meas_req,
                             CellMeasReqOut))
        /\ WellFormed(Packet(epf_trigger_cell_meas_req,
                             epp_trigger_cell_meas_req, CellMeasReqOut))
    BY <1>5, AgreeWellFormed
  <2>2. \A b \in BOOLEAN :
          /\ WellFormed(Packet(epf_sched_cell_meas_rep(b),
                               epp_sched_cell_meas_rep, CellMeasRepOut(b)))
          /\ WellFormed(Packet(epf_trigger_cell_meas_rep(b),
                               epp_trigger_cell_meas_rep, CellMeasRepOut(b)))
    BY <1>6, AgreeWellFormed
  <2>3. QED
    BY <2>1, <2>2 DEF CellPackets

RanSetupPackets ==
  {Packet(epf_single_ran_setup_rep(b), epp_single_ran_setup_rep,
          RanSetupOut(b)) : b \in BOOLEAN}

LEMMA RanSetupWellFormed == \A m \in RanSetupPackets : WellFormed(m)
<1>1. ASSUME NEW b \in BOOLEAN
      PROVE  WellFormed(Packet(epf_single_ran_setup_rep(b),
                               epp_single_ran_setup_rep, RanSetupOut(b)))
  <2> DEFINE t == Token("RAN_MAC_SCHED", 8, 0)
             n == IF b THEN 1 ELSE 0
             x == IF b THEN 8 ELSE 0
             body == Once(12) \o Opt(b, 8)
             fmt == epf_single_ran_setup_rep(b)
  <2>1. t \in Tokens /\ t.type = "RAN_MAC_SCHED" /\ SizeofTLV + t.len = 8
    BY TokenIs DEF TokenTypes, SizeofTLV
  <2>2. RanSetupOut(b) = When(b, t)
    BY DEF RanSetupOut, SizeofMacSched
  <2> HIDE DEF t
  <2>3. Row(RanSetupOut(b), n, x, {"RAN_MAC_SCHED"})
    BY <2>1, <2>2, RowWhen
  <2>4. Bytes(body) = 12 + x
    <3>1. Once(12) \in Seq(Loops) /\ Bytes(Once(12)) = 1 * 12
      BY BytesOne DEF Once, Times
    <3>2. Opt(b, 8) \in Seq(Loops) /\ Bytes(Opt(b, 8)) = x
      BY BytesOpt
    <3>3. Bytes(body) = Bytes(Once(12)) + Bytes(Opt(b, 8))
      BY <3>1, <3>2, BytesConcat
    <3>4. QED
      BY <3>1, <3>2, <3>3
  <2>5. Has(fmt, 27, body, <<>>)
    BY DEF Has, epf_single_ran_setup_rep, RanSetupBody, Ran, Message,
           SizeofRanSetup, SizeofMacSched
  <2>6. n <= 16 /\ x \in Nat /\ 12 + x # 0
    OBVIOUS
  <2> HIDE DEF n, x, body, fmt
  <2>7. Sends(fmt, 27, Bytes(body) + Bytes(<<>>))
    BY <2>4, <2>5, <2>6, BytesNone, HasSends
  <2>8. Sends(fmt, 27, 12 + x)
    BY <2>4, <2>6, <2>7, BytesNone
  <2>9. Agree(fmt, epp_single_ran_setup_rep, RanSetupOut(b))
    BY <2>3, <2>6, <2>8, WalkingParsers, RowAgrees, Zenon
  <2>10. QED
    BY <2>9, AgreeWellFormed DEF fmt
<1>2. QED
  BY <1>1 DEF RanSetupPackets

\* With a user scheduler or without one, and any number of users: the
\* formatters do not cut the list.
SlicesWith(b) ==
  {Packet(epf_single_ran_slice_rep(b, users), epp_single_ran_slice_rep,
          SliceOut(b, users)) : users \in Nat}
  \cup {Packet(epf_single_ran_slice_add(b, users), epp_single_ran_slice_add,
               SliceOut(b, users)) : users \in Nat}
  \cup {Packet(epf_single_ran_slice_set(TRUE, b, users),
               epp_single_ran_slice_set, SliceOut(b, users)) : users \in Nat}
  \cup {Packet(epf_single_ran_slice_set(FALSE, b, users),
               epp_single_ran_slice_set, <<>>) : users \in Nat}
\* Those whose size the length of a header can say.
SlicePackets == {m \in SlicesWith(TRUE) \cup SlicesWith(FALSE) : m.size < U16}

(* The bytes of a slice's tokens.                                          *)
LEMMA SliceBytes ==
  ASSUME NEW b \in BOOLEAN, NEW users \in Nat
  PROVE  Bytes(SliceTokens(b, users)) =
           (6 + (IF b THEN 8 ELSE 0)) + (IF users > 0 THEN 4 + users * 2 ELSE 0)
<1> DEFINE k == 4 + users * 2
           some == users > 0
           y == IF b THEN 8 ELSE 0
           z == IF some THEN k ELSE 0
<1>5. y \in Nat /\ z \in Nat
  OBVIOUS
<1> HIDE DEF k, some, y, z
<1>11. Bytes(SliceTokens(b, users)) = (6 + y) + z
  <2> DEFINE a == Once(6)
             c == Opt(b, 8)
             d == RntiReport(users)
  <2>1. a \in Seq(Loops) /\ Bytes(a) = 1 * 6
    BY BytesOne DEF Once, Times
  <2>2. c \in Seq(Loops) /\ Bytes(c) = y
    BY BytesOpt DEF y
  <2>3. d \in Seq(Loops) /\ Bytes(d) = z
    <3>1. CASE users = 0
      BY <3>1, BytesNone DEF RntiReport, z, some
    <3>2. CASE users # 0
      <4>1. d = Times(1, 6) \o Times(users - 1, 2) /\ users - 1 \in Nat
        BY <3>2 DEF RntiReport, Once, SizeofTLV, SizeofRnti
      <4>2. /\ Times(1, 6) \in Seq(Loops)
            /\ Times(users - 1, 2) \in Seq(Loops)
        BY <4>1, BytesOne DEF Times
      <4>3. Bytes(Times(1, 6) \o Times(users - 1, 2)) = 1 * 6 + (users - 1) * 2
        <5>1. 1 \in Nat /\ 6 \in Nat /\ 2 \in Nat
          OBVIOUS
        <5>2. QED
          BY <4>1, <5>1, BytesOfTwo
      <4>4. 1 * 6 + (users - 1) * 2 = z
        BY <3>2 DEF z, some, k
      <4>5. QED
        BY <4>1, <4>2, <4>3, <4>4, BytesConcat
    <3>3. QED
      BY <3>1, <3>2
  <2>4. SliceTokens(b, users) = (a \o c) \o d
    BY DEF SliceTokens, SizeofSliceRes, SizeofSliceSched
  <2> HIDE DEF a, c, d
  <2>5. a \o c \in Seq(Loops) /\ Bytes(a \o c) = Bytes(a) + Bytes(c)
    BY <2>1, <2>2, BytesConcat
  <2>6. Bytes((a \o c) \o d) = Bytes(a \o c) + Bytes(d)
    BY <2>3, <2>5, BytesConcat
  <2>7. QED
    BY <1>5, <2>1, <2>2, <2>3, <2>4, <2>5, <2>6
<1>12. QED
  BY <1>11 DEF y, z, k, some

(* What the formatter of a slice's tokens writes, and what it is.          *)
LEMMA SliceRow ==
  ASSUME NEW b \in BOOLEAN, NEW users \in Nat, users * 2 < U16
  PROVE  /\ Bytes(SliceTokens(b, users)) \in Nat
         /\ \E n, types : Row(SliceOut(b, users), n,
                              Bytes(SliceTokens(b, users)), types) /\ n <= 16
<1> DEFINE s == Token("RAN_SLICE_MAC_RES", 6, 0)
           t == Token("RAN_SLICE_MAC_SCHED", 8, 0)
           k == 4 + users * 2
           r == Token("RNTI_REPORT", k, users)
           some == users > 0
           y == IF b THEN 8 ELSE 0
           z == IF some THEN k ELSE 0
           n == IF b THEN 1 ELSE 0
           o == IF some THEN 1 ELSE 0
<1>1. k \in Nat /\ k >= SizeofTLV
  BY DEF SizeofTLV
<1>2. /\ s \in Tokens /\ s.type = "RAN_SLICE_MAC_RES" /\ SizeofTLV + s.len = 6
      /\ t \in Tokens /\ t.type = "RAN_SLICE_MAC_SCHED" /\ SizeofTLV + t.len = 8
  BY TokenIs DEF TokenTypes, SizeofTLV
<1>3. r \in Tokens /\ r.type = "RNTI_REPORT" /\ SizeofTLV + r.len = k
  <2> HIDE DEF k
  <2> QED
    BY <1>1, TokenIs DEF TokenTypes
<1>4. SliceOut(b, users) = (<<s>> \o When(b, t)) \o When(some, r)
  <2>1. (users * SizeofRnti) % U16 = users * 2
    BY ModSmall DEF U16, SizeofRnti
  <2>2. Token("RNTI_REPORT", SizeofTLV + ((users * SizeofRnti) % U16), users) = r
    BY <2>1 DEF SizeofTLV
  <2>3. QED
    BY <2>2 DEF SliceOut, SizeofSliceRes, SizeofSliceSched
<1>5. /\ some \in BOOLEAN /\ n \in 0..1 /\ o \in 0..1
      /\ y \in Nat /\ z \in Nat
  BY <1>1
<1>6. Row(<<s>>, 1, 6, {"RAN_SLICE_MAC_RES"})
  <2> HIDE DEF s
  <2> QED
    BY <1>2, RowOne
<1>7. Row(When(b, t), n, y, {"RAN_SLICE_MAC_SCHED"})
  <2> HIDE DEF t
  <2> QED
    BY <1>2, RowWhen
<1>8. Row(When(some, r), o, z, {"RNTI_REPORT"})
  <2> HIDE DEF r, k, some
  <2> QED
    BY <1>3, <1>5, RowWhen
<1> DEFINE tok == <<s>> \o When(b, t)
           types == {"RAN_SLICE_MAC_RES"} \cup {"RAN_SLICE_MAC_SCHED"}
           all == types \cup {"RNTI_REPORT"}
<1> HIDE DEF s, t, r, k, some, y, z, n, o
<1>9. Row(tok, 1 + n, 6 + y, types)
  <2>1. {"RAN_SLICE_MAC_RES"} \cap {"RAN_SLICE_MAC_SCHED"} = {}
    OBVIOUS
  <2>2. QED
    BY <1>6, <1>7, <2>1, RowsJoin, Zenon
<1>10. Row(SliceOut(b, users), (1 + n) + o, (6 + y) + z, all)
  <2>1. types \cap {"RNTI_REPORT"} = {}
    OBVIOUS
  <2> HIDE DEF tok, types
  <2>2. Row(tok \o When(some, r), (1 + n) + o, (6 + y) + z,
            types \cup {"RNTI_REPORT"})
    BY <1>8, <1>9, <2>1, RowsJoin, Zenon
  <2>3. QED
    BY <1>4, <2>2 DEF tok
<1>11. Bytes(SliceTokens(b, users)) = (6 + y) + z
  BY SliceBytes DEF y, z, some, k
<1>12. (6 + y) + z \in Nat /\ (1 + n) + o <= 16
  BY <1>5
<1>13. QED
  BY <1>10, <1>11, <1>12, Zenon

LEMMA SlicesWellFormed == \A m \in SlicePackets : WellFormed(m)
<1>1. Bytes(SliceId) = 8 /\ Bytes(UncheckedSliceId) = 8
  <2>1. Bytes(SliceId) = 1 * 8 /\ Bytes(UncheckedSliceId) = 1 * 8
    BY BytesOne DEF SliceId, UncheckedSliceId, Once, Times, SizeofSliceInf
  <2>2. QED
    BY <2>1
<1>2. ASSUME NEW fmt, NEW body, Bytes(body) = 8,
             NEW b \in BOOLEAN, NEW users \in Nat,
             Has(fmt, 27, body, SliceTokens(b, users)),
             NEW q, Reads(q, 27, 27, 8, {"slice"}, TRUE)
      PROVE  Packet(fmt, q, SliceOut(b, users)).size < U16
             => WellFormed(Packet(fmt, q, SliceOut(b, users)))
  <2> DEFINE x == Bytes(SliceTokens(b, users))
  <2>2. x \in Nat /\ users * 2 <= x
    BY SliceBytes
  <2>3. Sends(fmt, 27, 8 + x)
    <3>1. Bytes(body) \in Nat
      BY <1>2
    <3>2. Sends(fmt, 27, Bytes(body) + x)
      BY <1>2, <2>2, <3>1, HasSends
    <3>3. QED
      BY <1>2, <3>2
  <2> HIDE DEF x
  <2>4. 8 + x # 0
    BY <2>2
  <2>7. SUFFICES ASSUME Packet(fmt, q, SliceOut(b, users)).size < U16
                 PROVE  WellFormed(Packet(fmt, q, SliceOut(b, users)))
    OBVIOUS
  <2>8. users * 2 < U16
    <3>1. 27 + (8 + x) < U16
      BY <2>3, <2>7 DEF Packet, Sends
    <3>2. QED
      BY <2>2, <3>1 DEF U16
  <2>1. PICK n, types : Row(SliceOut(b, users), n, x, types) /\ n <= 16
    BY <2>8, SliceRow DEF x
  <2>5. Agree(fmt, q, SliceOut(b, users))
    BY <1>2, <2>1, <2>3, <2>4, RowAgrees, Zenon
  <2>6. QED
    BY <2>5, AgreeWellFormed
<1>3. ASSUME NEW b \in BOOLEAN, NEW users \in Nat
      PROVE  /\ Has(epf_single_ran_slice_rep(b, users), 27, UncheckedSliceId,
                    SliceTokens(b, users))
             /\ Has(epf_single_ran_slice_add(b, users), 27, SliceId,
                    SliceTokens(b, users))
             /\ Has(epf_single_ran_slice_set(TRUE, b, users), 27, SliceId,
                    SliceTokens(b, users))
             /\ Has(epf_single_ran_slice_set(FALSE, b, users), 27, Once(8), <<>>)
  BY DEF Has, epf_single_ran_slice_rep, epf_single_ran_slice_add,
         epf_single_ran_slice_set, Slice, Ran, Message, SliceId, SizeofSliceInf
<1> DEFINE Short(m) == m.size < U16 => WellFormed(m)
<1>4. ASSUME NEW b \in BOOLEAN, NEW users \in Nat
      PROVE  /\ Short(Packet(epf_single_ran_slice_rep(b, users),
                             epp_single_ran_slice_rep, SliceOut(b, users)))
             /\ Short(Packet(epf_single_ran_slice_add(b, users),
                             epp_single_ran_slice_add, SliceOut(b, users)))
             /\ Short(Packet(epf_single_ran_slice_set(TRUE, b, users),
                             epp_single_ran_slice_set, SliceOut(b, users)))
  BY <1>1, <1>2, <1>3, WalkingParsers, Zenon
<1>5. ASSUME NEW b \in BOOLEAN, NEW users \in Nat
      PROVE  WellFormed(Packet(epf_single_ran_slice_set(FALSE, b, users),
                               epp_single_ran_slice_set, <<>>))
  <2>1. 8 \in Nat /\ 8 = 8 + 0 /\ 0 <= 16 /\ 8 # 0 /\ Row(<<>>, 0, 0, {})
    BY RowNone
  <2>2. Sends(epf_single_ran_slice_set(FALSE, b, users), 27, 8)
    BY <1>3, <2>1, HasOnce
  <2>3. Agree(epf_single_ran_slice_set(FALSE, b, users),
              epp_single_ran_slice_set, <<>>)
    BY <2>1, <2>2, WalkingParsers, RowAgrees
  <2>4. QED
    BY <2>3, AgreeWellFormed
<1>6. ASSUME NEW b \in BOOLEAN, NEW m \in SlicesWith(b) PROVE Short(m)
  BY <1>4, <1>5 DEF SlicesWith
<1>7. QED
  BY <1>6 DEF SlicePackets

-----------------------------------------------------------------------------
\* Every message of this library but the reply of the UE report (EpUeRep), the
\* failure reply of the eNB capabilities, which is not a message, and the slices
\* of 65536 bytes or more, whose size no header can say.
LibraryPackets ==
  FixedPackets \cup ArrayPackets \cup CellPackets \cup RefusalPackets \cup
  RanSetupPackets \cup SlicePackets

(* Formatters and parsers agree on where the parts of a message are,       *)
(* whatever the number of cells and measurements, and whatever the number  *)
(* of users as long as the size of the message, and so the length of their *)
(* list (epTLV.c:51), fits 16 bits.                                        *)
THEOREM PacketsWellFormed == \A m \in LibraryPackets : WellFormed(m)
BY FixedWellFormed, ArraysWellFormed, CellsWellFormed, RefusalsWellFormed,
   RanSetupWellFormed, SlicesWellFormed DEF LibraryPackets
=============================================================================
