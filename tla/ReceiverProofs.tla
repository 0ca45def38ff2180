--------------------------- MODULE ReceiverProofs ---------------------------
(***************************************************************************)
(* What the receiving half of the supervisor makes of a bus, proved for    *)
(* every script, every way to cut it into reads and every size of buffer.  *)
(***************************************************************************)
EXTENDS Receiver, SequenceTheorems, WellFoundedInduction, TLAPS

-----------------------------------------------------------------------------
(***************************************************************************)
(* Induction.  A set of numbers stands for what is proved of them.         *)
(***************************************************************************)

\* A set of numbers that is not empty has a least one.
LEMMA LeastNumber ==
  ASSUME NEW S \in SUBSET Nat, S # {}
  PROVE  \E n \in S : \A m \in S : n <= m
<1> DEFINE R == OpToRel(<, Nat)
<1>1. IsWellFoundedOn(R, Nat)
  BY NatLessThanWellFounded
<1>2. \A x, y \in Nat : x < y => <<x, y>> \in R
  BY DEF OpToRel
<1>. HIDE DEF R
<1>3. PICK x \in S : \A y \in S : ~ (<<y, x>> \in R)
  BY <1>1, WFMin
<1>4. ASSUME NEW y \in S PROVE x <= y
  <2>1. ~ (y < x)
    BY <1>2, <1>3
  <2>. QED BY <2>1
<1>. QED BY <1>4

\* A set that holds every number whose predecessors it holds is all of them.
LEMMA Induction ==
  ASSUME NEW S \in SUBSET Nat,
         \A n \in Nat : (\A m \in Nat : m < n => m \in S) => n \in S
  PROVE  S = Nat
<1>1. SUFFICES ASSUME Nat \ S # {} PROVE FALSE
  OBVIOUS
<1>2. PICK n \in Nat \ S : \A m \in Nat \ S : n <= m
  BY <1>1, LeastNumber
<1>3. \A m \in Nat : m < n => m \in S
  BY <1>2
<1>. QED BY <1>2, <1>3

\* Recursion on a number, the step a function.
Stepping(N, T, step) == step \in [1..N -> [T -> T]]

Stepped(f, N, T, start, step) ==
  f \in [0..N -> T] /\ f[0] = start /\ \A i \in 1..N : f[i] = step[i][f[i - 1]]

\* A recursion on a number has a result.
LEMMA Recursion ==
  ASSUME NEW N \in Nat, NEW T, NEW start \in T, NEW step, Stepping(N, T, step)
  PROVE  \E f : Stepped(f, N, T, start, step)
<1>. USE DEF Stepping, Stepped
<1> DEFINE Good(f, n) == /\ f \in [0..n -> T] /\ f[0] = start
                         /\ \A i \in 1..n : f[i] = step[i][f[i - 1]]
           S == {n \in Nat : n <= N => \E f : Good(f, n)}
<1>1. Good([i \in 0..0 |-> start], 0)
  OBVIOUS
<1>2. ASSUME NEW n \in Nat, n # 0, n <= N, NEW f, Good(f, n - 1)
      PROVE  Good([i \in 0..n |-> IF i = n THEN step[n][f[n - 1]] ELSE f[i]], n)
  <2> DEFINE g == [i \in 0..n |-> IF i = n THEN step[n][f[n - 1]] ELSE f[i]]
  <2>1. n - 1 \in 0..(n - 1) /\ 0 \in 0..(n - 1) /\ 0 # n /\ n \in 1..N
    BY <1>2
  <2>2. f[n - 1] \in T
    BY <1>2, <2>1
  <2>3. step[n][f[n - 1]] \in T
    <3>1. step[n] \in [T -> T]
      BY <2>1
    <3>. QED BY <2>2, <3>1
  <2>4. \A i \in 0..n : i # n => i \in 0..(n - 1) /\ g[i] = f[i] /\ f[i] \in T
    BY <1>2
  <2>5. g[n] = step[n][f[n - 1]]
    BY <2>1
  <2>6. g \in [0..n -> T]
    <3>1. \A i \in 0..n : g[i] \in T
      BY <2>3, <2>4, <2>5
    <3>2. g = [i \in 0..n |-> g[i]]
      OBVIOUS
    <3>. HIDE DEF g
    <3>. QED BY <3>1, <3>2
  <2>7. g[0] = start
    BY <1>2, <2>1
  <2>8. ASSUME NEW i \in 1..n PROVE g[i] = step[i][g[i - 1]]
    <3>1. g[i - 1] = f[i - 1]
      BY <1>2
    <3>2. CASE i = n
      BY <2>5, <3>1, <3>2
    <3>3. CASE i # n
      <4>1. i \in 1..(n - 1) /\ g[i] = f[i]
        BY <2>4, <3>3
      <4>. QED BY <1>2, <3>1, <4>1
    <3>. QED BY <3>2, <3>3
  <2>. QED BY <2>6, <2>7, <2>8
<1>3. \A n \in Nat : n \in S <=> (n <= N => \E f : Good(f, n))
  OBVIOUS
<1>4. S \in SUBSET Nat
  OBVIOUS
<1>5. ASSUME NEW n \in Nat, \A m \in Nat : m < n => m \in S PROVE n \in S
  <2>. HIDE DEF S, Good
  <2>1. CASE n = 0
    BY <1>1, <1>3, <2>1
  <2>2. CASE n # 0 /\ n <= N
    <3>1. n - 1 \in Nat /\ n - 1 \in S /\ n - 1 <= N
      BY <1>5, <2>2
    <3>2. PICK f : Good(f, n - 1)
      BY <1>3, <3>1
    <3>3. Good([i \in 0..n |-> IF i = n THEN step[n][f[n - 1]] ELSE f[i]], n)
      BY <1>2, <2>2, <3>2
    <3>. QED BY <1>3, <3>3
  <2>. QED BY <1>3, <2>1, <2>2
<1>6. S = Nat
  <2>. HIDE DEF S
  <2>. QED BY <1>4, <1>5, Induction
<1>7. PICK f : Good(f, N)
  <2>. HIDE DEF S, Good
  <2>. QED BY <1>3, <1>6
<1>. QED BY <1>7

\* Two functions that start alike and step alike are alike.
LEMMA Alike ==
  ASSUME NEW N \in Nat, NEW f, NEW g, f[0] = g[0],
         \A i \in 1..N : f[i - 1] = g[i - 1] => f[i] = g[i]
  PROVE  \A i \in 0..N : f[i] = g[i]
<1> DEFINE S == {n \in Nat : n <= N => f[n] = g[n]}
<1>1. \A n \in Nat : n \in S <=> (n <= N => f[n] = g[n])
  OBVIOUS
<1>2. S \in SUBSET Nat
  OBVIOUS
<1>. HIDE DEF S
<1>3. ASSUME NEW n \in Nat, \A m \in Nat : m < n => m \in S PROVE n \in S
  <2>1. CASE n = 0
    BY <1>1, <2>1
  <2>2. CASE n # 0 /\ n <= N
    <3>1. n - 1 \in Nat /\ n - 1 \in S /\ n - 1 <= N /\ n \in 1..N
      BY <1>3, <2>2
    <3>. QED BY <1>1, <3>1
  <2>. QED BY <1>1, <2>1, <2>2
<1>4. S = Nat
  BY <1>2, <1>3, Induction
<1>. QED BY <1>1, <1>4

-----------------------------------------------------------------------------
(***************************************************************************)
(* Going through a string from the left: each step leaves less to read, so *)
(* what the string says is well defined and unfolds step by step.          *)
(***************************************************************************)

\* One step of a reading, whatever the rest is read by; and what is asked of the
\* steps: they leave less.
Read(said, rest, read) ==
  [s \in Seq(Byte) |-> IF s = <<>> THEN <<>> ELSE said[s] \o read[rest[s]]]

Steps(said, rest, F) ==
  \A s \in Seq(Byte) : s # <<>> =>
    said[s] \in Seq(F) /\ rest[s] \in Seq(Byte) /\ Len(rest[s]) < Len(s)

\* A function that is right about every string of up to n bytes.
RightUpTo(n, said, rest, F, read) ==
  /\ read \in [Seq(Byte) -> Seq(F)]
  /\ \A s \in Seq(Byte) : Len(s) <= n => read[s] = Read(said, rest, read)[s]

\* A length is a number.
LEMMA LenIsNat == \A S : \A s \in Seq(S) : Len(s) \in Nat
OBVIOUS

\* The empty string is a string of anything.
LEMMA EmptyIsSeq == \A S : <<>> \in Seq(S)
OBVIOUS

\* It has no length.
LEMMA LenOfNothing == \A s : s = <<>> => Len(s) = 0
OBVIOUS

\* And only it has none.
LEMMA NothingLeft == \A S : \A s \in Seq(S) : Len(s) <= 0 => s = <<>>
OBVIOUS

\* There is a function right about the empty string.
LEMMA NothingRead ==
  ASSUME NEW said, NEW rest, NEW F
  PROVE  RightUpTo(0, said, rest, F, [s \in Seq(Byte) |-> <<>>])
<1>1. [s \in Seq(Byte) |-> <<>>] \in [Seq(Byte) -> Seq(F)]
  OBVIOUS
<1>. QED BY <1>1, NothingLeft DEF RightUpTo, Read

\* One right about strings of up to n bytes makes one right about those one longer.
LEMMA OneMoreIsRead ==
  ASSUME NEW said, NEW rest, NEW F, Steps(said, rest, F), NEW n \in Nat, NEW read,
         RightUpTo(n, said, rest, F, read)
  PROVE  RightUpTo(n + 1, said, rest, F, Read(said, rest, read))
<1> DEFINE next == Read(said, rest, read)
<1>1. \A s \in Seq(Byte) : next[s] = IF s = <<>> THEN <<>> ELSE said[s] \o read[rest[s]]
  BY DEF Read
<1>2. next \in [Seq(Byte) -> Seq(F)]
  <2>1. ASSUME NEW s \in Seq(Byte), s # <<>> PROVE said[s] \o read[rest[s]] \in Seq(F)
    <3>1. said[s] \in Seq(F) /\ rest[s] \in Seq(Byte)
      BY <2>1 DEF Steps
    <3>2. read[rest[s]] \in Seq(F)
      BY <3>1 DEF RightUpTo
    <3>. QED BY <3>1, <3>2
  <2>2. \A s \in Seq(Byte) : (IF s = <<>> THEN <<>> ELSE said[s] \o read[rest[s]]) \in Seq(F)
    <3>. HIDE DEF next
    <3>1. <<>> \in Seq(F)
      BY EmptyIsSeq
    <3>. QED BY <2>1, <3>1
  <2>. QED BY <2>2 DEF Read
<1>3. ASSUME NEW s \in Seq(Byte), Len(s) <= n + 1 PROVE next[s] = Read(said, rest, next)[s]
  <2>1. CASE s = <<>>
    BY <2>1 DEF Read
  <2>2. CASE s # <<>>
    <3>1. rest[s] \in Seq(Byte) /\ Len(rest[s]) < Len(s)
      BY <2>2 DEF Steps
    <3>2. Len(rest[s]) <= n
      BY <1>3, <3>1, LenIsNat
    <3>3. read[rest[s]] = next[rest[s]]
      BY <3>1, <3>2 DEF RightUpTo
    <3>4. Read(said, rest, next)[s] = said[s] \o next[rest[s]]
      BY <2>2 DEF Read
    <3>. QED BY <1>1, <2>2, <3>3, <3>4
  <2>. QED BY <2>1, <2>2
<1>. QED BY <1>2, <1>3 DEF RightUpTo

\* So there is one for every length.
LEMMA SomeReadingIsRight ==
  ASSUME NEW said, NEW rest, NEW F, Steps(said, rest, F)
  PROVE  \A n \in Nat : \E read : RightUpTo(n, said, rest, F, read)
<1> DEFINE S == {n \in Nat : \E read : RightUpTo(n, said, rest, F, read)}
<1>1. \A n \in Nat : n \in S <=> \E read : RightUpTo(n, said, rest, F, read)
  OBVIOUS
<1>2. S \in SUBSET Nat
  OBVIOUS
<1>3. ASSUME NEW n \in Nat, \A m \in Nat : m < n => m \in S PROVE n \in S
  <2>. HIDE DEF S
  <2>1. CASE n = 0
    BY <1>1, <2>1, NothingRead
  <2>2. CASE n # 0
    <3>1. n - 1 \in Nat /\ n - 1 \in S /\ (n - 1) + 1 = n
      BY <1>3, <2>2
    <3>2. PICK read : RightUpTo(n - 1, said, rest, F, read)
      BY <1>1, <3>1
    <3>3. RightUpTo((n - 1) + 1, said, rest, F, Read(said, rest, read))
      BY <3>1, <3>2, OneMoreIsRead
    <3>4. RightUpTo(n, said, rest, F, Read(said, rest, read))
      BY <3>1, <3>3
    <3>. QED BY <1>1, <3>4
  <2>. QED BY <2>1, <2>2
<1>. HIDE DEF S
<1>4. S = Nat
  BY <1>2, <1>3, Induction
<1>. QED BY <1>1, <1>4

\* Two that are right agree where both are.
LEMMA RightReadingsAgree ==
  ASSUME NEW said, NEW rest, NEW F, Steps(said, rest, F), NEW n \in Nat, NEW m \in Nat,
         NEW f, RightUpTo(n, said, rest, F, f), NEW g, RightUpTo(m, said, rest, F, g)
  PROVE  \A s \in Seq(Byte) : Len(s) <= n /\ Len(s) <= m => f[s] = g[s]
<1> DEFINE S == {k \in Nat : k <= n /\ k <= m => \A s \in Seq(Byte) : Len(s) = k => f[s] = g[s]}
<1>1. \A k \in Nat :
        k \in S <=> (k <= n /\ k <= m => \A s \in Seq(Byte) : Len(s) = k => f[s] = g[s])
  OBVIOUS
<1>2. S \in SUBSET Nat
  OBVIOUS
<1>. HIDE DEF S
<1>3. ASSUME NEW k \in Nat, \A j \in Nat : j < k => j \in S PROVE k \in S
  <2>1. SUFFICES ASSUME k <= n, k <= m, NEW s \in Seq(Byte), Len(s) = k PROVE f[s] = g[s]
    BY <1>1
  <2>2. f[s] = Read(said, rest, f)[s] /\ g[s] = Read(said, rest, g)[s]
    BY <2>1 DEF RightUpTo
  <2>3. CASE s = <<>>
    BY <2>2, <2>3 DEF Read
  <2>4. CASE s # <<>>
    <3>1. rest[s] \in Seq(Byte) /\ Len(rest[s]) < Len(s)
      BY <2>4 DEF Steps
    <3>2. Len(rest[s]) \in Nat /\ Len(rest[s]) \in S /\ Len(rest[s]) <= n /\ Len(rest[s]) <= m
      BY <1>3, <2>1, <3>1, LenIsNat
    <3>3. f[rest[s]] = g[rest[s]]
      BY <1>1, <3>1, <3>2
    <3>. QED BY <2>2, <2>4, <3>3 DEF Read
  <2>. QED BY <2>3, <2>4
<1>4. S = Nat
  BY <1>2, <1>3, Induction
<1>. QED BY <1>1, <1>4, LenIsNat

\* So one function is right about every string.
LEMMA AReadingExists ==
  ASSUME NEW said, NEW rest, NEW F, Steps(said, rest, F)
  PROVE  \E read : read \in [Seq(Byte) -> Seq(F)] /\ read = Read(said, rest, read)
<1> DEFINE upTo(n) == CHOOSE read : RightUpTo(n, said, rest, F, read)
           f == [s \in Seq(Byte) |-> upTo(Len(s))[s]]
<1>1. \A n \in Nat : RightUpTo(n, said, rest, F, upTo(n))
  BY SomeReadingIsRight
<1>2. \A s \in Seq(Byte) : f[s] = upTo(Len(s))[s]
  OBVIOUS
<1>3. \A s \in Seq(Byte) : upTo(Len(s))[s] \in Seq(F)
  BY <1>1, LenIsNat DEF RightUpTo
<1>4. f \in [Seq(Byte) -> Seq(F)]
  BY <1>3
<1>5. f = [s \in Seq(Byte) |-> f[s]]
  OBVIOUS
<1>. HIDE DEF upTo, f
<1>6. ASSUME NEW s \in Seq(Byte) PROVE f[s] = Read(said, rest, f)[s]
  <2>1. RightUpTo(Len(s), said, rest, F, upTo(Len(s)))
    BY <1>1, LenIsNat
  <2>2. f[s] = Read(said, rest, upTo(Len(s)))[s]
    BY <1>2, <2>1, LenIsNat DEF RightUpTo
  <2>3. CASE s = <<>>
    BY <2>2, <2>3 DEF Read
  <2>4. CASE s # <<>>
    <3>1. rest[s] \in Seq(Byte) /\ Len(rest[s]) < Len(s)
      BY <2>4 DEF Steps
    <3>2. RightUpTo(Len(rest[s]), said, rest, F, upTo(Len(rest[s])))
      BY <1>1, <3>1, LenIsNat
    <3>3. Len(rest[s]) <= Len(rest[s]) /\ Len(rest[s]) <= Len(s)
      BY <3>1, LenIsNat
    <3>4. upTo(Len(s))[rest[s]] = upTo(Len(rest[s]))[rest[s]]
      BY <2>1, <3>1, <3>2, <3>3, RightReadingsAgree, LenIsNat
    <3>5. upTo(Len(s))[rest[s]] = f[rest[s]]
      BY <1>2, <3>1, <3>4
    <3>. QED BY <2>2, <2>4, <3>5 DEF Read
  <2>. QED BY <2>3, <2>4
<1>7. f = Read(said, rest, f)
  <2>1. \A s \in Seq(Byte) : f[s] = IF s = <<>> THEN <<>> ELSE said[s] \o f[rest[s]]
    BY <1>6 DEF Read
  <2>. QED BY <1>5, <2>1 DEF Read
<1>. QED BY <1>4, <1>7

\* A function that is its own step by step reading yields what the steps yield.
LEMMA ReadingsAreTyped ==
  ASSUME NEW said, NEW rest, NEW F, Steps(said, rest, F), NEW read, read = Read(said, rest, read)
  PROVE  read \in [Seq(Byte) -> Seq(F)]
<1> DEFINE S == {n \in Nat : \A s \in Seq(Byte) : Len(s) = n => read[s] \in Seq(F)}
<1>1. \A n \in Nat : n \in S <=> \A s \in Seq(Byte) : Len(s) = n => read[s] \in Seq(F)
  OBVIOUS
<1>2. S \in SUBSET Nat
  OBVIOUS
<1>. HIDE DEF S
<1>3. \A s \in Seq(Byte) : read[s] = IF s = <<>> THEN <<>> ELSE said[s] \o read[rest[s]]
  BY DEF Read
<1>4. ASSUME NEW n \in Nat, \A m \in Nat : m < n => m \in S PROVE n \in S
  <2>1. SUFFICES ASSUME NEW s \in Seq(Byte), Len(s) = n PROVE read[s] \in Seq(F)
    BY <1>1
  <2>2. CASE s = <<>>
    <3>1. read[s] = <<>>
      BY <1>3, <2>2
    <3>. QED BY <3>1, EmptyIsSeq
  <2>3. CASE s # <<>>
    <3>1. said[s] \in Seq(F) /\ rest[s] \in Seq(Byte) /\ Len(rest[s]) < Len(s)
      BY <2>3 DEF Steps
    <3>2. Len(rest[s]) \in Nat /\ Len(rest[s]) \in S
      BY <1>4, <2>1, <3>1, LenIsNat
    <3>3. read[rest[s]] \in Seq(F)
      BY <1>1, <3>1, <3>2
    <3>4. said[s] \o read[rest[s]] \in Seq(F)
      BY <3>1, <3>3
    <3>. QED BY <1>3, <2>3, <3>4
  <2>. QED BY <2>2, <2>3
<1>5. S = Nat
  BY <1>2, <1>4, Induction
<1>6. \A s \in Seq(Byte) : read[s] \in Seq(F)
  BY <1>1, <1>5, LenIsNat
<1>7. read = [s \in Seq(Byte) |-> read[s]]
  BY DEF Read
<1>. QED BY <1>6, <1>7

\* What a loop over a string is: the step taken, and the loop over what is left.
LEMMA Unfold ==
  ASSUME NEW said, NEW rest, NEW F, Steps(said, rest, F)
  PROVE  /\ LeftToRight(said, rest) \in [Seq(Byte) -> Seq(F)]
         /\ LeftToRight(said, rest)[<<>>] = <<>>
         /\ \A s \in Seq(Byte) : s # <<>> =>
              LeftToRight(said, rest)[s] = said[s] \o LeftToRight(said, rest)[rest[s]]
<1> DEFINE f == LeftToRight(said, rest)
<1>1. LeftToRight(said, rest) = CHOOSE read : read = Read(said, rest, read)
  BY DEF LeftToRight, Read
<1>2. \E read : read = Read(said, rest, read)
  BY AReadingExists
<1>3. f = Read(said, rest, f)
  BY <1>1, <1>2
<1>. HIDE DEF f
<1>4. f \in [Seq(Byte) -> Seq(F)]
  BY <1>3, ReadingsAreTyped
<1>5. \A s \in Seq(Byte) : f[s] = IF s = <<>> THEN <<>> ELSE said[s] \o f[rest[s]]
  BY <1>3 DEF Read
<1>6. <<>> \in Seq(Byte)
  OBVIOUS
<1>7. f \in [Seq(Byte) -> Seq(F)] /\ f[<<>>] = <<>>
        /\ \A s \in Seq(Byte) : s # <<>> => f[s] = said[s] \o f[rest[s]]
  BY <1>4, <1>5, <1>6
<1>. QED BY <1>7 DEF f

\* The reading of a valve bus is LeftToRight of two functions.
LEMMA SaturnReads ==
  ASSUME NEW said, NEW rest
  PROVE  Saturn!LeftToRight(said, rest) = LeftToRight(said, rest)
BY DEF LeftToRight, Saturn!LeftToRight, Byte, Saturn!Byte

\* And so is that of the steam bus.
LEMMA DtvReads ==
  ASSUME NEW said, NEW rest
  PROVE  Dtv!LeftToRight(said, rest) = LeftToRight(said, rest)
BY DEF LeftToRight, Dtv!LeftToRight, Byte, Dtv!Byte

-----------------------------------------------------------------------------
(***************************************************************************)
(* Parts of a string, and of a string with more behind it.                 *)
(***************************************************************************)

\* A part of a string is a string.
LEMMA Cut ==
  ASSUME NEW S, NEW s \in Seq(S), NEW i \in Nat \ {0}, NEW j \in 0..Len(s)
  PROVE  /\ SubSeq(s, i, j) \in Seq(S)
         /\ Len(SubSeq(s, i, j)) = IF i <= j THEN j - i + 1 ELSE 0
         /\ \A k \in 1..(j - i + 1) : SubSeq(s, i, j)[k] = s[i + k - 1]
<1>1. \A k \in i..j : s[k] \in S
  BY ElementOfSeq
<1>. QED BY <1>1, SubSeqProperties

\* Two strings on end: the length, and the elements of either.
LEMMA MoreBehind ==
  ASSUME NEW S, NEW s \in Seq(S), NEW x \in Seq(S)
  PROVE  /\ s \o x \in Seq(S)
         /\ Len(s \o x) = Len(s) + Len(x)
         /\ \A k \in 1..Len(s) : (s \o x)[k] = s[k]
         /\ \A k \in 1..Len(x) : (s \o x)[Len(s) + k] = x[k]
<1>1. /\ s \o x \in Seq(S) /\ Len(s \o x) = Len(s) + Len(x)
      /\ \A k \in 1..(Len(s) + Len(x)) :
           (s \o x)[k] = IF k <= Len(s) THEN s[k] ELSE x[k - Len(s)]
  BY ConcatProperties
<1>2. \A k \in 1..Len(x) : Len(s) + k \in 1..(Len(s) + Len(x)) /\ ~ (Len(s) + k <= Len(s))
                             /\ (Len(s) + k) - Len(s) = k
  BY LenIsNat
<1>3. \A k \in 1..Len(s) : k \in 1..(Len(s) + Len(x)) /\ k <= Len(s)
  BY LenIsNat
<1>. QED BY <1>1, <1>2, <1>3

\* What stands behind a string makes no difference to a part of it.
LEMMA SameBeginning ==
  ASSUME NEW S, NEW s \in Seq(S), NEW x \in Seq(S), NEW i \in Nat \ {0}, NEW j \in 0..Len(s)
  PROVE  SubSeq(s \o x, i, j) = SubSeq(s, i, j)
<1>1. s \o x \in Seq(S) /\ j \in 0..Len(s \o x)
  BY MoreBehind, LenIsNat
<1>2. /\ SubSeq(s \o x, i, j) \in Seq(S) /\ SubSeq(s, i, j) \in Seq(S)
      /\ Len(SubSeq(s \o x, i, j)) = Len(SubSeq(s, i, j))
      /\ Len(SubSeq(s, i, j)) = IF i <= j THEN j - i + 1 ELSE 0
      /\ \A k \in 1..(j - i + 1) : SubSeq(s, i, j)[k] = s[i + k - 1]
      /\ \A k \in 1..(j - i + 1) : SubSeq(s \o x, i, j)[k] = (s \o x)[i + k - 1]
  BY <1>1, Cut
<1>3. ASSUME NEW k \in 1..Len(SubSeq(s, i, j))
      PROVE  SubSeq(s \o x, i, j)[k] = SubSeq(s, i, j)[k]
  <2>1. k \in 1..(j - i + 1) /\ i + k - 1 \in 1..Len(s)
    BY <1>2, LenIsNat
  <2>. QED BY <1>2, <2>1, MoreBehind
<1>. QED BY <1>2, <1>3, SeqEqual

\* The end of two strings on end, from within the first.
LEMMA SameEnd ==
  ASSUME NEW S, NEW s \in Seq(S), NEW x \in Seq(S), NEW i \in 1..(Len(s) + 1)
  PROVE  SubSeq(s \o x, i, Len(s \o x)) = SubSeq(s, i, Len(s)) \o x
<1> DEFINE a == SubSeq(s \o x, i, Len(s \o x))
           c == SubSeq(s, i, Len(s))
<1>1. s \o x \in Seq(S) /\ Len(s \o x) = Len(s) + Len(x) /\ Len(s) \in Nat /\ Len(x) \in Nat
  BY MoreBehind, LenIsNat
<1>2. /\ c \in Seq(S) /\ Len(c) = Len(s) - i + 1
      /\ \A k \in 1..Len(c) : c[k] = s[i + k - 1]
  <2>1. Len(s) \in 0..Len(s) /\ (i <= Len(s) => TRUE) /\ (~ (i <= Len(s)) => 0 = Len(s) - i + 1)
    BY <1>1
  <2>. QED BY <1>1, <2>1, Cut
<1>3. /\ a \in Seq(S) /\ Len(a) = (Len(s) + Len(x)) - i + 1
      /\ \A k \in 1..Len(a) : a[k] = (s \o x)[i + k - 1]
  <2>1. Len(s \o x) \in 0..Len(s \o x) /\ i \in Nat \ {0}
          /\ (~ (i <= Len(s \o x)) => 0 = Len(s \o x) - i + 1)
    BY <1>1
  <2>. QED BY <1>1, <2>1, Cut
<1>4. /\ c \o x \in Seq(S) /\ Len(c \o x) = Len(c) + Len(x)
      /\ \A k \in 1..Len(c) : (c \o x)[k] = c[k]
      /\ \A k \in 1..Len(x) : (c \o x)[Len(c) + k] = x[k]
  <2>. HIDE DEF c
  <2>1. c \in Seq(S)
    BY <1>2
  <2>. QED BY <2>1, MoreBehind
<1>. HIDE DEF a, c
<1>5. Len(a) = Len(c \o x)
  BY <1>1, <1>2, <1>3, <1>4
<1>6. ASSUME NEW k \in 1..Len(a) PROVE a[k] = (c \o x)[k]
  <2>1. CASE k <= Len(c)
    <3>1. k \in 1..Len(c) /\ i + k - 1 \in 1..Len(s)
      BY <1>1, <1>2, <2>1
    <3>. QED BY <1>2, <1>3, <1>4, <3>1, MoreBehind
  <2>2. CASE ~ (k <= Len(c))
    <3>1. k - Len(c) \in 1..Len(x) /\ Len(c) + (k - Len(c)) = k
            /\ Len(s) + (k - Len(c)) = i + k - 1
      BY <1>1, <1>2, <1>3, <2>2
    <3>2. (c \o x)[k] = x[k - Len(c)]
      BY <1>4, <3>1
    <3>3. (s \o x)[i + k - 1] = x[k - Len(c)]
      BY <3>1, MoreBehind
    <3>. QED BY <1>3, <3>2, <3>3
  <2>. QED BY <2>1, <2>2
<1>7. a = c \o x
  BY <1>3, <1>4, <1>5, <1>6, SeqEqual
<1>. QED BY <1>7 DEF a, c

\* The end of a string, element by element.
LEMMA TheRest ==
  ASSUME NEW S, NEW s \in Seq(S), NEW i \in 1..(Len(s) + 1)
  PROVE  /\ SubSeq(s, i, Len(s)) \in Seq(S)
         /\ Len(SubSeq(s, i, Len(s))) = Len(s) - i + 1
         /\ \A k \in 1..(Len(s) - i + 1) : SubSeq(s, i, Len(s))[k] = s[i + k - 1]
<1>1. Len(s) \in Nat /\ Len(s) \in 0..Len(s) /\ i \in Nat \ {0}
        /\ (~ (i <= Len(s)) => 0 = Len(s) - i + 1)
  BY LenIsNat
<1>. QED BY <1>1, Cut

\* A string without its first byte.
LEMMA WithoutTheFirst ==
  ASSUME NEW S, NEW s \in Seq(S), s # <<>>
  PROVE  /\ Tail(s) \in Seq(S) /\ Len(Tail(s)) = Len(s) - 1 /\ Len(Tail(s)) < Len(s)
         /\ Len(s) >= 1 /\ s[1] \in S
         /\ Tail(s) = SubSeq(s, 2, Len(s))
         /\ \A k \in 1..(Len(s) - 1) : Tail(s)[k] = s[k + 1]
         /\ \A x \in Seq(S) : Tail(s \o x) = Tail(s) \o x /\ s \o x # <<>> /\ (s \o x)[1] = s[1]
<1>1. Len(s) \in Nat /\ Len(s) >= 1
  BY LenIsNat, NothingLeft
<1>2. Tail(s) \in Seq(S) /\ Len(Tail(s)) = Len(s) - 1
        /\ \A k \in 1..(Len(s) - 1) : Tail(s)[k] = s[k + 1]
  BY HeadTailProperties
<1>3. Tail(s) = SubSeq(s, 2, Len(s)) /\ s[1] \in S
  BY <1>1, TailIsSubSeq, ElementOfSeq
<1>4. ASSUME NEW x \in Seq(S)
      PROVE  Tail(s \o x) = Tail(s) \o x /\ s \o x # <<>> /\ (s \o x)[1] = s[1]
  <2>1. s \o x \in Seq(S) /\ Len(s \o x) >= 1 /\ (s \o x)[1] = s[1]
    BY <1>1, MoreBehind, LenIsNat
  <2>2. s \o x # <<>>
    BY <2>1
  <2>3. Tail(s \o x) = SubSeq(s \o x, 2, Len(s \o x))
    BY <2>1, <2>2, TailIsSubSeq
  <2>4. 2 \in 1..(Len(s) + 1)
    BY <1>1
  <2>. QED BY <1>3, <2>1, <2>2, <2>3, <2>4, SameEnd
<1>. QED BY <1>1, <1>2, <1>3, <1>4

\* More bytes behind a string leave its first byte and lengthen its tail.
LEMMA BytesBehind ==
  \A s, x \in Seq(Byte) :
    s # <<>> => /\ s \o x \in Seq(Byte) /\ s \o x # <<>> /\ (s \o x)[1] = s[1]
                /\ Tail(s \o x) = Tail(s) \o x
BY WithoutTheFirst, MoreBehind

-----------------------------------------------------------------------------
(***************************************************************************)
(* Sums, and what a string is without its noise.                           *)
(***************************************************************************)

Added(bytes, sum) ==
  [i \in 0..Len(bytes) |-> IF i = 0 THEN 0 ELSE sum[i - 1] + bytes[i]]

\* A byte is a number up to 255.
LEMMA ByteIsNat == \A b \in Byte : b \in Nat /\ b <= 255
BY DEF Byte

\* A sum is reached by adding one byte after another.
LEMMA SumUnfolds ==
  ASSUME NEW s \in Seq(Byte)
  PROVE  \E sum : /\ sum \in [0..Len(s) -> Int] /\ sum[0] = 0
                  /\ \A i \in 1..Len(s) : sum[i] = sum[i - 1] + s[i]
                  /\ ByteSum(s) = sum[Len(s)]
<1> DEFINE chosen == CHOOSE sum : sum = Added(s, sum)
           step == [i \in 1..Len(s) |-> [v \in Int |-> v + s[i]]]
<1>1. Len(s) \in Nat /\ \A i \in 1..Len(s) : s[i] \in Int
  BY LenIsNat, ElementOfSeq, ByteIsNat
<1>2. ByteSum(s) = chosen[Len(s)]
  BY DEF ByteSum, Added
<1>3. step \in [1..Len(s) -> [Int -> Int]]
  BY <1>1
<1>4. \A i \in 1..Len(s) : \A v \in Int : step[i][v] = v + s[i]
  OBVIOUS
<1>5. PICK f \in [0..Len(s) -> Int] : f[0] = 0 /\ \A i \in 1..Len(s) : f[i] = step[i][f[i - 1]]
  <2>. HIDE DEF step
  <2> DEFINE T == Int
             start == 0
  <2>1. Stepping(Len(s), T, step) /\ start \in T
    BY <1>3 DEF Stepping
  <2>2. \E f : Stepped(f, Len(s), T, start, step)
    <3>. HIDE DEF T, start
    <3>. QED BY <1>1, <2>1, Recursion
  <2>. QED BY <2>2 DEF Stepped
<1>6. \A i \in 1..Len(s) : f[i] = f[i - 1] + s[i]
  <2>. HIDE DEF step
  <2>1. \A i \in 1..Len(s) : f[i - 1] \in Int
    BY <1>1
  <2>. QED BY <1>4, <1>5, <2>1
<1>7. f = Added(s, f)
  <2>1. \A i \in 0..Len(s) : f[i] = IF i = 0 THEN 0 ELSE f[i - 1] + s[i]
    BY <1>1, <1>5, <1>6
  <2>. QED BY <2>1 DEF Added
<1>8. chosen = Added(s, chosen)
  BY <1>7
<1>. HIDE DEF chosen
<1>9. chosen[0] = 0 /\ \A i \in 1..Len(s) : chosen[i] = chosen[i - 1] + s[i]
  <2>1. \A i \in 0..Len(s) : Added(s, chosen)[i] = IF i = 0 THEN 0 ELSE chosen[i - 1] + s[i]
    BY DEF Added
  <2>2. \A i \in 0..Len(s) : chosen[i] = IF i = 0 THEN 0 ELSE chosen[i - 1] + s[i]
    BY <1>8, <2>1
  <2>. QED BY <1>1, <2>2
<1>10. \A i \in 0..Len(s) : f[i] = chosen[i]
  <2>1. \A i \in 1..Len(s) : f[i - 1] = chosen[i - 1] => f[i] = chosen[i]
    BY <1>6, <1>9
  <2>2. Len(s) \in Nat /\ f[0] = chosen[0]
    BY <1>1, <1>5, <1>9
  <2>. QED BY <2>1, <2>2, Alike, ZenonT(60)
<1>11. ByteSum(s) = f[Len(s)]
  BY <1>1, <1>2, <1>10
<1>. QED BY <1>5, <1>6, <1>11, Zenon

\* The last byte of a string adds itself.
LEMMA SumOfTheLast ==
  ASSUME NEW s \in Seq(Byte), NEW n \in 1..Len(s)
  PROVE  /\ ByteSum(SubSeq(s, 1, n)) = ByteSum(SubSeq(s, 1, n - 1)) + s[n]
         /\ ByteSum(SubSeq(s, 1, n - 1)) \in Int
<1> DEFINE a == SubSeq(s, 1, n)
           c == SubSeq(s, 1, n - 1)
<1>1. /\ a \in Seq(Byte) /\ Len(a) = n /\ c \in Seq(Byte) /\ Len(c) = n - 1
      /\ \A k \in 1..n : a[k] = s[k]
      /\ \A k \in 1..(n - 1) : c[k] = s[k]
  <2>1. Len(s) \in Nat /\ n \in 0..Len(s) /\ n - 1 \in 0..Len(s) /\ 1 \in Nat \ {0}
          /\ 1 <= n /\ (n - 1) - 1 + 1 = n - 1 /\ n - 1 + 1 = n
          /\ (~ (1 <= n - 1) => n - 1 = 0)
          /\ \A k \in 1..n : 1 + k - 1 = k
    BY LenIsNat
  <2>2. /\ a \in Seq(Byte) /\ Len(a) = n - 1 + 1
        /\ \A k \in 1..(n - 1 + 1) : a[k] = s[1 + k - 1]
    BY <2>1, Cut
  <2>3. /\ c \in Seq(Byte) /\ Len(c) = IF 1 <= n - 1 THEN (n - 1) - 1 + 1 ELSE 0
        /\ \A k \in 1..((n - 1) - 1 + 1) : c[k] = s[1 + k - 1]
    BY <2>1, Cut
  <2>. HIDE DEF a, c
  <2>. QED BY <2>1, <2>2, <2>3
<1>. HIDE DEF a, c
<1>2. PICK f : /\ f \in [0..Len(a) -> Int] /\ f[0] = 0
               /\ \A i \in 1..Len(a) : f[i] = f[i - 1] + a[i]
               /\ ByteSum(a) = f[Len(a)]
  BY <1>1, SumUnfolds
<1>3. PICK g : /\ g \in [0..Len(c) -> Int] /\ g[0] = 0
               /\ \A i \in 1..Len(c) : g[i] = g[i - 1] + c[i]
               /\ ByteSum(c) = g[Len(c)]
  BY <1>1, SumUnfolds
<1>4. n - 1 \in Nat /\ n - 1 \in 0..(n - 1) /\ n \in 1..n
  BY LenIsNat
<1>5. \A i \in 0..(n - 1) : f[i] = g[i]
  <2>1. \A i \in 1..(n - 1) : f[i - 1] = g[i - 1] => f[i] = g[i]
    <3>1. ASSUME NEW i \in 1..(n - 1) PROVE i \in 1..n /\ a[i] = c[i]
      BY <1>1, <1>4
    <3>2. \A i \in 1..(n - 1) : f[i] = f[i - 1] + a[i] /\ g[i] = g[i - 1] + c[i]
      BY <1>1, <1>2, <1>3, <3>1
    <3>. QED BY <3>1, <3>2
  <2>2. n - 1 \in Nat /\ f[0] = g[0]
    BY <1>2, <1>3, <1>4
  <2>. QED BY <2>1, <2>2, Alike, ZenonT(60)
<1>6. ByteSum(a) = ByteSum(c) + s[n] /\ ByteSum(c) \in Int
  BY <1>1, <1>2, <1>3, <1>4, <1>5
<1>. QED BY <1>6 DEF a, c

\* Adding up to zero is ending in the checksum.
LEMMA ChecksumIsLast ==
  ASSUME NEW s \in Seq(Byte), NEW n \in 1..Len(s)
  PROVE  /\ s[n] = Saturn!Checksum(SubSeq(s, 1, n - 1)) <=> SumsToZero(SubSeq(s, 1, n))
         /\ s[n] = Dtv!Checksum(SubSeq(s, 1, n - 1)) <=> SumsToZero(SubSeq(s, 1, n))
<1>1. /\ ByteSum(SubSeq(s, 1, n)) = ByteSum(SubSeq(s, 1, n - 1)) + s[n]
      /\ ByteSum(SubSeq(s, 1, n - 1)) \in Int
      /\ s[n] \in Byte
  BY SumOfTheLast, ElementOfSeq
<1>2. ASSUME NEW p \in Int, NEW b \in 0..255 PROVE b = (-p) % 256 <=> (p + b) % 256 = 0
  OBVIOUS
<1>3. s[n] = (-ByteSum(SubSeq(s, 1, n - 1))) % 256 <=> SumsToZero(SubSeq(s, 1, n))
  <2>1. s[n] \in 0..255
    BY <1>1 DEF Byte
  <2>2. ByteSum(SubSeq(s, 1, n - 1)) \in Int
    BY <1>1
  <2>3. s[n] = (-ByteSum(SubSeq(s, 1, n - 1))) % 256
          <=> (ByteSum(SubSeq(s, 1, n - 1)) + s[n]) % 256 = 0
    BY <1>2, <2>1, <2>2, ZenonT(60)
  <2>. QED BY <1>1, <2>3 DEF SumsToZero
<1>. QED BY <1>3 DEF Saturn!Checksum, Dtv!Checksum, Saturn!ByteSum, Dtv!ByteSum, ByteSum

\* A set that holds every string whose shorter ones it holds holds all of them.
LEMMA StringInduction ==
  ASSUME NEW P \in SUBSET Seq(Byte),
         \A s \in Seq(Byte) : (\A t \in Seq(Byte) : Len(t) < Len(s) => t \in P) => s \in P
  PROVE  P = Seq(Byte)
<1> DEFINE S == {n \in Nat : \A s \in Seq(Byte) : Len(s) = n => s \in P}
<1>1. \A n \in Nat : n \in S <=> \A s \in Seq(Byte) : Len(s) = n => s \in P
  OBVIOUS
<1>2. S \in SUBSET Nat
  OBVIOUS
<1>. HIDE DEF S
<1>3. ASSUME NEW n \in Nat, \A m \in Nat : m < n => m \in S PROVE n \in S
  <2>1. SUFFICES ASSUME NEW s \in Seq(Byte), Len(s) = n PROVE s \in P
    BY <1>1
  <2>2. \A t \in Seq(Byte) : Len(t) < Len(s) => t \in P
    BY <1>1, <1>3, <2>1, LenIsNat
  <2>. QED BY <2>2
<1>4. S = Nat
  BY <1>2, <1>3, Induction
<1>. QED BY <1>1, <1>4, LenIsNat

\* A resync stops at a start, or drops one byte and goes on.
LEMMA DropUntilUnfolds ==
  ASSUME NEW starts
  PROVE  /\ DropUntil(starts) \in [Seq(Byte) -> Seq(Byte)]
         /\ DropUntil(starts)[<<>>] = <<>>
         /\ \A s \in Seq(Byte) : s # <<>> =>
              DropUntil(starts)[s] = IF s \in starts THEN s ELSE DropUntil(starts)[Tail(s)]
<1> DEFINE said == [s \in Seq(Byte) |-> IF s \in starts THEN s ELSE <<>>]
           rest == [s \in Seq(Byte) |-> IF s \in starts THEN <<>> ELSE Tail(s)]
           f == LeftToRight(said, rest)
<1>1. Steps(said, rest, Byte)
  <2>1. SUFFICES ASSUME NEW s \in Seq(Byte), s # <<>>
                 PROVE  said[s] \in Seq(Byte) /\ rest[s] \in Seq(Byte) /\ Len(rest[s]) < Len(s)
    BY DEF Steps
  <2>2. Tail(s) \in Seq(Byte) /\ Len(Tail(s)) < Len(s) /\ Len(<<>>) < Len(s)
    BY <2>1, WithoutTheFirst, LenIsNat
  <2>. QED BY <2>2, EmptyIsSeq
<1>2. /\ f \in [Seq(Byte) -> Seq(Byte)] /\ f[<<>>] = <<>>
      /\ \A s \in Seq(Byte) : s # <<>> => f[s] = said[s] \o f[rest[s]]
  <2>. HIDE DEF said, rest
  <2>. QED BY <1>1, Unfold
<1>3. \A s \in Seq(Byte) : s # <<>> => f[s] = IF s \in starts THEN s ELSE f[Tail(s)]
  <2>. HIDE DEF f
  <2>1. ASSUME NEW s \in Seq(Byte), s # <<>>, s \in starts PROVE f[s] = s
    <3>1. f[s] = s \o <<>>
      BY <1>2, <2>1
    <3>. QED BY <3>1, ConcatEmptySeq
  <2>2. ASSUME NEW s \in Seq(Byte), s # <<>>, ~ (s \in starts) PROVE f[s] = f[Tail(s)]
    <3>1. f[s] = <<>> \o f[Tail(s)]
      BY <1>2, <2>2
    <3>2. f[Tail(s)] \in Seq(Byte)
      BY <1>2, <2>2, WithoutTheFirst
    <3>. QED BY <3>1, <3>2, ConcatEmptySeq
  <2>. QED BY <2>1, <2>2
<1>. QED BY <1>2, <1>3 DEF DropUntil

\* What is dropped says nothing, if a reading passes over what starts nothing.
LEMMA Dropped ==
  ASSUME NEW starts, NEW read,
         \A s \in Seq(Byte) : s # <<>> /\ ~ (s \in starts) =>
            \A x \in Seq(Byte) : read[s \o x] = read[Tail(s) \o x]
  PROVE  \A b \in Seq(Byte) :
           /\ DropUntil(starts)[b] \in Seq(Byte)
           /\ Len(DropUntil(starts)[b]) <= Len(b)
           /\ DropUntil(starts)[b] = <<>> \/ DropUntil(starts)[b] \in starts
           /\ \A x \in Seq(Byte) : read[b \o x] = read[DropUntil(starts)[b] \o x]
<1> DEFINE f == DropUntil(starts)
           Good(b) == /\ f[b] \in Seq(Byte) /\ Len(f[b]) <= Len(b)
                      /\ f[b] = <<>> \/ f[b] \in starts
                      /\ \A x \in Seq(Byte) : read[b \o x] = read[f[b] \o x]
           P == {b \in Seq(Byte) : Good(b)}
<1>1. \A b \in Seq(Byte) : b \in P <=> Good(b)
  OBVIOUS
<1>2. P \in SUBSET Seq(Byte)
  OBVIOUS
<1>3. /\ f \in [Seq(Byte) -> Seq(Byte)] /\ f[<<>>] = <<>>
      /\ \A s \in Seq(Byte) : s # <<>> => f[s] = IF s \in starts THEN s ELSE f[Tail(s)]
  BY DropUntilUnfolds
<1>. HIDE DEF P, f
<1>4. ASSUME NEW b \in Seq(Byte), \A t \in Seq(Byte) : Len(t) < Len(b) => t \in P PROVE b \in P
  <2>1. CASE b = <<>>
    <3>1. f[b] = b /\ Len(b) <= Len(b)
      BY <1>3, <2>1, LenIsNat
    <3>. QED BY <1>1, <2>1, <3>1
  <2>2. CASE b # <<>> /\ b \in starts
    <3>1. f[b] = b /\ Len(b) <= Len(b)
      BY <1>3, <2>2, LenIsNat
    <3>. QED BY <1>1, <2>2, <3>1
  <2>3. CASE b # <<>> /\ ~ (b \in starts)
    <3>1. Tail(b) \in Seq(Byte) /\ Len(Tail(b)) < Len(b) /\ f[b] = f[Tail(b)]
      BY <1>3, <2>3, WithoutTheFirst
    <3>2. Good(Tail(b))
      BY <1>1, <1>4, <3>1
    <3>3. \A x \in Seq(Byte) : read[b \o x] = read[f[b] \o x]
      BY <2>3, <3>1, <3>2
    <3>4. Len(f[b]) <= Len(b)
      BY <3>1, <3>2, LenIsNat
    <3>5. Good(b)
      BY <3>1, <3>2, <3>3, <3>4
    <3>. QED BY <1>1, <3>5
  <2>. QED BY <2>1, <2>2, <2>3
<1>5. P = Seq(Byte)
  BY <1>2, <1>4, StringInduction
<1>. QED BY <1>1, <1>5 DEF f

-----------------------------------------------------------------------------
(***************************************************************************)
(* A valve bus.  A header decides with its first five bytes, a frame with  *)
(* its first Total: what stands behind them makes no difference.           *)
(***************************************************************************)

\* Both codecs mean the same by a byte.
LEMMA SameBytes == Saturn!Byte = Byte /\ Dtv!Byte = Byte
BY DEF Byte, Saturn!Byte, Dtv!Byte

\* A sound frame is a frame, and stands within its string.
LEMMA SaturnFrameIsTyped ==
  ASSUME NEW s \in Seq(Byte), Saturn!Sound(s, Listening)
  PROVE  /\ Saturn!FrameIn(s) \in SaturnFrames
         /\ Saturn!Total(s) \in 6..Len(s)
         /\ Saturn!Behind(s) \in Seq(Byte)
         /\ Len(Saturn!Behind(s)) = Len(s) - Saturn!Total(s)
<1>1. Len(s) \in Nat /\ Len(s) >= 5 /\ s[5] \in Byte /\ s[5] <= MAX_DATA_LEN
        /\ Len(s) >= Saturn!Total(s) /\ Saturn!Total(s) = 6 + s[5]
        /\ s[3] \in Byte /\ s[4] \in Byte
  <2>1. Len(s) \in Nat /\ Len(s) >= 5
    BY LenIsNat DEF Saturn!Sound, Saturn!HEADER_LEN
  <2>2. 5 \in 1..Len(s) /\ 3 \in 1..Len(s) /\ 4 \in 1..Len(s)
    BY <2>1
  <2>3. s[5] \in Byte /\ s[3] \in Byte /\ s[4] \in Byte
    BY <2>2, ElementOfSeq
  <2>. QED BY <2>1, <2>3 DEF Saturn!Sound, Saturn!Plausible, Saturn!Total, Saturn!FRAME_OVERHEAD
<1>2. Saturn!Total(s) \in 6..Len(s) /\ s[5] \in Nat
  <2>1. s[5] \in Nat /\ Saturn!Total(s) = 6 + s[5] /\ Len(s) >= Saturn!Total(s)
    BY <1>1, ByteIsNat
  <2>. QED BY <1>1, <2>1
<1>3. Saturn!Behind(s) \in Seq(Byte) /\ Len(Saturn!Behind(s)) = Len(s) - Saturn!Total(s)
  <2>1. Saturn!Total(s) + 1 \in 1..(Len(s) + 1)
          /\ Len(s) - (Saturn!Total(s) + 1) + 1 = Len(s) - Saturn!Total(s)
    BY <1>1, <1>2
  <2>. QED BY <2>1, TheRest DEF Saturn!Behind
<1>4. Saturn!FrameIn(s) \in SaturnFrames
  <2> DEFINE data == SubSeq(s, 6, Saturn!Total(s) - 1)
  <2>1. data \in Seq(Byte) /\ Len(data) = s[5]
    <3>1. Saturn!Total(s) - 1 \in 0..Len(s) /\ 6 \in Nat \ {0}
            /\ (6 <= Saturn!Total(s) - 1 => (Saturn!Total(s) - 1) - 6 + 1 = s[5])
            /\ (~ (6 <= Saturn!Total(s) - 1) => s[5] = 0)
      BY <1>1, <1>2
    <3>. QED BY <3>1, Cut
  <2>2. Saturn!FrameIn(s) = [address |-> s[3], control |-> s[4], data |-> data]
    BY DEF Saturn!FrameIn, Saturn!Frame, Saturn!HEADER_LEN
  <2>. HIDE DEF data
  <2>. QED BY <1>1, <2>1, <2>2 DEF SaturnFrames
<1>. QED BY <1>2, <1>3, <1>4

\* How a valve bus's stream is read, one step at a time.
LEMMA SaturnReading ==
  /\ Saturn!Reading(<<>>, Listening) = <<>>
  /\ \A s \in Seq(Byte) : Saturn!Reading(s, Listening) \in Seq(SaturnFrames)
  /\ \A s \in Seq(Byte) : s # <<>> =>
       Saturn!Reading(s, Listening) =
         IF Saturn!Sound(s, Listening)
         THEN <<Saturn!FrameIn(s)>> \o Saturn!Reading(Saturn!Behind(s), Listening)
         ELSE IF Saturn!Unfinished(s, Listening) THEN <<>>
         ELSE Saturn!Reading(Tail(s), Listening)
<1> DEFINE
      said == [s \in Seq(Byte) |->
                 IF Saturn!Sound(s, Listening) THEN <<Saturn!FrameIn(s)>> ELSE <<>>]
      rest == [s \in Seq(Byte) |->
                 IF Saturn!Sound(s, Listening) THEN Saturn!Behind(s)
                 ELSE IF Saturn!Unfinished(s, Listening) THEN <<>> ELSE Tail(s)]
      read == LeftToRight(said, rest)
<1>1. \A s : Saturn!Reading(s, Listening) = read[s]
  BY SameBytes, SaturnReads DEF Saturn!Reading
<1>2. Steps(said, rest, SaturnFrames)
  <2>1. SUFFICES ASSUME NEW s \in Seq(Byte), s # <<>>
                 PROVE  said[s] \in Seq(SaturnFrames) /\ rest[s] \in Seq(Byte)
                          /\ Len(rest[s]) < Len(s)
    BY DEF Steps
  <2>2. Tail(s) \in Seq(Byte) /\ Len(Tail(s)) < Len(s) /\ Len(s) \in Nat /\ Len(s) >= 1
    BY <2>1, WithoutTheFirst, LenIsNat
  <2>3. CASE Saturn!Sound(s, Listening)
    <3>1. /\ Saturn!FrameIn(s) \in SaturnFrames /\ Saturn!Behind(s) \in Seq(Byte)
          /\ Len(Saturn!Behind(s)) < Len(s)
      BY <2>2, <2>3, SaturnFrameIsTyped
    <3>2. <<Saturn!FrameIn(s)>> \in Seq(SaturnFrames)
      BY <3>1
    <3>. QED BY <2>3, <3>1, <3>2, EmptyIsSeq
  <2>4. CASE ~ Saturn!Sound(s, Listening)
    <3>1. Len(<<>>) < Len(s)
      BY <2>2
    <3>. QED BY <2>2, <2>4, <3>1, EmptyIsSeq
  <2>. QED BY <2>3, <2>4
<1>3. /\ read \in [Seq(Byte) -> Seq(SaturnFrames)] /\ read[<<>>] = <<>>
      /\ \A s \in Seq(Byte) : s # <<>> => read[s] = said[s] \o read[rest[s]]
  <2>. HIDE DEF said, rest
  <2>. QED BY <1>2, Unfold
<1>4. ASSUME NEW s \in Seq(Byte), s # <<>>
      PROVE  read[s] = IF Saturn!Sound(s, Listening)
                       THEN <<Saturn!FrameIn(s)>> \o read[Saturn!Behind(s)]
                       ELSE IF Saturn!Unfinished(s, Listening) THEN <<>> ELSE read[Tail(s)]
  <2>1. read[s] = said[s] \o read[rest[s]]
    BY <1>3, <1>4
  <2>2. Tail(s) \in Seq(Byte) /\ <<>> \in Seq(Byte)
    BY <1>4, WithoutTheFirst, EmptyIsSeq
  <2>3. \A t \in Seq(SaturnFrames) : <<>> \o t = t
    BY ConcatEmptySeq
  <2>4. read[Tail(s)] \in Seq(SaturnFrames) /\ read[<<>>] = <<>>
    BY <1>3, <2>2
  <2>. HIDE DEF read
  <2>5. CASE Saturn!Sound(s, Listening)
    BY <2>1, <2>5
  <2>6. CASE ~ Saturn!Sound(s, Listening) /\ Saturn!Unfinished(s, Listening)
    BY <2>1, <2>3, <2>4, <2>6, EmptyIsSeq
  <2>7. CASE ~ Saturn!Sound(s, Listening) /\ ~ Saturn!Unfinished(s, Listening)
    BY <2>1, <2>3, <2>4, <2>7
  <2>. QED BY <2>5, <2>6, <2>7
<1>. HIDE DEF read
<1>5. \A s \in Seq(Byte) : read[s] \in Seq(SaturnFrames)
  BY <1>3
<1>6. Saturn!Reading(<<>>, Listening) = <<>>
  BY <1>1, <1>3
<1>7. \A s \in Seq(Byte) : Saturn!Reading(s, Listening) \in Seq(SaturnFrames)
  BY <1>1, <1>5
<1>8. ASSUME NEW s \in Seq(Byte), s # <<>>
      PROVE  Saturn!Reading(s, Listening) =
               IF Saturn!Sound(s, Listening)
               THEN <<Saturn!FrameIn(s)>> \o Saturn!Reading(Saturn!Behind(s), Listening)
               ELSE IF Saturn!Unfinished(s, Listening) THEN <<>>
               ELSE Saturn!Reading(Tail(s), Listening)
  <2>1. /\ Saturn!Reading(s, Listening) = read[s]
        /\ Saturn!Reading(Saturn!Behind(s), Listening) = read[Saturn!Behind(s)]
        /\ Saturn!Reading(Tail(s), Listening) = read[Tail(s)]
    BY <1>1
  <2>. QED BY <1>4, <1>8, <2>1
<1>. QED BY <1>6, <1>7, <1>8

\* What the first bytes of a string decide stays decided when more bytes come.
LEMMA SaturnIsStable ==
  ASSUME NEW s \in Seq(Byte), NEW x \in Seq(Byte)
  PROVE  /\ Len(s) > 1 => (Saturn!Heads(s \o x) <=> Saturn!Heads(s))
         /\ Len(s) >= 5 => /\ Saturn!Plausible(s \o x, Listening)
                                <=> Saturn!Plausible(s, Listening)
                           /\ Saturn!Total(s \o x) = Saturn!Total(s)
                           /\ Saturn!Total(s) \in Nat /\ Saturn!Total(s) >= 6
         /\ Len(s) >= 5 /\ Len(s) >= Saturn!Total(s) =>
              /\ Saturn!Sound(s \o x, Listening) <=> Saturn!Sound(s, Listening)
              /\ Saturn!FrameIn(s \o x) = Saturn!FrameIn(s)
              /\ Saturn!Behind(s \o x) = Saturn!Behind(s) \o x
<1>1. /\ s \o x \in Seq(Byte) /\ Len(s \o x) = Len(s) + Len(x)
      /\ \A k \in 1..Len(s) : (s \o x)[k] = s[k]
      /\ Len(s) \in Nat /\ Len(x) \in Nat
  BY MoreBehind, LenIsNat
<1>2. ASSUME Len(s) > 1 PROVE Saturn!Heads(s \o x) <=> Saturn!Heads(s)
  <2>1. 1 \in 1..Len(s) /\ 2 \in 1..Len(s) /\ Len(s \o x) > 1
    BY <1>1, <1>2
  <2>. QED BY <1>1, <1>2, <2>1 DEF Saturn!Heads
<1>3. ASSUME Len(s) >= 5
      PROVE  /\ Saturn!Plausible(s \o x, Listening) <=> Saturn!Plausible(s, Listening)
             /\ Saturn!Total(s \o x) = Saturn!Total(s)
             /\ Saturn!Total(s) \in Nat /\ Saturn!Total(s) >= 6
  <2>1. 3 \in 1..Len(s) /\ 5 \in 1..Len(s)
    BY <1>1, <1>3
  <2>2. (s \o x)[3] = s[3] /\ (s \o x)[5] = s[5] /\ s[5] \in Nat
    BY <1>1, <2>1, ElementOfSeq, ByteIsNat
  <2>. QED BY <2>2 DEF Saturn!Plausible, Saturn!Total, Saturn!FRAME_OVERHEAD
<1>4. ASSUME Len(s) >= 5, Len(s) >= Saturn!Total(s)
      PROVE  /\ Saturn!Sound(s \o x, Listening) <=> Saturn!Sound(s, Listening)
             /\ Saturn!FrameIn(s \o x) = Saturn!FrameIn(s)
             /\ Saturn!Behind(s \o x) = Saturn!Behind(s) \o x
  <2>1. /\ Saturn!Total(s) \in Nat /\ Saturn!Total(s) >= 6
        /\ Saturn!Total(s \o x) = Saturn!Total(s)
        /\ Len(s \o x) >= 5 /\ Len(s \o x) >= Saturn!Total(s)
    BY <1>1, <1>3, <1>4
  <2>2. SubSeq(s \o x, 1, Saturn!Total(s)) = SubSeq(s, 1, Saturn!Total(s))
    <3>1. Saturn!Total(s) \in 0..Len(s) /\ 1 \in Nat \ {0}
      BY <1>1, <1>4, <2>1
    <3>. QED BY <3>1, SameBeginning
  <2>3. SubSeq(s \o x, 6, Saturn!Total(s) - 1) = SubSeq(s, 6, Saturn!Total(s) - 1)
    <3>1. Saturn!Total(s) - 1 \in 0..Len(s) /\ 6 \in Nat \ {0}
      BY <1>1, <1>4, <2>1
    <3>. QED BY <3>1, SameBeginning
  <2>4. SubSeq(s \o x, Saturn!Total(s) + 1, Len(s \o x))
          = SubSeq(s, Saturn!Total(s) + 1, Len(s)) \o x
    <3>1. Saturn!Total(s) + 1 \in 1..(Len(s) + 1)
      BY <1>1, <1>4, <2>1
    <3>. QED BY <3>1, SameEnd
  <2>5. Saturn!Heads(s \o x) <=> Saturn!Heads(s)
    BY <1>1, <1>2, <1>4
  <2>6. Saturn!Plausible(s \o x, Listening) <=> Saturn!Plausible(s, Listening)
    BY <1>3, <1>4
  <2>7. Saturn!Sound(s \o x, Listening) <=> Saturn!Sound(s, Listening)
    BY <1>4, <2>1, <2>2, <2>5, <2>6 DEF Saturn!Sound, Saturn!HEADER_LEN
  <2>8. (s \o x)[3] = s[3] /\ (s \o x)[4] = s[4]
    <3>1. 3 \in 1..Len(s) /\ 4 \in 1..Len(s)
      BY <1>1, <1>4
    <3>. QED BY <1>1, <3>1
  <2>9. Saturn!FrameIn(s \o x) = Saturn!FrameIn(s)
    <3>1. \A t : Saturn!FrameIn(t) = Saturn!Frame(t[3], t[4], SubSeq(t, 6, Saturn!Total(t) - 1))
      BY DEF Saturn!FrameIn, Saturn!HEADER_LEN
    <3>. QED BY <2>1, <2>3, <2>8, <3>1
  <2>10. Saturn!Behind(s \o x) = Saturn!Behind(s) \o x
    BY <2>1, <2>4 DEF Saturn!Behind
  <2>. QED BY <2>7, <2>9, <2>10
<1>. QED BY <1>2, <1>3, <1>4

\* A string that cannot begin a sync pair is passed over.
LEMMA SaturnPassesOver ==
  ASSUME NEW s \in Seq(Byte), s # <<>>, NEW x \in Seq(Byte),
         ~ (s[1] = 170 /\ (Len(s) = 1 \/ s[2] = 85))
  PROVE  Saturn!Reading(s \o x, Listening) = Saturn!Reading(Tail(s) \o x, Listening)
<1>1. /\ s \o x \in Seq(Byte) /\ s \o x # <<>> /\ (s \o x)[1] = s[1]
      /\ Tail(s \o x) = Tail(s) \o x /\ Len(s) \in Nat /\ Len(s) >= 1
  BY MoreBehind, WithoutTheFirst, LenIsNat
<1>2. ~ Saturn!Heads(s \o x)
  <2>1. CASE Len(s) = 1
    BY <1>1, <2>1 DEF Saturn!Heads, Saturn!SYNC1
  <2>2. CASE Len(s) # 1
    <3>1. Len(s) > 1
      <4>1. \A n \in Nat : n >= 1 /\ n # 1 => n > 1
        OBVIOUS
      <4>. QED BY <1>1, <2>2, <4>1
    <3>2. ~ Saturn!Heads(s)
      BY <2>2 DEF Saturn!Heads, Saturn!SYNC1, Saturn!SYNC2
    <3>. QED BY <3>1, <3>2, SaturnIsStable
  <2>. QED BY <2>1, <2>2
<1>3. ~ Saturn!Sound(s \o x, Listening) /\ ~ Saturn!Unfinished(s \o x, Listening)
  BY <1>2 DEF Saturn!Sound, Saturn!Unfinished
<1>. QED BY <1>1, <1>3, SaturnReading

\* A sync pair that heads nothing sound is passed over, both bytes of it.
LEMMA SaturnPassesOverThePair ==
  ASSUME NEW s \in Seq(Byte), Len(s) >= 5, Saturn!Heads(s), ~ Saturn!Sound(s, Listening),
         Saturn!Plausible(s, Listening) => Len(s) >= Saturn!Total(s),
         NEW x \in Seq(Byte)
  PROVE  /\ Saturn!PastThePair(s) \in Seq(Byte) /\ Len(Saturn!PastThePair(s)) <= Len(s)
         /\ Saturn!Reading(s \o x, Listening)
              = Saturn!Reading(Saturn!PastThePair(s) \o x, Listening)
<1>1. s # <<>> /\ Len(s) \in Nat
  BY LenIsNat
<1>2. /\ s \o x \in Seq(Byte) /\ s \o x # <<>> /\ Tail(s \o x) = Tail(s) \o x
      /\ Len(s \o x) = Len(s) + Len(x) /\ Len(x) \in Nat
  BY <1>1, MoreBehind, WithoutTheFirst, LenIsNat
<1>3. ~ Saturn!Sound(s \o x, Listening) /\ ~ Saturn!Unfinished(s \o x, Listening)
  <2>1. CASE Saturn!Plausible(s, Listening)
    <3>1. ~ Saturn!Sound(s \o x, Listening) /\ Saturn!Total(s \o x) = Saturn!Total(s)
            /\ Saturn!Total(s) \in Nat
      BY <2>1, SaturnIsStable
    <3>2. ~ (Len(s \o x) < Saturn!Total(s \o x)) /\ ~ (Len(s \o x) < 5)
      BY <1>1, <1>2, <2>1, <3>1
    <3>. QED BY <3>1, <3>2 DEF Saturn!Unfinished, Saturn!HEADER_LEN
  <2>2. CASE ~ Saturn!Plausible(s, Listening)
    <3>1. ~ Saturn!Plausible(s \o x, Listening)
      BY <2>2, SaturnIsStable
    <3>2. ~ (Len(s \o x) < 5)
      BY <1>1, <1>2
    <3>. QED BY <3>1, <3>2 DEF Saturn!Unfinished, Saturn!HEADER_LEN, Saturn!Sound
  <2>. QED BY <2>1, <2>2
<1>4. Saturn!Reading(s \o x, Listening) = Saturn!Reading(Tail(s) \o x, Listening)
  BY <1>2, <1>3, SaturnReading
<1>5. /\ Tail(s) \in Seq(Byte) /\ Len(Tail(s)) = Len(s) - 1 /\ Tail(s)[1] = 85
      /\ Tail(s) = SubSeq(s, 2, Len(s))
  <2>1. 1 \in 1..(Len(s) - 1) /\ 1 + 1 = 2
    BY <1>1
  <2>2. s[2] = 85
    BY DEF Saturn!Heads, Saturn!SYNC2
  <2>. QED BY <1>1, <2>1, <2>2, WithoutTheFirst
<1>6. Tail(s) # <<>>
  <2>1. Len(Tail(s)) # 0
    BY <1>1, <1>5
  <2>. QED BY <2>1, LenOfNothing
<1>7. Tail(Tail(s)) = Saturn!PastThePair(s)
  <2>1. Tail(Tail(s)) = SubSeq(SubSeq(s, 2, Len(s)), 2, Len(s) - 1)
    BY <1>5, <1>6, WithoutTheFirst
  <2>2. 2 \in 1..Len(s) /\ Len(s) \in 1..Len(s) /\ 2 \in 1..(Len(s) - 2 + 1)
          /\ Len(s) - 1 \in 1..(Len(s) - 2 + 1) /\ 2 + 2 - 1 = 3
          /\ 2 + (Len(s) - 1) - 1 = Len(s)
    BY <1>1
  <2>3. SubSeq(SubSeq(s, 2, Len(s)), 2, Len(s) - 1) = SubSeq(s, 2 + 2 - 1, 2 + (Len(s) - 1) - 1)
    BY <2>2, SubSeqOfSubSeq
  <2>. QED BY <2>1, <2>2, <2>3 DEF Saturn!PastThePair
<1>8. Saturn!Reading(Tail(s) \o x, Listening)
        = Saturn!Reading(Tail(Tail(s)) \o x, Listening)
  <2> DEFINE u == Tail(s)
  <2>1. u \in Seq(Byte) /\ u # <<>> /\ ~ (u[1] = 170 /\ (Len(u) = 1 \/ u[2] = 85))
    BY <1>5, <1>6
  <2>. HIDE DEF u
  <2>2. Saturn!Reading(u \o x, Listening) = Saturn!Reading(Tail(u) \o x, Listening)
    BY <2>1, SaturnPassesOver
  <2>. QED BY <2>2 DEF u
<1>9. Tail(Tail(s)) \in Seq(Byte) /\ Len(Tail(Tail(s))) <= Len(s)
  BY <1>1, <1>5, <1>6, WithoutTheFirst, SMTT(30)
<1>. QED BY <1>4, <1>7, <1>8, <1>9

(***************************************************************************)
(* What a decode call owes to the reading of the stream, on either bus: it *)
(* takes the first frame if that is all here, to hand it over or to refuse *)
(* it, passes over what says nothing, and waits with too little to say     *)
(* anything.                                                               *)
(***************************************************************************)
Faithful(d, b, F, longest, read) ==
  /\ d.rx \in Seq(Byte) /\ Len(d.rx) <= Len(b)
  /\ \/ /\ d.is = "none" /\ Len(d.rx) < longest /\ read[d.rx] = <<>>
        /\ \A x \in Seq(Byte) : read[b \o x] = read[d.rx \o x]
     \/ /\ d.is = "error"
        /\ \A x \in Seq(Byte) : read[b \o x] = read[d.rx \o x]
     \/ /\ d.is \in {"frame", "refused"} /\ d.frame \in F /\ Len(d.rx) + 6 <= Len(b)
        /\ \A x \in Seq(Byte) : read[b \o x] = <<d.frame>> \o read[d.rx \o x]

SaturnRead == [s \in Seq(Byte) |-> Saturn!Reading(s, Listening)]

\* The resync of a valve bus is such a loop.
LEMMA SaturnDropUntil ==
  ASSUME NEW starts PROVE Saturn!DropUntil(starts) = DropUntil(starts)
BY SameBytes, SaturnReads DEF DropUntil, Saturn!DropUntil

\* A resync of a valve bus drops nothing that says anything.
LEMMA SaturnResyncs ==
  ASSUME NEW b \in Seq(Byte)
  PROVE  /\ Saturn!Resync(b) \in Seq(Byte) /\ Len(Saturn!Resync(b)) <= Len(b)
         /\ \/ Saturn!Resync(b) = <<>>
            \/ Len(Saturn!Resync(b)) = 1
            \/ Saturn!Heads(Saturn!Resync(b))
         /\ \A x \in Seq(Byte) : SaturnRead[b \o x] = SaturnRead[Saturn!Resync(b) \o x]
<1> DEFINE starts == {s \in Seq(Byte) : s[1] = Saturn!SYNC1 /\ (Len(s) = 1 \/ s[2] = Saturn!SYNC2)}
<1>1. Saturn!Resync(b) = DropUntil(starts)[b]
  BY SameBytes, SaturnDropUntil DEF Saturn!Resync
<1>2. ASSUME NEW s \in Seq(Byte), s # <<>>, ~ (s \in starts), NEW x \in Seq(Byte)
      PROVE  SaturnRead[s \o x] = SaturnRead[Tail(s) \o x]
  <2>1. ~ (s[1] = 170 /\ (Len(s) = 1 \/ s[2] = 85))
    BY <1>2 DEF Saturn!SYNC1, Saturn!SYNC2
  <2>2. s \o x \in Seq(Byte) /\ Tail(s) \o x \in Seq(Byte)
    BY <1>2, MoreBehind, WithoutTheFirst
  <2>3. Saturn!Reading(s \o x, Listening) = Saturn!Reading(Tail(s) \o x, Listening)
    BY <1>2, <2>1, SaturnPassesOver
  <2>. QED BY <2>2, <2>3 DEF SaturnRead
<1>3. ASSUME NEW s \in starts, s # <<>>, Len(s) # 1 PROVE Saturn!Heads(s)
  <2>1. s \in Seq(Byte) /\ s[1] = Saturn!SYNC1 /\ s[2] = Saturn!SYNC2
    BY <1>3
  <2>2. \A n \in Nat : n # 0 /\ n # 1 => n > 1
    OBVIOUS
  <2>3. Len(s) \in Nat /\ Len(s) # 0
    BY <1>3, <2>1, LenIsNat, NothingLeft
  <2>. QED BY <1>3, <2>1, <2>2, <2>3 DEF Saturn!Heads
<1>. HIDE DEF starts
<1>4. /\ DropUntil(starts)[b] \in Seq(Byte)
      /\ Len(DropUntil(starts)[b]) <= Len(b)
      /\ DropUntil(starts)[b] = <<>> \/ DropUntil(starts)[b] \in starts
      /\ \A x \in Seq(Byte) : SaturnRead[b \o x] = SaturnRead[DropUntil(starts)[b] \o x]
  BY <1>2, Dropped
<1>. QED BY <1>1, <1>3, <1>4

\* The decoder of a valve bus is faithful, whatever the request of the moment is.
LEMMA SaturnDecodes ==
  ASSUME NEW b \in Seq(Byte), NEW awaiting
  PROVE  Faithful(Saturn!Decode(b, Expectation(awaiting)), b, SaturnFrames, Saturn!MAX_FRAME, SaturnRead)
<1> DEFINE r == Saturn!Resync(b)
           d == Saturn!Decode(b, Expectation(awaiting))
           odd == Saturn!Unexpected(Saturn!FrameIn(r), Expectation(awaiting))
<1>1. /\ r \in Seq(Byte) /\ Len(r) <= Len(b) /\ Len(r) \in Nat /\ Len(b) \in Nat
      /\ r = <<>> \/ Len(r) = 1 \/ Saturn!Heads(r)
      /\ \A x \in Seq(Byte) : SaturnRead[b \o x] = SaturnRead[r \o x]
  BY SaturnResyncs, LenIsNat
<1>2. d = IF Len(r) < 5 THEN Saturn!Waiting(r)
          ELSE IF Listening.strict /\ r[3] # Listening.master
          THEN Saturn!Rejected("WrongDestination", Saturn!PastThePair(r))
          ELSE IF r[5] > MAX_DATA_LEN
          THEN Saturn!Rejected("LengthOutOfRange", Saturn!PastThePair(r))
          ELSE IF Len(r) < Saturn!Total(r) THEN Saturn!Waiting(r)
          ELSE IF r[Saturn!Total(r)] # Saturn!Checksum(SubSeq(r, 1, Saturn!Total(r) - 1))
          THEN Saturn!Rejected("BadChecksum", Saturn!PastThePair(r))
          ELSE IF odd THEN Saturn!Refused(Saturn!FrameIn(r), Saturn!Behind(r))
          ELSE Saturn!Accepted(Saturn!FrameIn(r), Saturn!Behind(r))
  <2>1. /\ Expectation(awaiting).strict = Listening.strict
        /\ Expectation(awaiting).master = Listening.master
    BY DEF Listening, Expectation, Saturn!ResponseTo
  <2>. QED BY <2>1 DEF Saturn!Decode, Saturn!HEADER_LEN, Saturn!LengthOutOfRange
<1>. HIDE DEF r, d, odd
<1>3. MAX_DATA_LEN \in Nat /\ Saturn!MAX_FRAME = 6 + MAX_DATA_LEN
  BY LengthAssumption, ByteIsNat DEF Saturn!MAX_FRAME, Saturn!FRAME_OVERHEAD
<1>4. \A s \in Seq(Byte) : SaturnRead[s] = Saturn!Reading(s, Listening)
  BY DEF SaturnRead
<1>5. CASE Len(r) < 5
  <2>1. d.is = "none" /\ d.rx = r
    BY <1>2, <1>5 DEF Saturn!Waiting
  <2>2. SaturnRead[r] = <<>>
    <3>1. CASE r = <<>>
      BY <1>4, <3>1, SaturnReading, EmptyIsSeq
    <3>2. CASE r # <<>> /\ Saturn!Heads(r)
      <4>1. Saturn!Unfinished(r, Listening) /\ ~ Saturn!Sound(r, Listening)
        BY <1>1, <1>5, <3>2 DEF Saturn!Unfinished, Saturn!Sound, Saturn!HEADER_LEN
      <4>. QED BY <1>1, <1>4, <3>2, <4>1, SaturnReading
    <3>3. CASE r # <<>> /\ ~ Saturn!Heads(r)
      <4>1. ~ Saturn!Unfinished(r, Listening) /\ ~ Saturn!Sound(r, Listening)
        BY <3>3 DEF Saturn!Unfinished, Saturn!Sound
      <4>2. Len(r) = 1
        BY <1>1, <3>3
      <4>3. Tail(r) = <<>>
        <5>1. Tail(r) \in Seq(Byte) /\ Len(Tail(r)) = Len(r) - 1
          BY <1>1, <3>3, WithoutTheFirst
        <5>2. Len(Tail(r)) <= 0
          BY <4>2, <5>1
        <5>. QED BY <5>1, <5>2, NothingLeft
      <4>. QED BY <1>1, <1>4, <3>3, <4>1, <4>3, SaturnReading
    <3>. QED BY <3>1, <3>2, <3>3
  <2>3. Len(r) < Saturn!MAX_FRAME
    BY <1>1, <1>3, <1>5
  <2>. QED BY <1>1, <2>1, <2>2, <2>3 DEF Faithful, d
<1>6. ASSUME Len(r) >= 5, ~ Saturn!Sound(r, Listening),
             Saturn!Plausible(r, Listening) => Len(r) >= Saturn!Total(r),
             d.is = "error", d.rx = Saturn!PastThePair(r)
      PROVE  Faithful(d, b, SaturnFrames, Saturn!MAX_FRAME, SaturnRead)
  <2>1. Saturn!Heads(r)
    <3>1. Len(r) # 0 /\ Len(r) # 1
      <4>1. \A n \in Nat : n >= 5 => n # 0 /\ n # 1
        OBVIOUS
      <4>. QED BY <1>1, <1>6, <4>1
    <3>. QED BY <1>1, <3>1, LenOfNothing
  <2>2. /\ Saturn!PastThePair(r) \in Seq(Byte) /\ Len(Saturn!PastThePair(r)) <= Len(r)
        /\ \A x \in Seq(Byte) :
             Saturn!Reading(r \o x, Listening)
               = Saturn!Reading(Saturn!PastThePair(r) \o x, Listening)
    BY <1>1, <1>6, <2>1, SaturnPassesOverThePair, EmptyIsSeq
  <2>3. \A x \in Seq(Byte) : SaturnRead[b \o x] = SaturnRead[Saturn!PastThePair(r) \o x]
    <3>1. \A x \in Seq(Byte) : r \o x \in Seq(Byte) /\ Saturn!PastThePair(r) \o x \in Seq(Byte)
      BY <1>1, <2>2, MoreBehind
    <3>. QED BY <1>1, <1>4, <2>2, <3>1
  <2>4. Len(Saturn!PastThePair(r)) <= Len(b)
    BY <1>1, <2>2, LenIsNat
  <2>. QED BY <1>6, <2>2, <2>3, <2>4 DEF Faithful
<1>7. CASE Len(r) >= 5 /\ Listening.strict /\ r[3] # Listening.master
  <2>1. d.is = "error" /\ d.rx = Saturn!PastThePair(r)
    BY <1>1, <1>2, <1>7 DEF Saturn!Rejected
  <2>2. ~ Saturn!Plausible(r, Listening) /\ ~ Saturn!Sound(r, Listening)
    BY <1>7 DEF Saturn!Plausible, Saturn!Sound
  <2>. QED BY <1>6, <1>7, <2>1, <2>2 DEF d
<1>8. CASE Len(r) >= 5 /\ ~ (Listening.strict /\ r[3] # Listening.master)
  <2>1. r[5] \in Nat /\ r[5] <= 255
    <3>1. 5 \in 1..Len(r)
      BY <1>1, <1>8
    <3>. QED BY <1>1, <3>1, ElementOfSeq, ByteIsNat
  <2>2. Saturn!Total(r) = 6 + r[5]
    BY DEF Saturn!Total, Saturn!FRAME_OVERHEAD
  <2>3. Saturn!Heads(r)
    <3>1. Len(r) # 0 /\ Len(r) # 1
      <4>1. \A n \in Nat : n >= 5 => n # 0 /\ n # 1
        OBVIOUS
      <4>. QED BY <1>1, <1>8, <4>1
    <3>. QED BY <1>1, <3>1, LenOfNothing
  <2>4. CASE r[5] > MAX_DATA_LEN
    <3>1. d.is = "error" /\ d.rx = Saturn!PastThePair(r)
      BY <1>1, <1>2, <1>8, <2>4 DEF Saturn!Rejected
    <3>2. ~ Saturn!Plausible(r, Listening) /\ ~ Saturn!Sound(r, Listening)
      BY <1>3, <2>1, <2>4 DEF Saturn!Plausible, Saturn!Sound
    <3>. QED BY <1>6, <1>8, <3>1, <3>2 DEF d
  <2>5. CASE ~ (r[5] > MAX_DATA_LEN)
    <3>1. Saturn!Plausible(r, Listening)
      BY <1>3, <1>8, <2>1, <2>5 DEF Saturn!Plausible
    <3>2. CASE Len(r) < Saturn!Total(r)
      <4>1. d.is = "none" /\ d.rx = r
        BY <1>1, <1>2, <1>8, <2>5, <3>2 DEF Saturn!Waiting
      <4>2. Saturn!Unfinished(r, Listening) /\ ~ Saturn!Sound(r, Listening)
        BY <1>1, <2>1, <2>2, <2>3, <3>1, <3>2 DEF Saturn!Unfinished, Saturn!Sound
      <4>3. r # <<>>
        BY <1>1, <1>8, LenOfNothing
      <4>4. SaturnRead[r] = <<>>
        BY <1>1, <1>4, <4>2, <4>3, SaturnReading
      <4>5. Len(r) < Saturn!MAX_FRAME
        BY <1>1, <1>3, <2>1, <2>2, <2>5, <3>2
      <4>. QED BY <1>1, <4>1, <4>4, <4>5 DEF Faithful, d
    <3>3. CASE Len(r) >= Saturn!Total(r)
      <4>1. Saturn!Total(r) \in 1..Len(r)
        BY <1>1, <2>1, <2>2, <3>3
      <4>2. r[Saturn!Total(r)] = Saturn!Checksum(SubSeq(r, 1, Saturn!Total(r) - 1))
              <=> SumsToZero(SubSeq(r, 1, Saturn!Total(r)))
        BY <1>1, <4>1, ChecksumIsLast
      <4>3. Saturn!Sound(r, Listening)
              <=> r[Saturn!Total(r)] = Saturn!Checksum(SubSeq(r, 1, Saturn!Total(r) - 1))
        <5>1. SumsToZero(SubSeq(r, 1, Saturn!Total(r)))
                <=> Saturn!SumsToZero(SubSeq(r, 1, Saturn!Total(r)))
          BY DEF SumsToZero, Saturn!SumsToZero, ByteSum, Saturn!ByteSum
        <5>. QED BY <1>8, <2>3, <3>1, <3>3, <4>2, <5>1 DEF Saturn!Sound, Saturn!HEADER_LEN
      <4>4. CASE ~ Saturn!Sound(r, Listening)
        <5>1. d.is = "error" /\ d.rx = Saturn!PastThePair(r)
          BY <1>1, <1>2, <1>8, <2>1, <2>2, <2>5, <3>3, <4>3, <4>4 DEF Saturn!Rejected
        <5>. QED BY <1>6, <1>8, <3>3, <4>4, <5>1 DEF d
      <4>5. CASE Saturn!Sound(r, Listening)
        <5>1. d = IF odd THEN Saturn!Refused(Saturn!FrameIn(r), Saturn!Behind(r))
                  ELSE Saturn!Accepted(Saturn!FrameIn(r), Saturn!Behind(r))
          BY <1>1, <1>2, <1>8, <2>1, <2>2, <2>5, <3>3, <4>3, <4>5
        <5>2. /\ Saturn!FrameIn(r) \in SaturnFrames /\ Saturn!Behind(r) \in Seq(Byte)
              /\ Len(Saturn!Behind(r)) = Len(r) - Saturn!Total(r)
          BY <1>1, <4>5, SaturnFrameIsTyped
        <5>3. Len(Saturn!Behind(r)) + 6 <= Len(b) /\ Len(Saturn!Behind(r)) <= Len(b)
          BY <1>1, <2>1, <2>2, <5>2
        <5>4. ASSUME NEW x \in Seq(Byte)
              PROVE  SaturnRead[b \o x]
                       = <<Saturn!FrameIn(r)>> \o SaturnRead[Saturn!Behind(r) \o x]
          <6>1. /\ Saturn!Sound(r \o x, Listening)
                /\ Saturn!FrameIn(r \o x) = Saturn!FrameIn(r)
                /\ Saturn!Behind(r \o x) = Saturn!Behind(r) \o x
            BY <1>1, <1>8, <3>3, <4>5, SaturnIsStable
          <6>2. r \o x \in Seq(Byte) /\ Len(r \o x) # 0 /\ Saturn!Behind(r) \o x \in Seq(Byte)
            BY <1>1, <1>8, <5>2, MoreBehind, LenIsNat
          <6>3. r \o x # <<>>
            BY <6>2, LenOfNothing
          <6>4. Saturn!Reading(r \o x, Listening)
                  = <<Saturn!FrameIn(r)>> \o Saturn!Reading(Saturn!Behind(r) \o x, Listening)
            BY <6>1, <6>2, <6>3, SaturnReading
          <6>. QED BY <1>1, <1>4, <6>2, <6>4
        <5>5. d.is \in {"frame", "refused"} /\ d.frame = Saturn!FrameIn(r)
                /\ d.rx = Saturn!Behind(r)
          BY <5>1 DEF Saturn!Accepted, Saturn!Refused
        <5>6. \A x \in Seq(Byte) : SaturnRead[b \o x] = <<d.frame>> \o SaturnRead[d.rx \o x]
          BY <5>4, <5>5
        <5>. QED BY <5>2, <5>3, <5>5, <5>6 DEF Faithful, d
      <4>. QED BY <4>4, <4>5
    <3>. QED BY <1>1, <2>1, <2>2, <3>2, <3>3
  <2>. QED BY <2>4, <2>5
<1>. QED BY <1>1, <1>5, <1>7, <1>8

-----------------------------------------------------------------------------
(***************************************************************************)
(* The steam bus.  The scan for the end of a frame either stops in front   *)
(* of a delimiter, whatever comes later, or comes to the end of what there *)
(* is, with or without an escape that takes in the next byte.              *)
(***************************************************************************)

One(a) == <<a>>
Two(a, c) == One(a) \o One(c)

\* A string of one byte.
LEMMA Ones ==
  ASSUME NEW S, NEW a \in S
  PROVE  One(a) \in Seq(S) /\ Len(One(a)) = 1 /\ One(a)[1] = a /\ One(a) # <<>>
BY DEF One

\* A string of two bytes.
LEMMA Twos ==
  ASSUME NEW S, NEW a \in S, NEW c \in S
  PROVE  /\ Two(a, c) \in Seq(S) /\ Len(Two(a, c)) = 2 /\ Two(a, c) # <<>>
         /\ Two(a, c)[1] = a /\ Two(a, c)[2] = c
         /\ Two(a, c) = <<a, c>>
<1>1. /\ One(a) \in Seq(S) /\ Len(One(a)) = 1 /\ One(a)[1] = a
      /\ One(c) \in Seq(S) /\ Len(One(c)) = 1 /\ One(c)[1] = c
  BY Ones
<1>2. /\ Two(a, c) \in Seq(S) /\ Len(Two(a, c)) = 1 + 1
      /\ Two(a, c)[1] = a /\ Two(a, c)[1 + 1] = c
  <2>1. /\ One(a) \o One(c) \in Seq(S) /\ Len(One(a) \o One(c)) = Len(One(a)) + Len(One(c))
        /\ \A k \in 1..Len(One(a)) : (One(a) \o One(c))[k] = One(a)[k]
        /\ \A k \in 1..Len(One(c)) : (One(a) \o One(c))[Len(One(a)) + k] = One(c)[k]
    BY <1>1, MoreBehind
  <2>2. 1 \in 1..Len(One(a)) /\ 1 \in 1..Len(One(c))
    BY <1>1
  <2>. QED BY <1>1, <2>1, <2>2 DEF Two
<1>3. /\ Two(a, c) \in Seq(S) /\ Len(Two(a, c)) = 2
      /\ Two(a, c)[1] = a /\ Two(a, c)[2] = c
  <2>1. 1 + 1 = 2
    OBVIOUS
  <2>. QED BY <1>2, <2>1
<1>4. Two(a, c) # <<>>
  <2>1. SUFFICES ASSUME Two(a, c) = <<>> PROVE FALSE
    OBVIOUS
  <2>2. Len(Two(a, c)) = 0
    BY <2>1
  <2>. QED BY <1>3, <2>2
<1>5. Two(a, c) = <<a, c>>
  <2> DEFINE p == <<a, c>>
  <2>1. p \in Seq(S) /\ Len(p) = 2 /\ p[1] = a /\ p[2] = c
    OBVIOUS
  <2>2. \A k \in 1..2 : k = 1 \/ k = 2
    OBVIOUS
  <2>. HIDE DEF p
  <2>3. Two(a, c) = p
    BY <1>3, <2>1, <2>2, SeqEqual
  <2>. QED BY <2>3 DEF p
<1>. QED BY <1>3, <1>4, <1>5

\* A string is its first byte and the rest.
LEMMA FirstAndRest ==
  ASSUME NEW S, NEW s \in Seq(S), s # <<>>
  PROVE  s = One(s[1]) \o Tail(s)
<1>1. Tail(s) \in Seq(S) /\ Len(Tail(s)) = Len(s) - 1 /\ Len(s) >= 1 /\ s[1] \in S
        /\ (\A k \in 1..(Len(s) - 1) : Tail(s)[k] = s[k + 1]) /\ Len(s) \in Nat
  BY WithoutTheFirst, LenIsNat
<1>2. One(s[1]) \in Seq(S) /\ Len(One(s[1])) = 1 /\ One(s[1])[1] = s[1]
  BY <1>1, Ones
<1> DEFINE t == Tail(s)
           h == One(s[1])
<1>3. t \in Seq(S) /\ h \in Seq(S)
  BY <1>1, <1>2
<1>. HIDE DEF t, h
<1>4. /\ h \o t \in Seq(S) /\ Len(h \o t) = Len(h) + Len(t)
      /\ \A k \in 1..Len(h) : (h \o t)[k] = h[k]
      /\ \A k \in 1..Len(t) : (h \o t)[Len(h) + k] = t[k]
  BY <1>3, MoreBehind
<1>5. Len(h \o t) = Len(s)
  BY <1>1, <1>2, <1>4 DEF t, h
<1>6. ASSUME NEW k \in 1..Len(s) PROVE s[k] = (h \o t)[k]
  <2>1. CASE k = 1
    <3>1. 1 \in 1..Len(h) /\ h[1] = s[1]
      BY <1>2 DEF h
    <3>. QED BY <1>4, <2>1, <3>1
  <2>2. CASE k # 1
    <3>1. k - 1 \in 1..(Len(s) - 1) /\ 1 + (k - 1) = k /\ (k - 1) + 1 = k
      BY <1>1, <2>2
    <3>2. Len(h) = 1 /\ Len(t) = Len(s) - 1 /\ t[k - 1] = s[k]
      BY <1>1, <1>2, <3>1 DEF h, t
    <3>3. (h \o t)[1 + (k - 1)] = t[k - 1]
      BY <1>4, <3>1, <3>2
    <3>. QED BY <3>1, <3>2, <3>3
  <2>. QED BY <2>1, <2>2
<1>7. s = h \o t
  BY <1>4, <1>5, <1>6, SeqEqual
<1>. QED BY <1>7 DEF h, t

\* The same two bytes deep.
LEMMA TwoAndRest ==
  ASSUME NEW S, NEW s \in Seq(S), Len(s) > 1
  PROVE  /\ s = Two(s[1], s[2]) \o Tail(Tail(s))
         /\ s[1] \in S /\ s[2] \in S
         /\ Tail(Tail(s)) \in Seq(S) /\ Len(Tail(Tail(s))) = Len(s) - 2
         /\ Tail(Tail(s)) = SubSeq(s, 3, Len(s))
<1>1. s # <<>> /\ Len(s) \in Nat
  BY LenIsNat, LenOfNothing
<1>2. Tail(s) \in Seq(S) /\ Len(Tail(s)) = Len(s) - 1 /\ s[1] \in S
        /\ (\A k \in 1..(Len(s) - 1) : Tail(s)[k] = s[k + 1])
        /\ Tail(s) = SubSeq(s, 2, Len(s))
  BY <1>1, WithoutTheFirst
<1>3. Tail(s) # <<>> /\ Tail(s)[1] = s[2]
  <2>1. Len(Tail(s)) # 0 /\ 1 \in 1..(Len(s) - 1) /\ 1 + 1 = 2
    BY <1>1, <1>2
  <2>. QED BY <1>2, <2>1, LenOfNothing
<1>4. /\ Tail(Tail(s)) \in Seq(S) /\ Len(Tail(Tail(s))) = Len(Tail(s)) - 1
      /\ Tail(Tail(s)) = SubSeq(Tail(s), 2, Len(Tail(s)))
      /\ Tail(s)[1] \in S
  BY <1>2, <1>3, WithoutTheFirst, SMTT(30)
<1>5. s = One(s[1]) \o Tail(s) /\ Tail(s) = One(s[2]) \o Tail(Tail(s))
  BY <1>1, <1>2, <1>3, FirstAndRest
<1>6. s = Two(s[1], s[2]) \o Tail(Tail(s))
  <2> DEFINE h == One(s[1])
             g == One(s[2])
             u == Tail(Tail(s))
  <2>1. h \in Seq(S) /\ g \in Seq(S) /\ u \in Seq(S) /\ s = h \o (g \o u)
    BY <1>2, <1>3, <1>4, <1>5, Ones
  <2>. HIDE DEF h, g, u
  <2>2. s = (h \o g) \o u
    BY <2>1, ConcatAssociative, SMTT(30)
  <2>. QED BY <2>2 DEF Two, h, g, u
<1>7. Tail(Tail(s)) = SubSeq(s, 3, Len(s))
  <2> DEFINE u == Tail(Tail(s))
             v == SubSeq(s, 3, Len(s))
  <2>1. u \in Seq(S) /\ Len(u) = Len(s) - 2
    BY <1>1, <1>2, <1>4
  <2>2. \A k \in 1..(Len(s) - 2) : u[k] = s[k + 2]
    <3>1. \A k \in 1..(Len(s) - 2) : u[k] = Tail(s)[k + 1]
      BY <1>2, <1>3, <1>1, WithoutTheFirst
    <3>2. \A k \in 1..(Len(s) - 2) : k + 1 \in 1..(Len(s) - 1) /\ (k + 1) + 1 = k + 2
      BY <1>1
    <3>. QED BY <1>2, <3>1, <3>2
  <2>3. v \in Seq(S) /\ Len(v) = Len(s) - 2 /\ \A k \in 1..(Len(s) - 2) : v[k] = s[k + 2]
    <3>1. 3 \in 1..(Len(s) + 1) /\ Len(s) - 3 + 1 = Len(s) - 2
            /\ \A k \in 1..(Len(s) - 2) : 3 + k - 1 = k + 2
      BY <1>1
    <3>. QED BY <3>1, TheRest
  <2>. HIDE DEF u, v
  <2>4. u = v
    BY <2>1, <2>2, <2>3, SeqEqual
  <2>. QED BY <2>4 DEF u, v
<1>8. Len(Tail(Tail(s))) = Len(s) - 2
  BY <1>1, <1>2, <1>4
<1>. QED BY <1>2, <1>3, <1>4, <1>6, <1>7, <1>8

\* One, or more than one.
LEMMA OneOrMore == \A n \in Nat : n >= 1 => (n = 1 \/ n > 1) /\ ~ (n = 1 /\ n > 1)
OBVIOUS

\* The scan stops at a delimiter, or goes past a byte or an escaped one.
LEMMA UpToDelimiterUnfolds ==
  /\ Dtv!UpToDelimiter(<<>>) = <<>>
  /\ \A s \in Seq(Byte) : Dtv!UpToDelimiter(s) \in Seq(Byte)
  /\ \A s \in Seq(Byte) : s # <<>> =>
       /\ s[1] \in {136, 85} => Dtv!UpToDelimiter(s) = <<>>
       /\ s[1] \notin {136, 85, 170} =>
            Dtv!UpToDelimiter(s) = One(s[1]) \o Dtv!UpToDelimiter(Tail(s))
       /\ s[1] = 170 /\ Len(s) = 1 => Dtv!UpToDelimiter(s) = One(170)
       /\ s[1] = 170 /\ Len(s) > 1 =>
            Dtv!UpToDelimiter(s) = Two(170, s[2]) \o Dtv!UpToDelimiter(Tail(Tail(s)))
<1> DEFINE said == [s \in Seq(Byte) |->
                      IF s[1] \in {136, 85} THEN <<>>
                      ELSE SubSeq(s, 1, IF s[1] = 170 /\ Len(s) > 1 THEN 2 ELSE 1)]
           rest == [s \in Seq(Byte) |->
                      IF s[1] \in {136, 85} THEN <<>>
                      ELSE SubSeq(s, IF s[1] = 170 THEN 3 ELSE 2, Len(s))]
           read == LeftToRight(said, rest)
<1>1. \A s : Dtv!UpToDelimiter(s) = read[s]
  BY SameBytes, DtvReads DEF Dtv!UpToDelimiter, Dtv!SOF, Dtv!EOF, Dtv!ESC
<1>2. ASSUME NEW s \in Seq(Byte), s # <<>>
      PROVE  /\ s[1] \in {136, 85} => said[s] = <<>> /\ rest[s] = <<>>
             /\ s[1] \notin {136, 85, 170} => said[s] = One(s[1]) /\ rest[s] = Tail(s)
             /\ s[1] = 170 /\ Len(s) = 1 => said[s] = One(170) /\ rest[s] = <<>>
             /\ s[1] = 170 /\ Len(s) > 1 => said[s] = Two(170, s[2]) /\ rest[s] = Tail(Tail(s))
  <2>1. Len(s) \in Nat /\ Len(s) >= 1 /\ Tail(s) = SubSeq(s, 2, Len(s)) /\ s[1] \in Byte
    BY <1>2, WithoutTheFirst, LenIsNat
  <2>2. SubSeq(s, 1, 1) = One(s[1])
    <3>1. 1 \in 0..Len(s) /\ 1 \in Nat \ {0} /\ 1 <= 1 /\ 1 - 1 + 1 = 1 /\ 1 + 1 - 1 = 1
            /\ 1 \in 1..(1 - 1 + 1)
      BY <2>1
    <3>2. SubSeq(s, 1, 1) \in Seq(Byte) /\ Len(SubSeq(s, 1, 1)) = 1 /\ SubSeq(s, 1, 1)[1] = s[1]
      BY <3>1, Cut
    <3>3. One(s[1]) \in Seq(Byte) /\ Len(One(s[1])) = 1 /\ One(s[1])[1] = s[1]
      BY <2>1, Ones
    <3>4. \A k \in 1..1 : k = 1
      OBVIOUS
    <3>. QED BY <3>2, <3>3, <3>4, SeqEqual
  <2>3. CASE Len(s) > 1
    <3>1. SubSeq(s, 1, 2) = Two(s[1], s[2])
      <4>1. 2 \in 0..Len(s) /\ 1 \in Nat \ {0} /\ 1 <= 2 /\ 2 - 1 + 1 = 2 /\ 1 + 1 - 1 = 1
              /\ 1 + 2 - 1 = 2 /\ 1 \in 1..(2 - 1 + 1) /\ 2 \in 1..(2 - 1 + 1)
        BY <2>1, <2>3
      <4>2. /\ SubSeq(s, 1, 2) \in Seq(Byte) /\ Len(SubSeq(s, 1, 2)) = 2
            /\ SubSeq(s, 1, 2)[1] = s[1] /\ SubSeq(s, 1, 2)[2] = s[2]
        BY <4>1, Cut
      <4>3. s[2] \in Byte
        BY <2>3, TwoAndRest
      <4>4. /\ Two(s[1], s[2]) \in Seq(Byte) /\ Len(Two(s[1], s[2])) = 2
            /\ Two(s[1], s[2])[1] = s[1] /\ Two(s[1], s[2])[2] = s[2]
        <5>. HIDE DEF said, rest
        <5>1. s[1] \in Byte
          BY <2>1
        <5>2. \A a, c \in Byte : /\ Two(a, c) \in Seq(Byte) /\ Len(Two(a, c)) = 2
                                 /\ Two(a, c)[1] = a /\ Two(a, c)[2] = c
          BY Twos
        <5>. QED BY <4>3, <5>1, <5>2
      <4>5. \A k \in 1..2 : k = 1 \/ k = 2
        OBVIOUS
      <4>. QED BY <4>2, <4>4, <4>5, SeqEqual
    <3>2. Tail(Tail(s)) = SubSeq(s, 3, Len(s))
      BY <2>3, TwoAndRest
    <3>3. ~ (Len(s) = 1)
      BY <2>1, <2>3, OneOrMore
    <3>4. s[1] \in {136, 85} => said[s] = <<>> /\ rest[s] = <<>>
      OBVIOUS
    <3>5. s[1] \notin {136, 85, 170} => said[s] = One(s[1]) /\ rest[s] = Tail(s)
      BY <2>1, <2>2
    <3>6. s[1] = 170 => said[s] = Two(170, s[2]) /\ rest[s] = Tail(Tail(s))
      <4>1. SUFFICES ASSUME s[1] = 170
                     PROVE  said[s] = Two(170, s[2]) /\ rest[s] = Tail(Tail(s))
        OBVIOUS
      <4>2. said[s] = SubSeq(s, 1, 2) /\ rest[s] = SubSeq(s, 3, Len(s))
        BY <2>3, <4>1
      <4>. QED BY <3>1, <3>2, <4>1, <4>2
    <3>. QED BY <3>3, <3>4, <3>5, <3>6
  <2>4. CASE Len(s) = 1
    <3>1. SubSeq(s, 3, Len(s)) = <<>>
      BY <2>4, SubSeqEmpty
    <3>2. ~ (Len(s) > 1)
      BY <2>4
    <3>3. s[1] \in {136, 85} => said[s] = <<>> /\ rest[s] = <<>>
      OBVIOUS
    <3>4. s[1] \notin {136, 85, 170} => said[s] = One(s[1]) /\ rest[s] = Tail(s)
      BY <2>1, <2>2
    <3>5. s[1] = 170 => said[s] = One(170) /\ rest[s] = <<>>
      BY <2>2, <3>1, <3>2
    <3>. QED BY <3>2, <3>3, <3>4, <3>5
  <2>5. Len(s) = 1 \/ Len(s) > 1
    BY <2>1, OneOrMore
  <2>. QED BY <2>3, <2>4, <2>5
<1>. HIDE DEF said, rest
<1>3. Steps(said, rest, Byte)
  <2>1. SUFFICES ASSUME NEW s \in Seq(Byte), s # <<>>
                 PROVE  said[s] \in Seq(Byte) /\ rest[s] \in Seq(Byte) /\ Len(rest[s]) < Len(s)
    BY DEF Steps
  <2>2. /\ Tail(s) \in Seq(Byte) /\ Len(Tail(s)) < Len(s) /\ s[1] \in Byte
        /\ Len(s) >= 1 /\ Len(s) \in Nat
    BY <2>1, WithoutTheFirst, LenIsNat
  <2>3. <<>> \in Seq(Byte) /\ Len(<<>>) < Len(s)
    BY <2>2, EmptyIsSeq
  <2>4. One(s[1]) \in Seq(Byte)
    BY <2>2, Ones
  <2>5. CASE s[1] \in {136, 85}
    <3>1. said[s] = <<>> /\ rest[s] = <<>>
      BY <1>2, <2>1, <2>5
    <3>. QED BY <2>3, <3>1
  <2>6. CASE s[1] \notin {136, 85, 170}
    <3>1. said[s] = One(s[1]) /\ rest[s] = Tail(s)
      BY <1>2, <2>1, <2>6
    <3>. QED BY <2>2, <2>4, <3>1
  <2>7. CASE s[1] = 170 /\ Len(s) = 1
    <3>1. said[s] = One(s[1]) /\ rest[s] = <<>>
      BY <1>2, <2>1, <2>7
    <3>. QED BY <2>3, <2>4, <3>1
  <2>8. CASE s[1] = 170 /\ Len(s) > 1
    <3>1. said[s] = Two(s[1], s[2]) /\ rest[s] = Tail(Tail(s))
      BY <1>2, <2>1, <2>8
    <3>2. s[2] \in Byte /\ Tail(Tail(s)) \in Seq(Byte) /\ Len(Tail(Tail(s))) = Len(s) - 2
      BY <2>8, TwoAndRest
    <3>3. Len(Tail(Tail(s))) < Len(s)
      BY <2>2, <3>2
    <3>4. Two(s[1], s[2]) \in Seq(Byte)
      BY <2>2, <3>2, Twos
    <3>. QED BY <3>1, <3>2, <3>3, <3>4
  <2>9. Len(s) = 1 \/ Len(s) > 1
    BY <2>2, OneOrMore
  <2>10. s[1] \in {136, 85} \/ s[1] \notin {136, 85, 170} \/ s[1] = 170
    OBVIOUS
  <2>. QED BY <2>5, <2>6, <2>7, <2>8, <2>9, <2>10
<1>4. /\ read \in [Seq(Byte) -> Seq(Byte)] /\ read[<<>>] = <<>>
      /\ \A s \in Seq(Byte) : s # <<>> => read[s] = said[s] \o read[rest[s]]
  BY <1>3, Unfold
<1>. HIDE DEF read
<1>5. ASSUME NEW s \in Seq(Byte), s # <<>>
      PROVE  /\ s[1] \in {136, 85} => read[s] = <<>>
             /\ s[1] \notin {136, 85, 170} => read[s] = One(s[1]) \o read[Tail(s)]
             /\ s[1] = 170 /\ Len(s) = 1 => read[s] = One(170)
             /\ s[1] = 170 /\ Len(s) > 1 => read[s] = Two(170, s[2]) \o read[Tail(Tail(s))]
  <2>1. read[s] = said[s] \o read[rest[s]] /\ read[<<>>] = <<>>
    BY <1>4, <1>5
  <2>2. <<>> \o <<>> = <<>> /\ One(170) \o <<>> = One(170)
    <3>1. <<170>> \in Seq(Nat) /\ <<>> \in Seq(Nat)
      OBVIOUS
    <3>. QED BY <3>1, ConcatEmptySeq
  <2>3. s[1] \in {136, 85} => read[s] = <<>>
    BY <1>2, <1>5, <2>1, <2>2
  <2>4. s[1] \notin {136, 85, 170} => read[s] = One(s[1]) \o read[Tail(s)]
    BY <1>2, <1>5, <2>1
  <2>5. ASSUME s[1] = 170, Len(s) = 1 PROVE read[s] = One(170)
    <3>1. said[s] = One(170) /\ rest[s] = <<>>
      BY <1>2, <1>5, <2>5
    <3>. QED BY <2>1, <2>2, <3>1
  <2>6. s[1] = 170 /\ Len(s) > 1 => read[s] = Two(170, s[2]) \o read[Tail(Tail(s))]
    BY <1>2, <1>5, <2>1
  <2>. QED BY <2>3, <2>4, <2>5, <2>6
<1>6. \A s \in Seq(Byte) : read[s] \in Seq(Byte)
  BY <1>4
<1>. QED BY <1>1, <1>4, <1>5, <1>6, ZenonT(60)

\* Strings on end may be joined in either order.
LEMMA Associates == \A a, b, c \in Seq(Byte) : (a \o b) \o c = a \o (b \o c)
BY ConcatAssociative

\* A length above zero is not zero.
LEMMA Positive == \A n \in Nat : n > 0 => n # 0
OBVIOUS

\* Two fewer is fewer.
LEMMA TwoLess == \A n \in Nat : n - 2 < n
OBVIOUS

\* One step of the scan, and how it goes on when more comes behind.
LEMMA UpToDelimiterSteps ==
  ASSUME NEW s \in Seq(Byte), s # <<>>
  PROVE  \/ /\ s[1] \in {136, 85}
            /\ \A x \in Seq(Byte) : Dtv!UpToDelimiter(s \o x) = <<>>
         \/ /\ \A x \in Seq(Byte) : x # <<>> =>
                 Dtv!UpToDelimiter(s \o x) = (s \o One(x[1])) \o Dtv!UpToDelimiter(Tail(x))
            /\ Dtv!UpToDelimiter(s) = s
         \/ \E p, u \in Seq(Byte) :
              /\ s = p \o u /\ Len(u) < Len(s)
              /\ \A x \in Seq(Byte) : Dtv!UpToDelimiter(s \o x) = p \o Dtv!UpToDelimiter(u \o x)
<1>1. /\ s[1] \in Byte /\ Tail(s) \in Seq(Byte) /\ Len(Tail(s)) < Len(s)
      /\ Len(s) \in Nat /\ Len(s) >= 1 /\ Len(Tail(s)) = Len(s) - 1
  BY WithoutTheFirst, LenIsNat
<1>6. \A x \in Seq(Byte) : /\ s \o x \in Seq(Byte) /\ s \o x # <<>> /\ (s \o x)[1] = s[1]
                            /\ Tail(s \o x) = Tail(s) \o x
  BY WithoutTheFirst, LenIsNat, MoreBehind
<1>2. CASE s[1] \in {136, 85}
  <2>1. \A x \in Seq(Byte) : Dtv!UpToDelimiter(s \o x) = <<>>
    BY <1>6, <1>2, UpToDelimiterUnfolds
  <2>. QED BY <1>2, <2>1
<1>3. CASE s[1] \notin {136, 85, 170}
  <2>1. \A x \in Seq(Byte) :
          Dtv!UpToDelimiter(s \o x) = One(s[1]) \o Dtv!UpToDelimiter(Tail(s) \o x)
    <3>1. SUFFICES ASSUME NEW x \in Seq(Byte)
                   PROVE  Dtv!UpToDelimiter(s \o x) = One(s[1]) \o Dtv!UpToDelimiter(Tail(s) \o x)
      OBVIOUS
    <3> DEFINE y == s \o x
    <3>2. y \in Seq(Byte) /\ y # <<>> /\ y[1] = s[1] /\ Tail(y) = Tail(s) \o x
      BY <1>6
    <3>. HIDE DEF y
    <3>3. Dtv!UpToDelimiter(y) = One(y[1]) \o Dtv!UpToDelimiter(Tail(y))
      BY <1>3, <3>2, UpToDelimiterUnfolds
    <3>. QED BY <3>2, <3>3 DEF y
  <2>2. s = One(s[1]) \o Tail(s) /\ One(s[1]) \in Seq(Byte)
    BY <1>1, FirstAndRest, Ones
  <2>3. \E p, u \in Seq(Byte) :
          /\ s = p \o u /\ Len(u) < Len(s)
          /\ \A x \in Seq(Byte) : Dtv!UpToDelimiter(s \o x) = p \o Dtv!UpToDelimiter(u \o x)
    <3> DEFINE p == One(s[1])
               u == Tail(s)
    <3>1. /\ p \in Seq(Byte) /\ u \in Seq(Byte) /\ s = p \o u /\ Len(u) < Len(s)
          /\ \A x \in Seq(Byte) : Dtv!UpToDelimiter(s \o x) = p \o Dtv!UpToDelimiter(u \o x)
      BY <1>1, <2>1, <2>2
    <3>. HIDE DEF p, u
    <3>. QED BY <3>1
  <2>. QED BY <2>3
<1>4. CASE s[1] = 170 /\ Len(s) = 1
  <2>1. Tail(s) = <<>>
    <3>1. Len(Tail(s)) <= 0
      BY <1>1, <1>4
    <3>. QED BY <1>1, <3>1, NothingLeft
  <2>2. s = One(170)
    <3>1. s = One(170) \o <<>> /\ One(170) \in Seq(Byte)
      BY <1>1, <1>4, <2>1, FirstAndRest, Ones
    <3>. QED BY <3>1, ConcatEmptySeq
  <2>3. Dtv!UpToDelimiter(s) = s
    BY <1>4, <2>2, UpToDelimiterUnfolds
  <2>4. ASSUME NEW x \in Seq(Byte), x # <<>>
        PROVE  Dtv!UpToDelimiter(s \o x) = (s \o One(x[1])) \o Dtv!UpToDelimiter(Tail(x))
    <3>1. /\ s \o x \in Seq(Byte) /\ s \o x # <<>> /\ (s \o x)[1] = 170
          /\ Tail(s \o x) = Tail(s) \o x
      BY <1>6, <1>4
    <3>2. Tail(s \o x) = x
      BY <2>1, <3>1, ConcatEmptySeq
    <3>3. Len(s \o x) > 1 /\ (s \o x)[2] = x[1]
      <4>1. Len(x) \in Nat /\ Len(x) >= 1
        BY <2>4, WithoutTheFirst, LenIsNat
      <4>2. Len(s \o x) = Len(s) + Len(x) /\ (s \o x)[Len(s) + 1] = x[1]
        <5>1. 1 \in 1..Len(x)
          BY <4>1
        <5>. QED BY <5>1, MoreBehind
      <4>3. Len(s) + 1 = 2
        BY <1>4
      <4>. QED BY <1>1, <1>4, <4>1, <4>2, <4>3
    <3>4. Dtv!UpToDelimiter(s \o x) = Two(170, x[1]) \o Dtv!UpToDelimiter(Tail(x))
      BY <3>1, <3>2, <3>3, UpToDelimiterUnfolds, ZenonT(60)
    <3>. QED BY <2>2, <3>4 DEF Two
  <2>. QED BY <2>3, <2>4
<1>5. CASE s[1] = 170 /\ Len(s) > 1
  <2>1. /\ s = Two(170, s[2]) \o Tail(Tail(s)) /\ s[2] \in Byte /\ s[1] \in Byte
        /\ Tail(Tail(s)) \in Seq(Byte) /\ Len(Tail(Tail(s))) = Len(s) - 2
    BY <1>5, TwoAndRest
  <2>2. Two(170, s[2]) \in Seq(Byte)
    BY <1>5, <2>1, Twos, ZenonT(60)
  <2>3. Tail(s) # <<>>
    <3>1. Len(Tail(s)) # 0
      <4>1. Len(Tail(s)) > 0
        BY <1>1, <1>5
      <4>. QED BY <4>1, <1>1, Positive, LenIsNat
    <3>. QED BY <3>1, LenOfNothing
  <2>4. ASSUME NEW x \in Seq(Byte)
        PROVE  Dtv!UpToDelimiter(s \o x)
                 = Two(170, s[2]) \o Dtv!UpToDelimiter(Tail(Tail(s)) \o x)
    <3>1. /\ s \o x \in Seq(Byte) /\ s \o x # <<>> /\ (s \o x)[1] = 170
          /\ Tail(s \o x) = Tail(s) \o x
      BY <1>6, <1>5
    <3>2. Tail(Tail(s \o x)) = Tail(Tail(s)) \o x
      <4> DEFINE v == Tail(s)
      <4>1. v \in Seq(Byte) /\ v # <<>>
        BY <1>1, <2>3
      <4>. HIDE DEF v
      <4>2. Tail(v \o x) = Tail(v) \o x
        BY <4>1, WithoutTheFirst
      <4>. QED BY <3>1, <4>2 DEF v
    <3>3. Len(s \o x) > 1 /\ (s \o x)[2] = s[2]
      <4>1. 2 \in 1..Len(s) /\ Len(x) \in Nat
        BY <1>1, <1>5, LenIsNat
      <4>. QED BY <1>1, <1>5, <4>1, MoreBehind
    <3>. QED BY <3>1, <3>2, <3>3, UpToDelimiterUnfolds, ZenonT(60)
  <2>5. Len(Tail(Tail(s))) < Len(s)
    BY <1>1, <2>1, TwoLess
  <2>6. \E p, u \in Seq(Byte) :
          /\ s = p \o u /\ Len(u) < Len(s)
          /\ \A x \in Seq(Byte) : Dtv!UpToDelimiter(s \o x) = p \o Dtv!UpToDelimiter(u \o x)
    <3> DEFINE p == Two(170, s[2])
               u == Tail(Tail(s))
    <3>1. /\ p \in Seq(Byte) /\ u \in Seq(Byte) /\ s = p \o u /\ Len(u) < Len(s)
          /\ \A x \in Seq(Byte) : Dtv!UpToDelimiter(s \o x) = p \o Dtv!UpToDelimiter(u \o x)
      BY <2>1, <2>2, <2>4, <2>5
    <3>. HIDE DEF p, u
    <3>. QED BY <3>1
  <2>. QED BY <2>6
<1>7. Len(s) = 1 \/ Len(s) > 1
  BY <1>1, OneOrMore
<1>8. s[1] \in {136, 85} \/ s[1] \notin {136, 85, 170} \/ s[1] = 170
  OBVIOUS
<1>. QED BY <1>2, <1>3, <1>4, <1>5, <1>7, <1>8, Zenon

\* Where the scan stops.
Stops(s) ==
  \E t \in Seq(Byte) :
    /\ t # <<>> /\ t[1] \in {136, 85} /\ s = Dtv!UpToDelimiter(s) \o t
    /\ \A x \in Seq(Byte) : Dtv!UpToDelimiter(s \o x) = Dtv!UpToDelimiter(s)

GoesOn(s) ==
  /\ Dtv!UpToDelimiter(s) = s
  /\ \A x \in Seq(Byte) : Dtv!UpToDelimiter(s \o x) = s \o Dtv!UpToDelimiter(x)

Hangs(s) ==
  /\ Dtv!UpToDelimiter(s) = s
  /\ \A x \in Seq(Byte) : x # <<>> =>
       Dtv!UpToDelimiter(s \o x) = (s \o One(x[1])) \o Dtv!UpToDelimiter(Tail(x))

\* Every scan ends in one of these ways.
LEMMA ScanEnds ==
  ASSUME NEW s \in Seq(Byte)
  PROVE  Stops(s) \/ GoesOn(s) \/ Hangs(s)
<1> DEFINE P == {b \in Seq(Byte) : Stops(b) \/ GoesOn(b) \/ Hangs(b)}
<1>1. \A b \in Seq(Byte) : b \in P <=> (Stops(b) \/ GoesOn(b) \/ Hangs(b))
  OBVIOUS
<1>2. P \in SUBSET Seq(Byte)
  OBVIOUS
<1>. HIDE DEF P
<1>3. \A b \in Seq(Byte) : b \o <<>> = b /\ <<>> \o b = b
  BY ConcatEmptySeq
<1>4. \A b \in Seq(Byte) : Dtv!UpToDelimiter(b) \in Seq(Byte)
  BY UpToDelimiterUnfolds
<1>5. ASSUME NEW b \in Seq(Byte), \A t \in Seq(Byte) : Len(t) < Len(b) => t \in P PROVE b \in P
  <2>1. CASE b = <<>>
    <3>1. GoesOn(b)
      BY <1>3, <1>4, <2>1, UpToDelimiterUnfolds DEF GoesOn
    <3>. QED BY <1>1, <3>1
  <2>2. CASE b # <<>> /\ b[1] \in {136, 85}
               /\ \A x \in Seq(Byte) : Dtv!UpToDelimiter(b \o x) = <<>>
    <3>1. Dtv!UpToDelimiter(b) = <<>>
      BY <1>3, <2>2, EmptyIsSeq
    <3>2. Stops(b)
      BY <1>3, <2>2, <3>1 DEF Stops
    <3>. QED BY <1>1, <3>2
  <2>3. CASE /\ \A x \in Seq(Byte) : x # <<>> =>
                  Dtv!UpToDelimiter(b \o x) = (b \o One(x[1])) \o Dtv!UpToDelimiter(Tail(x))
             /\ Dtv!UpToDelimiter(b) = b
    <3>1. Hangs(b)
      BY <2>3 DEF Hangs
    <3>. QED BY <1>1, <3>1
  <2>4. ASSUME NEW p \in Seq(Byte), NEW u \in Seq(Byte), b = p \o u, Len(u) < Len(b),
               \A x \in Seq(Byte) : Dtv!UpToDelimiter(b \o x) = p \o Dtv!UpToDelimiter(u \o x)
        PROVE  b \in P
    <3>1. Dtv!UpToDelimiter(b) = p \o Dtv!UpToDelimiter(u)
      BY <1>3, <2>4, EmptyIsSeq
    <3>2. Stops(u) \/ GoesOn(u) \/ Hangs(u)
      BY <1>1, <1>5, <2>4
    <3>3. CASE Stops(u)
      <4>1. PICK t \in Seq(Byte) :
              /\ t # <<>> /\ t[1] \in {136, 85} /\ u = Dtv!UpToDelimiter(u) \o t
              /\ \A x \in Seq(Byte) : Dtv!UpToDelimiter(u \o x) = Dtv!UpToDelimiter(u)
        BY <3>3 DEF Stops
      <4>2. b = Dtv!UpToDelimiter(b) \o t
        <5>1. (p \o Dtv!UpToDelimiter(u)) \o t = p \o (Dtv!UpToDelimiter(u) \o t)
          BY <1>4, <4>1, Associates, SMTT(30)
        <5>. QED BY <2>4, <3>1, <4>1, <5>1
      <4>3. \A x \in Seq(Byte) : Dtv!UpToDelimiter(b \o x) = Dtv!UpToDelimiter(b)
        BY <2>4, <3>1, <4>1
      <4>4. Stops(b)
        BY <4>1, <4>2, <4>3 DEF Stops
      <4>. QED BY <1>1, <4>4
    <3>4. CASE GoesOn(u)
      <4>1. ASSUME NEW x \in Seq(Byte) PROVE Dtv!UpToDelimiter(b \o x) = b \o Dtv!UpToDelimiter(x)
        <5>1. Dtv!UpToDelimiter(b \o x) = p \o (u \o Dtv!UpToDelimiter(x))
          BY <2>4, <3>4 DEF GoesOn
        <5>2. Dtv!UpToDelimiter(x) \in Seq(Byte)
          BY <1>4
        <5>3. p \o (u \o Dtv!UpToDelimiter(x)) = (p \o u) \o Dtv!UpToDelimiter(x)
          BY <5>2, Associates, ZenonT(60)
        <5>. QED BY <2>4, <5>1, <5>3
      <4>2. Dtv!UpToDelimiter(b) = b
        BY <2>4, <3>1, <3>4 DEF GoesOn
      <4>3. GoesOn(b)
        BY <4>1, <4>2 DEF GoesOn
      <4>. QED BY <1>1, <4>3
    <3>5. CASE Hangs(u)
      <4>1. ASSUME NEW x \in Seq(Byte), x # <<>>
            PROVE  Dtv!UpToDelimiter(b \o x) = (b \o One(x[1])) \o Dtv!UpToDelimiter(Tail(x))
        <5>1. One(x[1]) \in Seq(Byte) /\ Dtv!UpToDelimiter(Tail(x)) \in Seq(Byte)
          BY <1>4, <4>1, WithoutTheFirst, Ones
        <5>2. Dtv!UpToDelimiter(b \o x) = p \o ((u \o One(x[1])) \o Dtv!UpToDelimiter(Tail(x)))
          BY <2>4, <3>5, <4>1 DEF Hangs
        <5>3. p \o ((u \o One(x[1])) \o Dtv!UpToDelimiter(Tail(x)))
                = ((p \o u) \o One(x[1])) \o Dtv!UpToDelimiter(Tail(x))
          <6> DEFINE h == One(x[1])
                     v == Dtv!UpToDelimiter(Tail(x))
          <6>1. h \in Seq(Byte) /\ v \in Seq(Byte)
            BY <5>1
          <6>. HIDE DEF h, v
          <6>2. p \o ((u \o h) \o v) = ((p \o u) \o h) \o v
            <7> DEFINE w == h \o v
                       q == p \o u
            <7>1. w \in Seq(Byte)
              BY <6>1, MoreBehind
            <7>2. q \in Seq(Byte)
              BY MoreBehind
            <7>3. (u \o h) \o v = u \o w
              BY <6>1, Associates, ZenonT(60)
            <7>4. (q \o h) \o v = q \o w
              <8>. HIDE DEF q
              <8>. QED BY <6>1, <7>2, Associates, ZenonT(60) DEF w
            <7>5. q \o w = p \o (u \o w)
              <8>. HIDE DEF w
              <8>. QED BY <7>1, Associates, ZenonT(60) DEF q
            <7>. QED BY <7>3, <7>4, <7>5
          <6>. QED BY <6>2 DEF h, v
        <5>. QED BY <2>4, <5>2, <5>3
      <4>2. Dtv!UpToDelimiter(b) = b
        BY <2>4, <3>1, <3>5 DEF Hangs
      <4>3. Hangs(b)
        BY <4>1, <4>2 DEF Hangs
      <4>. QED BY <1>1, <4>3
    <3>. QED BY <3>2, <3>3, <3>4, <3>5
  <2>5. CASE b # <<>>
    <3>1. \/ /\ b[1] \in {136, 85}
             /\ \A x \in Seq(Byte) : Dtv!UpToDelimiter(b \o x) = <<>>
          \/ /\ \A x \in Seq(Byte) : x # <<>> =>
                  Dtv!UpToDelimiter(b \o x) = (b \o One(x[1])) \o Dtv!UpToDelimiter(Tail(x))
             /\ Dtv!UpToDelimiter(b) = b
          \/ \E p, u \in Seq(Byte) :
               /\ b = p \o u /\ Len(u) < Len(b)
               /\ \A x \in Seq(Byte) : Dtv!UpToDelimiter(b \o x) = p \o Dtv!UpToDelimiter(u \o x)
      BY <2>5, UpToDelimiterSteps
    <3>. QED BY <2>2, <2>3, <2>4, <2>5, <3>1
  <2>. QED BY <2>1, <2>5
<1>6. P = Seq(Byte)
  BY <1>2, <1>5, StringInduction
<1>. QED BY <1>1, <1>6

-----------------------------------------------------------------------------
(***************************************************************************)
(* Where a frame of the steam bus ends, and what stands behind it.         *)
(***************************************************************************)

Delimits(s, u, w) ==
  /\ Dtv!UpToDelimiter(Tail(s)) = u /\ Dtv!Delimiter(s) = 2 + Len(u)
  /\ Len(s) = 1 + Len(u) + Len(w)
  /\ s[2 + Len(u)] = w[1]
  /\ SubSeq(s, 2, 2 + Len(u) - 1) = u
  /\ Dtv!From(2 + Len(u), s) = w /\ Dtv!From(2 + Len(u) + 1, s) = Tail(w)

\* Where the scan ends says where the frame does, and what stands behind it.
LEMMA Delimited ==
  ASSUME NEW s \in Seq(Byte), s # <<>>, NEW u \in Seq(Byte), NEW w \in Seq(Byte), w # <<>>,
         Tail(s) = u \o w, Dtv!UpToDelimiter(Tail(s)) = u
  PROVE  Delimits(s, u, w)
<1>1. /\ Len(Tail(s)) = Len(s) - 1 /\ Len(s) >= 1 /\ s[1] \in Byte
      /\ \A k \in 1..(Len(s) - 1) : Tail(s)[k] = s[k + 1]
  BY WithoutTheFirst
<1>2. Len(s) \in Nat /\ Len(u) \in Nat /\ Len(w) \in Nat /\ Len(w) >= 1
  BY LenIsNat, WithoutTheFirst
<1>3. /\ Len(u \o w) = Len(u) + Len(w)
      /\ \A k \in 1..Len(u) : (u \o w)[k] = u[k]
      /\ \A k \in 1..Len(w) : (u \o w)[Len(u) + k] = w[k]
  BY MoreBehind
<1>4. Len(s) = 1 + Len(u) + Len(w)
  <2>1. Len(u \o w) = Len(s) - 1
    BY <1>1
  <2>2. Len(u) + Len(w) = Len(s) - 1
    BY <1>3, <2>1
  <2>. QED BY <1>2, <2>2, SMTT(30)
<1>5. Dtv!Delimiter(s) = 2 + Len(u)
  BY SMTT(30) DEF Dtv!Delimiter
<1>6. \A k \in 1..Len(u) : s[k + 1] = u[k]
  <2>1. \A k \in 1..Len(u) : k \in 1..(Len(s) - 1)
    BY <1>2, <1>4
  <2>. QED BY <1>1, <1>3, <2>1, ZenonT(60)
<1>7. \A k \in 1..Len(w) : s[Len(u) + k + 1] = w[k]
  <2>1. \A k \in 1..Len(w) : Len(u) + k \in 1..(Len(s) - 1)
    BY <1>2, <1>4
  <2>. QED BY <1>1, <1>3, <2>1, ZenonT(60)
<1>8. s[2 + Len(u)] = w[1]
  <2>1. 1 \in 1..Len(w) /\ Len(u) + 1 + 1 = 2 + Len(u)
    BY <1>2
  <2>. QED BY <1>7, <2>1
<1>9. SubSeq(s, 2, 2 + Len(u) - 1) = u
  <2> DEFINE a == SubSeq(s, 2, 2 + Len(u) - 1)
  <2>1. /\ 2 \in Nat \ {0} /\ 2 + Len(u) - 1 \in 0..Len(s) /\ (2 + Len(u) - 1) - 2 + 1 = Len(u)
        /\ (~ (2 <= 2 + Len(u) - 1) => Len(u) = 0)
        /\ \A k \in 1..Len(u) : 2 + k - 1 = k + 1
    BY <1>2, <1>4
  <2>2. a \in Seq(Byte) /\ Len(a) = Len(u) /\ \A k \in 1..Len(u) : a[k] = s[2 + k - 1]
    BY <2>1, Cut
  <2>3. \A k \in 1..Len(u) : a[k] = u[k]
    BY <1>6, <2>1, <2>2
  <2>. HIDE DEF a
  <2>4. a = u
    BY <2>2, <2>3, SeqEqual
  <2>. QED BY <2>4 DEF a
<1>10. Dtv!From(2 + Len(u), s) = w
  <2> DEFINE a == SubSeq(s, 2 + Len(u), Len(s))
  <2>1. /\ 2 + Len(u) \in 1..(Len(s) + 1) /\ Len(s) - (2 + Len(u)) + 1 = Len(w)
        /\ \A k \in 1..Len(w) : 2 + Len(u) + k - 1 = Len(u) + k + 1
    BY <1>2, <1>4
  <2>2. a \in Seq(Byte) /\ Len(a) = Len(w) /\ \A k \in 1..Len(w) : a[k] = s[2 + Len(u) + k - 1]
    BY <2>1, TheRest
  <2>3. \A k \in 1..Len(w) : a[k] = w[k]
    BY <1>7, <2>1, <2>2
  <2>. HIDE DEF a
  <2>4. a = w
    BY <2>2, <2>3, SeqEqual
  <2>. QED BY <2>4 DEF a, Dtv!From
<1>11. Dtv!From(2 + Len(u) + 1, s) = Tail(w)
  <2> DEFINE a == SubSeq(s, 2 + Len(u) + 1, Len(s))
             t == Tail(w)
  <2>1. /\ 2 + Len(u) + 1 \in 1..(Len(s) + 1) /\ Len(s) - (2 + Len(u) + 1) + 1 = Len(w) - 1
        /\ \A k \in 1..(Len(w) - 1) : /\ 2 + Len(u) + 1 + k - 1 = Len(u) + (k + 1) + 1
                                      /\ k + 1 \in 1..Len(w)
    BY <1>2, <1>4
  <2>2. /\ a \in Seq(Byte) /\ Len(a) = Len(w) - 1
        /\ \A k \in 1..(Len(w) - 1) : a[k] = s[2 + Len(u) + 1 + k - 1]
    <3> DEFINE i == 2 + Len(u) + 1
    <3>1. i \in 1..(Len(s) + 1) /\ Len(s) - i + 1 = Len(w) - 1
      BY <2>1
    <3>. HIDE DEF i
    <3>2. /\ SubSeq(s, i, Len(s)) \in Seq(Byte) /\ Len(SubSeq(s, i, Len(s))) = Len(w) - 1
          /\ \A k \in 1..(Len(w) - 1) : SubSeq(s, i, Len(s))[k] = s[i + k - 1]
      BY <3>1, TheRest
    <3>. QED BY <3>2 DEF i
  <2>3. /\ t \in Seq(Byte) /\ Len(t) = Len(w) - 1
        /\ \A k \in 1..(Len(w) - 1) : t[k] = w[k + 1]
    BY WithoutTheFirst
  <2>4. \A k \in 1..(Len(w) - 1) : a[k] = t[k]
    BY <1>7, <2>1, <2>2, <2>3
  <2>. HIDE DEF a, t
  <2>5. a = t
    BY <2>2, <2>3, <2>4, SeqEqual
  <2>. QED BY <2>5 DEF a, t, Dtv!From
<1>. QED BY <1>4, <1>5, <1>8, <1>9, <1>10, <1>11 DEF Delimits

\* A scan that stops stops there whatever comes later; one that does not has
\* gone past everything there is.
LEMMA StopsThere ==
  ASSUME NEW s \in Seq(Byte), s # <<>>, Stops(Tail(s))
  PROVE  \E u, w \in Seq(Byte) : /\ w # <<>> /\ w[1] \in {136, 85}
                                 /\ Delimits(s, u, w)
                                 /\ \A x \in Seq(Byte) : Delimits(s \o x, u, w \o x)
<1> DEFINE t == Tail(s)
           u == Dtv!UpToDelimiter(t)
<1>1. t \in Seq(Byte) /\ u \in Seq(Byte)
        /\ \A x \in Seq(Byte) : Tail(s \o x) = t \o x /\ s \o x # <<>> /\ s \o x \in Seq(Byte)
  <2>1. t \in Seq(Byte)
    BY WithoutTheFirst
  <2>2. u \in Seq(Byte)
    BY <2>1, UpToDelimiterUnfolds
  <2>3. \A x \in Seq(Byte) : Tail(s \o x) = t \o x /\ s \o x # <<>>
    BY WithoutTheFirst
  <2>4. \A x \in Seq(Byte) : s \o x \in Seq(Byte)
    BY MoreBehind
  <2>. QED BY <2>1, <2>2, <2>3, <2>4
<1>2. PICK w \in Seq(Byte) :
        /\ w # <<>> /\ w[1] \in {136, 85} /\ t = u \o w
        /\ \A x \in Seq(Byte) : Dtv!UpToDelimiter(t \o x) = u
  BY DEF Stops
<1>3. u = Dtv!UpToDelimiter(Tail(s)) /\ t = Tail(s)
  OBVIOUS
<1>. HIDE DEF t, u
<1>4. Delimits(s, u, w)
  BY <1>1, <1>2, <1>3, Delimited
<1>5. ASSUME NEW x \in Seq(Byte) PROVE Delimits(s \o x, u, w \o x)
  <2> DEFINE y == s \o x
             v == w \o x
  <2>1. y \in Seq(Byte) /\ y # <<>> /\ v \in Seq(Byte) /\ v # <<>>
    BY <1>1, <1>2, MoreBehind, WithoutTheFirst
  <2>2. Tail(y) = u \o v
    <3>1. (u \o w) \o x = u \o (w \o x)
      <4>1. u \in Seq(Byte)
        BY <1>1
      <4>. QED BY <4>1, Associates, Zenon
    <3>2. Tail(s \o x) = t \o x
      BY <1>1
    <3>. QED BY <1>2, <3>1, <3>2
  <2>3. Dtv!UpToDelimiter(Tail(y)) = u
    <3>1. Tail(s \o x) = t \o x
      BY <1>1
    <3>. QED BY <1>2, <3>1
  <2>. HIDE DEF y, v
  <2>4. Delimits(y, u, v)
    BY <1>1, <2>1, <2>2, <2>3, Delimited
  <2>. QED BY <2>4 DEF y, v
<1>. QED BY <1>1, <1>2, <1>4, <1>5

\* A scan without a stop goes past everything there is, and past that too when more
\* comes.
LEMMA GoesPast ==
  ASSUME NEW s \in Seq(Byte), s # <<>>, ~ Stops(Tail(s))
  PROVE  /\ Dtv!Delimiter(s) = Len(s) + 1
         /\ \A x \in Seq(Byte) : Dtv!Delimiter(s \o x) \in Nat /\ Dtv!Delimiter(s \o x) > Len(s)
<1> DEFINE t == Tail(s)
<1>1. t \in Seq(Byte) /\ Len(t) = Len(s) - 1 /\ Len(s) \in Nat /\ Len(s) >= 1 /\ Len(t) \in Nat
        /\ \A x \in Seq(Byte) : Tail(s \o x) = t \o x
  BY WithoutTheFirst, LenIsNat
<1>2. GoesOn(t) \/ Hangs(t)
  BY <1>1, ScanEnds
<1>3. Dtv!Delimiter(s) = 2 + Len(Dtv!UpToDelimiter(t))
        /\ \A x \in Seq(Byte) : Dtv!Delimiter(s \o x) = 2 + Len(Dtv!UpToDelimiter(t \o x))
  BY <1>1 DEF Dtv!Delimiter
<1>. HIDE DEF t
<1>4. Dtv!UpToDelimiter(t) = t
  BY <1>2 DEF GoesOn, Hangs
<1>5. ASSUME NEW x \in Seq(Byte)
      PROVE  Len(Dtv!UpToDelimiter(t \o x)) \in Nat /\ Len(Dtv!UpToDelimiter(t \o x)) >= Len(t)
  <2>1. CASE x = <<>>
    <3>1. t \o x = t
      BY <1>1, <2>1, ConcatEmptySeq
    <3>. QED BY <1>1, <1>4, <3>1
  <2>2. CASE GoesOn(t)
    <3> DEFINE v == Dtv!UpToDelimiter(x)
    <3>1. v \in Seq(Byte) /\ Dtv!UpToDelimiter(t \o x) = t \o v
      BY <2>2, UpToDelimiterUnfolds DEF GoesOn
    <3>. HIDE DEF v
    <3>2. Len(t \o v) = Len(t) + Len(v) /\ Len(v) \in Nat
      BY <1>1, <3>1, MoreBehind, LenIsNat
    <3>. QED BY <1>1, <3>1, <3>2
  <2>3. CASE Hangs(t) /\ x # <<>>
    <3> DEFINE v == Dtv!UpToDelimiter(Tail(x))
               h == One(x[1])
    <3>1. v \in Seq(Byte) /\ h \in Seq(Byte)
      BY <2>3, WithoutTheFirst, Ones, UpToDelimiterUnfolds
    <3>2. Dtv!UpToDelimiter(t \o x) = (t \o h) \o v
      BY <2>3 DEF Hangs
    <3>. HIDE DEF v, h
    <3>3. t \o h \in Seq(Byte) /\ Len(t \o h) = Len(t) + Len(h) /\ Len(h) \in Nat /\ Len(v) \in Nat
      BY <1>1, <3>1, MoreBehind, LenIsNat
    <3>4. Len((t \o h) \o v) = Len(t \o h) + Len(v)
      BY <3>1, <3>3, MoreBehind
    <3>. QED BY <1>1, <3>2, <3>3, <3>4
  <2>. QED BY <1>2, <2>1, <2>2, <2>3
<1>. QED BY <1>1, <1>3, <1>4, <1>5

\* Sound bytes yield a frame no longer than allowed.
LEMMA FrameIsTyped ==
  ASSUME NEW l, Dtv!Sound(l)
  PROVE  Dtv!FrameOf(l) \in DtvFrames
<1>1. l \in Seq(Byte) /\ Len(l) \in 4..(4 + MAX_PAYLOAD)
  BY SameBytes DEF Dtv!Sound, Dtv!LOGICAL_OVERHEAD, Dtv!MAX_LOGICAL
<1>2. Len(l) \in Nat /\ Len(l) >= 4 /\ Len(l) <= 4 + MAX_PAYLOAD /\ MAX_PAYLOAD \in Nat
  BY <1>1, LengthAssumption
<1>3. l[1] \in Byte /\ l[2] \in Byte /\ l[3] \in Byte
  <2>1. 1 \in 1..Len(l) /\ 2 \in 1..Len(l) /\ 3 \in 1..Len(l)
    BY <1>2
  <2>. QED BY <1>1, <2>1, ElementOfSeq
<1> DEFINE payload == SubSeq(l, 4, Len(l) - 1)
<1>4. payload \in Seq(Byte) /\ Len(payload) <= MAX_PAYLOAD
  <2>1. Len(l) - 1 \in 0..Len(l) /\ 4 \in Nat \ {0}
          /\ (4 <= Len(l) - 1 => (Len(l) - 1) - 4 + 1 <= MAX_PAYLOAD) /\ 0 <= MAX_PAYLOAD
    BY <1>2
  <2>2. payload \in Seq(Byte)
          /\ Len(payload) = IF 4 <= Len(l) - 1 THEN (Len(l) - 1) - 4 + 1 ELSE 0
    BY <1>1, <2>1, Cut
  <2>. HIDE DEF payload
  <2>. QED BY <2>1, <2>2
<1>5. Dtv!FrameOf(l) = [dest |-> l[1], src |-> l[2], cmd |-> l[3], payload |-> payload]
  BY DEF Dtv!FrameOf, Dtv!Frame
<1>. HIDE DEF payload
<1>. QED BY <1>3, <1>4, <1>5 DEF DtvFrames

\* The place of a delimiter is a number past the SOF.
LEMMA DelimiterIsNat ==
  ASSUME NEW s \in Seq(Byte), s # <<>>
  PROVE  Dtv!Delimiter(s) \in Nat /\ Dtv!Delimiter(s) >= 2
<1>1. Dtv!UpToDelimiter(Tail(s)) \in Seq(Byte)
  BY WithoutTheFirst, UpToDelimiterUnfolds
<1>2. Len(Dtv!UpToDelimiter(Tail(s))) \in Nat
  BY <1>1, LenIsNat
<1>. QED BY <1>2 DEF Dtv!Delimiter

Said(l) == IF Dtv!Sound(l) THEN <<Dtv!FrameOf(l)>> ELSE <<>>

\* How a steam bus's stream is read, one step at a time.
LEMMA DtvReading ==
  /\ Dtv!Reading(<<>>) = <<>>
  /\ \A s \in Seq(Byte) : Dtv!Reading(s) \in Seq(DtvFrames)
  /\ \A s \in Seq(Byte) : s # <<>> =>
       /\ s[1] # 136 => Dtv!Reading(s) = Dtv!Reading(Tail(s))
       /\ s[1] = 136 /\ Dtv!IsDelimited(s) /\ s[Dtv!Delimiter(s)] = 85 =>
            Dtv!Reading(s) = Said(Dtv!Logical(s)) \o Dtv!Reading(Dtv!From(Dtv!Delimiter(s) + 1, s))
       /\ s[1] = 136 /\ Dtv!IsDelimited(s) /\ s[Dtv!Delimiter(s)] # 85 =>
            Dtv!Reading(s) = Dtv!Reading(Dtv!From(Dtv!Delimiter(s), s))
       /\ s[1] = 136 /\ ~ Dtv!IsDelimited(s) /\ Len(s) < Dtv!MAX_FRAME => Dtv!Reading(s) = <<>>
       /\ s[1] = 136 /\ ~ Dtv!IsDelimited(s) /\ ~ (Len(s) < Dtv!MAX_FRAME) =>
            Dtv!Reading(s) = Dtv!Reading(Tail(s))
<1> DEFINE
      ends(s) == Dtv!IsDelimited(s)
      closes(s) == s[Dtv!Delimiter(s)] = 85
      said == [s \in Seq(Byte) |->
                 IF Dtv!Closed(s) /\ Dtv!Sound(Dtv!Logical(s))
                 THEN <<Dtv!FrameOf(Dtv!Logical(s))>> ELSE <<>>]
      rest == [s \in Seq(Byte) |->
                 IF Dtv!Closed(s) THEN Dtv!From(Dtv!Delimiter(s) + 1, s)
                 ELSE IF s[1] = 136 /\ Dtv!IsDelimited(s) THEN Dtv!From(Dtv!Delimiter(s), s)
                 ELSE IF s[1] = 136 /\ Len(s) < Dtv!MAX_FRAME THEN <<>>
                 ELSE Tail(s)]
      read == LeftToRight(said, rest)
<1>1. \A s : Dtv!Reading(s) = read[s]
  BY SameBytes, DtvReads DEF Dtv!Reading, Dtv!SOF
<1>2. \A s : Dtv!Closed(s) <=> s[1] = 136 /\ ends(s) /\ closes(s)
  BY DEF Dtv!Closed, Dtv!SOF, Dtv!EOF
<1>3. ASSUME NEW s \in Seq(Byte), s # <<>>
      PROVE  /\ s[1] # 136 => said[s] = <<>> /\ rest[s] = Tail(s)
             /\ s[1] = 136 /\ ends(s) /\ closes(s) =>
                  said[s] = Said(Dtv!Logical(s)) /\ rest[s] = Dtv!From(Dtv!Delimiter(s) + 1, s)
             /\ s[1] = 136 /\ ends(s) /\ ~ closes(s) =>
                  said[s] = <<>> /\ rest[s] = Dtv!From(Dtv!Delimiter(s), s)
             /\ s[1] = 136 /\ ~ ends(s) /\ Len(s) < Dtv!MAX_FRAME =>
                  said[s] = <<>> /\ rest[s] = <<>>
             /\ s[1] = 136 /\ ~ ends(s) /\ ~ (Len(s) < Dtv!MAX_FRAME) =>
                  said[s] = <<>> /\ rest[s] = Tail(s)
  <2>1. /\ said[s] = IF Dtv!Closed(s) THEN Said(Dtv!Logical(s)) ELSE <<>>
        /\ rest[s] = IF Dtv!Closed(s) THEN Dtv!From(Dtv!Delimiter(s) + 1, s)
                     ELSE IF s[1] = 136 /\ ends(s) THEN Dtv!From(Dtv!Delimiter(s), s)
                     ELSE IF s[1] = 136 /\ Len(s) < Dtv!MAX_FRAME THEN <<>>
                     ELSE Tail(s)
    BY <1>3 DEF Said
  <2>. HIDE DEF said, rest, ends, closes
  <2>. QED BY <1>2, <2>1
<1>4. Steps(said, rest, DtvFrames)
  <2>1. SUFFICES ASSUME NEW s \in Seq(Byte), s # <<>>
                 PROVE  said[s] \in Seq(DtvFrames) /\ rest[s] \in Seq(Byte)
                          /\ Len(rest[s]) < Len(s)
    BY DEF Steps
  <2>2. /\ Tail(s) \in Seq(Byte) /\ Len(Tail(s)) < Len(s)
        /\ <<>> \in Seq(Byte) /\ Len(<<>>) < Len(s)
    <3>1. Len(s) >= 1
      BY <2>1, WithoutTheFirst
    <3>. QED BY <2>1, <3>1, WithoutTheFirst, EmptyIsSeq
  <2>3. Said(Dtv!Logical(s)) \in Seq(DtvFrames) /\ <<>> \in Seq(DtvFrames)
    <3>1. CASE Dtv!Sound(Dtv!Logical(s))
      <4>1. Dtv!FrameOf(Dtv!Logical(s)) \in DtvFrames
        BY <3>1, FrameIsTyped
      <4>. QED BY <3>1, <4>1 DEF Said
    <3>2. CASE ~ Dtv!Sound(Dtv!Logical(s))
      BY <3>2 DEF Said
    <3>. QED BY <3>1, <3>2
  <2>4. ASSUME ends(s)
        PROVE  /\ Dtv!From(Dtv!Delimiter(s), s) \in Seq(Byte)
               /\ Len(Dtv!From(Dtv!Delimiter(s), s)) < Len(s)
               /\ Dtv!From(Dtv!Delimiter(s) + 1, s) \in Seq(Byte)
               /\ Len(Dtv!From(Dtv!Delimiter(s) + 1, s)) < Len(s)
    <3> DEFINE d == Dtv!Delimiter(s)
    <3>1. d \in Nat /\ d >= 2 /\ d <= Len(s) /\ Len(s) \in Nat
      BY <2>1, <2>4, DelimiterIsNat, LenIsNat DEF Dtv!IsDelimited
    <3>. HIDE DEF d
    <3>2. /\ d \in 1..(Len(s) + 1) /\ d + 1 \in 1..(Len(s) + 1)
          /\ Len(s) - d + 1 < Len(s) /\ Len(s) - (d + 1) + 1 < Len(s)
      BY <3>1
    <3>3. /\ SubSeq(s, d, Len(s)) \in Seq(Byte) /\ Len(SubSeq(s, d, Len(s))) = Len(s) - d + 1
      BY <3>2, TheRest
    <3>4. /\ SubSeq(s, d + 1, Len(s)) \in Seq(Byte)
          /\ Len(SubSeq(s, d + 1, Len(s))) = Len(s) - (d + 1) + 1
      BY <3>2, TheRest
    <3>. QED BY <3>2, <3>3, <3>4 DEF d, Dtv!From
  <2>. HIDE DEF said, rest, ends, closes
  <2>. QED BY <1>3, <2>1, <2>2, <2>3, <2>4
<1>5. /\ read \in [Seq(Byte) -> Seq(DtvFrames)] /\ read[<<>>] = <<>>
      /\ \A s \in Seq(Byte) : s # <<>> => read[s] = said[s] \o read[rest[s]]
  <2>. HIDE DEF said, rest
  <2>. QED BY <1>4, Unfold
<1>. HIDE DEF said, rest, read
<1>6. \A s \in Seq(Byte) : read[s] \in Seq(DtvFrames)
  BY <1>5
<1>7. \A t \in Seq(DtvFrames) : <<>> \o t = t
  BY ConcatEmptySeq
<1>8. ASSUME NEW s \in Seq(Byte), s # <<>>
      PROVE  /\ s[1] # 136 => read[s] = read[Tail(s)]
             /\ s[1] = 136 /\ ends(s) /\ closes(s) =>
                  read[s] = Said(Dtv!Logical(s)) \o read[Dtv!From(Dtv!Delimiter(s) + 1, s)]
             /\ s[1] = 136 /\ ends(s) /\ ~ closes(s) =>
                  read[s] = read[Dtv!From(Dtv!Delimiter(s), s)]
             /\ s[1] = 136 /\ ~ ends(s) /\ Len(s) < Dtv!MAX_FRAME => read[s] = <<>>
             /\ s[1] = 136 /\ ~ ends(s) /\ ~ (Len(s) < Dtv!MAX_FRAME) => read[s] = read[Tail(s)]
  <2>1. read[s] = said[s] \o read[rest[s]]
    BY <1>5, <1>8
  <2>2. rest[s] \in Seq(Byte)
    BY <1>4, <1>8 DEF Steps
  <2>3. said[s] = <<>> => read[s] = read[rest[s]]
    BY <1>6, <1>7, <2>1, <2>2
  <2>. HIDE DEF ends, closes
  <2>. QED BY <1>3, <1>5, <1>8, <2>1, <2>3
<1>. QED BY <1>1, <1>5, <1>6, <1>8, ZenonT(60)

\* What the escapes of a body stand for, one step at a time.
LEMMA UnescapeUnfolds ==
  /\ Dtv!Unescape(<<>>) = <<>>
  /\ \A s \in Seq(Byte) : Dtv!Unescape(s) \in Seq(0..256)
  /\ \A s \in Seq(Byte) : s # <<>> =>
       /\ s[1] # 170 => Dtv!Unescape(s) = One(s[1]) \o Dtv!Unescape(Tail(s))
       /\ s[1] = 170 /\ Len(s) = 1 => Dtv!Unescape(s) = One(256)
       /\ s[1] = 170 /\ Len(s) > 1 =>
            Dtv!Unescape(s) = One(s[2]) \o Dtv!Unescape(Tail(Tail(s)))
<1> DEFINE said == [s \in Seq(Byte) |-> IF s[1] # 170 THEN One(s[1])
                                        ELSE IF Len(s) > 1 THEN One(s[2]) ELSE One(256)]
           rest == [s \in Seq(Byte) |-> SubSeq(s, IF s[1] = 170 THEN 3 ELSE 2, Len(s))]
           read == LeftToRight(said, rest)
<1>1. \A s : Dtv!Unescape(s) = read[s]
  BY SameBytes, DtvReads DEF Dtv!Unescape, Dtv!ESC, Dtv!TRUNCATED, One
<1>2. ASSUME NEW s \in Seq(Byte), s # <<>>
      PROVE  /\ s[1] # 170 => said[s] = One(s[1]) /\ rest[s] = Tail(s)
             /\ s[1] = 170 /\ Len(s) = 1 => said[s] = One(256) /\ rest[s] = <<>>
             /\ s[1] = 170 /\ Len(s) > 1 => said[s] = One(s[2]) /\ rest[s] = Tail(Tail(s))
  <2>1. /\ said[s] = IF s[1] # 170 THEN One(s[1]) ELSE IF Len(s) > 1 THEN One(s[2]) ELSE One(256)
        /\ rest[s] = SubSeq(s, IF s[1] = 170 THEN 3 ELSE 2, Len(s))
    OBVIOUS
  <2>. HIDE DEF said, rest
  <2>2. Len(s) \in Nat /\ Len(s) >= 1 /\ Tail(s) = SubSeq(s, 2, Len(s))
    BY <1>2, WithoutTheFirst, LenIsNat
  <2>3. s[1] # 170 => said[s] = One(s[1]) /\ rest[s] = Tail(s)
    BY <2>1, <2>2
  <2>4. ASSUME s[1] = 170, Len(s) = 1 PROVE said[s] = One(256) /\ rest[s] = <<>>
    <3>1. ~ (Len(s) > 1) /\ SubSeq(s, 3, Len(s)) = <<>>
      BY <2>4, SubSeqEmpty
    <3>. QED BY <2>1, <2>4, <3>1
  <2>5. ASSUME s[1] = 170, Len(s) > 1 PROVE said[s] = One(s[2]) /\ rest[s] = Tail(Tail(s))
    <3>1. Tail(Tail(s)) = SubSeq(s, 3, Len(s))
      BY <2>5, TwoAndRest
    <3>. QED BY <2>1, <2>5, <3>1
  <2>. QED BY <2>3, <2>4, <2>5
<1>. HIDE DEF said, rest
<1>3. Steps(said, rest, 0..256)
  <2>1. SUFFICES ASSUME NEW s \in Seq(Byte), s # <<>>
                 PROVE  said[s] \in Seq(0..256) /\ rest[s] \in Seq(Byte) /\ Len(rest[s]) < Len(s)
    BY DEF Steps
  <2>2. /\ Tail(s) \in Seq(Byte) /\ Len(Tail(s)) < Len(s) /\ s[1] \in Byte
        /\ Len(s) >= 1 /\ Len(s) \in Nat
    BY <2>1, WithoutTheFirst, LenIsNat
  <2>3. <<>> \in Seq(Byte) /\ Len(<<>>) < Len(s)
    BY <2>2, EmptyIsSeq
  <2>4. \A a \in Byte : One(a) \in Seq(0..256)
    <3>1. \A a \in Byte : a \in 0..256
      BY DEF Byte
    <3>. QED BY <3>1, Ones
  <2>5. One(256) \in Seq(0..256)
    <3>1. 256 \in 0..256
      OBVIOUS
    <3>. QED BY <3>1, Ones
  <2>6. CASE s[1] # 170
    BY <1>2, <2>1, <2>2, <2>4, <2>6, ZenonT(60)
  <2>7. CASE s[1] = 170 /\ Len(s) = 1
    BY <1>2, <2>1, <2>3, <2>5, <2>7
  <2>8. CASE s[1] = 170 /\ Len(s) > 1
    <3>1. s[2] \in Byte /\ Tail(Tail(s)) \in Seq(Byte) /\ Len(Tail(Tail(s))) = Len(s) - 2
      BY <2>8, TwoAndRest
    <3>2. Len(Tail(Tail(s))) < Len(s)
      BY <2>2, <3>1, TwoLess
    <3>. QED BY <1>2, <2>1, <2>4, <2>8, <3>1, <3>2, ZenonT(60)
  <2>. QED BY <2>2, <2>6, <2>7, <2>8, OneOrMore
<1>4. /\ read \in [Seq(Byte) -> Seq(0..256)] /\ read[<<>>] = <<>>
      /\ \A s \in Seq(Byte) : s # <<>> => read[s] = said[s] \o read[rest[s]]
  BY <1>3, Unfold, ZenonT(60)
<1>. HIDE DEF read
<1>5. ASSUME NEW s \in Seq(Byte), s # <<>>
      PROVE  /\ s[1] # 170 => read[s] = One(s[1]) \o read[Tail(s)]
             /\ s[1] = 170 /\ Len(s) = 1 => read[s] = One(256)
             /\ s[1] = 170 /\ Len(s) > 1 => read[s] = One(s[2]) \o read[Tail(Tail(s))]
  <2>1. read[s] = said[s] \o read[rest[s]] /\ read[<<>>] = <<>>
    BY <1>4, <1>5
  <2>2. One(256) \o <<>> = One(256)
    <3>1. One(256) \in Seq(Nat)
      BY Ones
    <3>. QED BY <3>1, ConcatEmptySeq
  <2>3. ASSUME s[1] = 170, Len(s) = 1 PROVE read[s] = One(256)
    <3>1. said[s] = One(256) /\ rest[s] = <<>>
      BY <1>2, <1>5, <2>3
    <3>. QED BY <2>1, <2>2, <3>1
  <2>. QED BY <1>2, <1>5, <2>1, <2>3, ZenonT(60)
<1>6. \A s \in Seq(Byte) : read[s] \in Seq(0..256)
  BY <1>4
<1>. QED BY <1>1, <1>4, <1>5, <1>6, ZenonT(60)

\* Undoing the escapes makes nothing longer.
LEMMA UnescapeShortens ==
  \A s \in Seq(Byte) : Len(Dtv!Unescape(s)) \in Nat /\ Len(Dtv!Unescape(s)) <= Len(s)
<1> DEFINE P == {s \in Seq(Byte) : Len(Dtv!Unescape(s)) <= Len(s)}
<1>1. \A s \in Seq(Byte) : s \in P <=> Len(Dtv!Unescape(s)) <= Len(s)
  OBVIOUS
<1>2. P \in SUBSET Seq(Byte)
  OBVIOUS
<1>. HIDE DEF P
<1>3. \A s \in Seq(Byte) : Dtv!Unescape(s) \in Seq(0..256) /\ Len(Dtv!Unescape(s)) \in Nat
  BY UnescapeUnfolds, LenIsNat
<1>4. ASSUME NEW a \in Byte, NEW t \in Seq(Byte), t \in P
      PROVE  Len(One(a) \o Dtv!Unescape(t)) <= Len(t) + 1
  <2> DEFINE v == Dtv!Unescape(t)
  <2>1. v \in Seq(0..256) /\ Len(v) \in Nat /\ Len(v) <= Len(t) /\ Len(t) \in Nat
    BY <1>1, <1>3, <1>4, LenIsNat
  <2>. HIDE DEF v
  <2>2. One(a) \in Seq(0..256) /\ Len(One(a)) = 1
    <3>1. a \in 0..256
      BY DEF Byte
    <3>. QED BY <3>1, Ones
  <2>3. Len(One(a) \o v) = 1 + Len(v)
    BY <2>1, <2>2, MoreBehind
  <2>4. Len(One(a) \o v) <= Len(t) + 1
    BY <2>1, <2>3
  <2>. QED BY <2>4 DEF v
<1>5. ASSUME NEW s \in Seq(Byte), \A t \in Seq(Byte) : Len(t) < Len(s) => t \in P PROVE s \in P
  <2>1. CASE s = <<>>
    <3>1. Dtv!Unescape(s) = s
      BY <2>1, UnescapeUnfolds
    <3>2. Len(s) <= Len(s)
      BY LenIsNat
    <3>3. Len(Dtv!Unescape(s)) <= Len(s)
      BY <3>1, <3>2
    <3>. QED BY <1>1, <3>3
  <2>2. ASSUME s # <<>> PROVE s \in P
    <3>1. /\ Tail(s) \in Seq(Byte) /\ Len(Tail(s)) < Len(s) /\ s[1] \in Byte
          /\ Len(s) >= 1 /\ Len(s) \in Nat /\ Len(Tail(s)) = Len(s) - 1
      BY <2>2, WithoutTheFirst, LenIsNat
    <3>2. CASE s[1] # 170
      <4>1. Dtv!Unescape(s) = One(s[1]) \o Dtv!Unescape(Tail(s))
        BY <2>2, <3>2, UnescapeUnfolds
      <4>2. Tail(s) \in P
        BY <1>5, <3>1
      <4>3. Len(Dtv!Unescape(s)) <= Len(Tail(s)) + 1
        BY <1>4, <3>1, <4>1, <4>2
      <4>4. Len(Dtv!Unescape(s)) <= Len(s)
        <5>1. Len(Dtv!Unescape(s)) \in Nat
          BY <1>3
        <5>. QED BY <3>1, <4>3, <5>1
      <4>. QED BY <1>1, <4>4
    <3>3. CASE s[1] = 170 /\ Len(s) = 1
      <4>1. Dtv!Unescape(s) = One(256) /\ Len(One(256)) = 1
        <5>1. Len(One(256)) = 1
          <6>1. 256 \in Nat
            OBVIOUS
          <6>. QED BY <6>1, Ones
        <5>. QED BY <2>2, <3>3, <5>1, UnescapeUnfolds
      <4>2. Len(Dtv!Unescape(s)) <= Len(s)
        <5>1. Len(Dtv!Unescape(s)) = 1
          BY <4>1
        <5>2. 1 <= 1
          OBVIOUS
        <5>. QED BY <3>3, <5>1, <5>2
      <4>. QED BY <1>1, <4>2
    <3>4. CASE s[1] = 170 /\ Len(s) > 1
      <4>1. Dtv!Unescape(s) = One(s[2]) \o Dtv!Unescape(Tail(Tail(s)))
        BY <2>2, <3>4, UnescapeUnfolds
      <4>2. s[2] \in Byte /\ Tail(Tail(s)) \in Seq(Byte) /\ Len(Tail(Tail(s))) = Len(s) - 2
        BY <3>4, TwoAndRest
      <4>3. Tail(Tail(s)) \in P
        BY <1>5, <3>1, <4>2, TwoLess
      <4>4. Len(Dtv!Unescape(s)) <= Len(Tail(Tail(s))) + 1
        BY <1>4, <4>1, <4>2, <4>3
      <4>5. Len(Dtv!Unescape(s)) <= Len(s)
        <5>1. Len(Dtv!Unescape(s)) \in Nat
          BY <1>3
        <5>. QED BY <3>1, <4>2, <4>4, <5>1
      <4>. QED BY <1>1, <4>5
    <3>. QED BY <3>1, <3>2, <3>3, <3>4, OneOrMore
  <2>. QED BY <2>1, <2>2
<1>6. P = Seq(Byte)
  BY <1>2, <1>5, StringInduction
<1>. QED BY <1>1, <1>3, <1>6

\* An element of a string is one of its elements.
LEMMA EveryElement ==
  ASSUME NEW T, NEW l \in Seq(T), NEW S, \A k \in 1..Len(l) : l[k] \in S
  PROVE  l \in Seq(S)
<1>1. l \in [1..Len(l) -> T] /\ Len(l) \in Nat
  BY LenIsNat, LenProperties
<1>2. l \in [1..Len(l) -> S]
  BY <1>1
<1>. QED BY <1>1, <1>2

\* The payload is the same whether the checksum is cut off before or after.
LEMMA PayloadIsTheSame ==
  ASSUME NEW l \in Seq(Byte), Len(l) >= 4
  PROVE  SubSeq(SubSeq(l, 1, Len(l) - 1), 4, Len(l) - 1) = SubSeq(l, 4, Len(l) - 1)
<1> DEFINE n == Len(l) - 1
           c == SubSeq(l, 1, n)
           a == SubSeq(c, 4, n)
           e == SubSeq(l, 4, n)
<1>1. n \in Nat /\ n >= 3 /\ n \in 0..Len(l) /\ 1 \in Nat \ {0} /\ 1 <= n /\ n - 1 + 1 = n
        /\ 4 \in Nat \ {0} /\ \A k \in 1..n : 1 + k - 1 = k
  BY LenIsNat
<1>. HIDE DEF n
<1>2. c \in Seq(Byte) /\ Len(c) = n /\ \A k \in 1..n : c[k] = l[1 + k - 1]
  BY <1>1, Cut
<1>3. /\ e \in Seq(Byte) /\ Len(e) = IF 4 <= n THEN n - 4 + 1 ELSE 0
      /\ \A k \in 1..(n - 4 + 1) : e[k] = l[4 + k - 1]
  BY <1>1, Cut
<1>. HIDE DEF c
<1>4. /\ a \in Seq(Byte) /\ Len(a) = IF 4 <= n THEN n - 4 + 1 ELSE 0
      /\ \A k \in 1..(n - 4 + 1) : a[k] = c[4 + k - 1]
  <2>1. n \in 0..Len(c)
    BY <1>1, <1>2
  <2>. QED BY <1>1, <1>2, <2>1, Cut
<1>. HIDE DEF a, e
<1>5. ASSUME NEW k \in 1..Len(a) PROVE a[k] = e[k]
  <2>1. k \in 1..(n - 4 + 1) /\ 4 + k - 1 \in 1..n /\ 1 + (4 + k - 1) - 1 = 4 + k - 1
    BY <1>1, <1>4
  <2>. QED BY <1>2, <1>3, <1>4, <2>1
<1>6. a = e
  BY <1>3, <1>4, <1>5, SeqEqual
<1>. QED BY <1>6 DEF a, e, c, n

\* A body yields the frame its logical bytes are, if they are sound.
LEMMA BodyIsParsed ==
  ASSUME NEW body \in Seq(Byte), NEW rest
  PROVE  /\ Dtv!ParseBody(body, rest).rx = rest
         /\ \/ /\ Dtv!Sound(Dtv!Unescape(body))
               /\ Dtv!ParseBody(body, rest).is = "frame"
               /\ Dtv!ParseBody(body, rest).frame = Dtv!FrameOf(Dtv!Unescape(body))
            \/ /\ ~ Dtv!Sound(Dtv!Unescape(body))
               /\ Dtv!ParseBody(body, rest).is = "error"
<1> DEFINE l == Dtv!Unescape(body)
           d == Dtv!ParseBody(body, rest)
           n == Len(l)
           c == SubSeq(l, 1, n - 1)
<1>1. l \in Seq(0..256) /\ n \in Nat
  BY UnescapeUnfolds, LenIsNat
<1>2. d = IF 256 \in {l[k] : k \in 1..n} THEN Dtv!Rejected("TruncatedEscape", rest)
          ELSE IF n > 4 + MAX_PAYLOAD THEN Dtv!Rejected("PayloadTooLong", rest)
          ELSE IF n < 4 THEN Dtv!Rejected("TooShort", rest)
          ELSE IF l[n] # Dtv!Checksum(c) THEN Dtv!Rejected("BadChecksum", rest)
          ELSE Dtv!Accepted(Dtv!Frame(l[1], l[2], l[3], SubSeq(c, 4, n - 1)), rest)
  BY DEF Dtv!ParseBody, Dtv!TRUNCATED, Dtv!MAX_LOGICAL, Dtv!LOGICAL_OVERHEAD
<1>3. Dtv!Sound(l) <=> l \in Seq(Byte) /\ n \in 4..(4 + MAX_PAYLOAD) /\ SumsToZero(l)
  BY SameBytes
     DEF Dtv!Sound, Dtv!MAX_LOGICAL, Dtv!LOGICAL_OVERHEAD, SumsToZero, Dtv!SumsToZero,
         ByteSum, Dtv!ByteSum
<1>. HIDE DEF d, l
<1>4. 256 \in {l[k] : k \in 1..n} <=> ~ (l \in Seq(Byte))
  <2>1. ASSUME l \in Seq(Byte), NEW k \in 1..n PROVE l[k] # 256
    <3>1. l[k] \in Byte
      BY <2>1, ElementOfSeq
    <3>. QED BY <3>1, ByteIsNat
  <2>2. ASSUME \A k \in 1..n : l[k] # 256 PROVE l \in Seq(Byte)
    <3>1. ASSUME NEW k \in 1..Len(l) PROVE l[k] \in Byte
      <4>1. l[k] \in 0..256 /\ l[k] # 256
        BY <1>1, <2>2, ElementOfSeq
      <4>. QED BY <4>1 DEF Byte
    <3>. QED BY <1>1, <3>1, EveryElement
  <2>. QED BY <2>1, <2>2
<1>5. MAX_PAYLOAD \in Nat
  BY LengthAssumption
<1>6. CASE ~ (l \in Seq(Byte)) \/ n > 4 + MAX_PAYLOAD \/ n < 4
  <2>1. ~ Dtv!Sound(l)
    BY <1>1, <1>3, <1>5, <1>6
  <2>2. d.rx = rest /\ d.is = "error"
    <3>. HIDE DEF n, c
    <3>. QED BY <1>2, <1>4, <1>6 DEF Dtv!Rejected
  <2>. QED BY <2>1, <2>2 DEF d, l
<1>7. CASE l \in Seq(Byte) /\ ~ (n > 4 + MAX_PAYLOAD) /\ ~ (n < 4)
  <2>1. n \in 4..(4 + MAX_PAYLOAD) /\ n \in 1..Len(l) /\ Len(l) >= 4
    BY <1>1, <1>5, <1>7
  <2>2. l[n] = Dtv!Checksum(c) <=> Dtv!Sound(l)
    <3>1. l[n] = Dtv!Checksum(c) <=> SumsToZero(SubSeq(l, 1, n))
      BY <1>7, <2>1, ChecksumIsLast
    <3>2. SubSeq(l, 1, n) = l
      BY <1>7, SubSeqFull
    <3>. QED BY <1>3, <1>7, <2>1, <3>1, <3>2
  <2>3. SubSeq(c, 4, n - 1) = SubSeq(l, 4, n - 1)
    BY <1>7, <2>1, PayloadIsTheSame
  <2>4. d = IF l[n] # Dtv!Checksum(c) THEN Dtv!Rejected("BadChecksum", rest)
            ELSE Dtv!Accepted(Dtv!Frame(l[1], l[2], l[3], SubSeq(c, 4, n - 1)), rest)
    <3>. HIDE DEF n, c
    <3>. QED BY <1>2, <1>4, <1>7
  <2>5. Dtv!FrameOf(l) = Dtv!Frame(l[1], l[2], l[3], SubSeq(c, 4, n - 1))
    BY <2>3 DEF Dtv!FrameOf
  <2>. HIDE DEF n, c
  <2>6. CASE Dtv!Sound(l)
    <3>1. d = Dtv!Accepted(Dtv!FrameOf(l), rest)
      BY <2>2, <2>4, <2>5, <2>6
    <3>2. d.rx = rest /\ d.is = "frame" /\ d.frame = Dtv!FrameOf(l)
      BY <3>1 DEF Dtv!Accepted
    <3>. QED BY <2>6, <3>2 DEF d, l
  <2>7. CASE ~ Dtv!Sound(l)
    <3>1. d = Dtv!Rejected("BadChecksum", rest)
      BY <2>2, <2>4, <2>7
    <3>2. d.rx = rest /\ d.is = "error"
      BY <3>1 DEF Dtv!Rejected
    <3>. QED BY <2>7, <3>2 DEF d, l
  <2>. QED BY <2>6, <2>7
<1>. QED BY <1>6, <1>7

DtvRead == [s \in Seq(Byte) |-> Dtv!Reading(s)]

\* The resync of the steam bus is a loop as well.
LEMMA DtvDropUntil ==
  ASSUME NEW starts PROVE Dtv!DropUntil(starts) = DropUntil(starts)
BY SameBytes, DtvReads DEF DropUntil, Dtv!DropUntil

\* Nor does one of the steam bus.
LEMMA DtvResyncs ==
  ASSUME NEW b \in Seq(Byte)
  PROVE  /\ Dtv!Resync(b) \in Seq(Byte) /\ Len(Dtv!Resync(b)) <= Len(b)
         /\ Dtv!Resync(b) = <<>> \/ Dtv!Resync(b)[1] = 136
         /\ \A x \in Seq(Byte) : DtvRead[b \o x] = DtvRead[Dtv!Resync(b) \o x]
<1> DEFINE starts == {s \in Seq(Byte) : s[1] = Dtv!SOF}
<1>1. Dtv!Resync(b) = DropUntil(starts)[b]
  BY SameBytes, DtvDropUntil DEF Dtv!Resync
<1>2. ASSUME NEW s \in Seq(Byte), s # <<>>, ~ (s \in starts), NEW x \in Seq(Byte)
      PROVE  DtvRead[s \o x] = DtvRead[Tail(s) \o x]
  <2> DEFINE y == s \o x
  <2>1. s[1] # 136
    BY <1>2 DEF Dtv!SOF
  <2>2. y \in Seq(Byte) /\ Tail(s) \o x \in Seq(Byte)
    BY <1>2, MoreBehind, WithoutTheFirst
  <2>3. y # <<>> /\ y[1] = s[1] /\ Tail(y) = Tail(s) \o x
    BY <1>2, WithoutTheFirst
  <2>. HIDE DEF y
  <2>4. Dtv!Reading(y) = Dtv!Reading(Tail(y))
    BY <2>1, <2>2, <2>3, DtvReading
  <2>5. DtvRead[y] = DtvRead[Tail(s) \o x]
    BY <2>2, <2>3, <2>4 DEF DtvRead
  <2>. QED BY <2>5 DEF y
<1>3. \A s \in starts : s[1] = 136
  BY DEF Dtv!SOF
<1>. HIDE DEF starts
<1>4. /\ DropUntil(starts)[b] \in Seq(Byte)
      /\ Len(DropUntil(starts)[b]) <= Len(b)
      /\ DropUntil(starts)[b] = <<>> \/ DropUntil(starts)[b] \in starts
      /\ \A x \in Seq(Byte) : DtvRead[b \o x] = DtvRead[DropUntil(starts)[b] \o x]
  BY <1>2, Dropped
<1>. QED BY <1>1, <1>3, <1>4

\* The longest frame of the steam bus is a number.
LEMMA LongestIsNat == Dtv!MAX_FRAME \in Nat /\ Dtv!MAX_FRAME >= 10
BY LengthAssumption DEF Dtv!MAX_FRAME, Dtv!MAX_LOGICAL, Dtv!LOGICAL_OVERHEAD

\* A frame is delimited when the scan stopped, near enough.
LEMMA DelimitedMeans ==
  \A s : Dtv!IsDelimited(s)
           <=> Dtv!Delimiter(s) <= Len(s) /\ Dtv!Delimiter(s) <= Dtv!MAX_FRAME
BY DEF Dtv!IsDelimited

\* In a delimited string the scan stops.
LEMMA DelimitedStops ==
  ASSUME NEW r \in Seq(Byte), r # <<>>, Dtv!IsDelimited(r)
  PROVE  Stops(Tail(r))
<1>1. SUFFICES ASSUME ~ Stops(Tail(r)) PROVE FALSE
  OBVIOUS
<1>2. Dtv!Delimiter(r) = Len(r) + 1
  BY <1>1, GoesPast
<1>3. Len(r) + 1 <= Len(r)
  BY <1>2, DelimitedMeans
<1>. QED BY <1>3, LenIsNat

\* What has no end and is as long as a frame can be will have none.
LEMMA NeverDelimited ==
  ASSUME NEW r \in Seq(Byte), r # <<>>, ~ Dtv!IsDelimited(r), ~ (Len(r) < Dtv!MAX_FRAME),
         NEW x \in Seq(Byte)
  PROVE  ~ Dtv!IsDelimited(r \o x)
<1>1. Len(r) \in Nat /\ Dtv!MAX_FRAME \in Nat
  BY LenIsNat, LongestIsNat
<1>2. CASE Stops(Tail(r))
  <2>1. PICK u, w \in Seq(Byte) :
          /\ w # <<>> /\ w[1] \in {136, 85}
          /\ Delimits(r, u, w)
          /\ \A z \in Seq(Byte) : Delimits(r \o z, u, w \o z)
    BY <1>2, StopsThere
  <2>2. /\ Dtv!Delimiter(r) = 2 + Len(u) /\ Dtv!Delimiter(r \o x) = 2 + Len(u)
    BY <2>1 DEF Delimits
  <2>3. Len(r) = 1 + Len(u) + Len(w)
    BY <2>1 DEF Delimits
  <2>4. Len(u) \in Nat /\ Len(w) \in Nat
    BY LenIsNat
  <2>5. ~ (2 + Len(u) <= Dtv!MAX_FRAME)
    <3>1. ~ (2 + Len(u) <= Len(r) /\ 2 + Len(u) <= Dtv!MAX_FRAME)
      BY <2>2, DelimitedMeans
    <3>. QED BY <1>1, <2>4, <3>1
  <2>. QED BY <2>2, <2>5, DelimitedMeans
<1>3. CASE ~ Stops(Tail(r))
  <2>1. Dtv!Delimiter(r \o x) \in Nat /\ Dtv!Delimiter(r \o x) > Len(r)
    BY <1>3, GoesPast
  <2>2. ~ (Dtv!Delimiter(r \o x) <= Dtv!MAX_FRAME)
    BY <1>1, <2>1
  <2>. QED BY <2>2, DelimitedMeans
<1>. QED BY <1>2, <1>3

\* How long a delimited string is.
LEMMA DelimitsSays ==
  \A s, u, w :
    Delimits(s, u, w) =>
      /\ Dtv!UpToDelimiter(Tail(s)) = u /\ Dtv!Delimiter(s) = 2 + Len(u)
      /\ Len(s) = 1 + Len(u) + Len(w)
      /\ s[2 + Len(u)] = w[1]
      /\ SubSeq(s, 2, 2 + Len(u) - 1) = u
      /\ Dtv!From(2 + Len(u), s) = w /\ Dtv!From(2 + Len(u) + 1, s) = Tail(w)
BY DEF Delimits

\* A frame that is all here is read, and then what stands behind it.
LEMMA ReadToTheEnd ==
  ASSUME NEW y \in Seq(Byte), y # <<>>, y[1] = 136, Dtv!IsDelimited(y), NEW u, NEW v,
         Delimits(y, u, v)
  PROVE  /\ v[1] = 85 => Dtv!Reading(y) = Said(Dtv!Unescape(u)) \o Dtv!Reading(Tail(v))
         /\ v[1] # 85 => Dtv!Reading(y) = Dtv!Reading(v)
<1>1. /\ Dtv!Delimiter(y) = 2 + Len(u) /\ y[2 + Len(u)] = v[1]
      /\ Dtv!From(2 + Len(u), y) = v /\ Dtv!From(2 + Len(u) + 1, y) = Tail(v)
      /\ Dtv!UpToDelimiter(Tail(y)) = u
  BY DEF Delimits
<1>2. Dtv!Logical(y) = Dtv!Unescape(u)
  BY <1>1 DEF Dtv!Logical
<1>3. v[1] = 85 => Dtv!Reading(y) = Said(Dtv!Unescape(u)) \o Dtv!Reading(Tail(v))
  BY <1>1, <1>2, DtvReading
<1>4. v[1] # 85 => Dtv!Reading(y) = Dtv!Reading(v)
  BY <1>1, DtvReading
<1>. QED BY <1>3, <1>4

\* The same whatever comes later.
LEMMA ReadWhateverComes ==
  ASSUME NEW r \in Seq(Byte), r # <<>>, r[1] = 136, Dtv!IsDelimited(r),
         NEW u \in Seq(Byte), NEW w \in Seq(Byte), w # <<>>, NEW x \in Seq(Byte),
         Delimits(r, u, w), Delimits(r \o x, u, w \o x)
  PROVE  /\ w[1] = 85 => Dtv!Reading(r \o x)
                           = Said(Dtv!Unescape(u)) \o Dtv!Reading(Tail(w) \o x)
         /\ w[1] # 85 => Dtv!Reading(r \o x) = Dtv!Reading(w \o x)
<1> DEFINE y == r \o x
           v == w \o x
<1>1. /\ y \in Seq(Byte) /\ y # <<>> /\ y[1] = 136
      /\ v[1] = w[1] /\ Tail(v) = Tail(w) \o x
  <2>1. y \in Seq(Byte) /\ y # <<>> /\ y[1] = r[1]
    BY BytesBehind, ZenonT(60)
  <2>2. v[1] = w[1] /\ Tail(v) = Tail(w) \o x
    BY BytesBehind, ZenonT(60)
  <2>. QED BY <2>1, <2>2
<1>2. Delimits(y, u, v)
  OBVIOUS
<1>3. Dtv!IsDelimited(y)
  <2>1. Len(y) = Len(r) + Len(x) /\ Len(r) \in Nat /\ Len(x) \in Nat /\ Len(u) \in Nat
    BY MoreBehind, LenIsNat
  <2>. HIDE DEF y, v
  <2>2. Dtv!Delimiter(r) = 2 + Len(u) /\ Dtv!Delimiter(y) = 2 + Len(u)
    BY <1>2, DelimitsSays, Zenon
  <2>3. 2 + Len(u) <= Len(r) /\ 2 + Len(u) <= Dtv!MAX_FRAME
    BY <2>2, DelimitedMeans
  <2>4. 2 + Len(u) <= Len(y)
    BY <2>1, <2>3
  <2>. QED BY <2>2, <2>3, <2>4, DelimitedMeans
<1>4. /\ v[1] = 85 => Dtv!Reading(y) = Said(Dtv!Unescape(u)) \o Dtv!Reading(Tail(v))
      /\ v[1] # 85 => Dtv!Reading(y) = Dtv!Reading(v)
  <2>. HIDE DEF y, v
  <2>. QED BY <1>1, <1>2, <1>3, ReadToTheEnd, SMTT(30)
<1>. QED BY <1>1, <1>4, ZenonT(60)

\* The decoder of the steam bus is faithful.
LEMMA DtvDecodes ==
  ASSUME NEW b \in Seq(Byte)
  PROVE  Faithful(Dtv!Decode(b), b, DtvFrames, Dtv!MAX_FRAME, DtvRead)
<1> DEFINE r == Dtv!Resync(b)
           d == Dtv!Decode(b)
           at == Dtv!Delimiter(r)
<1>1. /\ r \in Seq(Byte) /\ Len(r) <= Len(b) /\ Len(r) \in Nat /\ Len(b) \in Nat
      /\ r = <<>> \/ r[1] = 136
      /\ \A x \in Seq(Byte) : DtvRead[b \o x] = DtvRead[r \o x]
  BY DtvResyncs, LenIsNat
<1>2. d = IF r = <<>> THEN Dtv!Waiting(r)
          ELSE IF ~ Dtv!IsDelimited(r)
          THEN IF Len(r) >= Dtv!MAX_FRAME THEN Dtv!Rejected("FrameOverrun", Dtv!From(2, r))
               ELSE Dtv!Waiting(r)
          ELSE IF r[at] = 136 THEN Dtv!Rejected("IncompleteFrame", Dtv!From(at, r))
          ELSE Dtv!ParseBody(SubSeq(r, 2, at - 1), Dtv!From(at + 1, r))
  BY DEF Dtv!Decode, Dtv!SOF
<1>. HIDE DEF r, d
<1>3. \A s \in Seq(Byte) : DtvRead[s] = Dtv!Reading(s)
  BY DEF DtvRead
<1>4. Dtv!MAX_FRAME \in Nat /\ Dtv!MAX_FRAME >= 10
  BY LongestIsNat
<1>5. CASE r = <<>>
  <2>1. d.is = "none" /\ d.rx = r
    BY <1>2, <1>5 DEF Dtv!Waiting
  <2>2. DtvRead[r] = <<>>
    BY <1>3, <1>5, DtvReading, EmptyIsSeq
  <2>3. Len(r) < Dtv!MAX_FRAME
    BY <1>4, <1>5, LenOfNothing
  <2>. QED BY <1>1, <2>1, <2>2, <2>3 DEF Faithful, d
<1>6. CASE r # <<>> /\ ~ Dtv!IsDelimited(r) /\ Len(r) < Dtv!MAX_FRAME
  <2>1. d.is = "none" /\ d.rx = r
    <3>1. ~ (Len(r) >= Dtv!MAX_FRAME)
      BY <1>1, <1>4, <1>6
    <3>. QED BY <1>2, <1>6, <3>1 DEF Dtv!Waiting
  <2>2. DtvRead[r] = <<>>
    BY <1>1, <1>3, <1>6, DtvReading
  <2>. QED BY <1>1, <1>6, <2>1, <2>2 DEF Faithful, d
<1>7. CASE r # <<>> /\ ~ Dtv!IsDelimited(r) /\ ~ (Len(r) < Dtv!MAX_FRAME)
  <2> DEFINE t == Tail(r)
  <2>1. t \in Seq(Byte) /\ Len(t) < Len(r) /\ t = Dtv!From(2, r)
    BY <1>1, <1>7, WithoutTheFirst DEF Dtv!From
  <2>2. \A x \in Seq(Byte) : r \o x \in Seq(Byte) /\ r \o x # <<>> /\ (r \o x)[1] = r[1]
                              /\ Tail(r \o x) = t \o x
    BY <1>1, <1>7, BytesBehind, Zenon
  <2>. HIDE DEF t
  <2>3. d.is = "error" /\ d.rx = t
    <3>1. Len(r) >= Dtv!MAX_FRAME
      BY <1>1, <1>4, <1>7
    <3>. QED BY <1>2, <1>7, <2>1, <3>1 DEF Dtv!Rejected
  <2>4. ASSUME NEW x \in Seq(Byte) PROVE DtvRead[b \o x] = DtvRead[t \o x]
    <3> DEFINE y == r \o x
    <3>1. y \in Seq(Byte) /\ y # <<>> /\ y[1] = 136 /\ Tail(y) = t \o x /\ t \o x \in Seq(Byte)
      BY <1>1, <1>7, <2>1, <2>2, MoreBehind
    <3>2. ~ Dtv!IsDelimited(y)
      BY <1>1, <1>7, NeverDelimited
    <3>3. ~ (Len(y) < Dtv!MAX_FRAME)
      <4>1. Len(y) = Len(r) + Len(x) /\ Len(x) \in Nat
        BY <1>1, MoreBehind, LenIsNat
      <4>. QED BY <1>1, <1>4, <1>7, <4>1
    <3>4. DtvRead[b \o x] = DtvRead[y]
      BY <1>1
    <3>. HIDE DEF y
    <3>5. Dtv!Reading(y) = Dtv!Reading(Tail(y))
      BY <3>1, <3>2, <3>3, DtvReading
    <3>6. DtvRead[y] = Dtv!Reading(y)
      BY <1>3, <3>1
    <3>7. DtvRead[Tail(y)] = Dtv!Reading(Tail(y))
      <4>1. Tail(y) \in Seq(Byte)
        BY <3>1
      <4>. QED BY <1>3, <4>1
    <3>8. DtvRead[b \o x] = DtvRead[Tail(y)]
      BY <3>4, <3>5, <3>6, <3>7
    <3>. QED BY <3>1, <3>8
  <2>5. Len(t) <= Len(b)
    BY <1>1, <2>1, LenIsNat
  <2>. QED BY <2>1, <2>3, <2>4, <2>5 DEF Faithful, d
<1>8. CASE r # <<>> /\ Dtv!IsDelimited(r)
  <2>1. r[1] = 136
    BY <1>1, <1>8
  <2>2. PICK u, w \in Seq(Byte) :
          /\ w # <<>> /\ w[1] \in {136, 85}
          /\ Delimits(r, u, w)
          /\ \A x \in Seq(Byte) : Delimits(r \o x, u, w \o x)
    BY <1>1, <1>8, DelimitedStops, StopsThere
  <2>3. /\ at = 2 + Len(u) /\ Len(r) = 1 + Len(u) + Len(w)
        /\ r[at] = w[1] /\ SubSeq(r, 2, at - 1) = u
        /\ Dtv!From(at, r) = w /\ Dtv!From(at + 1, r) = Tail(w)
    BY <2>2, DelimitsSays
  <2>4. ASSUME NEW x \in Seq(Byte)
        PROVE  /\ w[1] = 85 => Dtv!Reading(r \o x)
                                  = Said(Dtv!Unescape(u)) \o Dtv!Reading(Tail(w) \o x)
               /\ w[1] # 85 => Dtv!Reading(r \o x) = Dtv!Reading(w \o x)
    <3>1. r \in Seq(Byte) /\ Delimits(r \o x, u, w \o x) /\ Delimits(r, u, w)
      BY <1>1, <2>2
    <3>. QED BY <1>8, <2>1, <2>2, <3>1, ReadWhateverComes
  <2>5. \A x \in Seq(Byte) : DtvRead[b \o x] = Dtv!Reading(r \o x)
    BY <1>1, <1>3, MoreBehind, ZenonT(60)
  <2>6. Len(u) \in Nat /\ Len(w) \in Nat /\ Len(w) >= 1
          /\ Tail(w) \in Seq(Byte) /\ Len(Tail(w)) = Len(w) - 1
    BY <2>2, WithoutTheFirst, LenIsNat
  <2>. HIDE DEF at
  <2>7. CASE w[1] = 136
    <3>1. d.is = "error" /\ d.rx = w
      BY <1>2, <1>8, <2>3, <2>7 DEF Dtv!Rejected
    <3>2. ASSUME NEW x \in Seq(Byte) PROVE DtvRead[b \o x] = DtvRead[w \o x]
      <4>1. w \o x \in Seq(Byte) /\ w[1] # 85
        BY <2>7, MoreBehind
      <4>2. DtvRead[b \o x] = Dtv!Reading(w \o x)
        BY <2>4, <2>5, <4>1
      <4>. QED BY <1>3, <4>1, <4>2
    <3>3. Len(w) <= Len(b)
      BY <1>1, <2>3, <2>6
    <3>. QED BY <3>1, <3>2, <3>3 DEF Faithful, d
  <2>8. CASE w[1] = 85
    <3> DEFINE l == Dtv!Unescape(u)
               t == Tail(w)
    <3>1. d = Dtv!ParseBody(u, t)
      <4>1. r[at] # 136
        BY <2>3, <2>8
      <4>2. d = Dtv!ParseBody(SubSeq(r, 2, at - 1), Dtv!From(at + 1, r))
        BY <1>2, <1>8, <4>1
      <4>. QED BY <2>3, <4>2
    <3>2. /\ d.rx = t
          /\ \/ Dtv!Sound(l) /\ d.is = "frame" /\ d.frame = Dtv!FrameOf(l)
             \/ ~ Dtv!Sound(l) /\ d.is = "error"
      BY <3>1, BodyIsParsed
    <3>3. t \in Seq(Byte) /\ Len(t) <= Len(b)
      BY <1>1, <2>3, <2>6
    <3>4. Len(l) \in Nat /\ Len(l) <= Len(u)
      BY UnescapeShortens
    <3>. HIDE DEF t, l
    <3>5. ASSUME NEW x \in Seq(Byte)
          PROVE  /\ DtvRead[b \o x] = Said(l) \o DtvRead[t \o x]
                 /\ DtvRead[t \o x] \in Seq(DtvFrames)
      <4>1. t \o x \in Seq(Byte)
        BY <3>3, MoreBehind
      <4>2. DtvRead[b \o x] = Said(l) \o Dtv!Reading(t \o x)
        BY <2>4, <2>5, <2>8 DEF t, l
      <4>. QED BY <1>3, <4>1, <4>2, DtvReading
    <3>6. CASE Dtv!Sound(l)
      <4>1. d.is = "frame" /\ d.frame = Dtv!FrameOf(l) /\ d.frame \in DtvFrames
        BY <3>2, <3>6, FrameIsTyped
      <4>2. \A x \in Seq(Byte) : DtvRead[b \o x] = <<d.frame>> \o DtvRead[d.rx \o x]
        BY <3>2, <3>5, <3>6, <4>1 DEF Said
      <4>3. Len(l) >= 4
        BY <3>4, <3>6 DEF Dtv!Sound, Dtv!LOGICAL_OVERHEAD
      <4>4. Len(t) + 6 <= Len(b)
        BY <1>1, <2>3, <2>6, <3>4, <4>3 DEF t
      <4>. QED BY <3>2, <3>3, <4>1, <4>2, <4>4 DEF Faithful, d
    <3>7. CASE ~ Dtv!Sound(l)
      <4>1. d.is = "error"
        BY <3>2, <3>7
      <4>2. ASSUME NEW x \in Seq(Byte) PROVE DtvRead[b \o x] = DtvRead[t \o x]
        <5>1. DtvRead[b \o x] = <<>> \o DtvRead[t \o x]
          BY <3>5, <3>7 DEF Said
        <5>. QED BY <3>5, <5>1, ConcatEmptySeq
      <4>. QED BY <3>2, <3>3, <4>1, <4>2 DEF Faithful, d
    <3>. QED BY <3>6, <3>7
  <2>. QED BY <2>2, <2>7, <2>8
<1>. QED BY <1>1, <1>5, <1>6, <1>7, <1>8

-----------------------------------------------------------------------------
(***************************************************************************)
(* What the scripts say is bytes.                                          *)
(***************************************************************************)

\* What the escapes of a frame are, one step at a time.
LEMMA EscapeUnfolds ==
  /\ Dtv!EscapeInto(<<>>) = <<>>
  /\ \A s \in Seq(Byte) : Dtv!EscapeInto(s) \in Seq(Byte)
  /\ \A s \in Seq(Byte) : s # <<>> =>
       Dtv!EscapeInto(s) = (IF s[1] \in {136, 85, 170} THEN Two(170, s[1]) ELSE One(s[1]))
                             \o Dtv!EscapeInto(Tail(s))
<1> DEFINE said == [s \in Seq(Byte) |-> IF s[1] \in {136, 85, 170} THEN <<170, s[1]>> ELSE <<s[1]>>]
           rest == [s \in Seq(Byte) |-> Tail(s)]
           read == LeftToRight(said, rest)
<1>1. \A s : Dtv!EscapeInto(s) = read[s]
  BY SameBytes, DtvReads DEF Dtv!EscapeInto, Dtv!RESERVED, Dtv!SOF, Dtv!EOF, Dtv!ESC
<1>2. ASSUME NEW s \in Seq(Byte), s # <<>>
      PROVE  /\ said[s] = IF s[1] \in {136, 85, 170} THEN Two(170, s[1]) ELSE One(s[1])
             /\ said[s] \in Seq(Byte) /\ rest[s] = Tail(s)
  <2>1. s[1] \in Byte
    BY <1>2, WithoutTheFirst
  <2>2. /\ Two(170, s[1]) = <<170, s[1]>> /\ Two(170, s[1]) \in Seq(Byte)
        /\ One(s[1]) = <<s[1]>> /\ One(s[1]) \in Seq(Byte)
    <3>1. 170 \in Byte
      BY DEF Byte
    <3>2. \A a \in Byte : /\ Two(170, a) = <<170, a>> /\ Two(170, a) \in Seq(Byte)
                           /\ One(a) = <<a>> /\ One(a) \in Seq(Byte)
      BY <3>1, Ones, Twos DEF One
    <3>. QED BY <2>1, <3>2
  <2>3. said[s] = IF s[1] \in {136, 85, 170} THEN <<170, s[1]>> ELSE <<s[1]>>
    OBVIOUS
  <2>4. rest[s] = Tail(s)
    OBVIOUS
  <2>. HIDE DEF said, rest
  <2>5. CASE s[1] \in {136, 85, 170}
    BY <2>2, <2>3, <2>4, <2>5
  <2>6. CASE s[1] \notin {136, 85, 170}
    BY <2>2, <2>3, <2>4, <2>6
  <2>. QED BY <2>5, <2>6
<1>. HIDE DEF said, rest
<1>3. Steps(said, rest, Byte)
  <2>1. ASSUME NEW s \in Seq(Byte), s # <<>>
        PROVE  said[s] \in Seq(Byte) /\ rest[s] \in Seq(Byte) /\ Len(rest[s]) < Len(s)
    <3>1. Tail(s) \in Seq(Byte) /\ Len(Tail(s)) < Len(s)
      BY <2>1, WithoutTheFirst
    <3>2. said[s] \in Seq(Byte) /\ rest[s] = Tail(s)
      BY <1>2, <2>1
    <3>. QED BY <3>1, <3>2
  <2>. QED BY <2>1 DEF Steps
<1>4. /\ read \in [Seq(Byte) -> Seq(Byte)] /\ read[<<>>] = <<>>
      /\ \A s \in Seq(Byte) : s # <<>> => read[s] = said[s] \o read[rest[s]]
  BY <1>3, Unfold
<1>. HIDE DEF read
<1>5. ASSUME NEW s \in Seq(Byte), s # <<>>
      PROVE  read[s] = (IF s[1] \in {136, 85, 170} THEN Two(170, s[1]) ELSE One(s[1]))
                         \o read[Tail(s)]
  <2>1. read[s] = said[s] \o read[rest[s]]
    BY <1>4, <1>5
  <2>. QED BY <1>2, <1>5, <2>1, ZenonT(60)
<1>. QED BY <1>1, <1>4, <1>5

\* A checksum is a byte.
LEMMA ChecksumIsByte ==
  ASSUME NEW s \in Seq(Byte)
  PROVE  Saturn!Checksum(s) \in Byte /\ Dtv!Checksum(s) \in Byte
<1>1. ByteSum(s) \in Int
  <2>1. PICK sum : sum \in [0..Len(s) -> Int] /\ ByteSum(s) = sum[Len(s)]
    BY SumUnfolds
  <2>2. Len(s) \in 0..Len(s)
    BY LenIsNat
  <2>. QED BY <2>1, <2>2
<1>2. \A n \in Int : (-n) % 256 \in 0..255
  OBVIOUS
<1>. QED BY <1>1, <1>2
     DEF Saturn!Checksum, Dtv!Checksum, Saturn!ByteSum, Dtv!ByteSum, ByteSum, Byte

\* A frame of a valve bus goes out as bytes.
LEMMA SaturnAssembles == \A f \in SaturnFrames : Saturn!Assemble(f) \in Seq(Byte)
<1>1. SUFFICES ASSUME NEW f \in SaturnFrames PROVE Saturn!Assemble(f) \in Seq(Byte)
  OBVIOUS
<1> DEFINE header == <<170, 85, f.address, f.control, Len(f.data)>>
           data == f.data
<1>2. data \in Seq(Byte) /\ Len(data) <= MAX_DATA_LEN /\ f.address \in Byte /\ f.control \in Byte
  BY DEF SaturnFrames
<1>3. Len(data) \in Byte /\ 170 \in Byte /\ 85 \in Byte
  <2>1. MAX_DATA_LEN \in Nat /\ MAX_DATA_LEN <= 255 /\ Len(data) \in Nat
    BY <1>2, LengthAssumption, ByteIsNat, LenIsNat
  <2>2. \A m, n \in Nat : m <= 255 /\ n <= m => n \in 0..255
    OBVIOUS
  <2>3. Len(data) <= MAX_DATA_LEN
    BY <1>2
  <2>. HIDE DEF data
  <2>4. Len(data) \in 0..255
    BY <2>1, <2>2, <2>3
  <2>. QED BY <2>4 DEF Byte
<1>4. header \in Seq(Byte)
  <2> DEFINE n == Len(data)
  <2>1. n \in Byte
    BY <1>3
  <2>. HIDE DEF n
  <2>2. <<170, 85, f.address, f.control, n>> \in Seq(Byte)
    BY <1>2, <1>3, <2>1
  <2>. QED BY <2>2 DEF n
<1>5. Saturn!Assemble(f) = Append(header \o data, Saturn!Checksum(header \o data))
  BY DEF Saturn!Assemble, Saturn!SYNC1, Saturn!SYNC2
<1>. HIDE DEF header, data
<1>6. header \o data \in Seq(Byte)
  BY <1>2, <1>4, MoreBehind
<1> DEFINE covered == header \o data
<1>7. covered \in Seq(Byte) /\ Saturn!Checksum(covered) \in Byte
  BY <1>6, ChecksumIsByte
<1>. HIDE DEF covered
<1>8. Append(covered, Saturn!Checksum(covered)) \in Seq(Byte)
  BY <1>7, AppendProperties
<1>. QED BY <1>5, <1>8 DEF covered

\* What a frame of the steam bus is before it is stuffed: sound, and itself.
Plain(f) ==
  Append(<<f.dest, f.src, f.cmd>> \o f.payload, Dtv!Checksum(<<f.dest, f.src, f.cmd>> \o f.payload))

\* And so does one of the steam bus.
LEMMA DtvAssembles ==
  ASSUME NEW f \in DtvFrames
  PROVE  /\ Plain(f) \in Seq(Byte)
         /\ Dtv!Assemble(f) = (One(136) \o Dtv!EscapeInto(Plain(f))) \o One(85)
         /\ Dtv!Assemble(f) \in Seq(Byte)
<1> DEFINE header == <<f.dest, f.src, f.cmd>>
           payload == f.payload
<1>1. payload \in Seq(Byte) /\ f.dest \in Byte /\ f.src \in Byte /\ f.cmd \in Byte
  BY DEF DtvFrames
<1>2. header \in Seq(Byte)
  BY <1>1
<1>3. /\ Plain(f) = Append(header \o payload, Dtv!Checksum(header \o payload))
      /\ Dtv!Assemble(f) = (One(136) \o Dtv!EscapeInto(Plain(f))) \o One(85)
  BY DEF Dtv!Assemble, Dtv!SOF, Dtv!EOF, Plain, One
<1>. HIDE DEF header, payload
<1> DEFINE covered == header \o payload
<1>4. covered \in Seq(Byte)
  BY <1>1, <1>2, MoreBehind
<1>5. Dtv!Checksum(covered) \in Byte
  BY <1>4, ChecksumIsByte
<1>6. Plain(f) = Append(covered, Dtv!Checksum(covered))
  BY <1>3
<1>. HIDE DEF covered
<1>7. Plain(f) \in Seq(Byte)
  BY <1>4, <1>5, <1>6, AppendProperties
<1>8. Dtv!EscapeInto(Plain(f)) \in Seq(Byte)
  BY <1>7, EscapeUnfolds
<1>9. One(136) \in Seq(Byte) /\ One(85) \in Seq(Byte)
  <2>1. 136 \in Byte /\ 85 \in Byte
    BY DEF Byte
  <2>. QED BY <2>1, Ones
<1>10. One(136) \o Dtv!EscapeInto(Plain(f)) \in Seq(Byte)
  BY <1>8, <1>9, MoreBehind
<1>11. (One(136) \o Dtv!EscapeInto(Plain(f))) \o One(85) \in Seq(Byte)
  BY <1>9, <1>10, MoreBehind
<1>. QED BY <1>3, <1>7, <1>11

\* FlattenSeq of the community modules is the choice of a function like this.
Joined(seqs, flatten) ==
  [i \in 1..Len(seqs) |-> IF i = 1 THEN seqs[i] ELSE flatten[i - 1] \o seqs[i]]

\* The beginnings of strings on end.
LEMMA JoinsUnfold ==
  ASSUME NEW seqs \in Seq(Seq(Byte)), seqs # <<>>
  PROVE  \E joins : /\ joins \in [0..Len(seqs) -> Seq(Byte)] /\ joins[0] = <<>>
                    /\ \A i \in 1..Len(seqs) : joins[i] = joins[i - 1] \o seqs[i]
                    /\ FlattenSeq(seqs) = joins[Len(seqs)]
<1> DEFINE n == Len(seqs)
           chosen == CHOOSE flatten : flatten = Joined(seqs, flatten)
           step == [i \in 1..n |-> [v \in Seq(Byte) |-> v \o seqs[i]]]
<1>1. n \in Nat /\ n >= 1 /\ n # 0 /\ \A i \in 1..n : seqs[i] \in Seq(Byte)
  <2>1. n \in Nat /\ n >= 1
    BY WithoutTheFirst, LenIsNat
  <2>2. \A i \in 1..n : seqs[i] \in Seq(Byte)
    BY ElementOfSeq
  <2>. QED BY <2>1, <2>2
<1>2. FlattenSeq(seqs) = chosen[n]
  BY <1>1 DEF FlattenSeq, Joined
<1>3. step \in [1..n -> [Seq(Byte) -> Seq(Byte)]]
  BY <1>1, MoreBehind
<1>4. \A i \in 1..n : \A v \in Seq(Byte) : step[i][v] = v \o seqs[i]
  OBVIOUS
<1>. HIDE DEF step, n, chosen
<1>5. PICK g : g \in [0..n -> Seq(Byte)] /\ g[0] = <<>> /\ \A i \in 1..n : g[i] = step[i][g[i - 1]]
  <2> DEFINE T == Seq(Byte)
             start == <<>>
  <2>1. Stepping(n, T, step) /\ start \in T
    BY <1>3 DEF Stepping
  <2>2. \E f : Stepped(f, n, T, start, step)
    <3>. HIDE DEF T, start
    <3>. QED BY <1>1, <2>1, Recursion
  <2>. QED BY <2>2 DEF Stepped
<1>6. \A i \in 1..n : g[i] = g[i - 1] \o seqs[i] /\ g[i - 1] \in Seq(Byte)
  <2>1. \A i \in 1..n : g[i - 1] \in Seq(Byte)
    BY <1>1, <1>5
  <2>. QED BY <1>4, <1>5, <2>1
<1>7. g[1] = seqs[1]
  <2>1. 1 \in 1..n /\ 1 - 1 = 0
    BY <1>1
  <2>2. g[1] = <<>> \o seqs[1] /\ seqs[1] \in Seq(Byte)
    BY <1>1, <1>5, <1>6, <2>1
  <2>. QED BY <2>2, ConcatEmptySeq
<1>8. chosen = Joined(seqs, chosen)
  <2> DEFINE f == [i \in 1..n |-> g[i]]
  <2>1. ASSUME NEW i \in 1..n PROVE f[i] = IF i = 1 THEN seqs[i] ELSE f[i - 1] \o seqs[i]
    <3>1. CASE i = 1
      BY <1>7, <3>1
    <3>2. CASE i # 1
      <4>1. i - 1 \in 1..n
        BY <1>1, <3>2
      <4>2. f[i - 1] = g[i - 1] /\ f[i] = g[i]
        BY <4>1
      <4>. HIDE DEF f
      <4>. QED BY <1>6, <3>2, <4>2
    <3>. QED BY <3>1, <3>2
  <2>2. f = [i \in 1..n |-> f[i]]
    OBVIOUS
  <2>. HIDE DEF f
  <2>3. f = Joined(seqs, f)
    BY <2>1, <2>2 DEF Joined, n
  <2>. QED BY <2>3 DEF chosen
<1>9. \A i \in 1..n : chosen[i] = IF i = 1 THEN seqs[i] ELSE chosen[i - 1] \o seqs[i]
  <2>1. \A i \in 1..n : Joined(seqs, chosen)[i] = IF i = 1 THEN seqs[i] ELSE chosen[i - 1] \o seqs[i]
    BY DEF Joined, n
  <2>. QED BY <1>8, <2>1
<1>10. chosen[n] = g[n]
  <2> DEFINE h == [i \in 0..n |-> IF i = 0 THEN <<>> ELSE chosen[i]]
  <2>1. h[0] = g[0] /\ h[n] = chosen[n] /\ n \in 0..n
    BY <1>1, <1>5
  <2>2. ASSUME NEW i \in 1..n, h[i - 1] = g[i - 1] PROVE h[i] = g[i]
    <3>1. h[i] = chosen[i]
      BY <1>1
    <3>2. CASE i = 1
      BY <1>7, <1>9, <3>1, <3>2
    <3>3. CASE i # 1
      <4>1. h[i - 1] = chosen[i - 1]
        BY <1>1, <3>3
      <4>. HIDE DEF h
      <4>. QED BY <1>6, <1>9, <2>2, <3>1, <3>3, <4>1
    <3>. QED BY <3>2, <3>3
  <2>. HIDE DEF h
  <2>3. \A i \in 0..n : h[i] = g[i]
    <3>1. \A i \in 1..n : h[i - 1] = g[i - 1] => h[i] = g[i]
      BY <2>2
    <3>2. h[0] = g[0]
      BY <2>1
    <3>3. n \in Nat
      BY <1>1
    <3>. QED BY <3>1, <3>2, <3>3, Alike, ZenonT(60)
  <2>. QED BY <2>1, <2>3
<1>. QED BY <1>2, <1>5, <1>6, <1>10 DEF n

\* Strings on end are a string, and end with the last two of them.
LEMMA Flattened ==
  ASSUME NEW seqs \in Seq(Seq(Byte))
  PROVE  /\ FlattenSeq(seqs) \in Seq(Byte)
         /\ Len(seqs) >= 2 =>
              \E y \in Seq(Byte) :
                FlattenSeq(seqs) = (y \o seqs[Len(seqs) - 1]) \o seqs[Len(seqs)]
<1> DEFINE n == Len(seqs)
<1>1. CASE seqs = <<>>
  <2>1. n = 0
    BY <1>1
  <2>2. FlattenSeq(seqs) = <<>>
    BY <1>1, <2>1 DEF FlattenSeq
  <2>3. ~ (n >= 2)
    BY <2>1
  <2>. QED BY <2>2, <2>3, EmptyIsSeq
<1>2. CASE seqs # <<>>
  <2>1. PICK joins : /\ joins \in [0..n -> Seq(Byte)] /\ joins[0] = <<>>
                     /\ \A i \in 1..n : joins[i] = joins[i - 1] \o seqs[i]
                     /\ FlattenSeq(seqs) = joins[n]
    BY <1>2, JoinsUnfold
  <2>2. n \in Nat /\ n \in 0..n
    BY LenIsNat
  <2>. HIDE DEF n
  <2>3. FlattenSeq(seqs) \in Seq(Byte)
    BY <2>1, <2>2
  <2>4. ASSUME n >= 2
        PROVE  \E y \in Seq(Byte) : FlattenSeq(seqs) = (y \o seqs[n - 1]) \o seqs[n]
    <3>1. n \in 1..n /\ n - 1 \in 1..n /\ (n - 1) - 1 \in 0..n
      BY <2>2, <2>4
    <3>2. joins[n] = joins[n - 1] \o seqs[n] /\ joins[n - 1] = joins[(n - 1) - 1] \o seqs[n - 1]
      BY <2>1, <3>1
    <3>3. joins[(n - 1) - 1] \in Seq(Byte)
      BY <2>1, <3>1
    <3>. QED BY <2>1, <3>2, <3>3
  <2>. QED BY <2>3, <2>4 DEF n
<1>. QED BY <1>1, <1>2

\* A script is made of strings of bytes.
LEMMA ScriptIsBytes ==
  ASSUME NEW pieces \in Seq(Pieces)
  PROVE  /\ [i \in 1..Len(pieces) |-> Bytes(pieces[i])] \in Seq(Seq(Byte))
         /\ Len([i \in 1..Len(pieces) |-> Bytes(pieces[i])]) = Len(pieces)
<1>1. ASSUME NEW p \in Pieces PROVE Bytes(p) \in Seq(Byte)
  <2>1. CASE p \in [is : {"noise"}, bytes : Seq(Byte)]
    BY <2>1 DEF Bytes
  <2>2. CASE p \in [is : {"saturn"}, frame : SaturnFrames]
    <3>1. Bytes(p) = Saturn!Assemble(p.frame) /\ p.frame \in SaturnFrames
      BY <2>2 DEF Bytes
    <3>. QED BY <3>1, SaturnAssembles
  <2>3. CASE p \in [is : {"dtv"}, frame : DtvFrames]
    <3>1. Bytes(p) = Dtv!Assemble(p.frame) /\ p.frame \in DtvFrames
      BY <2>3 DEF Bytes
    <3>. QED BY <3>1, DtvAssembles
  <2>. QED BY <2>1, <2>2, <2>3 DEF Pieces
<1>2. Len(pieces) \in Nat /\ \A i \in 1..Len(pieces) : Bytes(pieces[i]) \in Seq(Byte)
  BY <1>1, ElementOfSeq, LenIsNat
<1> DEFINE said == [i \in 1..Len(pieces) |-> Bytes(pieces[i])]
<1>3. said \in [1..Len(pieces) -> Seq(Byte)]
  BY <1>2
<1>. HIDE DEF said
<1>4. said \in Seq(Seq(Byte)) /\ Len(said) = Len(pieces)
  <2> DEFINE n == Len(pieces)
  <2>1. n \in Nat /\ said \in [1..n -> Seq(Byte)]
    BY <1>2, <1>3
  <2>. HIDE DEF n
  <2>2. said \in Seq(Seq(Byte)) /\ Len(said) = n
    BY <2>1
  <2>. QED BY <2>2 DEF n
<1>. QED BY <1>4 DEF said

-----------------------------------------------------------------------------
(***************************************************************************)
(* The loop over decode.  A turn hands over the first frame there is, or   *)
(* drops bytes that say nothing, or finds too little and stops the loop.   *)
(***************************************************************************)

FramesOf(protocol) == IF protocol = "saturn" THEN SaturnFrames ELSE DtvFrames
ReadBy(protocol) == IF protocol = "saturn" THEN SaturnRead ELSE DtvRead
LongestOf(protocol) == IF protocol = "saturn" THEN Saturn!MAX_FRAME ELSE Dtv!MAX_FRAME
RoomOf(protocol) == IF protocol = "saturn" THEN SATURN_RX_CAPACITY ELSE DTV_RX_CAPACITY

\* Either decoder is faithful to the reading of its bus.
LEMMA Decodes ==
  ASSUME script.protocol \in {"saturn", "dtv"}, NEW b \in Seq(Byte), NEW awaiting
  PROVE  Faithful(Decode(b, awaiting), b, FramesOf(script.protocol), LongestOf(script.protocol),
                  ReadBy(script.protocol))
<1>1. CASE script.protocol = "saturn"
  <2>1. /\ Decode(b, awaiting) = Saturn!Decode(b, Expectation(awaiting))
        /\ FramesOf(script.protocol) = SaturnFrames /\ ReadBy(script.protocol) = SaturnRead
        /\ LongestOf(script.protocol) = Saturn!MAX_FRAME
    BY <1>1 DEF Decode, FramesOf, ReadBy, LongestOf
  <2>. QED BY <2>1, SaturnDecodes
<1>2. CASE script.protocol = "dtv"
  <2>1. /\ Decode(b, awaiting) = Dtv!Decode(b)
        /\ FramesOf(script.protocol) = DtvFrames /\ ReadBy(script.protocol) = DtvRead
        /\ LongestOf(script.protocol) = Dtv!MAX_FRAME
    BY <1>2 DEF Decode, FramesOf, ReadBy, LongestOf
  <2>. QED BY <2>1, DtvDecodes
<1>. QED BY <1>1, <1>2

\* A link's reading, by the protocol its bus speaks.
LEMMA ReadByIsReading ==
  ASSUME script.protocol \in {"saturn", "dtv"}
  PROVE  /\ ReadBy(script.protocol) \in [Seq(Byte) -> Seq(FramesOf(script.protocol))]
         /\ \A s \in Seq(Byte) : ReadBy(script.protocol)[s] = Reading(s)
         /\ ReadBy(script.protocol)[<<>>] = <<>>
<1>1. CASE script.protocol = "saturn"
  <2>1. SaturnRead \in [Seq(Byte) -> Seq(SaturnFrames)] /\ SaturnRead[<<>>] = <<>>
    BY SaturnReading, EmptyIsSeq DEF SaturnRead
  <2>2. \A s \in Seq(Byte) : SaturnRead[s] = Reading(s)
    BY <1>1 DEF SaturnRead, Reading
  <2>. QED BY <1>1, <2>1, <2>2 DEF ReadBy, FramesOf
<1>2. CASE script.protocol = "dtv"
  <2>1. DtvRead \in [Seq(Byte) -> Seq(DtvFrames)] /\ DtvRead[<<>>] = <<>>
    BY DtvReading, EmptyIsSeq DEF DtvRead
  <2>2. \A s \in Seq(Byte) : DtvRead[s] = Reading(s)
    BY <1>2 DEF DtvRead, Reading
  <2>. QED BY <1>2, <2>1, <2>2 DEF ReadBy, FramesOf
<1>. QED BY <1>1, <1>2

\* What the loop is in the middle of.
Loops(F) == [rx : Seq(Byte), found : Seq(F), turns : Nat, waits : BOOLEAN]

\* A turn leaves bytes, frames and a count.
LEMMA TurnIsTyped ==
  ASSUME script.protocol \in {"saturn", "dtv"}, NEW at \in Loops(FramesOf(script.protocol)),
         NEW awaiting
  PROVE  Turn(at, awaiting) \in Loops(FramesOf(script.protocol))
<1> DEFINE F == FramesOf(script.protocol)
           d == Decode(at.rx, awaiting)
<1>1. at.rx \in Seq(Byte) /\ at.found \in Seq(F) /\ at.turns \in Nat /\ at.waits \in BOOLEAN
  BY DEF Loops
<1>2. /\ d.rx \in Seq(Byte) /\ d.is \in {"none", "error", "frame", "refused"}
      /\ d.is \in {"frame", "refused"} => d.frame \in F
  BY <1>1, Decodes DEF Faithful
<1>3. Turn(at, awaiting) =
               IF at.waits THEN at
                 ELSE [rx    |-> d.rx,
                       found |-> IF d.is \in {"frame", "refused"} THEN Append(at.found, d.frame)
                                 ELSE at.found,
                       turns |-> IF d.is = "none" THEN at.turns ELSE at.turns + 1,
                       waits |-> d.is = "none"]
  BY DEF Turn
<1>. HIDE DEF F, d
<1>4. d.is \in {"frame", "refused"} => Append(at.found, d.frame) \in Seq(F)
  BY <1>1, <1>2, AppendProperties
<1>5. CASE at.waits
  BY <1>3, <1>5 DEF F
<1>6. CASE ~ at.waits
  <2> DEFINE found1 == IF d.is \in {"frame", "refused"} THEN Append(at.found, d.frame) ELSE at.found
             turns1 == IF d.is = "none" THEN at.turns ELSE at.turns + 1
             waits1 == d.is = "none"
  <2>1. found1 \in Seq(F) /\ turns1 \in Nat /\ waits1 \in BOOLEAN
    BY <1>1, <1>2, <1>4
  <2>2. Turn(at, awaiting) = [rx |-> d.rx, found |-> found1, turns |-> turns1, waits |-> waits1]
    BY <1>3, <1>6
  <2>. HIDE DEF found1, turns1, waits1
  <2>3. Turn(at, awaiting) \in Loops(F)
    BY <1>2, <2>1, <2>2 DEF Loops
  <2>. QED BY <2>3 DEF F
<1>. QED BY <1>5, <1>6

\* What a turn keeps, k turns after the buffer was b: the frames so far and those
\* still to be read, whatever comes later.
Kept(at, k, b, F, longest, read) ==
  /\ at \in Loops(F)
  /\ at.turns <= k /\ (~ at.waits => at.turns = k)
  /\ at.waits => at.turns < k /\ read[at.rx] = <<>> /\ Len(at.rx) < longest
  /\ 6 * Len(at.found) + Len(at.rx) <= 6 * Len(found) + Len(b)
  /\ Len(at.rx) <= Len(b)
  /\ \A x \in Seq(Byte) : at.found \o read[at.rx \o x] = found \o read[b \o x]

\* A frame more in the list, six bytes fewer in the buffer; or none more.
LEMMA AddsUp ==
  /\ \A n, m, a, c, z \in Nat :
       6 * a + m <= 6 * n + z /\ m <= z /\ c <= m => 6 * a + c <= 6 * n + z /\ c <= z
  /\ \A n, m, a, c, z, e \in Nat :
       6 * a + m <= 6 * n + z /\ m <= z /\ c + 6 <= m /\ e = a + 1
         => 6 * e + c <= 6 * n + z /\ c <= z
  OBVIOUS

\* Sequences on end may be joined in either order.
LEMMA AssociatesAll == \A S : \A s, t, u \in Seq(S) : (s \o t) \o u = s \o (t \o u)
BY ConcatAssociative

\* A turn keeps all that.
LEMMA TurnKeeps ==
  ASSUME script.protocol \in {"saturn", "dtv"}, NEW at, NEW k \in Nat, NEW b \in Seq(Byte),
         NEW awaiting, found \in Seq(FramesOf(script.protocol)),
         Kept(at, k, b, FramesOf(script.protocol), LongestOf(script.protocol),
              ReadBy(script.protocol))
  PROVE  Kept(Turn(at, awaiting), k + 1, b, FramesOf(script.protocol), LongestOf(script.protocol),
              ReadBy(script.protocol))
<1> DEFINE F == FramesOf(script.protocol)
           read == ReadBy(script.protocol)
           longest == LongestOf(script.protocol)
           d == Decode(at.rx, awaiting)
           next == Turn(at, awaiting)
<1>1. Kept(at, k, b, F, longest, read)
  OBVIOUS
<1>2. at \in Loops(F) /\ at.rx \in Seq(Byte) /\ at.found \in Seq(F) /\ at.turns \in Nat
        /\ at.waits \in BOOLEAN
  BY <1>1 DEF Kept, Loops
<1>3. Faithful(d, at.rx, F, longest, read)
  BY <1>2, Decodes
<1>4. next = IF at.waits THEN at
             ELSE [rx    |-> d.rx,
                   found |-> IF d.is \in {"frame", "refused"} THEN Append(at.found, d.frame)
                             ELSE at.found,
                   turns |-> IF d.is = "none" THEN at.turns ELSE at.turns + 1,
                   waits |-> d.is = "none"]
  BY DEF Turn
<1>5. next \in Loops(F)
  BY <1>2, TurnIsTyped
<1>6. read \in [Seq(Byte) -> Seq(F)]
  BY ReadByIsReading
<1>7. found \in Seq(F)
  OBVIOUS
<1>. HIDE DEF F, read, longest, d, next
<1> DEFINE n == Len(found)
           z == Len(b)
           a == Len(at.found)
           m == Len(at.rx)
           c == Len(d.rx)
<1>8. n \in Nat /\ z \in Nat /\ a \in Nat /\ m \in Nat /\ c \in Nat
  BY <1>2, <1>3, <1>7, LenIsNat DEF Faithful
<1>9. 6 * a + m <= 6 * n + z /\ m <= z /\ c <= m
  BY <1>1, <1>3 DEF Faithful, Kept
<1>10. Kept(next, k + 1, b, F, longest, read)
  <2>1. CASE at.waits
    <3>1. next = at
      BY <1>4, <2>1
    <3>2. at.turns <= k + 1 /\ (at.waits => at.turns < k + 1)
      BY <1>1, <1>2 DEF Kept
    <3>. QED BY <1>1, <2>1, <3>1, <3>2 DEF Kept
  <2>2. CASE ~ at.waits
    <3>1. at.turns = k
      BY <1>1, <2>2 DEF Kept
    <3>2. /\ next.rx = d.rx /\ next.waits = (d.is = "none")
          /\ next.found = IF d.is \in {"frame", "refused"} THEN Append(at.found, d.frame)
                          ELSE at.found
          /\ next.turns = IF d.is = "none" THEN at.turns ELSE at.turns + 1
      BY <1>4, <2>2
    <3>3. /\ d.rx \in Seq(Byte) /\ Len(d.rx) <= Len(at.rx) /\ Len(d.rx) \in Nat
      BY <1>3, LenIsNat DEF Faithful
    <3>4. \A x \in Seq(Byte) : at.found \o read[at.rx \o x] = found \o read[b \o x]
      BY <1>1 DEF Kept
    <3>6. CASE d.is = "none"
      <4>1. /\ next.waits /\ next.turns = k /\ next.found = at.found
        BY <3>1, <3>2, <3>6
      <4>2. /\ read[d.rx] = <<>> /\ Len(d.rx) < longest
            /\ \A x \in Seq(Byte) : read[at.rx \o x] = read[d.rx \o x]
        BY <1>3, <3>6 DEF Faithful
      <4>3. ASSUME NEW x \in Seq(Byte)
            PROVE  next.found \o read[next.rx \o x] = found \o read[b \o x]
        <5>1. at.found \o read[at.rx \o x] = found \o read[b \o x]
          BY <3>4
        <5>2. read[at.rx \o x] = read[d.rx \o x]
          BY <4>2
        <5>. QED BY <3>2, <4>1, <5>1, <5>2, Zenon
      <4>4. /\ 6 * Len(next.found) + Len(next.rx) <= 6 * Len(found) + Len(b)
            /\ Len(next.rx) <= Len(b)
        <5>1. Len(next.found) = a /\ Len(next.rx) = c
          BY <3>2, <4>1, Zenon
        <5>. HIDE DEF n, m, a, c, z
        <5>2. 6 * a + c <= 6 * n + z /\ c <= z
          BY <1>8, <1>9, AddsUp
        <5>. QED BY <5>1, <5>2 DEF n, z
      <4>5. next.turns < k + 1 /\ next.turns <= k + 1
        BY <4>1
      <4>. QED BY <1>5, <3>2, <4>1, <4>2, <4>3, <4>4, <4>5 DEF Kept
    <3>7. CASE d.is = "error"
      <4>1. /\ ~ next.waits /\ next.turns = k + 1 /\ next.found = at.found
        BY <3>1, <3>2, <3>7
      <4>2. \A x \in Seq(Byte) : read[at.rx \o x] = read[d.rx \o x]
        BY <1>3, <3>7, Zenon DEF Faithful
      <4>3. ASSUME NEW x \in Seq(Byte)
            PROVE  next.found \o read[next.rx \o x] = found \o read[b \o x]
        <5>1. at.found \o read[at.rx \o x] = found \o read[b \o x]
          BY <3>4
        <5>2. read[at.rx \o x] = read[d.rx \o x]
          BY <4>2
        <5>. QED BY <3>2, <4>1, <5>1, <5>2, Zenon
      <4>4. /\ 6 * Len(next.found) + Len(next.rx) <= 6 * Len(found) + Len(b)
            /\ Len(next.rx) <= Len(b)
        <5>1. Len(next.found) = a /\ Len(next.rx) = c
          BY <3>2, <4>1, Zenon
        <5>. HIDE DEF n, m, a, c, z
        <5>2. 6 * a + c <= 6 * n + z /\ c <= z
          BY <1>8, <1>9, AddsUp
        <5>. QED BY <5>1, <5>2 DEF n, z
      <4>5. next.turns <= k + 1
        BY <4>1
      <4>. QED BY <1>5, <4>1, <4>3, <4>4, <4>5 DEF Kept
    <3>8. CASE d.is \in {"frame", "refused"}
      <4>1. /\ ~ next.waits /\ next.turns = k + 1 /\ next.found = Append(at.found, d.frame)
        BY <3>1, <3>2, <3>8
      <4>2. /\ d.frame \in F /\ Len(d.rx) + 6 <= Len(at.rx)
            /\ \A x \in Seq(Byte) : read[at.rx \o x] = <<d.frame>> \o read[d.rx \o x]
        BY <1>3, <3>8 DEF Faithful
      <4>3. ASSUME NEW x \in Seq(Byte)
            PROVE  next.found \o read[next.rx \o x] = found \o read[b \o x]
        <5> DEFINE v == read[d.rx \o x]
                   g == at.found
                   h == One(d.frame)
        <5>1. v \in Seq(F) /\ g \in Seq(F)
          <6>1. d.rx \o x \in Seq(Byte)
            BY <3>3, MoreBehind
          <6>. QED BY <1>2, <1>6, <6>1
        <5>2. Append(g, d.frame) = g \o h
          BY <1>2, <4>2, AppendIsConcat DEF One
        <5>7. h \in Seq(F)
          BY <4>2, Ones
        <5>3. read[at.rx \o x] = h \o v
          BY <4>2 DEF One
        <5>4. next.found \o read[next.rx \o x] = (g \o h) \o v
          BY <3>2, <4>1, <5>2
        <5>5. g \o read[at.rx \o x] = found \o read[b \o x]
          BY <3>4
        <5>. HIDE DEF v, g, h
        <5>6. (g \o h) \o v = g \o (h \o v)
          BY <5>1, <5>7, AssociatesAll, SMTT(30)
        <5>. QED BY <5>3, <5>4, <5>5, <5>6
      <4>4. Len(next.found) = Len(at.found) + 1
        BY <1>2, <4>1, <4>2, AppendProperties
      <4>5. /\ 6 * Len(next.found) + Len(next.rx) <= 6 * Len(found) + Len(b)
            /\ Len(next.rx) <= Len(b)
        <5> DEFINE e == Len(next.found)
        <5>1. Len(next.rx) = c
          BY <3>2, Zenon
        <5>2. e = a + 1
          BY <4>4
        <5>3. c + 6 <= m
          BY <4>2
        <5>. HIDE DEF n, m, a, c, z, e
        <5>4. e \in Nat
          BY <1>8, <5>2
        <5>5. 6 * e + c <= 6 * n + z /\ c <= z
          BY <1>8, <1>9, <5>2, <5>3, <5>4, AddsUp
        <5>. QED BY <5>1, <5>5 DEF e, n, z
      <4>6. next.turns <= k + 1
        BY <4>1
      <4>. QED BY <1>5, <4>1, <4>3, <4>5, <4>6 DEF Kept
    <3>9. d.is = "none" \/ d.is = "error" \/ d.is \in {"frame", "refused"}
      BY <1>3 DEF Faithful
    <3>. QED BY <3>6, <3>7, <3>8, <3>9
  <2>. QED BY <1>2, <2>1, <2>2
<1>. QED BY <1>10 DEF next, F, read, longest


\* The loop itself, turn by turn.
Looped(b, awaited, loop) ==
  [turn \in 0..MAX_FRAMES_PER_CHUNK |->
     IF turn = 0 THEN [rx |-> b, found |-> found, turns |-> 0, waits |-> FALSE]
     ELSE Turn(loop[turn - 1], awaited[turn])]

\* The loop exists, turn by turn, and Drained is what its last turn leaves.
LEMMA DrainedUnfolds ==
  ASSUME script.protocol \in {"saturn", "dtv"}, NEW b \in Seq(Byte),
         NEW awaited, found \in Seq(FramesOf(script.protocol))
  PROVE  \E loop :
           /\ loop[0] = [rx |-> b, found |-> found, turns |-> 0, waits |-> FALSE]
           /\ \A i \in 1..MAX_FRAMES_PER_CHUNK : loop[i] = Turn(loop[i - 1], awaited[i])
           /\ Drained(b, awaited) = loop[MAX_FRAMES_PER_CHUNK]
<1> DEFINE n == MAX_FRAMES_PER_CHUNK
           T == Loops(FramesOf(script.protocol))
           start == [rx |-> b, found |-> found, turns |-> 0, waits |-> FALSE]
           chosen == CHOOSE loop : loop = Looped(b, awaited, loop)
           step == [i \in 1..n |-> [at \in T |-> Turn(at, awaited[i])]]
<1>1. n \in Nat /\ 0 \in 0..n
  BY BufferAssumption
<1>2. Drained(b, awaited) = chosen[n]
  BY DEF Drained, Looped
<1>3. start \in T
  BY DEF Loops
<1>4. \A at \in T : \A awaiting : Turn(at, awaiting) \in T
  BY TurnIsTyped
<1>5. \A loop : Looped(b, awaited, loop) = [i \in 0..n |-> IF i = 0 THEN start ELSE Turn(loop[i - 1], awaited[i])]
  BY DEF Looped
<1>6. \A loop : loop = Looped(b, awaited, loop) => chosen = Looped(b, awaited, chosen)
  OBVIOUS
<1>. HIDE DEF T, start, chosen, n
<1>7. step \in [1..n -> [T -> T]]
  BY <1>4
<1>8. \A i \in 1..n : \A at \in T : step[i][at] = Turn(at, awaited[i])
  OBVIOUS
<1>. HIDE DEF step
<1>9. PICK f : f \in [0..n -> T] /\ f[0] = start /\ \A i \in 1..n : f[i] = step[i][f[i - 1]]
  <2>1. Stepping(n, T, step)
    BY <1>7 DEF Stepping
  <2>2. \E f : Stepped(f, n, T, start, step)
    BY <1>1, <1>3, <2>1, Recursion
  <2>. QED BY <2>2 DEF Stepped
<1>10. \A i \in 1..n : f[i] = Turn(f[i - 1], awaited[i])
  <2>1. \A i \in 1..n : f[i - 1] \in T
    BY <1>1, <1>9
  <2>. QED BY <1>8, <1>9, <2>1
<1>11. f = Looped(b, awaited, f)
  <2>1. \A i \in 0..n : f[i] = IF i = 0 THEN start ELSE Turn(f[i - 1], awaited[i])
    <3>1. \A i \in 0..n : i = 0 \/ i \in 1..n
      BY <1>1
    <3>2. \A i \in 1..n : i # 0
      BY <1>1
    <3>. QED BY <1>9, <1>10, <3>1, <3>2
  <2>2. f = [i \in 0..n |-> f[i]]
    BY <1>9
  <2>. QED BY <1>5, <2>1, <2>2, ZenonT(60)
<1>12. chosen = Looped(b, awaited, chosen)
  BY <1>6, <1>11
<1>13. \A i \in 0..n : chosen[i] = IF i = 0 THEN start ELSE Turn(chosen[i - 1], awaited[i])
  <2>1. \A i \in 0..n : Looped(b, awaited, chosen)[i] = IF i = 0 THEN start ELSE Turn(chosen[i - 1], awaited[i])
    BY <1>5
  <2>. QED BY <1>12, <2>1
<1>14. chosen[0] = start
  BY <1>1, <1>13
<1>15. \A i \in 1..n : chosen[i] = Turn(chosen[i - 1], awaited[i])
  <2>1. \A i \in 1..n : i \in 0..n /\ i # 0
    BY <1>1
  <2>. QED BY <1>13, <2>1
<1>. QED BY <1>2, <1>14, <1>15 DEF start, n

\* So the whole loop keeps it.
LEMMA DrainedKeeps ==
  ASSUME script.protocol \in {"saturn", "dtv"}, NEW b \in Seq(Byte),
         NEW awaited, found \in Seq(FramesOf(script.protocol))
  PROVE  Kept(Drained(b, awaited), MAX_FRAMES_PER_CHUNK, b, FramesOf(script.protocol),
              LongestOf(script.protocol), ReadBy(script.protocol))
<1>1. PICK loop : /\ loop[0] = [rx |-> b, found |-> found, turns |-> 0, waits |-> FALSE]
                  /\ \A i \in 1..MAX_FRAMES_PER_CHUNK : loop[i] = Turn(loop[i - 1], awaited[i])
                  /\ Drained(b, awaited) = loop[MAX_FRAMES_PER_CHUNK]
  BY DrainedUnfolds
<1> DEFINE n == MAX_FRAMES_PER_CHUNK
           Is(at, k) == Kept(at, k, b, FramesOf(script.protocol),
                             LongestOf(script.protocol), ReadBy(script.protocol))
           S == {k \in Nat : k <= n => Is(loop[k], k)}
<1>2. n \in Nat
  BY BufferAssumption
<1>3. \A i \in 1..n : loop[i] = Turn(loop[i - 1], awaited[i])
  BY <1>1
<1>4. Is(loop[0], 0)
  <2>1. loop[0] \in Loops(FramesOf(script.protocol))
    BY <1>1 DEF Loops
  <2>2. loop[0].turns = 0 /\ loop[0].waits = FALSE /\ loop[0].found = found /\ loop[0].rx = b
    BY <1>1
  <2>3. Len(b) \in Nat /\ Len(found) \in Nat
    BY LenIsNat
  <2>4. 6 * Len(found) + Len(b) <= 6 * Len(found) + Len(b) /\ Len(b) <= Len(b) /\ 0 <= 0
    BY <2>3
  <2>. QED BY <2>1, <2>2, <2>4 DEF Kept
<1>5. \A k \in Nat : \A at, awaiting : Is(at, k) => Is(Turn(at, awaiting), k + 1)
  BY TurnKeeps
<1>6. \A k \in Nat : k \in S <=> (k <= n => Is(loop[k], k))
  OBVIOUS
<1>7. S \in SUBSET Nat
  OBVIOUS
<1>. HIDE DEF n, Is, S
<1>8. ASSUME NEW k \in Nat, \A m \in Nat : m < k => m \in S PROVE k \in S
  <2>1. CASE k = 0
    BY <1>4, <1>6, <2>1
  <2>2. CASE k # 0 /\ k <= n
    <3>1. k - 1 \in Nat /\ k - 1 \in S /\ k - 1 <= n /\ k \in 1..n /\ (k - 1) + 1 = k
      BY <1>2, <1>8, <2>2
    <3>2. Is(loop[k - 1], k - 1)
      BY <1>6, <3>1
    <3>3. Is(Turn(loop[k - 1], awaited[k]), (k - 1) + 1)
      BY <1>5, <3>1, <3>2
    <3>4. Is(loop[k], k)
      BY <1>3, <3>1, <3>3
    <3>. QED BY <1>6, <3>4
  <2>. QED BY <1>2, <1>6, <2>1, <2>2
<1>9. n \in S
  BY <1>2, <1>7, <1>8, Induction
<1>10. Is(loop[n], n)
  BY <1>2, <1>6, <1>9
<1>. QED BY <1>1, <1>10 DEF Is, n


-----------------------------------------------------------------------------
(***************************************************************************)
(* The receiver.  What was found and what can still be read out of the     *)
(* buffer, whatever comes later, is what the bytes received say: a         *)
(* statement about the bytes not yet read, without which no read could be  *)
(* shown to preserve it.                                                   *)
(***************************************************************************)

\* What kinds of values there are.
Shapes ==
  /\ script \in [protocol : {"saturn", "dtv"}, pieces : Seq(Pieces)]
  /\ stream = FlattenSeq([i \in 1..Len(script.pieces) |-> Bytes(script.pieces[i])])
  /\ stream \in Seq(Byte)
  /\ received \in 0..Len(stream) /\ since \in 0..received
  /\ rx \in Seq(Byte)
  /\ overflowed \in Nat
  /\ found \in Seq(FramesOf(script.protocol))
  /\ turns \in 0..MAX_FRAMES_PER_CHUNK

\* The buffer fits, and a frame taken out of it leaves that much less to hold.
Lengths ==
  /\ Len(rx) <= RoomOf(script.protocol)
  /\ 6 * Len(found) + Len(rx) + overflowed <= received

\* When the turns were enough, what is left is less than a frame.
Settled ==
  turns < MAX_FRAMES_PER_CHUNK =>
    ReadBy(script.protocol)[rx] = <<>> /\ Len(rx) < LongestOf(script.protocol)

\* Since the buffer was last cleared reads may be cut anywhere: whatever x comes
\* next.
NothingLost ==
  overflowed = 0 =>
    \A x \in Seq(Byte) :
      found \o ReadBy(script.protocol)[rx \o x]
        = ReadBy(script.protocol)[SubSeq(stream, since + 1, received) \o x]

Inv == Shapes /\ Lengths /\ Settled /\ NothingLost

\* Either buffer has room for the longest frame of its bus.
LEMMA RoomIsEnough ==
  ASSUME NEW p \in {"saturn", "dtv"}
  PROVE  /\ RoomOf(p) \in Nat /\ LongestOf(p) \in Nat
         /\ LongestOf(p) >= 1 /\ LongestOf(p) <= RoomOf(p)
<1>1. CASE p = "saturn"
  <2>1. RoomOf(p) = SATURN_RX_CAPACITY /\ LongestOf(p) = Saturn!MAX_FRAME
    BY <1>1 DEF RoomOf, LongestOf
  <2>2. Saturn!MAX_FRAME = 6 + MAX_DATA_LEN
    BY DEF Saturn!MAX_FRAME, Saturn!FRAME_OVERHEAD
  <2>3. MAX_DATA_LEN \in Nat
    BY LengthAssumption, ByteIsNat
  <2>. QED BY <2>1, <2>2, <2>3, BufferAssumption
<1>2. CASE p = "dtv"
  <2>1. RoomOf(p) = DTV_RX_CAPACITY /\ LongestOf(p) = Dtv!MAX_FRAME
    BY <1>2 DEF RoomOf, LongestOf
  <2>. QED BY <2>1, LongestIsNat, BufferAssumption
<1>. QED BY <1>1, <1>2

\* No bytes have come since the last that came.
LEMMA NothingFrom ==
  ASSUME NEW s \in Seq(Byte), NEW n \in 0..Len(s)
  PROVE  SubSeq(s, n + 1, n) = <<>>
<1>1. n \in Nat /\ n + 1 \in Nat \ {0} /\ ~ (n + 1 <= n)
  BY LenIsNat
<1>2. SubSeq(s, n + 1, n) \in Seq(Byte) /\ Len(SubSeq(s, n + 1, n)) = 0
  BY <1>1, Cut
<1>3. Len(SubSeq(s, n + 1, n)) <= 0
  BY <1>2
<1>. QED BY <1>2, <1>3, NothingLeft

\* The invariant holds before the first read.
LEMMA InitInv ==
  ASSUME Init PROVE Inv
<1>1. script \in [protocol : {"saturn", "dtv"}, pieces : Seq(Pieces)]
  BY ScriptAssumption DEF Init
<1>2. /\ stream = FlattenSeq([i \in 1..Len(script.pieces) |-> Bytes(script.pieces[i])])
      /\ received = 0 /\ rx = <<>> /\ overflowed = 0 /\ since = 0 /\ found = <<>> /\ turns = 0
  BY DEF Init
<1>3. script.protocol \in {"saturn", "dtv"} /\ script.pieces \in Seq(Pieces)
  BY <1>1
<1>4. stream \in Seq(Byte)
  <2>1. [i \in 1..Len(script.pieces) |-> Bytes(script.pieces[i])] \in Seq(Seq(Byte))
    BY <1>3, ScriptIsBytes
  <2>. QED BY <1>2, <2>1, Flattened
<1>5. Len(rx) = 0 /\ Len(found) = 0
  BY <1>2, LenOfNothing
<1>6. Shapes
  <2>1. 0 \in 0..Len(stream) /\ 0 \in 0..0 /\ 0 \in 0..MAX_FRAMES_PER_CHUNK
    BY <1>4, LenIsNat, BufferAssumption
  <2>2. rx \in Seq(Byte) /\ found \in Seq(FramesOf(script.protocol))
    BY <1>2, EmptyIsSeq
  <2>. QED BY <1>1, <1>2, <1>4, <2>1, <2>2 DEF Shapes
<1>7. Lengths
  BY <1>2, <1>3, <1>5, RoomIsEnough DEF Lengths
<1>8. Settled
  <2>1. ReadBy(script.protocol)[<<>>] = <<>>
    BY <1>3, ReadByIsReading
  <2>2. LongestOf(script.protocol) \in Nat /\ LongestOf(script.protocol) >= 1
    BY <1>3, RoomIsEnough
  <2>. QED BY <1>2, <1>5, <2>1, <2>2 DEF Settled
<1>9. NothingLost
  <2>1. ASSUME NEW x \in Seq(Byte)
        PROVE  <<>> \o ReadBy(script.protocol)[<<>> \o x] = ReadBy(script.protocol)[<<>> \o x]
    <3>1. <<>> \o x \in Seq(Byte)
      BY EmptyIsSeq, MoreBehind
    <3>2. ReadBy(script.protocol)[<<>> \o x] \in Seq(FramesOf(script.protocol))
      BY <1>3, <3>1, ReadByIsReading
    <3>. QED BY <3>2, ConcatEmptySeq
  <2>2. SubSeq(stream, 0 + 1, 0) = <<>>
    <3>1. 0 \in 0..Len(stream)
      BY <1>4, LenIsNat
    <3>. QED BY <1>4, <3>1, NothingFrom
  <2>. QED BY <1>2, <2>1, <2>2 DEF NothingLost
<1>. QED BY <1>6, <1>7, <1>8, <1>9 DEF Inv

\* What the buffer holds after a read: everything, or the newest of it.
LEMMA ExtendKeeps ==
  ASSUME script.protocol \in {"saturn", "dtv"}, NEW b \in Seq(Byte), NEW new \in Seq(Byte)
  PROVE  /\ Extend(b, new).rx \in Seq(Byte) /\ Extend(b, new).dropped \in Nat
         /\ Len(Extend(b, new).rx) + Extend(b, new).dropped = Len(b) + Len(new)
         /\ Len(Extend(b, new).rx) <= RoomOf(script.protocol)
         /\ Extend(b, new).dropped = 0 => Extend(b, new).rx = b \o new
         /\ Extend(b, new).dropped > 0 => Len(b) + Len(new) > RoomOf(script.protocol)
<1> DEFINE all == b \o new
           room == RoomOf(script.protocol)
           excess == IF Len(all) > room THEN Len(all) - room ELSE 0
           e == Extend(b, new)
<1>1. Capacity = room
  BY DEF Capacity, RoomOf
<1>2. e.rx = SubSeq(all, excess + 1, Len(all)) /\ e.dropped = excess
  BY <1>1 DEF Extend
<1>3. room \in Nat
  BY RoomIsEnough
<1>4. all \in Seq(Byte) /\ Len(all) = Len(b) + Len(new) /\ Len(all) \in Nat
  BY MoreBehind, LenIsNat
<1> DEFINE m == Len(all)
<1>5. SubSeq(all, 1, m) = all
  BY <1>4, SubSeqFull
<1>. HIDE DEF all, room
<1>6. excess \in Nat /\ excess <= m /\ m - excess <= room /\ m \in Nat
        /\ (excess > 0 => m > room)
  BY <1>3, <1>4
<1>. HIDE DEF excess
<1>7. SubSeq(all, excess + 1, m) \in Seq(Byte)
        /\ Len(SubSeq(all, excess + 1, m)) = m - (excess + 1) + 1
  <2>1. excess + 1 \in 1..(Len(all) + 1)
    BY <1>6
  <2>. QED BY <1>4, <2>1, TheRest
<1> DEFINE kept == Len(e.rx)
<1>8. e.rx \in Seq(Byte) /\ kept = m - (excess + 1) + 1
  BY <1>2, <1>7
<1>9. excess = 0 => e.rx = all
  BY <1>2, <1>5
<1>. HIDE DEF m, e, kept
<1>10. kept + excess = m /\ kept <= room
  BY <1>3, <1>6, <1>8
<1>. QED BY <1>2, <1>4, <1>6, <1>8, <1>9, <1>10 DEF e, kept, m, all, room

\* What one read does.
LEMMA FeedKeeps ==
  ASSUME Inv, NEW n \in 1..CHUNK, Feed(n)
  PROVE  /\ Inv'
         /\ overflowed' > overflowed /\ turns < MAX_FRAMES_PER_CHUNK
              => n > RoomOf(script.protocol) - LongestOf(script.protocol) + 1
<1> DEFINE p == script.protocol
           F == FramesOf(p)
           read == ReadBy(p)
           new == SubSeq(stream, received + 1, received + n)
           before == SubSeq(stream, since + 1, received)
           e == Extend(rx, new)
           b == e.rx
           N == MAX_FRAMES_PER_CHUNK
<1>0. PICK awaited \in Awaited : /\ rx' = Drained(b, awaited).rx
                                 /\ found' = Drained(b, awaited).found
                                 /\ turns' = Drained(b, awaited).turns
  BY DEF Feed
<1> DEFINE at == Drained(b, awaited)
<1>1. /\ script \in [protocol : {"saturn", "dtv"}, pieces : Seq(Pieces)]
      /\ p \in {"saturn", "dtv"}
      /\ stream \in Seq(Byte) /\ received \in 0..Len(stream) /\ since \in 0..received
      /\ rx \in Seq(Byte)
      /\ overflowed \in Nat /\ found \in Seq(F) /\ turns \in 0..N
  BY DEF Inv, Shapes
<1>2. /\ received + n <= Len(stream) /\ received' = received + n
      /\ rx' = at.rx /\ overflowed' = overflowed + e.dropped /\ found' = at.found
      /\ turns' = at.turns /\ script' = script /\ stream' = stream /\ since' = since
  BY <1>0 DEF Feed
<1>3. /\ Len(stream) \in Nat /\ received \in Nat /\ n \in Nat /\ n >= 1
      /\ received + n \in 0..Len(stream) /\ received + 1 \in Nat \ {0}
      /\ received + 1 <= received + n /\ (received + n) - (received + 1) + 1 = n
  BY <1>1, <1>2, BufferAssumption, LenIsNat
<1>4. new \in Seq(Byte) /\ Len(new) = n
  BY <1>1, <1>3, Cut
<1>5. before \in Seq(Byte) /\ before \o new = SubSeq(stream, since + 1, received + n)
  <2>1. before \in Seq(Byte)
    <3>1. since + 1 \in Nat \ {0} /\ received \in 0..Len(stream)
      BY <1>1, <1>3
    <3>. QED BY <1>1, <3>1, Cut
  <2>2. /\ since + 1 \in 1..(Len(stream) + 1) /\ received \in (since + 1 - 1)..Len(stream)
        /\ since + 1 \in Nat \ {0} /\ received + n \in received..Len(stream)
    BY <1>1, <1>2, <1>3
  <2>. QED BY <1>1, <2>1, <2>2, ConcatAdjacentSubSeq
<1>. HIDE DEF new, before
<1>6. /\ b \in Seq(Byte) /\ e.dropped \in Nat
      /\ Len(b) + e.dropped = Len(rx) + n
      /\ Len(b) <= RoomOf(p)
      /\ e.dropped = 0 => b = rx \o new
      /\ e.dropped > 0 => Len(rx) + n > RoomOf(p)
  BY <1>1, <1>4, ExtendKeeps
<1>7. Kept(at, N, b, F, LongestOf(p), read)
  BY <1>1, <1>6, DrainedKeeps
<1>8. at.rx \in Seq(Byte) /\ at.found \in Seq(F) /\ at.turns \in Nat /\ at.waits \in BOOLEAN
  BY <1>7 DEF Kept, Loops
<1>9. RoomOf(p) \in Nat /\ LongestOf(p) \in Nat /\ N \in Nat
  BY <1>1, RoomIsEnough, BufferAssumption
<1>10. read \in [Seq(Byte) -> Seq(F)]
  BY <1>1, ReadByIsReading
<1>. HIDE DEF e, F, N, read
<1>11. Shapes'
  <2>1. at.turns \in 0..N
    BY <1>7, <1>8, <1>9 DEF Kept
  <2>2. received' \in 0..Len(stream') /\ since' \in 0..received' /\ rx' \in Seq(Byte) /\ turns' \in 0..N
          /\ found' \in Seq(F) /\ stream' \in Seq(Byte)
    BY <1>1, <1>2, <1>3, <1>8, <2>1
  <2>3. overflowed' \in Nat
    BY <1>1, <1>2, <1>6, SMTT(30)
  <2>4. stream' = FlattenSeq([i \in 1..Len(script'.pieces) |-> Bytes(script'.pieces[i])])
    BY <1>2 DEF Inv, Shapes
  <2>5. script' \in [protocol : {"saturn", "dtv"}, pieces : Seq(Pieces)]
          /\ F = FramesOf(script'.protocol)
    BY <1>1, <1>2 DEF F
  <2>. QED BY <2>2, <2>3, <2>4, <2>5 DEF Shapes, N
<1> DEFINE f0 == Len(found)
           r0 == Len(rx)
           b0 == Len(b)
           f1 == Len(at.found)
           r1 == Len(at.rx)
           room == RoomOf(p)
           most == LongestOf(p)
           lost == e.dropped
<1>12. /\ f0 \in Nat /\ r0 \in Nat /\ b0 \in Nat /\ f1 \in Nat /\ r1 \in Nat
       /\ room \in Nat /\ most \in Nat /\ lost \in Nat
  BY <1>1, <1>6, <1>8, <1>9, LenIsNat
<1>13. /\ 6 * f1 + r1 <= 6 * f0 + b0 /\ r1 <= b0
       /\ b0 + lost = r0 + n /\ b0 <= room
       /\ 6 * f0 + r0 + overflowed <= received
       /\ lost > 0 => r0 + n > room
       /\ turns < N => r0 < most
  BY <1>6, <1>7 DEF Kept, Inv, Lengths, Settled, N
<1>14. /\ Len(rx') = r1 /\ Len(found') = f1 /\ RoomOf(script'.protocol) = room
  BY <1>2
<1>15. Lengths'
  <2>. HIDE DEF f0, r0, b0, f1, r1, room, most, lost
  <2>1. r1 <= room
    BY <1>12, <1>13
  <2>2. 6 * f1 + r1 + (overflowed + lost) <= received + n
    BY <1>1, <1>3, <1>12, <1>13
  <2>3. overflowed' = overflowed + lost
    BY <1>2 DEF lost
  <2>. QED BY <1>2, <1>14, <2>1, <2>2, <2>3 DEF Lengths
<1>16. Settled'
  <2>1. at.turns < N => at.waits
    BY <1>7, <1>9 DEF Kept
  <2>2. at.waits => read[at.rx] = <<>> /\ Len(at.rx) < LongestOf(p)
    BY <1>7 DEF Kept
  <2>. QED BY <1>2, <2>1, <2>2 DEF Settled, read, N
<1>17. NothingLost'
  <2>1. SUFFICES ASSUME overflowed' = 0, NEW x \in Seq(Byte)
                 PROVE  at.found \o read[at.rx \o x] = read[(before \o new) \o x]
    BY <1>2, <1>5 DEF NothingLost, read
  <2>2. overflowed = 0 /\ e.dropped = 0
    BY <1>1, <1>2, <1>6, <2>1
  <2>3. b = rx \o new
    BY <1>6, <2>2
  <2>4. new \o x \in Seq(Byte)
    BY <1>4, MoreBehind
  <2>5. at.found \o read[at.rx \o x] = found \o read[b \o x]
    BY <1>7 DEF Kept
  <2>6. (rx \o new) \o x = rx \o (new \o x) /\ (before \o new) \o x = before \o (new \o x)
    <3>1. new \in Seq(Byte) /\ rx \in Seq(Byte) /\ before \in Seq(Byte)
      BY <1>1, <1>4, <1>5
    <3>. QED BY <3>1, Associates, ZenonT(60)
  <2>7. \A y \in Seq(Byte) : found \o read[rx \o y] = read[before \o y]
    BY <2>2 DEF Inv, NothingLost, read, before
  <2>8. found \o read[rx \o (new \o x)] = read[before \o (new \o x)]
    BY <2>4, <2>7
  <2>. QED BY <2>3, <2>5, <2>6, <2>8, Zenon
<1>18. overflowed' > overflowed /\ turns < N => n > room - most + 1
  <2>1. overflowed' = overflowed + lost
    BY <1>2
  <2>. HIDE DEF f0, r0, b0, f1, r1, room, most, lost
  <2>. QED BY <1>1, <1>3, <1>12, <1>13, <2>1
<1>. QED BY <1>11, <1>15, <1>16, <1>17, <1>18 DEF Inv, N


\* What a clear does: it starts the reading over from the next byte.
LEMMA ClearKeeps ==
  ASSUME Inv, Clear PROVE Inv' /\ overflowed' = overflowed
<1> DEFINE read == ReadBy(script.protocol)
<1>1. /\ script \in [protocol : {"saturn", "dtv"}, pieces : Seq(Pieces)]
      /\ script.protocol \in {"saturn", "dtv"}
      /\ stream \in Seq(Byte) /\ received \in 0..Len(stream) /\ received \in Nat
      /\ rx \in Seq(Byte) /\ overflowed \in Nat /\ found \in Seq(FramesOf(script.protocol))
  BY LenIsNat DEF Inv, Shapes
<1>2. /\ rx' = <<>> /\ found' = <<>> /\ turns' = 0 /\ since' = received
      /\ script' = script /\ stream' = stream /\ received' = received
      /\ overflowed' = overflowed
  BY DEF Clear
<1>3. Len(rx') = 0 /\ Len(found') = 0
  BY <1>2, LenOfNothing
<1>4. /\ read \in [Seq(Byte) -> Seq(FramesOf(script.protocol))] /\ read[<<>>] = <<>>
      /\ RoomOf(script.protocol) \in Nat /\ LongestOf(script.protocol) \in Nat
      /\ LongestOf(script.protocol) >= 1
  BY <1>1, ReadByIsReading, RoomIsEnough
<1>5. Shapes'
  <2>1. stream' = FlattenSeq([i \in 1..Len(script'.pieces) |-> Bytes(script'.pieces[i])])
    BY <1>2 DEF Inv, Shapes
  <2>2. received' \in 0..Len(stream') /\ since' \in 0..received'
          /\ turns' \in 0..MAX_FRAMES_PER_CHUNK
    BY <1>1, <1>2, BufferAssumption
  <2>3. rx' \in Seq(Byte) /\ found' \in Seq(FramesOf(script'.protocol))
    BY <1>2, EmptyIsSeq
  <2>. QED BY <1>1, <1>2, <2>1, <2>2, <2>3 DEF Shapes
<1>6. Lengths'
  <2>1. 6 * Len(found) + Len(rx) + overflowed <= received
    BY DEF Inv, Lengths
  <2>2. overflowed <= received /\ 6 * 0 + 0 + overflowed = overflowed
    <3>1. Len(found) \in Nat /\ Len(rx) \in Nat
      BY <1>1, LenIsNat
    <3> DEFINE a == Len(found)
               m == Len(rx)
    <3>. HIDE DEF a, m
    <3>2. a \in Nat /\ m \in Nat /\ 6 * a + m + overflowed <= received
      BY <2>1, <3>1 DEF a, m
    <3>. QED BY <1>1, <3>2
  <2>. QED BY <1>2, <1>3, <1>4, <2>2 DEF Lengths
<1>7. Settled'
  <2>1. ReadBy(script'.protocol) = read /\ LongestOf(script'.protocol) = LongestOf(script.protocol)
    BY <1>2
  <2>2. read[rx'] = <<>> /\ Len(rx') < LongestOf(script.protocol)
    BY <1>2, <1>3, <1>4
  <2>. QED BY <2>1, <2>2 DEF Settled
<1>8. NothingLost'
  <2>1. SubSeq(stream, received + 1, received) = <<>>
    BY <1>1, NothingFrom
  <2>. HIDE DEF read
  <2>2. ASSUME NEW x \in Seq(Byte) PROVE <<>> \o read[<<>> \o x] = read[<<>> \o x]
    <3>1. <<>> \o x \in Seq(Byte)
      BY EmptyIsSeq, MoreBehind
    <3>2. read[<<>> \o x] \in Seq(FramesOf(script.protocol))
      BY <1>4, <3>1
    <3>. QED BY <3>2, ConcatEmptySeq
  <2>. QED BY <1>2, <2>1, <2>2 DEF NothingLost, read
<1>. QED BY <1>2, <1>5, <1>6, <1>7, <1>8 DEF Inv

\* The receiver's invariant, for every script, every cut into reads and whatever
\* is awaited when.
THEOREM ReceiverInvariant == Spec => []Inv
<1>1. Init => Inv
  BY InitInv
<1>2. Inv /\ [Next]_vars => Inv'
  <2>1. SUFFICES ASSUME Inv, [Next]_vars PROVE Inv'
    OBVIOUS
  <2>2. CASE Next
    <3>1. CASE \E n \in 1..CHUNK : Feed(n)
      BY <2>1, <3>1, FeedKeeps
    <3>2. CASE Clear
      BY <2>1, <3>2, ClearKeeps
    <3>. QED BY <2>2, <3>1, <3>2 DEF Next
  <2>3. CASE UNCHANGED vars
    BY <2>1, <2>3 DEF vars, Inv, Shapes, Lengths, Settled, NothingLost
  <2>. QED BY <2>1, <2>2, <2>3
<1>. QED BY <1>1, <1>2, PTL DEF Spec

\* The buffer stays within its capacity, and what was dropped, what is held and
\* what was taken out never come to more than was read.
THEOREM ReceiverTyped == Spec => []TypeOK
<1>1. ASSUME Inv PROVE TypeOK
  <2>1. Capacity = RoomOf(script.protocol) /\ Saturn!FRAME_OVERHEAD = 6
    BY DEF Capacity, RoomOf, Saturn!FRAME_OVERHEAD
  <2>2. script.protocol \in {"saturn", "dtv"}
    BY <1>1 DEF Inv, Shapes
  <2>3. Len(rx) \in Nat /\ Len(found) \in Nat /\ Capacity \in Nat
    BY <1>1, <2>1, <2>2, RoomIsEnough, LenIsNat DEF Inv, Shapes
  <2>. QED BY <1>1, <2>1, <2>2, <2>3 DEF TypeOK, Inv, Shapes, Lengths
<1>. QED BY <1>1, ReceiverInvariant, PTL

\* What the invariant says when no more bytes come.
LEMMA ReadsOut ==
  ASSUME Inv
  PROVE  /\ Reading(rx) = ReadBy(script.protocol)[rx]
         /\ overflowed = 0 =>
              found \o Reading(rx) = Reading(SubSeq(stream, since + 1, received))
<1> DEFINE read == ReadBy(script.protocol)
           before == SubSeq(stream, since + 1, received)
<1>1. /\ script.protocol \in {"saturn", "dtv"} /\ rx \in Seq(Byte)
      /\ stream \in Seq(Byte) /\ received \in 0..Len(stream) /\ since \in 0..received
  BY DEF Inv, Shapes
<1>2. before \in Seq(Byte)
  <2>1. since + 1 \in Nat \ {0}
    BY <1>1, LenIsNat
  <2>. QED BY <1>1, <2>1, Cut
<1>3. read[rx] = Reading(rx) /\ read[before] = Reading(before)
  BY <1>1, <1>2, ReadByIsReading
<1>4. overflowed = 0 => found \o read[rx \o <<>>] = read[before \o <<>>]
  BY EmptyIsSeq DEF Inv, NothingLost
<1>5. rx \o <<>> = rx /\ before \o <<>> = before
  BY <1>1, <1>2, ConcatEmptySeq
<1>. QED BY <1>3, <1>4, <1>5

\* However the operating system cuts the bytes into reads, and whatever is awaited
\* at which turn, the frames taken out since the buffer was last cleared and those
\* it still holds are the frames of the bytes received since, read as a whole; as
\* long as the buffer dropped nothing.
THEOREM CutsDoNotMatter == Spec => []ChunkingDoesNotMatter
<1>1. Inv => ChunkingDoesNotMatter
  BY ReadsOut DEF ChunkingDoesNotMatter
<1>. QED BY <1>1, ReceiverInvariant, PTL

\* A read leaves a whole frame in the buffer only when its turns are spent.
THEOREM NothingWaitsWhole == Spec => []NothingWholeIsLeft
<1>1. ASSUME Inv PROVE NothingWholeIsLeft
  <2>1. turns \in 0..MAX_FRAMES_PER_CHUNK /\ MAX_FRAMES_PER_CHUNK \in Nat
    BY <1>1, BufferAssumption DEF Inv, Shapes
  <2>2. turns < MAX_FRAMES_PER_CHUNK => Reading(rx) = <<>>
    BY <1>1, ReadsOut DEF Inv, Settled
  <2>. QED BY <2>1, <2>2 DEF NothingWholeIsLeft
<1>. QED BY <1>1, ReceiverInvariant, PTL

\* A buffer that keeps up drops nothing: bytes are lost only to a read longer
\* than the space behind an incomplete frame, or after a read whose turns were
\* spent, on frames or on rejections.
THEOREM OnlyABurstIsDropped == Spec => DropsNeedABurst
<1>1. ASSUME Inv, [Next]_vars, overflowed' > overflowed
      PROVE  received' - received > SpaceForAFrame \/ turns = MAX_FRAMES_PER_CHUNK
  <2>1. /\ Capacity = RoomOf(script.protocol) /\ LongestFrame = LongestOf(script.protocol)
    BY DEF Capacity, RoomOf, LongestFrame, LongestOf
  <2>2. /\ turns \in 0..MAX_FRAMES_PER_CHUNK /\ MAX_FRAMES_PER_CHUNK \in Nat
        /\ received \in Nat /\ overflowed \in Nat /\ CHUNK \in Nat
    BY <1>1, BufferAssumption DEF Inv, Shapes
  <2>3. CASE UNCHANGED vars
    BY <1>1, <2>2, <2>3 DEF vars
  <2>4. CASE \E n \in 1..CHUNK : Feed(n)
    <3>1. PICK n \in 1..CHUNK : Feed(n)
      BY <2>4
    <3>2. received' - received = n
      BY <2>2, <3>1 DEF Feed
    <3>3. turns < MAX_FRAMES_PER_CHUNK => n > SpaceForAFrame
      BY <1>1, <2>1, <3>1, FeedKeeps DEF SpaceForAFrame
    <3>. QED BY <2>2, <3>2, <3>3
  <2>5. CASE Clear
    BY <1>1, <2>2, <2>5, ClearKeeps
  <2>. QED BY <1>1, <2>3, <2>4, <2>5 DEF Next
<1>2. Inv /\ [Next]_vars =>
        [overflowed' > overflowed =>
           received' - received > SpaceForAFrame \/ turns = MAX_FRAMES_PER_CHUNK]_vars
  BY <1>1
<1>. QED BY <1>2, ReceiverInvariant, PTL DEF Spec, DropsNeedABurst


-----------------------------------------------------------------------------
(***************************************************************************)
(* Two frames on end.  An escaped frame is gone through without a stop and *)
(* stands for itself, so the bytes of one are read as that frame wherever  *)
(* the reading gets to their SOF; and noise before them hides one SOF only.*)
(***************************************************************************)

\* A byte with a string behind it.
LEMMA OneAndMore ==
  ASSUME NEW c \in Byte, NEW y \in Seq(Byte)
  PROVE  /\ One(c) \o y \in Seq(Byte) /\ One(c) \o y # <<>>
         /\ (One(c) \o y)[1] = c /\ Tail(One(c) \o y) = y
         /\ Len(One(c) \o y) = 1 + Len(y)
<1> DEFINE h == One(c)
<1>1. h \in Seq(Byte) /\ Len(h) = 1 /\ h[1] = c /\ h # <<>>
  BY Ones
<1>. HIDE DEF h
<1>2. Tail(h) = <<>>
  <2>1. Tail(h) \in Seq(Byte) /\ Len(Tail(h)) = Len(h) - 1
    BY <1>1, WithoutTheFirst
  <2>2. Len(Tail(h)) <= 0
    <3> DEFINE m == Len(Tail(h))
               n == Len(h)
    <3>1. m = n - 1 /\ n = 1
      BY <1>1, <2>1
    <3>. HIDE DEF m, n
    <3>2. m <= 0
      BY <3>1
    <3>. QED BY <3>2 DEF m
  <2>. QED BY <2>1, <2>2, NothingLeft
<1>3. h \o y \in Seq(Byte) /\ h \o y # <<>> /\ (h \o y)[1] = h[1] /\ Tail(h \o y) = Tail(h) \o y
  BY <1>1, BytesBehind, Zenon
<1>4. <<>> \o y = y
  BY ConcatEmptySeq
<1>5. Len(h \o y) = Len(h) + Len(y)
  BY <1>1, MoreBehind
<1>. QED BY <1>1, <1>2, <1>3, <1>4, <1>5 DEF h

\* The length of the same.
LEMMA OneMore ==
  \A c \in Byte : \A y \in Seq(Byte) :
    /\ One(c) \o y \in Seq(Byte) /\ One(c) \o y # <<>>
    /\ (One(c) \o y)[1] = c /\ Tail(One(c) \o y) = y
    /\ Len(One(c) \o y) = 1 + Len(y)
<1>1. SUFFICES ASSUME NEW c \in Byte, NEW y \in Seq(Byte)
               PROVE  /\ One(c) \o y \in Seq(Byte) /\ One(c) \o y # <<>>
                      /\ (One(c) \o y)[1] = c /\ Tail(One(c) \o y) = y
                      /\ Len(One(c) \o y) = 1 + Len(y)
  OBVIOUS
<1>. QED BY OneAndMore

\* Two bytes with a string behind them.
LEMMA TwoAndMore ==
  ASSUME NEW k \in Byte, NEW c \in Byte, NEW y \in Seq(Byte)
  PROVE  /\ Two(k, c) \o y \in Seq(Byte) /\ Two(k, c) \o y # <<>>
         /\ (Two(k, c) \o y)[1] = k /\ (Two(k, c) \o y)[2] = c
         /\ Len(Two(k, c) \o y) > 1
         /\ Len(Two(k, c) \o y) = 2 + Len(y)
         /\ Tail(Tail(Two(k, c) \o y)) = y
<1> DEFINE t == One(c) \o y
           s == One(k) \o t
<1>1. k \in Byte /\ Len(y) \in Nat
  BY LenIsNat
<1>2. t \in Seq(Byte) /\ t # <<>> /\ t[1] = c /\ Tail(t) = y /\ Len(t) = 1 + Len(y)
  BY OneAndMore
<1>3. Two(k, c) \o y = s
  <2>1. One(k) \in Seq(Byte) /\ One(c) \in Seq(Byte)
    BY <1>1, Ones
  <2>2. (One(k) \o One(c)) \o y = One(k) \o (One(c) \o y)
    BY <2>1, Associates, Zenon
  <2>. QED BY <2>2 DEF Two
<1>. HIDE DEF t
<1>4. s \in Seq(Byte) /\ s # <<>> /\ s[1] = k /\ Tail(s) = t /\ Len(s) = 1 + Len(t)
  <2>1. k \in Byte /\ t \in Seq(Byte)
    BY <1>1, <1>2
  <2>. QED BY <2>1, OneMore, Zenon
<1>. HIDE DEF s
<1>5. s[2] = c
  <2>1. \A i \in 1..(Len(s) - 1) : Tail(s)[i] = s[i + 1]
    BY <1>4, WithoutTheFirst
  <2>2. 1 \in 1..(Len(s) - 1)
    BY <1>1, <1>2, <1>4
  <2>3. t[1] = s[1 + 1]
    BY <1>4, <2>1, <2>2
  <2>. QED BY <1>2, <2>3
<1>6. Len(s) > 1 /\ Len(s) = 2 + Len(y)
  BY <1>1, <1>2, <1>4
<1>7. Tail(Tail(s)) = y
  BY <1>2, <1>4
<1>. QED BY <1>3, <1>4, <1>5, <1>6, <1>7, Zenon

\* The length of the same.
LEMMA LenOfTwo ==
  ASSUME NEW k \in Byte, NEW c \in Byte, NEW y \in Seq(Byte)
  PROVE  Len(Two(k, c) \o y) = 2 + Len(y)
<1>1. /\ Two(k, c) \o y \in Seq(Byte) /\ Two(k, c) \o y # <<>>
      /\ (Two(k, c) \o y)[1] = k /\ (Two(k, c) \o y)[2] = c
      /\ Len(Two(k, c) \o y) > 1
      /\ Len(Two(k, c) \o y) = 2 + Len(y)
      /\ Tail(Tail(Two(k, c) \o y)) = y
  BY TwoAndMore
<1>. QED BY <1>1

\* A byte, or an escaped byte, ahead of a string.
LEMMA ScanOfMore ==
  ASSUME NEW c \in Byte, NEW y \in Seq(Byte)
  PROVE  /\ c \in {136, 85} => Dtv!UpToDelimiter(One(c) \o y) = <<>>
         /\ c \notin {136, 85, 170} =>
              /\ Dtv!UpToDelimiter(One(c) \o y) = One(c) \o Dtv!UpToDelimiter(y)
              /\ Dtv!Unescape(One(c) \o y) = One(c) \o Dtv!Unescape(y)
         /\ Dtv!UpToDelimiter(Two(170, c) \o y) = Two(170, c) \o Dtv!UpToDelimiter(y)
         /\ Dtv!Unescape(Two(170, c) \o y) = One(c) \o Dtv!Unescape(y)
<1> DEFINE s == One(c) \o y
           t == Two(170, c) \o y
<1>1. s \in Seq(Byte) /\ s # <<>> /\ s[1] = c /\ Tail(s) = y
  BY OneMore, Zenon
<1>2. t \in Seq(Byte) /\ t # <<>> /\ t[1] = 170 /\ t[2] = c /\ Len(t) > 1 /\ Tail(Tail(t)) = y
  <2>1. PICK k \in Byte : k = 170
    BY DEF Byte
  <2>2. /\ Two(k, c) \o y \in Seq(Byte) /\ Two(k, c) \o y # <<>>
        /\ (Two(k, c) \o y)[1] = k /\ (Two(k, c) \o y)[2] = c
        /\ Len(Two(k, c) \o y) > 1
        /\ Len(Two(k, c) \o y) = 2 + Len(y)
        /\ Tail(Tail(Two(k, c) \o y)) = y
    BY TwoAndMore
  <2>3. Two(k, c) \o y = t
    BY <2>1
  <2>. HIDE DEF t
  <2>. QED BY <2>1, <2>2, <2>3
<1>. HIDE DEF s, t
<1>3. c \in {136, 85} => Dtv!UpToDelimiter(s) = <<>>
  BY <1>1, UpToDelimiterUnfolds
<1>4. c \notin {136, 85, 170} => Dtv!UpToDelimiter(s) = One(c) \o Dtv!UpToDelimiter(y)
  BY <1>1, UpToDelimiterUnfolds
<1>5. c \notin {136, 85, 170} => Dtv!Unescape(s) = One(c) \o Dtv!Unescape(y)
  BY <1>1, UnescapeUnfolds
<1>6. Dtv!UpToDelimiter(t) = Two(170, c) \o Dtv!UpToDelimiter(y)
  BY <1>2, UpToDelimiterUnfolds
<1>7. Dtv!Unescape(t) = One(c) \o Dtv!Unescape(y)
  BY <1>2, UnescapeUnfolds
<1>. QED BY <1>3, <1>4, <1>5, <1>6, <1>7 DEF s, t

\* Escaped bytes hold no delimiter, stand for themselves and are at most twice
\* as many.
Escapes(l) ==
  /\ \A z \in Seq(Byte) :
       Dtv!UpToDelimiter(Dtv!EscapeInto(l) \o z) = Dtv!EscapeInto(l) \o Dtv!UpToDelimiter(z)
  /\ Dtv!Unescape(Dtv!EscapeInto(l)) = l
  /\ Len(Dtv!EscapeInto(l)) <= 2 * Len(l)

\* Nothing escapes to nothing.
LEMMA EscapesOfNothing == Escapes(<<>>)
<1>1. Dtv!EscapeInto(<<>>) = <<>> /\ Dtv!Unescape(<<>>) = <<>>
  BY EscapeUnfolds, UnescapeUnfolds
<1>2. \A z \in Seq(Byte) : <<>> \o z = z /\ Dtv!UpToDelimiter(z) \in Seq(Byte)
  BY ConcatEmptySeq, UpToDelimiterUnfolds
<1>3. \A z \in Seq(Byte) : <<>> \o Dtv!UpToDelimiter(z) = Dtv!UpToDelimiter(z)
  BY <1>2, ConcatEmptySeq
<1>4. Len(<<>>) <= 2 * Len(<<>>)
  BY LenOfNothing
<1>. QED BY <1>1, <1>2, <1>3, <1>4, Zenon DEF Escapes

\* One byte more is one byte or its escape more.
LEMMA EscapesOfMore ==
  ASSUME NEW l \in Seq(Byte), l # <<>>, Escapes(Tail(l))
  PROVE  Escapes(l)
<1> DEFINE c == l[1]
           e == Dtv!EscapeInto(Tail(l))
           h == IF c \in {136, 85, 170} THEN Two(170, c) ELSE One(c)
<1>1. /\ c \in Byte /\ Tail(l) \in Seq(Byte) /\ Len(Tail(l)) = Len(l) - 1 /\ Len(l) \in Nat
      /\ l = One(c) \o Tail(l)
  BY WithoutTheFirst, FirstAndRest, LenIsNat
<1>2. e \in Seq(Byte) /\ Len(e) \in Nat /\ Dtv!EscapeInto(l) = h \o e
  BY <1>1, EscapeUnfolds, LenIsNat
<1>3. /\ \A z \in Seq(Byte) : Dtv!UpToDelimiter(e \o z) = e \o Dtv!UpToDelimiter(z)
      /\ Dtv!Unescape(e) = Tail(l)
      /\ Len(e) <= 2 * Len(Tail(l))
  BY DEF Escapes
<1>. HIDE DEF c, e
<1>4. /\ h \in Seq(Byte)
      /\ \A y \in Seq(Byte) : Dtv!UpToDelimiter(h \o y) = h \o Dtv!UpToDelimiter(y)
      /\ \A y \in Seq(Byte) : Dtv!Unescape(h \o y) = One(c) \o Dtv!Unescape(y)
      /\ Len(h \o e) <= 2 + Len(e)
  <2>1. 170 \in Byte
    BY DEF Byte
  <2>2. CASE c \in {136, 85, 170}
    <3>1. h = Two(170, c) /\ Two(170, c) \in Seq(Byte)
      BY <1>1, <2>1, <2>2, Twos
    <3>2. Len(Two(170, c) \o e) <= 2 + Len(e)
      <4>1. c \in Byte /\ e \in Seq(Byte)
        BY <1>1, <1>2
      <4>2. Len(Two(170, c) \o e) = 2 + Len(e)
        BY <2>1, <4>1, LenOfTwo
      <4>. QED BY <1>2, <4>2
    <3>3. \A y \in Seq(Byte) :
            /\ Dtv!UpToDelimiter(Two(170, c) \o y) = Two(170, c) \o Dtv!UpToDelimiter(y)
            /\ Dtv!Unescape(Two(170, c) \o y) = One(c) \o Dtv!Unescape(y)
      BY <1>1, ScanOfMore, ZenonT(60)
    <3> DEFINE two == Two(170, c)
    <3>4. h = two /\ two \in Seq(Byte) /\ Len(two \o e) <= 2 + Len(e)
      BY <3>1, <3>2
    <3>5. /\ \A y \in Seq(Byte) : Dtv!UpToDelimiter(two \o y) = two \o Dtv!UpToDelimiter(y)
          /\ \A y \in Seq(Byte) : Dtv!Unescape(two \o y) = One(c) \o Dtv!Unescape(y)
      BY <3>3
    <3>. HIDE DEF h, two
    <3>. QED BY <3>4, <3>5
  <2>3. CASE c \notin {136, 85, 170}
    <3>1. h = One(c) /\ One(c) \in Seq(Byte)
      BY <1>1, <2>3, Ones
    <3>2. Len(One(c) \o e) <= 2 + Len(e)
      BY <1>1, <1>2, OneAndMore
    <3>3. \A y \in Seq(Byte) :
            /\ Dtv!UpToDelimiter(One(c) \o y) = One(c) \o Dtv!UpToDelimiter(y)
            /\ Dtv!Unescape(One(c) \o y) = One(c) \o Dtv!Unescape(y)
      BY <1>1, <2>3, ScanOfMore
    <3>. QED BY <3>1, <3>2, <3>3, ZenonT(60)
  <2>. QED BY <2>2, <2>3
<1>. HIDE DEF h
<1>5. ASSUME NEW z \in Seq(Byte)
      PROVE  Dtv!UpToDelimiter((h \o e) \o z) = (h \o e) \o Dtv!UpToDelimiter(z)
  <2> DEFINE u == Dtv!UpToDelimiter(z)
  <2>1. u \in Seq(Byte)
    BY UpToDelimiterUnfolds
  <2>2. e \o z \in Seq(Byte)
    BY <1>2, MoreBehind
  <2>3. Dtv!UpToDelimiter(e \o z) = e \o u
    BY <1>3
  <2>4. Dtv!UpToDelimiter(h \o (e \o z)) = h \o (e \o u)
    BY <1>4, <2>2, <2>3
  <2>. HIDE DEF u
  <2>5. (h \o e) \o z = h \o (e \o z) /\ (h \o e) \o u = h \o (e \o u)
    <3>1. h \in Seq(Byte) /\ e \in Seq(Byte)
      BY <1>2, <1>4
    <3>2. (h \o e) \o z = h \o (e \o z)
      BY <3>1, Associates, ZenonT(60)
    <3>3. (h \o e) \o u = h \o (e \o u)
      BY <2>1, <3>1, Associates, ZenonT(60)
    <3>. QED BY <3>2, <3>3
  <2>6. Dtv!UpToDelimiter((h \o e) \o z) = (h \o e) \o u
    BY <2>4, <2>5, Zenon
  <2>. QED BY <2>6 DEF u
<1>6. Dtv!Unescape(h \o e) = l
  <2>1. Dtv!Unescape(h \o e) = One(c) \o Dtv!Unescape(e)
    BY <1>2, <1>4
  <2>. QED BY <1>1, <1>3, <2>1
<1>7. Len(h \o e) <= 2 * Len(l)
  <2> DEFINE m == Len(h \o e)
             n == Len(e)
             k == Len(l)
  <2>1. m <= 2 + n /\ n <= 2 * (k - 1) /\ n \in Nat /\ k \in Nat
    BY <1>1, <1>2, <1>3, <1>4
  <2>2. m \in Nat
    BY <1>2, <1>4, MoreBehind, LenIsNat
  <2>. HIDE DEF m, n, k
  <2>3. m <= 2 * k
    BY <2>1, <2>2
  <2>. QED BY <2>3 DEF m, k
<1>. QED BY <1>2, <1>5, <1>6, <1>7 DEF Escapes

\* So the escape of every string can be undone.
LEMMA EveryEscapes == \A l \in Seq(Byte) : Escapes(l)
<1> DEFINE P == {l \in Seq(Byte) : Escapes(l)}
<1>1. \A l \in Seq(Byte) : l \in P <=> Escapes(l)
  OBVIOUS
<1>2. P \in SUBSET Seq(Byte)
  OBVIOUS
<1>. HIDE DEF P
<1>3. ASSUME NEW l \in Seq(Byte), \A t \in Seq(Byte) : Len(t) < Len(l) => t \in P
      PROVE  l \in P
  <2>1. CASE l = <<>>
    BY <1>1, <2>1, EscapesOfNothing
  <2>2. CASE l # <<>>
    <3>1. Tail(l) \in Seq(Byte) /\ Len(Tail(l)) < Len(l)
      BY <2>2, WithoutTheFirst
    <3>2. Escapes(Tail(l))
      BY <1>1, <1>3, <3>1
    <3>. QED BY <1>1, <2>2, <3>2, EscapesOfMore
  <2>. QED BY <2>1, <2>2
<1>4. P = Seq(Byte)
  BY <1>2, <1>3, StringInduction
<1>. QED BY <1>1, <1>4


\* The plain bytes of a frame are sound, and say the frame.
LEMMA PlainIsSound ==
  ASSUME NEW f \in DtvFrames
  PROVE  /\ Dtv!Sound(Plain(f)) /\ Dtv!FrameOf(Plain(f)) = f
         /\ Len(Plain(f)) \in Nat /\ Len(Plain(f)) <= Dtv!MAX_LOGICAL
<1> DEFINE header == <<f.dest, f.src, f.cmd>>
           payload == f.payload
           covered == header \o payload
           l == Plain(f)
           m == Len(payload)
<1>1. /\ payload \in Seq(Byte) /\ m <= MAX_PAYLOAD /\ m \in Nat /\ MAX_PAYLOAD \in Nat
      /\ f.dest \in Byte /\ f.src \in Byte /\ f.cmd \in Byte
      /\ f = [dest |-> f.dest, src |-> f.src, cmd |-> f.cmd, payload |-> payload]
  BY LengthAssumption, LenIsNat DEF DtvFrames
<1>2. /\ header \in Seq(Byte) /\ Len(header) = 3
      /\ header[1] = f.dest /\ header[2] = f.src /\ header[3] = f.cmd
  BY <1>1
<1>3. l = Append(covered, Dtv!Checksum(covered))
  BY DEF Plain
<1>. HIDE DEF header, payload, m, l
<1>4. /\ covered \in Seq(Byte) /\ Len(covered) = Len(header) + Len(payload)
      /\ \A k \in 1..Len(header) : covered[k] = header[k]
      /\ \A k \in 1..Len(payload) : covered[Len(header) + k] = payload[k]
  <2>1. header \in Seq(Byte) /\ payload \in Seq(Byte)
    BY <1>1, <1>2
  <2>. QED BY <2>1, MoreBehind
<1>5. covered[1] = f.dest /\ covered[2] = f.src /\ covered[3] = f.cmd
  BY <1>2, <1>4
<1>6. Len(covered) = 3 + m /\ \A k \in 1..m : covered[3 + k] = payload[k]
  BY <1>2, <1>4 DEF m
<1>7. Dtv!Checksum(covered) \in Byte
  BY <1>4, ChecksumIsByte
<1>. HIDE DEF covered
<1>8. /\ l \in Seq(Byte) /\ Len(l) = Len(covered) + 1
      /\ \A k \in 1..Len(covered) : l[k] = covered[k]
      /\ l[Len(covered) + 1] = Dtv!Checksum(covered)
  BY <1>3, <1>4, <1>7, AppendProperties
<1> DEFINE n == Len(l)
<1>9. n = 4 + m /\ n - 1 = 3 + m /\ n \in Nat /\ n \in 1..Len(l) /\ n \in 4..(4 + MAX_PAYLOAD)
        /\ Len(covered) = n - 1
  BY <1>1, <1>6, <1>8
<1>10. SubSeq(l, 1, n - 1) = covered
  <2>1. SubSeq(l, 1, n - 1) \in Seq(Byte) /\ Len(SubSeq(l, 1, n - 1)) = n - 1
          /\ \A k \in 1..(n - 1) : SubSeq(l, 1, n - 1)[k] = l[k]
    <3>1. n - 1 \in 0..Len(l) /\ 1 \in Nat \ {0} /\ 1 <= n - 1 /\ (n - 1) - 1 + 1 = n - 1
            /\ \A k \in 1..(n - 1) : 1 + k - 1 = k
      BY <1>1, <1>9
    <3>2. /\ SubSeq(l, 1, n - 1) \in Seq(Byte)
          /\ Len(SubSeq(l, 1, n - 1)) = IF 1 <= n - 1 THEN (n - 1) - 1 + 1 ELSE 0
          /\ \A k \in 1..((n - 1) - 1 + 1) : SubSeq(l, 1, n - 1)[k] = l[1 + k - 1]
      BY <1>8, <3>1, Cut
    <3>. HIDE DEF n
    <3>. QED BY <3>1, <3>2
  <2>2. \A k \in 1..(n - 1) : SubSeq(l, 1, n - 1)[k] = covered[k]
    BY <1>8, <1>9, <2>1
  <2>. HIDE DEF n
  <2>. QED BY <1>4, <1>9, <2>1, <2>2, SeqEqual
<1>11. SumsToZero(l)
  <2>1. SubSeq(l, 1, n) = l
    BY <1>8, SubSeqFull
  <2>2. l[n] = Dtv!Checksum(SubSeq(l, 1, n - 1)) <=> SumsToZero(SubSeq(l, 1, n))
    BY <1>8, <1>9, ChecksumIsLast
  <2>3. l[n] = Dtv!Checksum(covered)
    <3>1. Len(covered) + 1 = n
      BY <1>8
    <3>. QED BY <1>8, <3>1
  <2>. HIDE DEF n
  <2>. QED BY <1>10, <2>1, <2>2, <2>3
<1>12. Dtv!Sound(l)
  BY <1>8, <1>9, <1>11, SameBytes
     DEF Dtv!Sound, Dtv!MAX_LOGICAL, Dtv!LOGICAL_OVERHEAD, SumsToZero, Dtv!SumsToZero,
         ByteSum, Dtv!ByteSum
<1>13. l[1] = f.dest /\ l[2] = f.src /\ l[3] = f.cmd
  <2>1. 1 \in 1..Len(covered) /\ 2 \in 1..Len(covered) /\ 3 \in 1..Len(covered)
    BY <1>1, <1>6
  <2>. QED BY <1>5, <1>8, <2>1
<1>14. SubSeq(l, 4, n - 1) = payload
  <2> DEFINE a == SubSeq(l, 4, n - 1)
  <2>1. /\ 4 \in Nat \ {0} /\ n - 1 \in 0..Len(l) /\ (n - 1) - 4 + 1 = m
        /\ (~ (4 <= n - 1) => m = 0)
        /\ \A k \in 1..m : 4 + k - 1 = 3 + k /\ 3 + k \in 1..Len(covered)
    BY <1>1, <1>6, <1>9
  <2>2. a \in Seq(Byte) /\ Len(a) = m /\ \A k \in 1..m : a[k] = l[4 + k - 1]
    <3>1. /\ a \in Seq(Byte) /\ Len(a) = IF 4 <= n - 1 THEN (n - 1) - 4 + 1 ELSE 0
          /\ \A k \in 1..((n - 1) - 4 + 1) : a[k] = l[4 + k - 1]
      BY <1>8, <2>1, Cut
    <3>. HIDE DEF a, n
    <3>. QED BY <2>1, <3>1
  <2>. HIDE DEF a, n
  <2>3. \A k \in 1..m : a[k] = payload[k]
    BY <1>6, <1>8, <2>1, <2>2
  <2>4. Len(payload) = m
    BY DEF m
  <2>5. a = payload
    BY <1>1, <2>2, <2>3, <2>4, SeqEqual
  <2>. QED BY <2>5 DEF a
<1>15. Dtv!FrameOf(l) = f
  <2>1. Dtv!FrameOf(l) = [dest |-> l[1], src |-> l[2], cmd |-> l[3], payload |-> SubSeq(l, 4, n - 1)]
    BY DEF Dtv!FrameOf, Dtv!Frame
  <2>. HIDE DEF n
  <2>. QED BY <1>1, <1>13, <1>14, <2>1
<1>16. Len(l) \in Nat /\ Len(l) <= Dtv!MAX_LOGICAL
  BY <1>1, <1>9 DEF Dtv!MAX_LOGICAL, Dtv!LOGICAL_OVERHEAD
<1>. QED BY <1>12, <1>15, <1>16 DEF l

\* Where the reading gets to, it goes on behind the delimiter, or behind the SOF
\* when the delimiter is too far away.
LEMMA ReadsOn ==
  ASSUME NEW s \in Seq(Byte), s # <<>>, s[1] = 136,
         NEW u \in Seq(Byte), NEW v \in Seq(Byte), v # <<>>, Delimits(s, u, v)
  PROVE  \/ Dtv!Reading(s) = Dtv!Reading(Tail(s)) /\ 2 + Len(u) > Dtv!MAX_FRAME
         \/ v[1] = 85 /\ Dtv!Reading(s) = Said(Dtv!Unescape(u)) \o Dtv!Reading(Tail(v))
         \/ v[1] # 85 /\ Dtv!Reading(s) = Dtv!Reading(v)
<1>1. Len(s) = 1 + Len(u) + Len(v) /\ Dtv!Delimiter(s) = 2 + Len(u)
  BY DelimitsSays
<1>2. Len(u) \in Nat /\ Len(v) \in Nat /\ Len(v) >= 1 /\ Dtv!MAX_FRAME \in Nat
  BY LenIsNat, WithoutTheFirst, LongestIsNat
<1>3. CASE Dtv!IsDelimited(s)
  <2>1. /\ v[1] = 85 => Dtv!Reading(s) = Said(Dtv!Unescape(u)) \o Dtv!Reading(Tail(v))
        /\ v[1] # 85 => Dtv!Reading(s) = Dtv!Reading(v)
    BY <1>3, ReadToTheEnd
  <2>. QED BY <2>1
<1>4. CASE ~ Dtv!IsDelimited(s)
  <2>1. ~ (2 + Len(u) <= Len(s) /\ 2 + Len(u) <= Dtv!MAX_FRAME)
    BY <1>1, <1>4, DelimitedMeans
  <2> DEFINE n == Len(s)
             m == Len(u)
             k == Len(v)
             most == Dtv!MAX_FRAME
  <2>2. n = 1 + m + k /\ m \in Nat /\ k \in Nat /\ k >= 1 /\ most \in Nat
          /\ ~ (2 + m <= n /\ 2 + m <= most)
    BY <1>1, <1>2, <2>1
  <2>. HIDE DEF n, m, k, most
  <2>3. ~ (n < most) /\ 2 + m > most
    BY <2>2
  <2>4. ~ (Len(s) < Dtv!MAX_FRAME)
    BY <2>3 DEF n, most
  <2>5. Dtv!Reading(s) = Dtv!Reading(Tail(s))
    BY <1>4, <2>4, DtvReading
  <2>. QED BY <2>3, <2>5 DEF m, most
<1>. QED BY <1>3, <1>4


\* What a reading ends with.
EndsWith(t, f) == \E p \in Seq(DtvFrames) : t = p \o One(f)

\* What stands before a reading does not change its end.
LEMMA EndsBehind ==
  ASSUME NEW f \in DtvFrames, NEW p \in Seq(DtvFrames), NEW t, EndsWith(t, f)
  PROVE  EndsWith(p \o t, f)
<1>1. PICK q \in Seq(DtvFrames) : t = q \o One(f)
  BY DEF EndsWith
<1>2. One(f) \in Seq(DtvFrames)
  BY Ones
<1>3. p \o q \in Seq(DtvFrames)
  BY <1>1, MoreBehind
<1>4. (p \o q) \o One(f) = p \o (q \o One(f))
  BY <1>1, <1>2, AssociatesAll
<1>5. p \o t = (p \o q) \o One(f)
  BY <1>1, <1>4
<1>. QED BY <1>3, <1>5 DEF EndsWith

\* What a body says is a frame, or nothing.
LEMMA SaidIsTyped == \A l : Said(l) \in Seq(DtvFrames)
<1>1. SUFFICES ASSUME NEW l PROVE Said(l) \in Seq(DtvFrames)
  OBVIOUS
<1>2. CASE Dtv!Sound(l)
  <2>1. Dtv!FrameOf(l) \in DtvFrames
    BY <1>2, FrameIsTyped
  <2>. QED BY <1>2, <2>1 DEF Said
<1>3. CASE ~ Dtv!Sound(l)
  BY <1>3 DEF Said
<1>. QED BY <1>2, <1>3

\* The parts of an assembled frame with more behind it: the SOF, the escaped
\* bytes up to which the scan gets, and the EOF.
Escaped(f) == Dtv!EscapeInto(Plain(f))
Behind(x) == One(85) \o x

\* An assembled frame taken apart.
LEMMA AssembledAndMore ==
  ASSUME NEW f \in DtvFrames, NEW x \in Seq(Byte)
  PROVE  /\ Dtv!Assemble(f) \in Seq(Byte) /\ Dtv!Assemble(f) \o x \in Seq(Byte)
         /\ Escaped(f) \in Seq(Byte)
         /\ Behind(x) \in Seq(Byte) /\ Behind(x) # <<>> /\ Behind(x)[1] = 85
         /\ Tail(Behind(x)) = x
         /\ Escaped(f) \o Behind(x) \in Seq(Byte)
         /\ Dtv!Assemble(f) \o x = One(136) \o (Escaped(f) \o Behind(x))
         /\ Dtv!UpToDelimiter(Escaped(f) \o Behind(x)) = Escaped(f)
<1> DEFINE e == Escaped(f)
           h == One(136)
           l == One(85)
           w == Behind(x)
<1>1. Plain(f) \in Seq(Byte) /\ Dtv!Assemble(f) = (h \o e) \o l /\ Dtv!Assemble(f) \in Seq(Byte)
  BY DtvAssembles DEF Escaped
<1>2. e \in Seq(Byte)
  BY <1>1, EscapeUnfolds DEF Escaped
<1>3. 136 \in Byte /\ 85 \in Byte
  BY DEF Byte
<1>4. h \in Seq(Byte) /\ l \in Seq(Byte)
  BY <1>3, Ones
<1>5. /\ l \o x \in Seq(Byte) /\ l \o x # <<>> /\ (l \o x)[1] = 85 /\ Tail(l \o x) = x
  <2>1. PICK k \in Byte : k = 85
    BY <1>3
  <2>2. /\ One(k) \o x \in Seq(Byte) /\ One(k) \o x # <<>>
        /\ (One(k) \o x)[1] = k /\ Tail(One(k) \o x) = x
        /\ Len(One(k) \o x) = 1 + Len(x)
    BY OneAndMore
  <2>. QED BY <2>1, <2>2
<1>6. w = l \o x
  BY DEF Behind
<1>7. Dtv!UpToDelimiter(w) = <<>>
  <2>1. \A c \in Byte : c \in {136, 85} => Dtv!UpToDelimiter(One(c) \o x) = <<>>
    BY ScanOfMore
  <2>. QED BY <1>3, <1>6, <2>1
<1>8. \A z \in Seq(Byte) : Dtv!UpToDelimiter(e \o z) = e \o Dtv!UpToDelimiter(z)
  BY <1>1, EveryEscapes DEF Escapes, Escaped
<1>. HIDE DEF e, h, l, w
<1>9. w \in Seq(Byte) /\ w # <<>> /\ w[1] = 85 /\ Tail(w) = x
  BY <1>5, <1>6
<1>10. Dtv!UpToDelimiter(e \o w) = e
  <2>1. e \o <<>> = e
    BY <1>2, ConcatEmptySeq
  <2>. QED BY <1>7, <1>8, <1>9, <2>1
<1>11. e \o w \in Seq(Byte) /\ h \o e \in Seq(Byte)
  BY <1>2, <1>4, <1>9, MoreBehind
<1>12. ((h \o e) \o l) \o x = h \o (e \o w)
  <2>1. ((h \o e) \o l) \o x = (h \o e) \o (l \o x)
    BY <1>4, <1>11, Associates, ZenonT(60)
  <2>2. (h \o e) \o w = h \o (e \o w)
    <3>1. h \in Seq(Byte) /\ w \in Seq(Byte)
      BY <1>4, <1>9
    <3>. QED BY <1>2, <3>1, Associates, ZenonT(60)
  <2>. QED BY <1>6, <2>1, <2>2
<1>13. Dtv!Assemble(f) \o x \in Seq(Byte)
  BY <1>1, MoreBehind
<1>. QED BY <1>1, <1>2, <1>9, <1>10, <1>11, <1>12, <1>13 DEF e, h, w

\* A frame is read as itself.
LEMMA FrameIsRead ==
  ASSUME NEW f \in DtvFrames, NEW x \in Seq(Byte)
  PROVE  Dtv!Reading(Dtv!Assemble(f) \o x) = One(f) \o Dtv!Reading(x)
<1> DEFINE s == Dtv!Assemble(f) \o x
           e == Escaped(f)
           w == Behind(x)
           t == e \o w
<1>1. /\ s \in Seq(Byte) /\ e \in Seq(Byte) /\ t \in Seq(Byte)
      /\ w \in Seq(Byte) /\ w # <<>> /\ w[1] = 85 /\ Tail(w) = x
      /\ s = One(136) \o t /\ Dtv!UpToDelimiter(t) = e
  <2>1. /\ Dtv!Assemble(f) \in Seq(Byte) /\ s \in Seq(Byte)
        /\ e \in Seq(Byte)
        /\ w \in Seq(Byte) /\ w # <<>> /\ w[1] = 85
        /\ Tail(w) = x
        /\ e \o w \in Seq(Byte)
        /\ s = One(136) \o (e \o w)
        /\ Dtv!UpToDelimiter(e \o w) = e
    BY AssembledAndMore
  <2>. HIDE DEF e, w, s
  <2>. QED BY <2>1
<1>2. Dtv!Unescape(e) = Plain(f) /\ Len(e) <= 2 * Len(Plain(f))
  BY DtvAssembles, EveryEscapes DEF Escapes, Escaped
<1>3. Dtv!Sound(Plain(f)) /\ Dtv!FrameOf(Plain(f)) = f
        /\ Len(Plain(f)) \in Nat /\ Len(Plain(f)) <= Dtv!MAX_LOGICAL
  BY PlainIsSound
<1>4. Said(Plain(f)) = One(f)
  BY <1>3 DEF Said, One
<1>. HIDE DEF e, w, t, s
<1>5. s # <<>> /\ s[1] = 136 /\ Tail(s) = t
  <2>1. PICK k \in Byte : k = 136
    BY DEF Byte
  <2>2. t \in Seq(Byte)
    BY <1>1
  <2>3. /\ One(k) \o t \in Seq(Byte) /\ One(k) \o t # <<>>
        /\ (One(k) \o t)[1] = k /\ Tail(One(k) \o t) = t
        /\ Len(One(k) \o t) = 1 + Len(t)
    BY <2>2, OneAndMore
  <2>. QED BY <1>1, <2>1, <2>3
<1>6. Delimits(s, e, w)
  <2>1. Tail(s) = e \o w /\ Dtv!UpToDelimiter(Tail(s)) = e
    BY <1>1, <1>5 DEF t
  <2>. QED BY <1>1, <1>5, <2>1, Delimited
<1>7. ~ (2 + Len(e) > Dtv!MAX_FRAME)
  <2> DEFINE n == Len(e)
             m == Len(Plain(f))
             most == Dtv!MAX_LOGICAL
  <2>1. n \in Nat /\ m \in Nat /\ n <= 2 * m /\ m <= most /\ Dtv!MAX_FRAME = 2 + 2 * most
    BY <1>1, <1>2, <1>3, LenIsNat DEF Dtv!MAX_FRAME
  <2>2. most \in Nat
    BY LengthAssumption DEF Dtv!MAX_LOGICAL, Dtv!LOGICAL_OVERHEAD
  <2>. HIDE DEF n, m, most
  <2>3. ~ (2 + n > 2 + 2 * most)
    BY <2>1, <2>2
  <2>. QED BY <2>1, <2>3 DEF n
<1>8. Dtv!Reading(s) = Said(Dtv!Unescape(e)) \o Dtv!Reading(Tail(w))
  <2>1. s \in Seq(Byte) /\ e \in Seq(Byte) /\ w \in Seq(Byte) /\ w # <<>> /\ w[1] = 85
    BY <1>1
  <2>2. s # <<>> /\ s[1] = 136
    BY <1>5
  <2>3. \/ Dtv!Reading(s) = Dtv!Reading(Tail(s)) /\ 2 + Len(e) > Dtv!MAX_FRAME
        \/ w[1] = 85 /\ Dtv!Reading(s) = Said(Dtv!Unescape(e)) \o Dtv!Reading(Tail(w))
        \/ w[1] # 85 /\ Dtv!Reading(s) = Dtv!Reading(w)
    BY <1>6, <2>1, <2>2, ReadsOn
  <2>. QED BY <1>7, <2>1, <2>3
<1>. QED BY <1>1, <1>2, <1>4, <1>8 DEF s


\* What is known of two frames on end, for the cases below.
TwoFrames(z, e, w, f) ==
  /\ z \in Seq(Byte) /\ z # <<>> /\ z[1] = 136
  /\ e \in Seq(Byte) /\ w \in Seq(Byte) /\ w # <<>> /\ w[1] = 85
  /\ z = One(136) \o (e \o w) /\ Tail(z) = e \o w
  /\ Dtv!UpToDelimiter(z) = <<>> /\ Dtv!UpToDelimiter(e \o w) = e
  /\ EndsWith(Dtv!Reading(z), f) /\ EndsWith(Dtv!Reading(Tail(w)), f)

\* Two assembled frames are such.
LEMMA TwoAreRead ==
  ASSUME NEW f \in DtvFrames, NEW g \in DtvFrames
  PROVE  TwoFrames(Dtv!Assemble(f) \o Dtv!Assemble(g), Escaped(f), Behind(Dtv!Assemble(g)), g)
<1> DEFINE x == Dtv!Assemble(g)
           z == Dtv!Assemble(f) \o x
           e == Escaped(f)
           w == Behind(x)
<1>1. x \in Seq(Byte)
  BY DtvAssembles
<1>2. x \o <<>> = x /\ Dtv!Reading(<<>>) = <<>> /\ <<>> \in Seq(Byte)
  BY <1>1, ConcatEmptySeq, DtvReading, EmptyIsSeq
<1>3. Dtv!Reading(x) = One(g) \o <<>>
  <2>1. Dtv!Reading(Dtv!Assemble(g) \o <<>>) = One(g) \o Dtv!Reading(<<>>)
    BY <1>2, FrameIsRead
  <2>. QED BY <1>2, <2>1
<1>4. One(f) \in Seq(DtvFrames) /\ One(g) \in Seq(DtvFrames) /\ <<>> \in Seq(DtvFrames)
  BY Ones, EmptyIsSeq
<1>5. EndsWith(Dtv!Reading(x), g)
  <2>1. <<>> \o One(g) = One(g) /\ One(g) \o <<>> = One(g)
    BY <1>4, ConcatEmptySeq
  <2>2. Dtv!Reading(x) = <<>> \o One(g)
    BY <1>3, <2>1
  <2>. QED BY <1>4, <2>2 DEF EndsWith
<1>. HIDE DEF x
<1>6. Dtv!Reading(z) = One(f) \o Dtv!Reading(x)
  BY <1>1, FrameIsRead
<1>7. EndsWith(Dtv!Reading(z), g)
  <2>1. EndsWith(One(f) \o Dtv!Reading(x), g)
    BY <1>4, <1>5, EndsBehind
  <2>. QED BY <1>6, <2>1
<1>8. /\ Dtv!Assemble(f) \in Seq(Byte) /\ z \in Seq(Byte)
      /\ e \in Seq(Byte)
      /\ w \in Seq(Byte) /\ w # <<>> /\ w[1] = 85
      /\ Tail(w) = x
      /\ e \o w \in Seq(Byte)
      /\ z = One(136) \o (e \o w)
      /\ Dtv!UpToDelimiter(e \o w) = e
  BY <1>1, AssembledAndMore
<1>. HIDE DEF z, e, w
<1>9. z # <<>> /\ z[1] = 136 /\ Tail(z) = e \o w
  <2> DEFINE t == e \o w
  <2>1. t \in Seq(Byte) /\ z = One(136) \o t
    BY <1>8
  <2>. HIDE DEF t
  <2>2. PICK k \in Byte : k = 136
    BY DEF Byte
  <2>3. t \in Seq(Byte)
    BY <2>1
  <2>4. /\ One(k) \o t \in Seq(Byte) /\ One(k) \o t # <<>>
        /\ (One(k) \o t)[1] = k /\ Tail(One(k) \o t) = t
        /\ Len(One(k) \o t) = 1 + Len(t)
    BY <2>3, OneAndMore
  <2>5. z # <<>> /\ z[1] = 136 /\ Tail(z) = t
    BY <2>1, <2>2, <2>4
  <2>. QED BY <2>5 DEF t
<1>10. Dtv!UpToDelimiter(z) = <<>>
  BY <1>8, <1>9, UpToDelimiterUnfolds
<1>11. TwoFrames(z, e, w, g)
  BY <1>5, <1>7, <1>8, <1>9, <1>10 DEF TwoFrames
<1>. QED BY <1>11 DEF z, e, w, x

\* Reading noise comes to the frames, or into the first one by an escape, or
\* some way further in the noise.
LEMMA ThroughNoise ==
  ASSUME NEW g \in DtvFrames, NEW z, NEW e, NEW w, TwoFrames(z, e, w, g),
         NEW y \in Seq(Byte), y # <<>>,
         \A t \in Seq(Byte) : Len(t) < Len(y) => EndsWith(Dtv!Reading(t \o z), g)
  PROVE  EndsWith(Dtv!Reading(y \o z), g)
<1>1. /\ z \in Seq(Byte) /\ z # <<>> /\ z[1] = 136
      /\ e \in Seq(Byte) /\ w \in Seq(Byte) /\ w # <<>> /\ w[1] = 85
      /\ z = One(136) \o (e \o w) /\ Tail(z) = e \o w
      /\ Dtv!UpToDelimiter(z) = <<>> /\ Dtv!UpToDelimiter(e \o w) = e
      /\ EndsWith(Dtv!Reading(z), g) /\ EndsWith(Dtv!Reading(Tail(w)), g)
  BY DEF TwoFrames
<1> DEFINE s == y \o z
           t == Tail(y)
<1>2. /\ s \in Seq(Byte) /\ s # <<>> /\ s[1] = y[1] /\ Tail(s) = t \o z
  <2>1. z \in Seq(Byte)
    BY <1>1
  <2>. QED BY <2>1, BytesBehind, Zenon
<1>3. t \in Seq(Byte) /\ Len(t) < Len(y)
  BY WithoutTheFirst
<1>4. EndsWith(Dtv!Reading(t \o z), g)
  BY <1>3
<1>. HIDE DEF s, t
<1>5. ASSUME y[1] # 136 PROVE EndsWith(Dtv!Reading(s), g)
  <2>1. Dtv!Reading(s) = Dtv!Reading(t \o z)
    BY <1>2, <1>5, DtvReading
  <2>. QED BY <1>4, <2>1
<1>6. ASSUME y[1] = 136, NEW u \in Seq(Byte), NEW v \in Seq(Byte), v # <<>>, Delimits(s, u, v),
             v[1] # 85 => EndsWith(Dtv!Reading(v), g),
             v[1] = 85 => EndsWith(Dtv!Reading(Tail(v)), g)
      PROVE  EndsWith(Dtv!Reading(s), g)
  <2>1. s \in Seq(Byte) /\ s # <<>> /\ s[1] = 136
    BY <1>2, <1>6
  <2>2. \/ Dtv!Reading(s) = Dtv!Reading(Tail(s)) /\ 2 + Len(u) > Dtv!MAX_FRAME
        \/ v[1] = 85 /\ Dtv!Reading(s) = Said(Dtv!Unescape(u)) \o Dtv!Reading(Tail(v))
        \/ v[1] # 85 /\ Dtv!Reading(s) = Dtv!Reading(v)
    BY <1>6, <2>1, ReadsOn
  <2>3. CASE Dtv!Reading(s) = Dtv!Reading(Tail(s))
    BY <1>2, <1>4, <2>3
  <2>4. CASE v[1] = 85 /\ Dtv!Reading(s) = Said(Dtv!Unescape(u)) \o Dtv!Reading(Tail(v))
    <3>1. Said(Dtv!Unescape(u)) \in Seq(DtvFrames) /\ EndsWith(Dtv!Reading(Tail(v)), g)
      BY <1>6, <2>4, SaidIsTyped
    <3>2. EndsWith(Said(Dtv!Unescape(u)) \o Dtv!Reading(Tail(v)), g)
      BY <3>1, EndsBehind
    <3>. QED BY <2>4, <3>2
  <2>5. CASE v[1] # 85 /\ Dtv!Reading(s) = Dtv!Reading(v)
    BY <1>6, <2>5
  <2>. QED BY <2>2, <2>3, <2>4, <2>5
<1>7. ASSUME y[1] = 136, Stops(t) PROVE EndsWith(Dtv!Reading(s), g)
  <2>1. PICK u, a \in Seq(Byte) :
          /\ a # <<>> /\ a[1] \in {136, 85}
          /\ Delimits(y, u, a)
          /\ \A x \in Seq(Byte) : Delimits(y \o x, u, a \o x)
    BY <1>7, StopsThere DEF t
  <2>2. Delimits(s, u, a \o z)
    BY <1>1, <2>1 DEF s
  <2>3. /\ a \o z \in Seq(Byte) /\ a \o z # <<>> /\ (a \o z)[1] = a[1]
        /\ Tail(a \o z) = Tail(a) \o z
    <3>1. a \in Seq(Byte) /\ a # <<>>
      BY <2>1
    <3>2. z \in Seq(Byte)
      BY <1>1
    <3>. QED BY <3>1, <3>2, BytesBehind, Zenon
  <2>4. Len(y) = 1 + Len(u) + Len(a)
    BY <2>1, DelimitsSays, Zenon
  <2>5. Tail(a) \in Seq(Byte) /\ Len(Tail(a)) = Len(a) - 1
    BY <2>1, WithoutTheFirst
  <2>6. Len(u) \in Nat /\ Len(a) \in Nat
    BY <2>1, LenIsNat
  <2>7. Len(a) < Len(y) /\ Len(Tail(a)) < Len(y)
    BY <2>4, <2>5, <2>6
  <2>8. EndsWith(Dtv!Reading(a \o z), g) /\ EndsWith(Dtv!Reading(Tail(a) \o z), g)
    BY <2>1, <2>5, <2>7
  <2> DEFINE v == a \o z
  <2>9. EndsWith(Dtv!Reading(v), g) /\ EndsWith(Dtv!Reading(Tail(v)), g)
    BY <2>3, <2>8
  <2>10. v \in Seq(Byte) /\ v # <<>> /\ Delimits(s, u, v)
    BY <2>2, <2>3
  <2>. HIDE DEF v
  <2>. QED BY <1>6, <1>7, <2>1, <2>9, <2>10
<1>8. ASSUME y[1] = 136, GoesOn(t) PROVE EndsWith(Dtv!Reading(s), g)
  <2>1. Dtv!UpToDelimiter(t \o z) = t \o <<>>
    BY <1>1, <1>8, ZenonT(60) DEF GoesOn
  <2>2. t \o <<>> = t
    BY <1>3, ConcatEmptySeq
  <2>3. Dtv!UpToDelimiter(Tail(s)) = t
    BY <1>2, <2>1, <2>2
  <2>4. Delimits(s, t, z)
    BY <1>1, <1>2, <1>3, <2>3, Delimited
  <2>5. z # <<>> /\ z \in Seq(Byte) /\ EndsWith(Dtv!Reading(z), g) /\ ~ (z[1] = 85)
    BY <1>1
  <2>. QED BY <1>3, <1>6, <1>8, <2>4, <2>5
<1>9. ASSUME y[1] = 136, Hangs(t) PROVE EndsWith(Dtv!Reading(s), g)
  <2> DEFINE h == One(136)
             u == (t \o h) \o e
  <2>1. h \in Seq(Byte)
    <3>1. 136 \in Byte
      BY DEF Byte
    <3>. QED BY <3>1, Ones
  <2>2. Dtv!UpToDelimiter(t \o z) = u
    <3>1. Dtv!UpToDelimiter(t \o z) = (t \o One(z[1])) \o Dtv!UpToDelimiter(Tail(z))
      BY <1>1, <1>9 DEF Hangs
    <3>. QED BY <1>1, <3>1, ZenonT(60)
  <2>. HIDE DEF h
  <2>3. t \o h \in Seq(Byte)
    BY <1>3, <2>1, MoreBehind
  <2>4. u \in Seq(Byte)
    BY <1>1, <2>3, MoreBehind
  <2>5. t \o z = u \o w
    <3>1. e \in Seq(Byte) /\ w \in Seq(Byte) /\ t \in Seq(Byte)
      BY <1>1, <1>3
    <3>2. e \o w \in Seq(Byte)
      BY <3>1, MoreBehind
    <3>3. ((t \o h) \o e) \o w = (t \o h) \o (e \o w)
      BY <2>3, <3>1, Associates, Zenon
    <3>4. (t \o h) \o (e \o w) = t \o (h \o (e \o w))
      <4> DEFINE q == e \o w
      <4>1. q \in Seq(Byte) /\ t \in Seq(Byte)
        BY <3>1, <3>2
      <4>. HIDE DEF q
      <4>2. (t \o h) \o q = t \o (h \o q)
        BY <2>1, <4>1, Associates, ZenonT(60)
      <4>. QED BY <4>2 DEF q
    <3>5. z = h \o (e \o w)
      BY <1>1 DEF h
    <3>. QED BY <3>3, <3>4, <3>5
  <2>. HIDE DEF u
  <2>6. Tail(s) = u \o w /\ Dtv!UpToDelimiter(Tail(s)) = u
    BY <1>2, <2>2, <2>5
  <2>7. w \in Seq(Byte) /\ w # <<>> /\ s \in Seq(Byte) /\ s # <<>>
    BY <1>1, <1>2
  <2>8. Delimits(s, u, w)
    BY <2>4, <2>6, <2>7, Delimited
  <2>9. EndsWith(Dtv!Reading(Tail(w)), g) /\ w[1] = 85
    BY <1>1
  <2>. QED BY <1>6, <1>9, <2>4, <2>7, <2>8, <2>9
<1>10. Stops(t) \/ GoesOn(t) \/ Hangs(t)
  BY <1>3, ScanEnds
<1>11. EndsWith(Dtv!Reading(s), g)
  BY <1>5, <1>7, <1>8, <1>9, <1>10
<1>. QED BY <1>11 DEF s

\* So whatever noise comes before two frames, the reading ends with the second.
LEMMA SecondIsFound ==
  ASSUME NEW f \in DtvFrames, NEW g \in DtvFrames, NEW y \in Seq(Byte)
  PROVE  EndsWith(Dtv!Reading((y \o Dtv!Assemble(f)) \o Dtv!Assemble(g)), g)
<1> DEFINE z == Dtv!Assemble(f) \o Dtv!Assemble(g)
           e == Escaped(f)
           w == Behind(Dtv!Assemble(g))
           P == {s \in Seq(Byte) : EndsWith(Dtv!Reading(s \o z), g)}
<1>1. TwoFrames(z, e, w, g)
  BY TwoAreRead
<1>2. Dtv!Assemble(f) \in Seq(Byte) /\ Dtv!Assemble(g) \in Seq(Byte)
  BY DtvAssembles
<1>3. (y \o Dtv!Assemble(f)) \o Dtv!Assemble(g) = y \o z
  BY <1>2, Associates
<1>. HIDE DEF z, e, w
<1>4. \A s \in Seq(Byte) : s \in P <=> EndsWith(Dtv!Reading(s \o z), g)
  OBVIOUS
<1>5. P \in SUBSET Seq(Byte)
  OBVIOUS
<1>. HIDE DEF P
<1>6. ASSUME NEW s \in Seq(Byte), \A t \in Seq(Byte) : Len(t) < Len(s) => t \in P
      PROVE  s \in P
  <2>1. CASE s = <<>>
    <3>1. z \in Seq(Byte) /\ EndsWith(Dtv!Reading(z), g)
      BY <1>1 DEF TwoFrames
    <3>2. <<>> \o z = z
      BY <3>1, ConcatEmptySeq
    <3>. QED BY <1>4, <2>1, <3>1, <3>2
  <2>2. CASE s # <<>>
    <3>1. \A t \in Seq(Byte) : Len(t) < Len(s) => EndsWith(Dtv!Reading(t \o z), g)
      BY <1>4, <1>6
    <3>2. EndsWith(Dtv!Reading(s \o z), g)
      BY <1>1, <2>2, <3>1, ThroughNoise
    <3>. QED BY <1>4, <3>2
  <2>. QED BY <2>1, <2>2
<1>7. P = Seq(Byte)
  BY <1>5, <1>6, StringInduction
<1>8. EndsWith(Dtv!Reading(y \o z), g)
  BY <1>4, <1>7
<1>. QED BY <1>3, <1>8

\* Of two frames on end on the steam bus the second is found, whatever noise
\* came before them and however it was cut into reads, if none was cleared away.
THEOREM NoiseHidesOneFrame == Spec => []NoiseCostsOneFrame
<1>1. ASSUME Inv PROVE NoiseCostsOneFrame
  <2> DEFINE n == Len(script.pieces)
             f == script.pieces[n - 1].frame
             g == script.pieces[n].frame
             seqs == [i \in 1..Len(script.pieces) |-> Bytes(script.pieces[i])]
  <2>1. SUFFICES ASSUME script.protocol = "dtv", overflowed = 0,
                        turns < MAX_FRAMES_PER_CHUNK, received = Len(stream), since = 0,
                        n >= 2, script.pieces[n].is = "dtv", script.pieces[n - 1].is = "dtv"
                 PROVE  found # <<>> /\ found[Len(found)] = g
    BY DEF NoiseCostsOneFrame
  <2>2. /\ script.pieces \in Seq(Pieces) /\ stream = FlattenSeq(seqs)
        /\ stream \in Seq(Byte) /\ found \in Seq(FramesOf(script.protocol))
        /\ rx \in Seq(Byte)
    BY <1>1 DEF Inv, Shapes
  <2>3. n \in Nat /\ n \in 1..n /\ n - 1 \in 1..n
    BY <2>1, <2>2, LenIsNat
  <2>4. script.pieces[n] \in Pieces /\ script.pieces[n - 1] \in Pieces
    BY <2>2, <2>3, ElementOfSeq
  <2>5. /\ g \in DtvFrames /\ Bytes(script.pieces[n]) = Dtv!Assemble(g)
        /\ f \in DtvFrames /\ Bytes(script.pieces[n - 1]) = Dtv!Assemble(f)
    BY <2>1, <2>4 DEF Pieces, Bytes
  <2>6. seqs \in Seq(Seq(Byte)) /\ Len(seqs) = n
    BY <2>2, ScriptIsBytes
  <2>7. seqs[n] = Dtv!Assemble(g) /\ seqs[n - 1] = Dtv!Assemble(f)
    BY <2>3, <2>5
  <2>. HIDE DEF n, f, g, seqs
  <2>8. PICK y \in Seq(Byte) : FlattenSeq(seqs) = (y \o seqs[n - 1]) \o seqs[n]
    BY <2>1, <2>6, Flattened
  <2>9. EndsWith(Dtv!Reading(stream), g)
    <3>1. EndsWith(Dtv!Reading((y \o Dtv!Assemble(f)) \o Dtv!Assemble(g)), g)
      BY <2>5, SecondIsFound
    <3>. QED BY <2>2, <2>7, <2>8, <3>1
  <2>10. found = Dtv!Reading(stream)
    <3>1. found \o Reading(rx) = Reading(SubSeq(stream, since + 1, received)) /\ Reading(rx) = <<>>
      BY <1>1, <2>1, ReadsOut DEF Inv, Settled
    <3>5. since + 1 = 1
      BY <2>1
    <3>2. SubSeq(stream, 1, received) = stream
      BY <2>1, <2>2, SubSeqFull
    <3>3. found \o <<>> = found
      BY <2>2, ConcatEmptySeq
    <3>4. Reading(stream) = Dtv!Reading(stream)
      BY <2>1 DEF Reading
    <3>. QED BY <3>1, <3>2, <3>3, <3>4, <3>5
  <2>11. PICK p \in Seq(DtvFrames) : found = p \o One(g)
    BY <2>9, <2>10 DEF EndsWith
  <2>12. One(g) \in Seq(DtvFrames) /\ Len(One(g)) = 1 /\ One(g)[1] = g
    BY <2>5, Ones
  <2>13. /\ Len(found) = Len(p) + 1 /\ Len(p) \in Nat
         /\ found[Len(p) + 1] = g
    <3>1. /\ Len(p \o One(g)) = Len(p) + Len(One(g))
          /\ \A k \in 1..Len(One(g)) : (p \o One(g))[Len(p) + k] = One(g)[k]
      <4>1. One(g) \in Seq(DtvFrames)
        BY <2>12
      <4>2. p \in Seq(DtvFrames)
        BY <2>11
      <4>. QED BY <4>1, <4>2, MoreBehind
    <3>2. 1 \in 1..Len(One(g))
      BY <2>12
    <3>. QED BY <2>11, <2>12, <3>1, <3>2, LenIsNat
  <2>14. found # <<>>
    BY <2>13, LenOfNothing
  <2>. QED BY <2>13, <2>14
<1>. QED BY <1>1, ReceiverInvariant, PTL

\* An assembled frame of a valve bus is sound, and is that frame to its last byte.
LEMMA SaturnIsSound ==
  ASSUME NEW f \in SaturnFrames, Listening.strict => f.address = Listening.master
  PROVE  /\ Saturn!Sound(Saturn!Assemble(f), Listening)
         /\ Saturn!FrameIn(Saturn!Assemble(f)) = f
         /\ Saturn!Total(Saturn!Assemble(f)) = Len(Saturn!Assemble(f))
         /\ Saturn!Behind(Saturn!Assemble(f)) = <<>>
<1> DEFINE header == <<170, 85, f.address, f.control, Len(f.data)>>
           data == f.data
           covered == header \o data
           s == Saturn!Assemble(f)
           m == Len(data)
<1>1. /\ data \in Seq(Byte) /\ m \in Nat /\ m <= MAX_DATA_LEN
      /\ f.address \in Byte /\ f.control \in Byte
      /\ f = [address |-> f.address, control |-> f.control, data |-> data]
  BY LenIsNat DEF SaturnFrames
<1>2. s \in Seq(Byte)
  BY SaturnAssembles
<1>3. s = Append(covered, Saturn!Checksum(covered))
  BY DEF Saturn!Assemble, Saturn!SYNC1, Saturn!SYNC2
<1>4. /\ header[1] = 170 /\ header[2] = 85 /\ header[3] = f.address /\ header[4] = f.control
      /\ header[5] = m /\ Len(header) = 5
  OBVIOUS
<1>5. header \in Seq(Nat \cup Byte) /\ data \in Seq(Nat \cup Byte)
  <2> DEFINE N == Nat \cup Byte
  <2>1. 170 \in N /\ 85 \in N /\ f.address \in N /\ f.control \in N /\ m \in N
    BY <1>1
  <2>2. data \in Seq(N)
    BY <1>1
  <2>. HIDE DEF N, m
  <2>3. <<170, 85, f.address, f.control, m>> \in Seq(N)
    BY <2>1
  <2>. QED BY <2>2, <2>3 DEF N, m
<1>. HIDE DEF header, data, m, s
<1>6. /\ covered \in Seq(Nat \cup Byte) /\ Len(covered) = Len(header) + Len(data)
      /\ \A k \in 1..Len(header) : covered[k] = header[k]
      /\ \A k \in 1..Len(data) : covered[Len(header) + k] = data[k]
  BY <1>5, MoreBehind
<1>7. /\ covered[1] = 170 /\ covered[2] = 85 /\ covered[3] = f.address /\ covered[4] = f.control
      /\ covered[5] = m
  BY <1>4, <1>6
<1>8. Len(covered) = 5 + m /\ \A k \in 1..m : covered[5 + k] = data[k]
  BY <1>4, <1>6 DEF m
<1>. HIDE DEF covered
<1> DEFINE n == Len(s)
<1>9. /\ n = Len(covered) + 1 /\ s[n] = Saturn!Checksum(covered)
      /\ \A k \in 1..Len(covered) : s[k] = covered[k]
  <2>1. /\ Len(Append(covered, Saturn!Checksum(covered))) = Len(covered) + 1
        /\ Append(covered, Saturn!Checksum(covered))[Len(covered) + 1] = Saturn!Checksum(covered)
        /\ \A k \in 1..Len(covered) :
             Append(covered, Saturn!Checksum(covered))[k] = covered[k]
    <3>1. covered \in Seq(Nat \cup Byte \cup {Saturn!Checksum(covered)})
      BY <1>6
    <3>. QED BY <3>1, AppendProperties
  <2>. QED BY <1>3, <2>1
<1>10. n = 6 + m /\ n - 1 = 5 + m /\ n \in Nat /\ n \in 1..n /\ Len(covered) = n - 1
  BY <1>1, <1>8, <1>9
<1>11. /\ s[1] = 170 /\ s[2] = 85 /\ s[3] = f.address /\ s[4] = f.control /\ s[5] = m
       /\ \A k \in 1..m : s[5 + k] = data[k]
  <2>1. /\ 1 \in 1..Len(covered) /\ 2 \in 1..Len(covered) /\ 3 \in 1..Len(covered)
        /\ 4 \in 1..Len(covered) /\ 5 \in 1..Len(covered)
        /\ \A k \in 1..m : 5 + k \in 1..Len(covered)
    BY <1>1, <1>8
  <2>. QED BY <1>7, <1>8, <1>9, <2>1
<1>12. Saturn!Total(s) = n
  BY <1>10, <1>11 DEF Saturn!Total, Saturn!FRAME_OVERHEAD
<1>13. SubSeq(s, 1, n) = s
  BY <1>2, SubSeqFull
<1>14. SubSeq(s, 1, n - 1) = covered
  <2> DEFINE a == SubSeq(s, 1, n - 1)
  <2>1. n - 1 \in 0..Len(s) /\ 1 \in Nat \ {0} /\ 1 <= n - 1 /\ (n - 1) - 1 + 1 = n - 1
          /\ \A k \in 1..(n - 1) : 1 + k - 1 = k
    BY <1>1, <1>10
  <2>2. /\ a \in Seq(Byte) /\ Len(a) = IF 1 <= n - 1 THEN (n - 1) - 1 + 1 ELSE 0
        /\ \A k \in 1..((n - 1) - 1 + 1) : a[k] = s[1 + k - 1]
    BY <1>2, <2>1, Cut
  <2>. HIDE DEF a, n
  <2>3. a \in Seq(Nat \cup Byte) /\ Len(a) = n - 1 /\ \A k \in 1..(n - 1) : a[k] = covered[k]
    BY <1>9, <1>10, <2>1, <2>2
  <2>4. a = covered
    BY <1>6, <1>10, <2>3, SeqEqual
  <2>. QED BY <2>4 DEF a
<1>15. SumsToZero(s)
  <2>1. s[n] = Saturn!Checksum(SubSeq(s, 1, n - 1)) <=> SumsToZero(SubSeq(s, 1, n))
    BY <1>2, <1>10, ChecksumIsLast
  <2>. HIDE DEF n
  <2>. QED BY <1>9, <1>13, <1>14, <2>1
<1>16. Saturn!Sound(s, Listening)
  <2>1. n >= 5 /\ n > 1 /\ n >= Saturn!Total(s)
    BY <1>1, <1>10, <1>12
  <2>2. Saturn!Heads(s)
    BY <1>11, <2>1 DEF Saturn!Heads, Saturn!SYNC1, Saturn!SYNC2
  <2>3. Saturn!Plausible(s, Listening)
    BY <1>1, <1>11 DEF Saturn!Plausible
  <2>4. Saturn!SumsToZero(SubSeq(s, 1, Saturn!Total(s)))
    <3>. HIDE DEF n
    <3>1. SubSeq(s, 1, Saturn!Total(s)) = s
      BY <1>12, <1>13
    <3>2. Saturn!SumsToZero(s)
      BY <1>15 DEF SumsToZero, Saturn!SumsToZero, ByteSum, Saturn!ByteSum
    <3>. QED BY <3>1, <3>2
  <2>. QED BY <2>1, <2>2, <2>3, <2>4 DEF Saturn!Sound, Saturn!HEADER_LEN
<1>17. SubSeq(s, 6, n - 1) = data
  <2> DEFINE a == SubSeq(s, 6, n - 1)
  <2>1. /\ 6 \in Nat \ {0} /\ n - 1 \in 0..Len(s) /\ (n - 1) - 6 + 1 = m
        /\ (~ (6 <= n - 1) => m = 0)
        /\ \A k \in 1..m : 6 + k - 1 = 5 + k
    BY <1>1, <1>10
  <2>2. a \in Seq(Byte) /\ Len(a) = m /\ \A k \in 1..m : a[k] = s[6 + k - 1]
    <3>1. /\ a \in Seq(Byte) /\ Len(a) = IF 6 <= n - 1 THEN (n - 1) - 6 + 1 ELSE 0
          /\ \A k \in 1..((n - 1) - 6 + 1) : a[k] = s[6 + k - 1]
      BY <1>2, <2>1, Cut
    <3>. HIDE DEF a, n
    <3>. QED BY <2>1, <3>1
  <2>. HIDE DEF a, n
  <2>3. \A k \in 1..m : a[k] = data[k]
    BY <1>11, <2>1, <2>2, SMTT(30)
  <2>4. Len(data) = m
    BY DEF m
  <2>5. a = data
    BY <1>1, <2>2, <2>3, <2>4, SeqEqual
  <2>. QED BY <2>5 DEF a
<1>18. Saturn!FrameIn(s) = f
  <2>1. Saturn!FrameIn(s) = [address |-> s[3], control |-> s[4],
                             data |-> SubSeq(s, 6, Saturn!Total(s) - 1)]
    BY DEF Saturn!FrameIn, Saturn!Frame, Saturn!HEADER_LEN
  <2>. HIDE DEF n
  <2>. QED BY <1>1, <1>11, <1>12, <1>17, <2>1
<1>19. Saturn!Behind(s) = <<>>
  <2>1. Saturn!Behind(s) \in Seq(Byte) /\ Len(Saturn!Behind(s)) = n - Saturn!Total(s)
    BY <1>2, <1>16, SaturnFrameIsTyped
  <2>2. Len(Saturn!Behind(s)) <= 0
    BY <1>10, <1>12, <2>1
  <2>. QED BY <2>1, <2>2, NothingLeft
<1>. QED BY <1>12, <1>16, <1>18, <1>19 DEF s

\* What was assembled is read back, whatever comes behind it, if on a valve bus it
\* is for the master the link speaks as.
THEOREM FramesAreReadBack ==
  /\ \A f \in DtvFrames, x \in Seq(Byte) :
       Dtv!Reading(Dtv!Assemble(f) \o x) = <<f>> \o Dtv!Reading(x)
  /\ \A f \in SaturnFrames, x \in Seq(Byte) :
       f.address = MASTER =>
         Saturn!Reading(Saturn!Assemble(f) \o x, Listening)
           = <<f>> \o Saturn!Reading(x, Listening)
<1>1. ASSUME NEW f \in DtvFrames, NEW x \in Seq(Byte)
      PROVE  Dtv!Reading(Dtv!Assemble(f) \o x) = <<f>> \o Dtv!Reading(x)
  BY FrameIsRead DEF One
<1>2. ASSUME NEW f \in SaturnFrames, NEW x \in Seq(Byte),
             f.address = MASTER
      PROVE  Saturn!Reading(Saturn!Assemble(f) \o x, Listening)
               = <<f>> \o Saturn!Reading(x, Listening)
  <2> DEFINE s == Saturn!Assemble(f)
             t == s \o x
  <2>1. /\ Saturn!Sound(s, Listening) /\ Saturn!FrameIn(s) = f
        /\ Saturn!Total(s) = Len(s) /\ Saturn!Behind(s) = <<>>
    <3>1. f.address = Listening.master
      BY <1>2 DEF Listening, Expectation, Saturn!ResponseTo
    <3>. QED BY <3>1, SaturnIsSound
  <2>2. s \in Seq(Byte)
    BY SaturnAssembles
  <2>. HIDE DEF s
  <2>3. Len(s) \in Nat /\ Len(s) >= 5 /\ Len(s) >= Saturn!Total(s)
    BY <2>1, <2>2, LenIsNat DEF Saturn!Sound, Saturn!HEADER_LEN
  <2>4. /\ Saturn!Sound(t, Listening) <=> Saturn!Sound(s, Listening)
        /\ Saturn!FrameIn(t) = Saturn!FrameIn(s)
        /\ Saturn!Behind(t) = Saturn!Behind(s) \o x
    BY <2>2, <2>3, SaturnIsStable
  <2>5. <<>> \o x = x
    BY ConcatEmptySeq
  <2>6. t \in Seq(Byte) /\ Len(t) = Len(s) + Len(x)
    BY <2>2, MoreBehind
  <2>7. t # <<>>
    BY <2>3, <2>6, LenIsNat, LenOfNothing
  <2>. HIDE DEF t
  <2>8. Saturn!Reading(t, Listening)
          = <<Saturn!FrameIn(t)>> \o Saturn!Reading(Saturn!Behind(t), Listening)
    BY <2>1, <2>4, <2>6, <2>7, SaturnReading
  <2>9. Saturn!FrameIn(t) = f /\ Saturn!Behind(t) = x
    BY <2>1, <2>4, <2>5
  <2>10. Saturn!Reading(t, Listening)
           = <<f>> \o Saturn!Reading(x, Listening)
    BY <2>8, <2>9
  <2>. QED BY <2>10 DEF s, t
<1>. QED BY <1>1, <1>2

=============================================================================
