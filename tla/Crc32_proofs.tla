---------------------------- MODULE Crc32_proofs ----------------------------
(***************************************************************************)
(* The table driven loop computes the remainder of a division of           *)
(* polynomials, for words and bytes of any size and any generator.         *)
(***************************************************************************)
EXTENDS Crc32, SequenceTheorems, WellFoundedInduction, TLAPS

-----------------------------------------------------------------------------
(* Induction and recursion, with sets and functions in place of operators.   *)

LEMMA Least ==
  ASSUME NEW T \in SUBSET Nat, T # {}
  PROVE  \E x \in T : \A y \in T : ~(y < x)
<1> DEFINE R == OpToRel(<, Nat)
<1>1. IsWellFoundedOn(R, Nat)
  BY NatLessThanWellFounded
<1> HIDE DEF R
<1>2. \E x \in T : \A y \in T : ~(<<y, x>> \in R)
  BY <1>1, WFMin, Zenon
<1>3. PICK x \in T : \A y \in T : ~(<<y, x>> \in R)
  BY <1>2
<1>4. ASSUME NEW y \in T, y < x
      PROVE  <<y, x>> \in R
  <2>1. <<y, x>> \in Nat \X Nat /\ <<y, x>>[1] < <<y, x>>[2]
    BY <1>4
  <2> QED
    BY <2>1, Zenon DEF R, OpToRel
<1> QED
  BY <1>3, <1>4

LEMMA Induction ==
  ASSUME NEW k \in Nat, NEW T, 0 \in T, \A i \in 1..k : i - 1 \in T => i \in T
  PROVE  \A i \in 0..k : i \in T
<1> DEFINE Out == {i \in 0..k : i \notin T}
<1> SUFFICES ASSUME Out # {}
             PROVE  FALSE
  OBVIOUS
<1>1. Out \in SUBSET Nat
  OBVIOUS
<1> HIDE DEF Out
<1>2. PICK i \in Out : \A j \in Out : ~(j < i)
  BY <1>1, Least
<1>3. i \in 1..k
  BY <1>2 DEF Out
<1>4. i - 1 \in 0..k /\ i - 1 < i
  BY <1>3
<1> QED
  BY <1>2, <1>3, <1>4 DEF Out

\* A function may be defined by recursion: step[i] takes its value for i - 1 to
\* that for i.
Steps(k, V) == [1..k -> [V -> V]]

LEMMA Recursion ==
  ASSUME NEW k \in Nat, NEW V, NEW v \in V, NEW step \in Steps(k, V)
  PROVE  \E f \in [0..k -> V] : f[0] = v /\ \A i \in 1..k : f[i] = step[i][f[i - 1]]
<1> DEFINE Upto(n) == \E f \in [0..n -> V] :
             f[0] = v /\ \A i \in 1..n : f[i] = step[i][f[i - 1]]
           T == {n \in 0..k : Upto(n)}
<1>1. 0 \in T
  <2> DEFINE f == [i \in 0..0 |-> v]
  <2>1. f \in [0..0 -> V] /\ f[0] = v
    OBVIOUS
  <2>2. 1..0 = {}
    OBVIOUS
  <2> HIDE DEF f
  <2>3. Upto(0)
    BY <2>1, <2>2
  <2> QED
    BY <2>3
<1>2. ASSUME NEW n \in 1..k, n - 1 \in T
      PROVE  n \in T
  <2>1. PICK f \in [0..n - 1 -> V] :
          f[0] = v /\ \A i \in 1..n - 1 : f[i] = step[i][f[i - 1]]
    BY <1>2
  <2>2. f[n - 1] \in V /\ step[n][f[n - 1]] \in V
    BY <2>1 DEF Steps
  <2> DEFINE g == [i \in 0..n |-> IF i = n THEN step[n][f[n - 1]] ELSE f[i]]
  <2>3. g \in [0..n -> V]
    BY <2>1, <2>2
  <2>4. g[0] = v
    BY <2>1
  <2>5. ASSUME NEW i \in 1..n PROVE g[i] = step[i][g[i - 1]]
    <3>1. g[i - 1] = f[i - 1]
      OBVIOUS
    <3>2. i # n => i \in 1..n - 1
      OBVIOUS
    <3> QED
      BY <2>1, <3>1, <3>2
  <2> HIDE DEF g
  <2>6. Upto(n)
    BY <2>3, <2>4, <2>5
  <2> QED
    BY <2>6
<1> HIDE DEF T
<1>3. \A i \in 0..k : i \in T
  BY <1>1, <1>2, Induction
<1>4. Upto(k)
  BY <1>3 DEF T
<1> QED
  BY <1>4
-----------------------------------------------------------------------------
(* Division, step by step.                                                   *)

Top == WordBits + ByteBits * MaxBytes
Polys == SUBSET (0..Top)
Words == SUBSET (0..WordBits - 1)

\* Multiplication by a power of x.
Times(p, m) == {e + m : e \in p}
Generator(m) == Times(CRC32_POLY \cup {WordBits}, m)

\* One step of the division takes away exponent n.
Reduce(p, n) == IF n \in p THEN Xor(p, Generator(n - WordBits)) ELSE p

Aligned(n) == {e + n + 1 - WordBits : e \in CRC32_POLY \cup {WordBits}}

Division(p) ==
  LET r[n \in WordBits - 1..Top] ==
        IF n = Top THEN p
        ELSE IF n + 1 \in r[n + 1] THEN Xor(r[n + 1], Aligned(n)) ELSE r[n + 1]
  IN  r

Rem(p) == Division(p)[WordBits - 1]

LEMMA Numbers ==
  /\ WordBits \in Nat /\ ByteBits \in Nat /\ MaxBytes \in Nat
  /\ WordBits >= 1 /\ ByteBits >= 1 /\ ByteBits <= WordBits
  /\ ByteBits * MaxBytes \in Nat /\ Top \in Nat /\ Top >= WordBits
<1>1. WordBits \in Nat /\ ByteBits \in Nat /\ MaxBytes \in Nat
  BY PolyAssumption
<1>2. ByteBits * MaxBytes \in Nat
  BY <1>1
<1> QED
  BY <1>1, <1>2, PolyAssumption DEF Top

LEMMA XorFacts ==
  ASSUME NEW a, NEW b, NEW c
  PROVE  /\ Xor(a, b) = Xor(b, a)
         /\ Xor(Xor(a, b), c) = Xor(a, Xor(b, c))
         /\ Xor(a, a) = {} /\ Xor(a, {}) = a
         /\ Xor(a, b) = {} => a = b
  BY DEF Xor

\* A shift moves every exponent, and nothing else.
LEMMA TimesFacts ==
  ASSUME NEW m \in Int, NEW a \in SUBSET Int, NEW b \in SUBSET Int
  PROVE  /\ Times(a, m) \in SUBSET Int
         /\ \A e \in Int : e \in Times(a, m) <=> e - m \in a
         /\ Times(Xor(a, b), m) = Xor(Times(a, m), Times(b, m))
         /\ \A n \in Int : Times(Times(a, m), n) = Times(a, m + n)
<1>1. Times(a, m) \in SUBSET Int
  BY DEF Times
<1>2. \A e \in Int : e \in Times(a, m) <=> e - m \in a
  BY DEF Times
<1>3. \A e \in Int : e \in Times(b, m) <=> e - m \in b
  BY DEF Times
<1>4. Xor(a, b) \in SUBSET Int /\ Times(b, m) \in SUBSET Int
  BY DEF Xor, Times
<1>5. \A e \in Int : e \in Times(Xor(a, b), m) <=> e - m \in Xor(a, b)
  BY <1>4 DEF Times
<1>6. Times(Xor(a, b), m) = Xor(Times(a, m), Times(b, m))
  <2>1. Times(Xor(a, b), m) \in SUBSET Int
    BY <1>4 DEF Times
  <2> QED
    BY <1>1, <1>2, <1>3, <1>4, <1>5, <2>1 DEF Xor
<1>7. ASSUME NEW n \in Int PROVE Times(Times(a, m), n) = Times(a, m + n)
  <2>1. \A e \in a : (e + m) + n = e + (m + n)
    OBVIOUS
  <2> QED
    BY <2>1 DEF Times
<1> QED
  BY <1>1, <1>2, <1>6, <1>7

LEMMA GeneratorFacts ==
  ASSUME NEW m \in Nat
  PROVE  /\ Generator(m) \in SUBSET (0..WordBits + m)
         /\ WordBits + m \in Generator(m)
         /\ \A e \in Generator(m) : e >= m
         /\ \A n \in Nat : Times(Generator(m), n) = Generator(m + n)
<1>1. CRC32_POLY \cup {WordBits} \in SUBSET Int
  BY PolyAssumption, Numbers
<1>2. \A n \in Nat : Times(Generator(m), n) = Generator(m + n)
  BY <1>1, TimesFacts DEF Generator
<1>3. Generator(m) \in SUBSET (0..WordBits + m) /\ \A e \in Generator(m) : e >= m
  BY PolyAssumption, Numbers DEF Generator, Times
<1>4. WordBits + m \in Generator(m)
  BY DEF Generator, Times
<1> QED
  BY <1>2, <1>3, <1>4

LEMMA DivisionSteps ==
  ASSUME NEW p \in Polys
  PROVE  /\ Division(p) \in [WordBits - 1..Top -> Polys]
         /\ Division(p)[Top] = p
         /\ \A n \in WordBits - 1..Top - 1 :
              Division(p)[n] = Reduce(Division(p)[n + 1], n + 1)
<1> USE Numbers
<1> DEFINE k == Top - WordBits + 1
           step == [i \in 1..k |-> [q \in Polys |-> Reduce(q, Top + 1 - i)]]
<1>1. ASSUME NEW q \in Polys, NEW n \in WordBits..Top
      PROVE  Reduce(q, n) \in Polys
  <2>1. n - WordBits \in Nat /\ WordBits + (n - WordBits) = n
    OBVIOUS
  <2>2. Generator(n - WordBits) \in SUBSET (0..Top)
    BY <2>1, GeneratorFacts
  <2> QED
    BY <2>2 DEF Reduce, Xor, Polys
<1>2. step \in Steps(k, Polys)
  BY <1>1 DEF Steps
<1>3. k \in Nat /\ k = Top - WordBits + 1
  OBVIOUS
<1>4. \A i \in 1..k, q \in Polys : step[i][q] = Reduce(q, Top + 1 - i)
  OBVIOUS
<1> HIDE DEF step, k
<1>5. PICK f \in [0..k -> Polys] :
        f[0] = p /\ \A i \in 1..k : f[i] = step[i][f[i - 1]]
  BY <1>2, <1>3, Recursion
<1> DEFINE r == [n \in WordBits - 1..Top |-> f[Top - n]]
<1>6. r[Top] = p
  BY <1>5
<1>7. ASSUME NEW n \in WordBits - 1..Top - 1
      PROVE  r[n] = Reduce(r[n + 1], n + 1)
  <2>1. Top - n \in 1..k /\ Top + 1 - (Top - n) = n + 1 /\ (Top - n) - 1 = Top - (n + 1)
    BY <1>3
  <2>2. r[n] = f[Top - n] /\ r[n + 1] = f[Top - (n + 1)]
    OBVIOUS
  <2>3. f[Top - n] = step[Top - n][f[(Top - n) - 1]]
    BY <1>5, <2>1
  <2>4. (Top - n) - 1 \in 0..k
    BY <1>3, <2>1
  <2>5. f[(Top - n) - 1] \in Polys
    BY <1>5, <2>4
  <2> QED
    BY <1>4, <2>1, <2>2, <2>3, <2>5
<1> DEFINE Def(g) ==
      g = [n \in WordBits - 1..Top |->
             IF n = Top THEN p
             ELSE IF n + 1 \in g[n + 1] THEN Xor(g[n + 1], Aligned(n)) ELSE g[n + 1]]
<1>8. ASSUME NEW n \in WordBits - 1..Top - 1, NEW q
      PROVE  Reduce(q, n + 1) = IF n + 1 \in q THEN Xor(q, Aligned(n)) ELSE q
  <2>1. \A e \in CRC32_POLY \cup {WordBits} :
          e + n + 1 - WordBits = e + (n + 1 - WordBits)
    BY PolyAssumption
  <2>2. Aligned(n) = Generator(n + 1 - WordBits)
    BY <2>1 DEF Aligned, Generator, Times
  <2> QED
    BY <2>2 DEF Reduce
<1>9. Def(r)
  <2> DEFINE d(n) == IF n = Top THEN p
             ELSE IF n + 1 \in r[n + 1] THEN Xor(r[n + 1], Aligned(n)) ELSE r[n + 1]
  <2>1. ASSUME NEW n \in WordBits - 1..Top
        PROVE  r[n] = d(n)
    <3>1. CASE n = Top
      BY <1>6, <3>1
    <3>2. CASE n # Top
      <4>1. n \in WordBits - 1..Top - 1
        BY <3>2
      <4>2. r[n] = Reduce(r[n + 1], n + 1)
        BY <1>7, <4>1
      <4> HIDE DEF r
      <4> QED
        BY <1>8, <3>2, <4>1, <4>2
    <3> QED
      BY <3>1, <3>2
  <2>2. r = [n \in WordBits - 1..Top |-> r[n]]
    OBVIOUS
  <2> HIDE DEF r
  <2>3. r = [n \in WordBits - 1..Top |-> d(n)]
    BY <2>1, <2>2, Zenon
  <2> QED
    BY <2>3, Zenon
<1> HIDE DEF r
<1>10. Division(p) = CHOOSE g : Def(g)
  BY DEF Division
<1>11. Def(Division(p))
  BY <1>9, <1>10, Zenon
<1> DEFINE D == Division(p)
<1>12. D = [n \in WordBits - 1..Top |-> D[n]]
  BY <1>11
<1> HIDE DEF D
<1>13. D[Top] = p /\ \A n \in WordBits - 1..Top - 1 : D[n] = Reduce(D[n + 1], n + 1)
  <2> SUFFICES Def(D) => D[Top] = p /\ \A n \in WordBits - 1..Top - 1 :
                            D[n] = Reduce(D[n + 1], n + 1)
    BY <1>11 DEF D
  <2> HAVE Def(D)
  <2>1. D[Top] = p
    OBVIOUS
  <2>2. ASSUME NEW n \in WordBits - 1..Top - 1
        PROVE  D[n] = Reduce(D[n + 1], n + 1)
    <3>1. n \in WordBits - 1..Top /\ n # Top
      OBVIOUS
    <3>2. D[n] = IF n + 1 \in D[n + 1] THEN Xor(D[n + 1], Aligned(n)) ELSE D[n + 1]
      BY <3>1
    <3> QED
      BY <1>8, <3>2
  <2> QED
    BY <2>1, <2>2
<1> DEFINE T == {i \in 0..k : D[Top - i] \in Polys}
<1>14. 0 \in T
  BY <1>3, <1>13
<1>15. ASSUME NEW i \in 1..k, i - 1 \in T PROVE i \in T
  <2>1. Top - i \in WordBits - 1..Top - 1 /\ Top - (i - 1) = (Top - i) + 1
    BY <1>3
  <2>2. D[Top - i] = Reduce(D[(Top - i) + 1], (Top - i) + 1) /\ D[(Top - i) + 1] \in Polys
    BY <1>13, <1>15, <2>1
  <2>3. (Top - i) + 1 \in WordBits..Top
    BY <2>1
  <2>4. D[Top - i] \in Polys
    BY <1>1, <2>2, <2>3
  <2> QED
    BY <1>3, <2>4
<1> HIDE DEF T
<1>16. \A i \in 0..k : i \in T
  BY <1>3, <1>14, <1>15, Induction
<1>17. ASSUME NEW n \in WordBits - 1..Top PROVE D[n] \in Polys
  <2>1. Top - n \in 0..k /\ Top - (Top - n) = n
    BY <1>3
  <2> QED
    BY <1>16, <2>1 DEF T
<1> QED
  BY <1>12, <1>13, <1>17 DEF D
LEMMA Downward ==
  ASSUME NEW a \in Int, NEW b \in Int, a <= b, NEW T,
         b \in T, \A n \in a..b - 1 : n + 1 \in T => n \in T
  PROVE  \A n \in a..b : n \in T
<1> DEFINE k == b - a
           U == {i \in 0..k : b - i \in T}
<1>1. k \in Nat /\ k = b - a
  OBVIOUS
<1>2. 0 \in U
  BY <1>1
<1>3. ASSUME NEW i \in 1..k, i - 1 \in U PROVE i \in U
  <2>1. b - i \in a..b - 1 /\ b - (i - 1) = (b - i) + 1
    BY <1>1
  <2>2. (b - i) + 1 \in T
    BY <1>3, <2>1
  <2> QED
    BY <1>1, <2>1, <2>2
<1> HIDE DEF k, U
<1>4. \A i \in 0..k : i \in U
  BY <1>1, <1>2, <1>3, Induction
<1>5. ASSUME NEW n \in a..b PROVE n \in T
  <2>1. b - n \in 0..k /\ b - (b - n) = n
    BY <1>1
  <2> QED
    BY <1>4, <2>1 DEF U
<1> QED
  BY <1>5

LEMMA XorPolys ==
  ASSUME NEW a \in Polys, NEW b \in Polys
  PROVE  Xor(a, b) \in Polys
  BY DEF Polys, Xor

\* No exponent above n is left when exponents down to n + 1 were taken away.
LEMMA DivisionBound ==
  ASSUME NEW p \in Polys, NEW n \in WordBits - 1..Top
  PROVE  Division(p)[n] \in SUBSET (0..n)
<1> USE Numbers
<1> DEFINE T == {m \in WordBits - 1..Top : Division(p)[m] \in SUBSET (0..m)}
<1>1. Top \in T
  BY DivisionSteps DEF Polys
<1>2. ASSUME NEW m \in WordBits - 1..Top - 1, m + 1 \in T PROVE m \in T
  <2> DEFINE q == Division(p)[m + 1]
  <2>1. Division(p)[m] = Reduce(q, m + 1) /\ q \in SUBSET (0..m + 1)
    BY <1>2, DivisionSteps
  <2>2. m + 1 - WordBits \in Nat /\ WordBits + (m + 1 - WordBits) = m + 1
    OBVIOUS
  <2>3. /\ Generator(m + 1 - WordBits) \in SUBSET (0..m + 1)
        /\ m + 1 \in Generator(m + 1 - WordBits)
    BY <2>2, GeneratorFacts
  <2> HIDE DEF q
  <2>4. m + 1 \notin Reduce(q, m + 1) /\ Reduce(q, m + 1) \in SUBSET (0..m + 1)
    <3>1. CASE m + 1 \in q
      <4> DEFINE g == Generator(m + 1 - WordBits)
      <4>1. Reduce(q, m + 1) = Xor(q, g)
        BY <3>1 DEF Reduce
      <4>2. g \in SUBSET (0..m + 1) /\ m + 1 \in g
        BY <2>3
      <4> HIDE DEF g
      <4> QED
        BY <2>1, <3>1, <4>1, <4>2 DEF Xor
    <3>2. CASE m + 1 \notin q
      BY <2>1, <3>2 DEF Reduce
    <3> QED
      BY <3>1, <3>2
  <2>5. \A e \in 0..m + 1 : e # m + 1 => e \in 0..m
    OBVIOUS
  <2>6. Reduce(q, m + 1) \in SUBSET (0..m)
    BY <2>4, <2>5
  <2> QED
    BY <2>1, <2>6
<1> HIDE DEF T
<1>3. WordBits - 1 \in Int /\ Top \in Int /\ WordBits - 1 <= Top
  OBVIOUS
<1>4. n \in T
  BY <1>1, <1>2, <1>3, Downward
<1> QED
  BY <1>4 DEF T

\* Division is linear.
LEMMA DivisionXor ==
  ASSUME NEW p \in Polys, NEW q \in Polys, NEW n \in WordBits - 1..Top
  PROVE  Division(Xor(p, q))[n] = Xor(Division(p)[n], Division(q)[n])
<1> USE Numbers
<1> DEFINE T == {m \in WordBits - 1..Top :
                   Division(Xor(p, q))[m] = Xor(Division(p)[m], Division(q)[m])}
<1>1. Xor(p, q) \in Polys
  BY XorPolys
<1>2. Top \in T
  BY <1>1, DivisionSteps
<1>3. ASSUME NEW m \in WordBits - 1..Top - 1, m + 1 \in T PROVE m \in T
  <2> DEFINE x == Division(p)[m + 1]
             y == Division(q)[m + 1]
  <2>1. /\ Division(p)[m] = Reduce(x, m + 1) /\ Division(q)[m] = Reduce(y, m + 1)
        /\ Division(Xor(p, q))[m] = Reduce(Division(Xor(p, q))[m + 1], m + 1)
    BY <1>1, DivisionSteps
  <2>2. Division(Xor(p, q))[m + 1] = Xor(x, y)
    BY <1>3
  <2> HIDE DEF x, y
  <2>3. Reduce(Xor(x, y), m + 1) = Xor(Reduce(x, m + 1), Reduce(y, m + 1))
    BY DEF Reduce, Xor
  <2> QED
    BY <2>1, <2>2, <2>3
<1> HIDE DEF T
<1>4. WordBits - 1 \in Int /\ Top \in Int /\ WordBits - 1 <= Top
  OBVIOUS
<1>5. n \in T
  BY <1>2, <1>3, <1>4, Downward
<1> QED
  BY <1>5 DEF T

\* What has no exponent above n is not changed before n is reached.
LEMMA DivisionSmall ==
  ASSUME NEW n \in WordBits - 1..Top, NEW p \in SUBSET (0..n)
  PROVE  p \in Polys /\ Division(p)[n] = p
<1> USE Numbers
<1> DEFINE T == {m \in n..Top : Division(p)[m] = p}
<1>1. p \in Polys
  BY DEF Polys
<1>2. Top \in T
  BY <1>1, DivisionSteps
<1>3. ASSUME NEW m \in n..Top - 1, m + 1 \in T PROVE m \in T
  <2>1. Division(p)[m] = Reduce(Division(p)[m + 1], m + 1)
    BY <1>1, DivisionSteps
  <2>2. m + 1 \notin p /\ Division(p)[m + 1] = p
    BY <1>3
  <2> QED
    BY <2>1, <2>2 DEF Reduce
<1> HIDE DEF T
<1>4. n \in Int /\ Top \in Int /\ n <= Top
  OBVIOUS
<1>5. n \in T
  BY <1>2, <1>3, <1>4, Downward
<1> QED
  BY <1>1, <1>5 DEF T

\* Divisions that agree somewhere end with the same remainder.
LEMMA DivisionMeets ==
  ASSUME NEW p \in Polys, NEW q \in Polys, NEW n \in WordBits - 1..Top,
         Division(p)[n] = Division(q)[n]
  PROVE  Rem(p) = Rem(q)
<1> USE Numbers
<1> DEFINE T == {m \in WordBits - 1..n : Division(p)[m] = Division(q)[m]}
<1>1. n \in T
  OBVIOUS
<1>2. ASSUME NEW m \in WordBits - 1..n - 1, m + 1 \in T PROVE m \in T
  <2> m \in WordBits - 1..Top - 1
    OBVIOUS
  <2>1. /\ Division(p)[m] = Reduce(Division(p)[m + 1], m + 1)
        /\ Division(q)[m] = Reduce(Division(q)[m + 1], m + 1)
    BY DivisionSteps
  <2>2. Division(p)[m + 1] = Division(q)[m + 1]
    BY <1>2
  <2> QED
    BY <2>1, <2>2
<1> HIDE DEF T
<1>3. WordBits - 1 \in Int /\ n \in Int /\ WordBits - 1 <= n
  OBVIOUS
<1>4. WordBits - 1 \in T
  BY <1>1, <1>2, <1>3, Downward
<1> QED
  BY <1>4 DEF T, Rem

-----------------------------------------------------------------------------
(* Remainders.                                                               *)

LEMMA RemFacts ==
  ASSUME NEW p \in Polys, NEW q \in Polys
  PROVE  /\ Rem(p) \in Words
         /\ Rem(Xor(p, q)) = Xor(Rem(p), Rem(q))
         /\ Rem(p) \in Polys /\ Rem(Rem(p)) = Rem(p)
<1> USE Numbers
<1>1. Rem(p) \in SUBSET (0..WordBits - 1)
  BY DivisionBound DEF Rem
<1>2. Rem(Xor(p, q)) = Xor(Rem(p), Rem(q))
  BY DivisionXor DEF Rem
<1>3. Rem(p) \in Polys /\ Rem(Rem(p)) = Rem(p)
  <2> DEFINE r == Rem(p)
  <2>1. r \in SUBSET (0..WordBits - 1)
    BY <1>1
  <2> HIDE DEF r
  <2>2. r \in Polys /\ Rem(r) = r
    BY <2>1, DivisionSmall DEF Rem
  <2> QED
    BY <2>2 DEF r
<1> QED
  BY <1>1, <1>2, <1>3 DEF Words

LEMMA RemWord ==
  ASSUME NEW w \in Words
  PROVE  w \in Polys /\ Rem(w) = w
  BY Numbers, DivisionSmall DEF Words, Rem

LEMMA RemGenerator ==
  ASSUME NEW m \in 0..Top - WordBits
  PROVE  Generator(m) \in Polys /\ Rem(Generator(m)) = {}
<1> USE Numbers
<1> DEFINE g == Generator(m)
           n == WordBits + m
<1>1. n \in WordBits..Top /\ n - WordBits = m /\ n \in WordBits - 1..Top
  OBVIOUS
<1>2. g \in SUBSET (0..n) /\ n \in g
  BY GeneratorFacts
<1>3. g \in Polys /\ Division(g)[n] = g
  BY <1>1, <1>2, DivisionSmall
<1> HIDE DEF n
<1>4. n - 1 \in WordBits - 1..Top - 1 /\ (n - 1) + 1 = n
  BY <1>1
<1>5. Division(g)[n - 1] = Reduce(g, n)
  <2>1. Division(g)[n - 1] = Reduce(Division(g)[(n - 1) + 1], (n - 1) + 1)
    BY <1>3, <1>4, DivisionSteps
  <2> QED
    BY <1>3, <1>4, <2>1
<1>6. Reduce(g, n) = {}
  BY <1>1, <1>2, XorFacts DEF Reduce
<1>7. {} \in Polys /\ Division({})[n - 1] = {} /\ Rem({}) = {}
  BY <1>4, DivisionSmall, RemWord DEF Words
<1>8. Rem(g) = Rem({})
  BY <1>3, <1>4, <1>5, <1>6, <1>7, DivisionMeets
<1> QED
  BY <1>3, <1>7, <1>8
\* To divide before or after a shift leaves the same remainder.
LEMMA RemTimes ==
  ASSUME NEW m \in Nat, m <= Top, NEW p \in SUBSET (0..Top - m)
  PROVE  /\ p \in Polys /\ Times(p, m) \in Polys /\ Times(Rem(p), m) \in Polys
         /\ Rem(Times(p, m)) = Rem(Times(Rem(p), m))
<1> USE Numbers
<1>1. ASSUME NEW q \in SUBSET (0..Top - m) PROVE Times(q, m) \in Polys /\ q \in Polys
  BY DEF Times, Polys
<1>2. CASE Top - m < WordBits
  <2>1. p \in Words
    BY <1>2 DEF Words
  <2> QED
    BY <1>1, <2>1, RemWord
<1>3. CASE Top - m >= WordBits
  <2> DEFINE a == WordBits - 1
             b == Top - m
             T == {n \in a..b : Rem(Times(Division(p)[n], m)) = Rem(Times(p, m))}
  <2>1. a \in Int /\ b \in Int /\ a <= b /\ b \in WordBits - 1..Top
    BY <1>3
  <2>2. Division(p)[b] = p
    BY <2>1, DivisionSmall
  <2>3. b \in T
    BY <2>1, <2>2
  <2>4. ASSUME NEW n \in a..b - 1, n + 1 \in T PROVE n \in T
    <3> DEFINE q == Division(p)[n + 1]
               k == n + 1 - WordBits
    <3>1. n \in WordBits - 1..Top - 1 /\ n + 1 \in WordBits - 1..Top
      OBVIOUS
    <3>2. Division(p)[n] = Reduce(q, n + 1) /\ q \in SUBSET (0..n + 1)
      BY <1>1, <3>1, DivisionSteps, DivisionBound
    <3>3. k \in Nat /\ k + m \in 0..Top - WordBits /\ WordBits + k = n + 1
      OBVIOUS
    <3>4. /\ Generator(k) \in SUBSET (0..n + 1)
          /\ Times(Generator(k), m) = Generator(k + m)
          /\ Rem(Generator(k + m)) = {} /\ Generator(k + m) \in Polys
      BY <3>3, GeneratorFacts, RemGenerator
    <3>5. q \in SUBSET (0..Top - m) /\ q \in SUBSET Int /\ Generator(k) \in SUBSET Int
      BY <3>2, <3>4
    <3>6. Rem(Times(q, m)) = Rem(Times(p, m))
      BY <2>4
    <3> HIDE DEF q, k
    <3>7. CASE n + 1 \in q
      <4>1. Reduce(q, n + 1) = Xor(q, Generator(k))
        BY <3>7 DEF Reduce, k
      <4>2. Times(Xor(q, Generator(k)), m) = Xor(Times(q, m), Generator(k + m))
        BY <3>4, <3>5, TimesFacts
      <4>3. Times(q, m) \in Polys
        BY <1>1, <3>5
      <4>4. Rem(Xor(Times(q, m), Generator(k + m))) = Xor(Rem(Times(q, m)), {})
        BY <3>4, <4>3, RemFacts
      <4>5. Rem(Times(Division(p)[n], m)) = Rem(Times(p, m))
        BY <3>2, <3>6, <4>1, <4>2, <4>4, XorFacts
      <4> QED
        BY <4>5
    <3>8. CASE n + 1 \notin q
      BY <3>2, <3>6, <3>8 DEF Reduce
    <3> QED
      BY <3>7, <3>8
  <2>5. a \in a..b
    BY <2>1
  <2> HIDE DEF T, a, b
  <2>6. \A n \in a..b : n \in T
    BY <2>1, <2>3, <2>4, Downward
  <2>7. Rem(Times(p, m)) = Rem(Times(Rem(p), m))
    BY <2>5, <2>6 DEF T, a, Rem
  <2>8. Rem(p) \in SUBSET (0..Top - m)
    BY <1>1, <1>3, RemFacts DEF Words
  <2> QED
    BY <1>1, <2>7, <2>8
<1> QED
  BY <1>2, <1>3
-----------------------------------------------------------------------------
(* An entry of the table is the remainder of its byte.                       *)

\* One bit of init_crc32.
ShiftBit(w) ==
  IF WordBits - 1 \in w THEN Xor(ShiftLeft(w, 1), CRC32_POLY) ELSE ShiftLeft(w, 1)

Register(i) ==
  LET c[j \in 0..ByteBits] ==
        IF j = 0 THEN ShiftLeft(i, WordBits - ByteBits)
        ELSE IF WordBits - 1 \in c[j - 1] THEN Xor(ShiftLeft(c[j - 1], 1), CRC32_POLY)
        ELSE ShiftLeft(c[j - 1], 1)
  IN  c

LEMMA ShiftWords ==
  ASSUME NEW w \in SUBSET Int
  PROVE  /\ \A n \in Int : ShiftLeft(w, n) \in Words
         /\ ShiftBit(w) \in Words
<1>1. \A n \in Int : ShiftLeft(w, n) \in Words
  BY Numbers DEF ShiftLeft, Words
<1>2. CRC32_POLY \in Words /\ ShiftLeft(w, 1) \in Words
  BY <1>1, PolyAssumption DEF Words
<1>3. Xor(ShiftLeft(w, 1), CRC32_POLY) \in Words
  BY <1>2 DEF Words, Xor
<1> QED
  BY <1>1, <1>2, <1>3 DEF ShiftBit

LEMMA RegisterSteps ==
  ASSUME NEW i \in Bytes
  PROVE  /\ TableEntry(i) = Register(i)[ByteBits]
         /\ Register(i) \in [0..ByteBits -> Words]
         /\ Register(i)[0] = ShiftLeft(i, WordBits - ByteBits)
         /\ \A j \in 1..ByteBits : Register(i)[j] = ShiftBit(Register(i)[j - 1])
<1> USE Numbers
<1> DEFINE v == ShiftLeft(i, WordBits - ByteBits)
           step == [j \in 1..ByteBits |-> [w \in Words |-> ShiftBit(w)]]
<1>1. v \in Words
  <2>1. i \in SUBSET Int /\ WordBits - ByteBits \in Int
    BY DEF Bytes
  <2> QED
    BY <2>1, ShiftWords
<1>2. ASSUME NEW w \in Words PROVE ShiftBit(w) \in Words
  BY ShiftWords DEF Words
<1>3. step \in Steps(ByteBits, Words)
  BY <1>2 DEF Steps
<1>4. \A j \in 1..ByteBits, w \in Words : step[j][w] = ShiftBit(w)
  OBVIOUS
<1> HIDE DEF step, v
<1>5. PICK r \in [0..ByteBits -> Words] :
        r[0] = v /\ \A j \in 1..ByteBits : r[j] = step[j][r[j - 1]]
  BY <1>1, <1>3, Recursion
<1> DEFINE Def(g) ==
      g = [j \in 0..ByteBits |->
             IF j = 0 THEN v
             ELSE IF WordBits - 1 \in g[j - 1] THEN Xor(ShiftLeft(g[j - 1], 1), CRC32_POLY)
             ELSE ShiftLeft(g[j - 1], 1)]
<1>6. ASSUME NEW j \in 1..ByteBits
      PROVE  r[j] = ShiftBit(r[j - 1])
  <2>1. r[j] = step[j][r[j - 1]] /\ r[j - 1] \in Words
    BY <1>5
  <2> QED
    BY <1>4, <2>1
<1>7. Def(r)
  <2> DEFINE d(j) == IF j = 0 THEN v
             ELSE IF WordBits - 1 \in r[j - 1] THEN Xor(ShiftLeft(r[j - 1], 1), CRC32_POLY)
             ELSE ShiftLeft(r[j - 1], 1)
  <2>1. ASSUME NEW j \in 0..ByteBits
        PROVE  r[j] = d(j)
    <3>1. CASE j = 0
      BY <1>5, <3>1
    <3>2. CASE j # 0
      <4>1. j \in 1..ByteBits
        BY <3>2
      <4>2. r[j] = ShiftBit(r[j - 1])
        BY <1>6, <4>1
      <4> QED
        BY <3>2, <4>2 DEF ShiftBit
    <3> QED
      BY <3>1, <3>2
  <2>2. r = [j \in 0..ByteBits |-> r[j]]
    BY <1>5
  <2>3. r = [j \in 0..ByteBits |-> d(j)]
    BY <2>1, <2>2, Zenon
  <2> QED
    BY <2>3, Zenon
<1>8. Register(i) = CHOOSE g : Def(g)
  BY DEF Register, v
<1>9. Def(Register(i))
  BY <1>7, <1>8, Zenon
<1> DEFINE D == Register(i)
<1> HIDE DEF D
<1>10. /\ D = [j \in 0..ByteBits |-> D[j]] /\ D[0] = v
       /\ \A j \in 1..ByteBits : D[j] = ShiftBit(D[j - 1])
  <2> SUFFICES ASSUME Def(D)
               PROVE  /\ D = [j \in 0..ByteBits |-> D[j]] /\ D[0] = v
                      /\ \A j \in 1..ByteBits : D[j] = ShiftBit(D[j - 1])
    BY <1>9 DEF D
  <2>1. D = [j \in 0..ByteBits |-> D[j]] /\ D[0] = v
    OBVIOUS
  <2>2. ASSUME NEW j \in 1..ByteBits PROVE D[j] = ShiftBit(D[j - 1])
    <3>1. j \in 0..ByteBits /\ j # 0
      OBVIOUS
    <3> QED
      BY <3>1 DEF ShiftBit
  <2> QED
    BY <2>1, <2>2
<1> DEFINE T == {j \in 0..ByteBits : D[j] \in Words}
<1>11. 0 \in T
  BY <1>1, <1>10
<1>12. ASSUME NEW j \in 1..ByteBits, j - 1 \in T PROVE j \in T
  <2>1. D[j - 1] \in Words /\ D[j] = ShiftBit(D[j - 1])
    BY <1>10, <1>12
  <2> QED
    BY <1>2, <2>1
<1> HIDE DEF T
<1>13. \A j \in 0..ByteBits : j \in T
  BY <1>11, <1>12, Induction
<1>14. D \in [0..ByteBits -> Words]
  BY <1>10, <1>13 DEF T
<1>15. TableEntry(i) = D[ByteBits]
  BY DEF TableEntry, Register, D
<1> QED
  BY <1>10, <1>14, <1>15 DEF D, v
\* The register holds the exponents that can still change, moved down.
LEMMA EntryIsRemainder ==
  ASSUME NEW i \in Bytes, WordBits + ByteBits <= Top + 1
  PROVE  /\ TableEntry(i) \in Words /\ Times(i, WordBits) \in Polys
         /\ TableEntry(i) = Rem(Times(i, WordBits))
<1> USE Numbers
<1> DEFINE p == Times(i, WordBits)
           last == WordBits + ByteBits - 1
           T == {j \in 0..ByteBits : Times(Register(i)[j], ByteBits - j) = Division(p)[last - j]}
<1>1. i \in SUBSET Int /\ i \in SUBSET (0..ByteBits - 1)
  BY DEF Bytes
<1>2. p \in SUBSET (0..last) /\ last \in WordBits - 1..Top
  BY <1>1 DEF Times
<1>3. p \in Polys /\ Division(p)[last] = p
  BY <1>2, DivisionSmall
<1>4. 0 \in T
  <2>1. ShiftLeft(i, WordBits - ByteBits) = Times(i, WordBits - ByteBits)
    BY <1>1 DEF ShiftLeft, Times
  <2>2. Times(Times(i, WordBits - ByteBits), ByteBits) = Times(i, WordBits)
    BY <1>1, TimesFacts
  <2> QED
    BY <1>3, <2>1, <2>2, RegisterSteps
<1>5. ASSUME NEW j \in 1..ByteBits, j - 1 \in T PROVE j \in T
  <2> DEFINE w == Register(i)[j - 1]
             n == last - j
             k == ByteBits - j
  <2>1. /\ n \in WordBits - 1..Top - 1 /\ n + 1 = last - (j - 1)
        /\ k \in Nat /\ n + 1 = WordBits - 1 + (k + 1) /\ ByteBits - (j - 1) = k + 1
        /\ n + 1 - WordBits = k
    BY <1>2
  <2>2. Register(i)[j] = ShiftBit(w) /\ w \in Words
    BY RegisterSteps
  <2>3. Division(p)[n] = Reduce(Division(p)[n + 1], n + 1)
    BY <1>3, <2>1, DivisionSteps
  <2>4. Times(w, k + 1) = Division(p)[n + 1]
    BY <1>5, <2>1
  <2> HIDE DEF w, n, k
  <2>5. WordBits - 1 \in w <=> n + 1 \in Times(w, k + 1)
    <3>1. w \in SUBSET Int /\ k + 1 \in Int /\ n + 1 \in Int /\ (n + 1) - (k + 1) = WordBits - 1
      BY <2>1, <2>2 DEF Words
    <3> QED
      BY <3>1, TimesFacts
  <2>6. Times(ShiftBit(w), k) = Reduce(Times(w, k + 1), n + 1)
    <3>1. CASE WordBits - 1 \in w
      <4>1. ShiftBit(w) = Xor(ShiftLeft(w, 1), CRC32_POLY)
        BY <3>1 DEF ShiftBit
      <4>2. Xor(ShiftLeft(w, 1), CRC32_POLY) = Xor(Times(w, 1), CRC32_POLY \cup {WordBits})
        BY <2>2, <3>1, PolyAssumption DEF Xor, ShiftLeft, Times, Words
      <4>3. /\ w \in SUBSET Int /\ Times(w, 1) \in SUBSET Int
            /\ CRC32_POLY \cup {WordBits} \in SUBSET Int
        BY <2>2, PolyAssumption DEF Words, Times
      <4>4. Times(Xor(Times(w, 1), CRC32_POLY \cup {WordBits}), k)
              = Xor(Times(Times(w, 1), k), Generator(k))
        BY <2>1, <4>3, TimesFacts DEF Generator
      <4>5. Times(Times(w, 1), k) = Times(w, k + 1)
        BY <2>1, <4>3, TimesFacts
      <4>6. Reduce(Times(w, k + 1), n + 1) = Xor(Times(w, k + 1), Generator(k))
        BY <2>1, <2>5, <3>1 DEF Reduce
      <4> QED
        BY <4>1, <4>2, <4>4, <4>5, <4>6
    <3>2. CASE WordBits - 1 \notin w
      <4>1. ShiftBit(w) = Times(w, 1)
        BY <2>2, <3>2 DEF ShiftBit, ShiftLeft, Times, Words
      <4>2. Times(Times(w, 1), k) = Times(w, k + 1)
        BY <2>1, <2>2, TimesFacts DEF Words
      <4>3. Reduce(Times(w, k + 1), n + 1) = Times(w, k + 1)
        BY <2>5, <3>2 DEF Reduce
      <4> QED
        BY <4>1, <4>2, <4>3
    <3> QED
      BY <3>1, <3>2
  <2> QED
    BY <2>2, <2>3, <2>4, <2>6 DEF n, k
<1> HIDE DEF T
<1>6. ByteBits \in T
  BY <1>4, <1>5, Induction
<1>7. Times(TableEntry(i), 0) = Rem(p)
  <2>1. last - ByteBits = WordBits - 1 /\ ByteBits - ByteBits = 0
    OBVIOUS
  <2> QED
    BY <1>6, <2>1, RegisterSteps DEF T, Rem
<1>8. TableEntry(i) \in Words
  BY RegisterSteps
<1>9. Times(TableEntry(i), 0) = TableEntry(i)
  BY <1>8 DEF Times, Words
<1> QED
  BY <1>3, <1>7, <1>8, <1>9
-----------------------------------------------------------------------------
(* One byte more.                                                            *)

LEMMA StepIsRemainder ==
  ASSUME NEW w \in Words, NEW b \in Bytes, WordBits + ByteBits <= Top + 1,
         crc32_table = init_crc32
  PROVE  /\ NextCrc(w, b) \in Words
         /\ Times(w, ByteBits) \in Polys /\ Times(b, WordBits) \in Polys
         /\ NextCrc(w, b) = Rem(Xor(Times(w, ByteBits), Times(b, WordBits)))
<1> USE Numbers
<1> DEFINE low == ShiftLeft(w, ByteBits)
           high == ShiftRight(w, WordBits - ByteBits)
<1>1. low \in Words /\ high \in Bytes
  BY DEF ShiftLeft, ShiftRight, Words, Bytes
<1>2. Xor(high, b) \in Bytes
  BY <1>1 DEF Xor, Bytes
<1>3. Times(w, ByteBits) = Xor(low, Times(high, WordBits))
  <2>1. ASSUME NEW e \in Int
        PROVE  e \in Times(w, ByteBits) <=> e \in Xor(low, Times(high, WordBits))
    <3>1. e \in Times(w, ByteBits) <=> e - ByteBits \in w
      BY TimesFacts DEF Words
    <3>2. e \in low <=> (e - ByteBits \in w /\ e < WordBits)
      BY DEF ShiftLeft, Words
    <3>3. e \in Times(high, WordBits) <=> e - WordBits \in high
      BY <1>1, TimesFacts DEF Bytes
    <3>4. e - WordBits \in high <=> (e - ByteBits \in w /\ e >= WordBits)
      BY DEF ShiftRight, Words
    <3> QED
      BY <3>1, <3>2, <3>3, <3>4 DEF Xor
  <2>2. Times(w, ByteBits) \in SUBSET Int /\ Xor(low, Times(high, WordBits)) \in SUBSET Int
    BY <1>1 DEF Times, Xor, Words, Bytes
  <2> HIDE DEF low, high
  <2> QED
    BY <2>1, <2>2
<1>4. NextCrc(w, b) = Xor(low, TableEntry(Xor(high, b)))
  BY <1>2 DEF NextCrc, init_crc32
<1> HIDE DEF low, high
<1>5. /\ TableEntry(Xor(high, b)) \in Words
      /\ TableEntry(Xor(high, b)) = Rem(Times(Xor(high, b), WordBits))
      /\ Times(high, WordBits) \in Polys /\ Times(b, WordBits) \in Polys
  BY <1>1, <1>2, EntryIsRemainder
<1>6. Times(Xor(high, b), WordBits) = Xor(Times(high, WordBits), Times(b, WordBits))
  BY <1>1, TimesFacts DEF Bytes
<1>7. low \in Polys /\ Rem(low) = low
  BY <1>1, RemWord
<1>8. Xor(Times(w, ByteBits), Times(b, WordBits))
        = Xor(low, Xor(Times(high, WordBits), Times(b, WordBits)))
  BY <1>3, XorFacts
<1>9. Rem(Xor(low, Times(Xor(high, b), WordBits))) = Xor(low, TableEntry(Xor(high, b)))
  <2>1. Times(Xor(high, b), WordBits) \in Polys
    BY <1>5, <1>6, XorPolys
  <2> QED
    BY <1>5, <1>7, <2>1, RemFacts
<1>10. Times(w, ByteBits) \in Polys
  BY <1>3, <1>5, <1>7, XorPolys
<1>11. NextCrc(w, b) \in Words
  BY <1>1, <1>4, <1>5 DEF Xor, Words
<1> QED
  BY <1>4, <1>5, <1>6, <1>8, <1>9, <1>10, <1>11

\* The bits of n bytes.
Room(n) == ByteBits * n

\* What a checksum is the remainder of: the message behind the seed.
Dividend(s) == Xor(Times(Message(s), WordBits), Times(AllOnes, Room(Len(s))))

LEMMA RoomFacts ==
  ASSUME NEW n \in Nat
  PROVE  /\ Room(n) \in Nat /\ Room(n + 1) = Room(n) + ByteBits
         /\ \A m \in Nat : m <= n => Room(n - m) = Room(n) - Room(m) /\ Room(m) <= Room(n)
         /\ Room(0) = 0 /\ Room(1) = ByteBits /\ Top = WordBits + Room(MaxBytes)
<1> USE Numbers
<1>1. Room(n) \in Nat /\ Room(n + 1) = Room(n) + ByteBits
  BY DEF Room
<1>2. ASSUME NEW m \in Nat, m <= n
      PROVE  Room(n - m) = Room(n) - Room(m) /\ Room(m) <= Room(n)
  <2>1. ByteBits * (n - m) = ByteBits * n - ByteBits * m
    OBVIOUS
  <2>2. ByteBits * (n - m) >= 0
    BY <1>2
  <2> QED
    BY <2>1, <2>2 DEF Room
<1>3. Room(0) = 0 /\ Room(1) = ByteBits /\ Top = WordBits + Room(MaxBytes)
  BY DEF Room, Top
<1> QED
  BY <1>1, <1>2, <1>3

\* An exponent of a message is that of a bit of one of its bytes.
LEMMA MessageBits ==
  ASSUME NEW s \in Seq(Bytes)
  PROVE  /\ Message(s) \in SUBSET (0..Room(Len(s)) - 1)
         /\ \A e \in Int : e \in Message(s) <=>
              \E k \in 1..Len(s) : e - Room(Len(s) - k) \in s[k]
<1> USE Numbers
<1>1. \A k \in 1..Len(s) : s[k] \in SUBSET (0..ByteBits - 1)
  BY DEF Bytes
<1>2. ASSUME NEW e \in Int
      PROVE  e \in Message(s) <=> \E k \in 1..Len(s) : e - Room(Len(s) - k) \in s[k]
  <2>1. ASSUME NEW k \in 1..Len(s)
        PROVE  e \in {d + ByteBits * (Len(s) - k) : d \in s[k]}
                 <=> e - Room(Len(s) - k) \in s[k]
    <3>1. Room(Len(s) - k) \in Int /\ Room(Len(s) - k) = ByteBits * (Len(s) - k)
      BY DEF Room
    <3> QED
      BY <1>1, <3>1
  <2> QED
    BY <2>1 DEF Message
<1>3. ASSUME NEW e \in Message(s)
      PROVE  e \in 0..Room(Len(s)) - 1
  <2>1. PICK k \in 1..Len(s) : e \in {d + ByteBits * (Len(s) - k) : d \in s[k]}
    BY DEF Message
  <2>2. PICK d \in s[k] : e = d + Room(Len(s) - k)
    BY <2>1 DEF Room
  <2>3. d \in 0..ByteBits - 1
    BY <1>1, <2>2
  <2>4. Len(s) \in Nat /\ Room(Len(s)) \in Nat
    BY RoomFacts
  <2>5. Room(Len(s) - k) \in Nat /\ Room(Len(s) - k) + ByteBits <= Room(Len(s))
    <3>1. Len(s) - k \in Nat /\ (Len(s) - k) + 1 <= Len(s) /\ (Len(s) - k) + 1 \in Nat
      OBVIOUS
    <3> QED
      BY <3>1, RoomFacts
  <2> QED
    BY <2>2, <2>3, <2>4, <2>5
<1> QED
  BY <1>2, <1>3
LEMMA MessageAppend ==
  ASSUME NEW s \in Seq(Bytes), NEW b \in Bytes
  PROVE  Message(Append(s, b)) = Xor(Times(Message(s), ByteBits), b)
<1> USE Numbers
<1> DEFINE t == Append(s, b)
           n == Len(s)
<1>1. /\ t \in Seq(Bytes) /\ Len(t) = n + 1 /\ n \in Nat /\ t[n + 1] = b
      /\ \A k \in 1..n : t[k] = s[k]
  OBVIOUS
<1>2. b \in SUBSET (0..ByteBits - 1) /\ Room(0) = 0
  BY RoomFacts DEF Bytes
<1> HIDE DEF t, n
<1>3. ASSUME NEW e \in Int
      PROVE  e \in Message(t) <=> e \in Xor(Times(Message(s), ByteBits), b)
  <2>1. e \in Message(t) <=> \E k \in 1..n + 1 : e - Room(n + 1 - k) \in t[k]
    <3>1. e \in Message(t) <=> \E k \in 1..Len(t) : e - Room(Len(t) - k) \in t[k]
      BY <1>1, MessageBits
    <3>2. \A k : k \in 1..Len(t) <=> k \in 1..n + 1
      BY <1>1
    <3>3. \A k \in 1..n + 1 : Len(t) - k = n + 1 - k
      BY <1>1
    <3> QED
      BY <3>1, <3>2, <3>3
  <2>2. ASSUME NEW k \in 1..n
        PROVE  e - Room(n + 1 - k) \in t[k] <=> (e - ByteBits) - Room(n - k) \in s[k]
    <3>1. n - k \in Nat /\ (n - k) + 1 = n + 1 - k
      BY <1>1
    <3>2. Room(n - k) \in Nat /\ Room(n + 1 - k) = Room(n - k) + ByteBits
      BY <3>1, RoomFacts
    <3>3. e - Room(n + 1 - k) = (e - ByteBits) - Room(n - k)
      BY <3>2
    <3> QED
      BY <1>1, <3>3
  <2>3. e - Room(n + 1 - (n + 1)) \in t[n + 1] <=> e \in b
    BY <1>1, <1>2
  <2>4. e \in Times(Message(s), ByteBits) <=> \E k \in 1..n : (e - ByteBits) - Room(n - k) \in s[k]
    <3>1. Message(s) \in SUBSET Int /\ e - ByteBits \in Int
      BY <1>1, MessageBits
    <3>2. e \in Times(Message(s), ByteBits) <=> e - ByteBits \in Message(s)
      BY <3>1, TimesFacts
    <3>3. e - ByteBits \in Message(s) <=> \E k \in 1..n : (e - ByteBits) - Room(n - k) \in s[k]
      BY <3>1, MessageBits DEF n
    <3> QED
      BY <3>2, <3>3
  <2>5. e \in Message(t) <=> (e \in Times(Message(s), ByteBits) \/ e \in b)
    <3>1. \A k \in 1..n + 1 : k \in 1..n \/ k = n + 1
      BY <1>1
    <3>2. n + 1 \in 1..n + 1 /\ \A k \in 1..n : k \in 1..n + 1
      BY <1>1
    <3> QED
      BY <2>1, <2>2, <2>3, <2>4, <3>1, <3>2
  <2>6. ~(e \in Times(Message(s), ByteBits) /\ e \in b)
    <3>1. e \in b => e < ByteBits
      BY <1>2
    <3>2. e \in Times(Message(s), ByteBits) => e >= ByteBits
      BY MessageBits DEF Times
    <3> QED
      BY <3>1, <3>2
  <2> QED
    BY <2>5, <2>6 DEF Xor
<1>4. Message(t) \in SUBSET Int /\ Xor(Times(Message(s), ByteBits), b) \in SUBSET Int
  BY <1>1, <1>2, MessageBits DEF Times, Xor
<1>5. Message(t) = Xor(Times(Message(s), ByteBits), b)
  BY <1>3, <1>4
<1> QED
  BY <1>5 DEF t

LEMMA DividendAppend ==
  ASSUME NEW s \in Seq(Bytes), NEW b \in Bytes
  PROVE  /\ Dividend(s) \in SUBSET (0..WordBits + Room(Len(s)) - 1)
         /\ Dividend(Append(s, b)) = Xor(Times(Dividend(s), ByteBits), Times(b, WordBits))
<1> USE Numbers
<1> DEFINE m == Message(s)
           n == Len(s)
           seed == Times(AllOnes, Room(n))
<1>1. /\ n \in Nat /\ Room(n) \in Nat /\ Room(n + 1) = Room(n) + ByteBits
      /\ Len(Append(s, b)) = n + 1
  BY RoomFacts
<1>2. m \in SUBSET (0..Room(n) - 1) /\ m \in SUBSET Int
  BY MessageBits
<1>3. AllOnes \in SUBSET Int /\ seed \in SUBSET (0..WordBits + Room(n) - 1) /\ seed \in SUBSET Int
  BY <1>1 DEF AllOnes, Times
<1>4. b \in SUBSET Int
  BY DEF Bytes
<1> HIDE DEF m, n
<1>5. Times(m, WordBits) \in SUBSET (0..WordBits + Room(n) - 1) /\ Times(m, WordBits) \in SUBSET Int
  BY <1>1, <1>2 DEF Times
<1>6. Dividend(s) = Xor(Times(m, WordBits), seed)
  BY DEF Dividend, m, n
<1>7. Dividend(Append(s, b))
        = Xor(Times(Xor(Times(m, ByteBits), b), WordBits), Times(AllOnes, Room(n) + ByteBits))
  BY <1>1, MessageAppend DEF Dividend, m
<1>8. /\ Times(Times(m, ByteBits), WordBits) = Times(m, WordBits + ByteBits)
      /\ Times(Times(m, WordBits), ByteBits) = Times(m, WordBits + ByteBits)
      /\ Times(m, ByteBits) \in SUBSET Int
  <2>1. ByteBits + WordBits = WordBits + ByteBits
    OBVIOUS
  <2> QED
    BY <1>2, <2>1, TimesFacts
<1>9. Times(Xor(Times(m, ByteBits), b), WordBits)
        = Xor(Times(m, WordBits + ByteBits), Times(b, WordBits))
  BY <1>4, <1>8, TimesFacts
<1>10. Times(seed, ByteBits) = Times(AllOnes, Room(n) + ByteBits)
  BY <1>1, <1>3, TimesFacts
<1> HIDE DEF seed
<1>11. Times(Dividend(s), ByteBits) = Xor(Times(m, WordBits + ByteBits), Times(seed, ByteBits))
  BY <1>3, <1>5, <1>6, <1>8, TimesFacts
<1>12. Dividend(Append(s, b)) = Xor(Times(Dividend(s), ByteBits), Times(b, WordBits))
  <2>1. \A x, y, z : Xor(Xor(x, y), z) = Xor(Xor(x, z), y)
    BY DEF Xor
  <2> QED
    BY <1>7, <1>9, <1>10, <1>11, <2>1
<1>13. Dividend(s) \in SUBSET (0..WordBits + Room(n) - 1)
  BY <1>3, <1>5, <1>6 DEF Xor
<1> QED
  BY <1>12, <1>13 DEF n

\* The loop computes the remainder, byte after byte.
LEMMA RemainderAppend ==
  ASSUME NEW s \in Seq(Bytes), NEW b \in Bytes, Len(s) < MaxBytes,
         crc32_table = init_crc32
  PROVE  /\ Dividend(s) \in Polys /\ Dividend(Append(s, b)) \in Polys
         /\ NextCrc(Rem(Dividend(s)), b) = Rem(Dividend(Append(s, b)))
<1> USE Numbers
<1> DEFINE p == Dividend(s)
           n == Len(s)
<1>1. n \in Nat /\ Room(n) \in Nat /\ WordBits + Room(n) + ByteBits <= Top
  <2>1. n \in Nat /\ n + 1 \in Nat /\ n + 1 <= MaxBytes
    OBVIOUS
  <2>2. Room(n + 1) <= Room(MaxBytes) /\ Room(MaxBytes) \in Nat /\ Room(n + 1) \in Nat
    BY <2>1, RoomFacts
  <2>3. Top = WordBits + Room(MaxBytes) /\ Room(n) \in Nat /\ Room(n + 1) = Room(n) + ByteBits
    BY <2>1, RoomFacts
  <2> QED
    BY <2>1, <2>2, <2>3
<1>2. p \in SUBSET (0..WordBits + Room(n) - 1)
  BY DividendAppend
<1>3. Dividend(Append(s, b)) = Xor(Times(p, ByteBits), Times(b, WordBits))
  BY DividendAppend
<1> HIDE DEF p, n
<1>4. p \in SUBSET (0..Top - ByteBits) /\ ByteBits <= Top
  BY <1>1, <1>2
<1>5. /\ p \in Polys /\ Times(p, ByteBits) \in Polys /\ Times(Rem(p), ByteBits) \in Polys
      /\ Rem(Times(p, ByteBits)) = Rem(Times(Rem(p), ByteBits))
  BY <1>4, RemTimes
<1>6. Rem(p) \in Words /\ WordBits + ByteBits <= Top + 1
  BY <1>1, <1>5, RemFacts
<1>7. /\ Times(b, WordBits) \in Polys
      /\ NextCrc(Rem(p), b) = Rem(Xor(Times(Rem(p), ByteBits), Times(b, WordBits)))
  BY <1>6, StepIsRemainder
<1>8. Rem(Xor(Times(Rem(p), ByteBits), Times(b, WordBits)))
        = Rem(Xor(Times(p, ByteBits), Times(b, WordBits)))
  BY <1>5, <1>7, RemFacts
<1>9. Xor(Times(p, ByteBits), Times(b, WordBits)) \in Polys
  BY <1>5, <1>7, XorPolys
<1> QED
  BY <1>3, <1>5, <1>7, <1>8, <1>9 DEF p
-----------------------------------------------------------------------------
(* The invariant of the loop.                                                *)

CrcInv ==
  /\ crcPc \in {"idle", "loop"}
  /\ bytes \in Seq(Bytes) /\ Len(bytes) <= MaxBytes
  /\ crc32_table \in {[i \in Bytes |-> {}], init_crc32}
  /\ crcPc = "loop" \/ bytes # <<>> =>
       crc32_table = init_crc32 /\ crc = Rem(Dividend(bytes))

\* Before the first byte the register holds the seed.
LEMMA SeedIsRemainder ==
  Dividend(<<>>) \in Polys /\ Rem(Dividend(<<>>)) = Seed
<1> USE Numbers
<1>1. Message(<<>>) = {}
  <2>1. 1..Len(<<>>) = {}
    OBVIOUS
  <2> QED
    BY <2>1 DEF Message
<1>2. Times({}, WordBits) = {} /\ Times(AllOnes, 0) = AllOnes
  BY DEF Times, AllOnes
<1>3. Dividend(<<>>) = AllOnes
  <2>1. Dividend(<<>>) = Xor({}, AllOnes)
    BY <1>1, <1>2, RoomFacts DEF Dividend
  <2> QED
    BY <2>1 DEF Xor
<1> QED
  BY <1>3, RemWord DEF AllOnes, Words, Seed

LEMMA CrcInitial == CrcInit => CrcInv
  BY Numbers DEF CrcInit, CrcInv

LEMMA CrcInductive == CrcInv /\ [CrcNext]_crcVars => CrcInv'
<1> SUFFICES ASSUME CrcInv, [CrcNext]_crcVars
             PROVE  CrcInv'
  OBVIOUS
<1> USE Numbers
<1>1. ASSUME NEW seed, crc32(seed)
      PROVE  crc32_table' = init_crc32 /\ crc' = seed /\ crcPc' = "loop"
  <2>1. {0} \in Bytes
    BY DEF Bytes
  <2>2. CASE crc32_table = init_crc32
    BY <1>1, <2>2 DEF crc32
  <2>3. CASE crc32_table = [i \in Bytes |-> {}]
    BY <1>1, <2>1, <2>3 DEF crc32
  <2> QED
    BY <1>1, <2>2, <2>3 DEF crc32, CrcInv
<1>2. CASE calcTableCRC
  <2>1. crc32_table' = init_crc32 /\ crc' = Seed /\ crcPc' = "loop" /\ bytes' = <<>>
    BY <1>1, <1>2 DEF calcTableCRC
  <2>2. Dividend(bytes)' = Dividend(<<>>)
    BY <2>1 DEF Dividend, Message, Room
  <2>3. Rem(Dividend(bytes))' = Seed
    BY <2>2, SeedIsRemainder DEF Rem, Division
  <2> QED
    BY <2>1, <2>3 DEF CrcInv, init_crc32, TableEntry
<1>3. CASE crcOfMore
  <2>1. crc32_table' = init_crc32 /\ crc' = crc /\ crcPc' = "loop" /\ bytes' = bytes
    BY <1>1, <1>3 DEF crcOfMore
  <2>2. crc = Rem(Dividend(bytes))
    BY <1>3 DEF crcOfMore, CrcInv
  <2>3. Rem(Dividend(bytes))' = Rem(Dividend(bytes))
    BY <2>1 DEF Dividend, Message, Room, Rem, Division
  <2> QED
    BY <2>1, <2>2, <2>3 DEF CrcInv, init_crc32, TableEntry
<1>4. CASE \E b \in Bytes : crc32Byte(b)
  <2>1. PICK b \in Bytes : crc32Byte(b)
    BY <1>4
  <2>2. /\ crcPc = "loop" /\ Len(bytes) < MaxBytes /\ crc' = NextCrc(crc, b)
        /\ bytes' = Append(bytes, b) /\ crc32_table' = crc32_table /\ crcPc' = crcPc
    BY <2>1 DEF crc32Byte
  <2>3. bytes \in Seq(Bytes) /\ crc32_table = init_crc32 /\ crc = Rem(Dividend(bytes))
    BY <2>2 DEF CrcInv
  <2>4. crc' = Rem(Dividend(Append(bytes, b)))
    BY <2>2, <2>3, RemainderAppend
  <2>5. Rem(Dividend(bytes))' = Rem(Dividend(Append(bytes, b)))
    BY <2>2 DEF Dividend, Message, Room, Rem, Division
  <2>6. bytes' \in Seq(Bytes) /\ Len(bytes') <= MaxBytes
    BY <2>2, <2>3
  <2> QED
    BY <2>2, <2>3, <2>4, <2>5, <2>6 DEF CrcInv, init_crc32, TableEntry
<1>5. CASE crc32Return
  <2>1. Rem(Dividend(bytes))' = Rem(Dividend(bytes))
    BY <1>5 DEF crc32Return, Dividend, Message, Room, Rem, Division
  <2> QED
    BY <1>5, <2>1 DEF crc32Return, CrcInv, init_crc32, TableEntry
<1>6. CASE UNCHANGED crcVars
  <2>1. Rem(Dividend(bytes))' = Rem(Dividend(bytes))
    BY <1>6 DEF crcVars, Dividend, Message, Room, Rem, Division
  <2> QED
    BY <1>6, <2>1 DEF crcVars, CrcInv, init_crc32, TableEntry
<1> QED
  BY <1>2, <1>3, <1>4, <1>5, <1>6 DEF CrcNext

LEMMA CrcInvariant == CrcSpec => []CrcInv
  BY CrcInitial, CrcInductive, PTL DEF CrcSpec

LEMMA InvIsRemainder == CrcInv => IsRemainder
<1> SUFFICES ASSUME CrcInv, bytes # <<>>
             PROVE  crc = Remainder(Xor({e + WordBits : e \in Message(bytes)},
                                        {e + ByteBits * Len(bytes) : e \in AllOnes}),
                                    WordBits + ByteBits * MaxBytes)
  BY DEF IsRemainder
<1>1. crc = Rem(Dividend(bytes))
  BY DEF CrcInv
<1>2. Dividend(bytes) = Xor({e + WordBits : e \in Message(bytes)},
                            {e + ByteBits * Len(bytes) : e \in AllOnes})
  BY DEF Dividend, Times, Room
<1>3. \A p : Rem(p) = Remainder(p, WordBits + ByteBits * MaxBytes)
  BY DEF Rem, Division, Remainder, Aligned, Top
<1> QED
  BY <1>1, <1>2, <1>3

\* crc32: the loop over a table, or over a file that is written or read in any
\* number of calls, leaves in its register the remainder of the bytes taken so
\* far, behind their seed, for words and bytes of any size and any polynomial.
THEOREM CrcIsRemainder == CrcSpec => []IsRemainder
  BY CrcInvariant, InvIsRemainder, PTL
-----------------------------------------------------------------------------
(* What a remainder of nothing tells: the generator is not divisible by x.   *)

LEMMA ShiftedByOne ==
  ASSUME NEW w \in Words, w # {}
  PROVE  Rem(Times(w, 1)) # {}
<1> USE Numbers
<1> DEFINE p == Times(w, 1)
<1>1. p \in SUBSET (1..WordBits) /\ p # {}
  <2>1. p \in SUBSET (1..WordBits)
    BY DEF Times, Words
  <2>2. PICK e \in w : TRUE
    OBVIOUS
  <2>3. e + 1 \in p
    BY <2>2 DEF Times
  <2> QED
    BY <2>1, <2>3
<1> HIDE DEF p
<1>2. WordBits \in WordBits - 1..Top /\ p \in SUBSET (0..WordBits)
  BY <1>1
<1>3. p \in Polys /\ Division(p)[WordBits] = p
  BY <1>2, DivisionSmall
<1>4. Rem(p) = Reduce(p, WordBits)
  <2>1. WordBits - 1 \in WordBits - 1..Top - 1 /\ (WordBits - 1) + 1 = WordBits
    OBVIOUS
  <2>2. Division(p)[WordBits - 1]
          = Reduce(Division(p)[(WordBits - 1) + 1], (WordBits - 1) + 1)
    BY <1>3, <2>1, DivisionSteps
  <2> QED
    BY <1>3, <2>1, <2>2 DEF Rem
<1>5. 0 \in Generator(WordBits - WordBits)
  <2>1. WordBits - WordBits = 0 /\ 0 \in CRC32_POLY /\ 0 + 0 = 0
    BY PolyAssumption
  <2> QED
    BY <2>1 DEF Generator, Times
<1>6. Reduce(p, WordBits) # {}
  <2>1. CASE WordBits \in p
    <3>1. 0 \in Xor(p, Generator(WordBits - WordBits))
      BY <1>1, <1>5 DEF Xor
    <3> QED
      BY <2>1, <3>1 DEF Reduce
  <2>2. CASE WordBits \notin p
    BY <1>1, <2>2 DEF Reduce
  <2> QED
    BY <2>1, <2>2
<1> QED
  BY <1>4, <1>6 DEF p

LEMMA ShiftedNonzero ==
  ASSUME NEW m \in Nat, m <= Top, NEW p \in SUBSET (0..Top - m), Rem(p) # {}
  PROVE  Rem(Times(p, m)) # {}
<1> USE Numbers
<1> DEFINE T == {j \in 0..m : Rem(Times(p, j)) # {}}
<1>1. p \in SUBSET Int
  OBVIOUS
<1>2. 0 \in T
  <2>1. Times(p, 0) = p
    BY <1>1 DEF Times
  <2> QED
    BY <2>1
<1>3. ASSUME NEW j \in 1..m, j - 1 \in T PROVE j \in T
  <2> DEFINE q == Times(p, j - 1)
  <2>1. q \in SUBSET (0..Top - 1) /\ 1 <= Top
    BY DEF Times
  <2>2. Times(q, 1) = Times(p, j)
    <3>1. j - 1 \in Int /\ (j - 1) + 1 = j
      OBVIOUS
    <3> QED
      BY <1>1, <3>1, TimesFacts
  <2>3. Rem(q) # {}
    BY <1>3
  <2> HIDE DEF q
  <2>4. q \in Polys /\ Rem(Times(q, 1)) = Rem(Times(Rem(q), 1))
    BY <2>1, RemTimes
  <2>5. Rem(q) \in Words
    BY <2>4, RemFacts
  <2> QED
    BY <2>2, <2>3, <2>4, <2>5, ShiftedByOne
<1> HIDE DEF T
<1>4. m \in T
  BY <1>2, <1>3, Induction
<1> QED
  BY <1>4 DEF T

LEMMA InvBlankRefused == CrcInv => BlankRefused
<1> USE Numbers
<1> SUFFICES ASSUME CrcInv, bytes # <<>>, \A k \in DOMAIN bytes : bytes[k] = {}
             PROVE  crc # {}
  BY DEF BlankRefused
<1> DEFINE n == Len(bytes)
<1>1. bytes \in Seq(Bytes) /\ n \in Nat /\ n <= MaxBytes /\ crc = Rem(Dividend(bytes))
  BY DEF CrcInv
<1>2. Room(n) \in Nat /\ Room(n) <= Top - WordBits
  <2>1. Room(n) \in Nat /\ Room(MaxBytes) \in Nat /\ Room(n) <= Room(MaxBytes)
    BY <1>1, RoomFacts
  <2>2. Top = WordBits + Room(MaxBytes)
    BY RoomFacts
  <2> QED
    BY <2>1, <2>2
<1>3. Message(bytes) = {}
  <2>1. \A k \in 1..Len(bytes) : bytes[k] = {}
    BY <1>1
  <2> QED
    BY <2>1 DEF Message
<1>4. Dividend(bytes) = Times(AllOnes, Room(n))
  <2>1. Times({}, WordBits) = {}
    BY DEF Times
  <2> QED
    BY <1>3, <2>1 DEF Dividend, Xor
<1>5. AllOnes \in Words /\ AllOnes # {} /\ AllOnes \in SUBSET (0..Top - Room(n))
  <2>1. 0 \in AllOnes
    BY DEF AllOnes
  <2>2. \A e \in 0..WordBits - 1 : e \in 0..Top - Room(n)
    BY <1>2
  <2> QED
    BY <2>1, <2>2 DEF AllOnes, Words
<1>6. Rem(AllOnes) # {}
  BY <1>5, RemWord
<1> QED
  BY <1>1, <1>2, <1>4, <1>5, <1>6, ShiftedNonzero

\* A device that reads zero throughout has no table that validateTable takes:
\* the checksum of zeros, however many, is not the zero stored with them.
THEOREM BlankHasNoTable == CrcSpec => []BlankRefused
  BY CrcInvariant, InvBlankRefused, PTL
-----------------------------------------------------------------------------
(* Damage.                                                                   *)

\* CrcOf follows the loop over a whole message.
LEMMA CrcOfIsRemainder ==
  ASSUME NEW s \in Seq(Bytes), Len(s) <= MaxBytes, crc32_table = init_crc32
  PROVE  CrcOf(s) = Rem(Dividend(s))
<1> USE Numbers
<1> DEFINE n == Len(s)
           c == [k \in 0..n |-> Rem(Dividend(SubSeq(s, 1, k)))]
           Def(g) == g = [k \in 0..n |-> IF k = 0 THEN Seed ELSE NextCrc(g[k - 1], s[k])]
<1>1. n \in Nat /\ SubSeq(s, 1, 0) = <<>> /\ SubSeq(s, 1, n) = s
  OBVIOUS
<1>2. ASSUME NEW k \in 1..n
      PROVE  /\ SubSeq(s, 1, k - 1) \in Seq(Bytes) /\ Len(SubSeq(s, 1, k - 1)) = k - 1
             /\ s[k] \in Bytes
             /\ Append(SubSeq(s, 1, k - 1), s[k]) = SubSeq(s, 1, k)
  <2>1. s[k] \in Bytes /\ \A i \in 1..k - 1 : s[i] \in Bytes
    OBVIOUS
  <2>2. /\ Len(SubSeq(s, 1, k - 1)) = k - 1 /\ Len(SubSeq(s, 1, k)) = k
        /\ SubSeq(s, 1, k - 1) \in Seq(Bytes) /\ SubSeq(s, 1, k) \in Seq(Bytes)
    OBVIOUS
  <2>3. \A i \in 1..k : Append(SubSeq(s, 1, k - 1), s[k])[i] = SubSeq(s, 1, k)[i]
    BY <2>1, <2>2
  <2> DEFINE x == Append(SubSeq(s, 1, k - 1), s[k])
             y == SubSeq(s, 1, k)
  <2>4. x \in Seq(Bytes) /\ y \in Seq(Bytes) /\ Len(x) = k /\ Len(y) = k
    BY <2>1, <2>2
  <2> HIDE DEF x, y
  <2>5. x = y
    BY <2>3, <2>4, SeqEqual DEF x, y
  <2> QED
    BY <2>1, <2>2, <2>5 DEF x, y
<1>3. ASSUME NEW k \in 1..n
      PROVE  c[k] = NextCrc(c[k - 1], s[k])
  <2>1. c[k - 1] = Rem(Dividend(SubSeq(s, 1, k - 1))) /\ c[k] = Rem(Dividend(SubSeq(s, 1, k)))
    OBVIOUS
  <2>2. Len(SubSeq(s, 1, k - 1)) < MaxBytes
    BY <1>2
  <2> HIDE DEF c
  <2> QED
    BY <1>2, <2>1, <2>2, RemainderAppend
<1>4. /\ c[0] = Rem(Dividend(SubSeq(s, 1, 0))) /\ c[n] = Rem(Dividend(SubSeq(s, 1, n)))
      /\ c = [k \in 0..n |-> c[k]]
  OBVIOUS
<1> HIDE DEF c
<1>5. c[0] = Seed /\ c[n] = Rem(Dividend(s))
  BY <1>1, <1>4, SeedIsRemainder
<1>6. Def(c)
  <2>1. \A k \in 0..n : c[k] = IF k = 0 THEN Seed ELSE NextCrc(c[k - 1], s[k])
    BY <1>1, <1>3, <1>5
  <2> QED
    BY <1>4, <2>1
<1>7. ASSUME NEW g, Def(g) PROVE g[n] = c[n]
  <2> DEFINE T == {k \in 0..n : g[k] = c[k]}
  <2>1. 0 \in T
    BY <1>1, <1>5, <1>7
  <2>2. ASSUME NEW k \in 1..n, k - 1 \in T PROVE k \in T
    <3>1. g[k] = NextCrc(g[k - 1], s[k])
      BY <1>7
    <3>2. g[k - 1] = c[k - 1]
      BY <2>2
    <3> QED
      BY <1>3, <3>1, <3>2
  <2> HIDE DEF T
  <2>3. \A k \in 0..n : k \in T
    BY <1>1, <2>1, <2>2, Induction
  <2> QED
    BY <1>1, <2>3 DEF T
<1>8. CrcOf(s) = (CHOOSE g : Def(g))[n]
  BY DEF CrcOf
<1>9. Def(CHOOSE g : Def(g))
  BY <1>6, Zenon
<1> HIDE DEF Def
<1> QED
  BY <1>5, <1>7, <1>8, <1>9

\* Every exponent of a message belongs to exactly one of its bytes.
LEMMA ByteOf ==
  ASSUME NEW n \in Nat, NEW e \in 0..Room(n) - 1
  PROVE  /\ \E k \in 1..n : e - Room(n - k) \in 0..ByteBits - 1
         /\ \A j, k \in 1..n :
              (e - Room(n - j) \in 0..ByteBits - 1 /\ e - Room(n - k) \in 0..ByteBits - 1)
                => j = k
<1> USE Numbers
<1> DEFINE T == {m \in 0..n : \A d \in 0..Room(m) - 1 :
                                \E j \in 0..m - 1 : d - Room(j) \in 0..ByteBits - 1}
<1>1. 0 \in T
  BY RoomFacts
<1>2. ASSUME NEW m \in 1..n, m - 1 \in T PROVE m \in T
  <2>1. m - 1 \in Nat /\ (m - 1) + 1 = m
    OBVIOUS
  <2>2. Room(m - 1) \in Nat /\ Room(m) = Room(m - 1) + ByteBits
    BY <2>1, RoomFacts
  <2>3. ASSUME NEW d \in 0..Room(m) - 1
        PROVE  \E j \in 0..m - 1 : d - Room(j) \in 0..ByteBits - 1
    <3>1. CASE d < Room(m - 1)
      <4>1. \E j \in 0..m - 1 - 1 : d - Room(j) \in 0..ByteBits - 1
        BY <1>2, <2>2, <3>1
      <4> QED
        BY <4>1
    <3>2. CASE d >= Room(m - 1)
      <4>1. d - Room(m - 1) \in 0..ByteBits - 1 /\ m - 1 \in 0..m - 1
        BY <2>2, <3>2
      <4> QED
        BY <4>1
    <3> QED
      BY <2>2, <3>1, <3>2
  <2> QED
    BY <2>3
<1> HIDE DEF T
<1>3. n \in T
  BY <1>1, <1>2, Induction
<1>4. PICK j \in 0..n - 1 : e - Room(j) \in 0..ByteBits - 1
  BY <1>3 DEF T
<1>5. n - j \in 1..n /\ n - (n - j) = j
  OBVIOUS
<1>6. \E k \in 1..n : e - Room(n - k) \in 0..ByteBits - 1
  BY <1>4, <1>5
<1>7. ASSUME NEW i \in 1..n, NEW k \in 1..n, i < k,
             e - Room(n - i) \in 0..ByteBits - 1, e - Room(n - k) \in 0..ByteBits - 1
      PROVE  FALSE
  <2>1. n - k \in Nat /\ (n - k) + 1 \in Nat /\ n - i \in Nat /\ (n - k) + 1 <= n - i
    BY <1>7
  <2>2. /\ Room(n - k) \in Nat /\ Room(n - i) \in Nat
        /\ Room((n - k) + 1) = Room(n - k) + ByteBits
        /\ Room((n - k) + 1) <= Room(n - i)
    BY <2>1, RoomFacts
  <2> QED
    BY <1>7, <2>2
<1>8. ASSUME NEW i \in 1..n, NEW k \in 1..n,
             e - Room(n - i) \in 0..ByteBits - 1, e - Room(n - k) \in 0..ByteBits - 1
      PROVE  i = k
  <2>1. i < k \/ k < i \/ i = k
    OBVIOUS
  <2> QED
    BY <1>7, <1>8, <2>1
<1> QED
  BY <1>6, <1>8
\* The bits of p that fall into byte k of n bytes, as Damaged takes them.
InByte(p, n, k) ==
  ShiftRight({e \in p : e < ByteBits * (n - k + 1)}, ByteBits * (n - k))

Patched(s, p) == [k \in DOMAIN s |-> Xor(s[k], InByte(p, Len(s), k))]

\* To patch the bytes of a message is to patch the message.
LEMMA MessagePatched ==
  ASSUME NEW s \in Seq(Bytes), NEW p \in SUBSET (0..Room(Len(s)) - 1)
  PROVE  /\ Patched(s, p) \in Seq(Bytes) /\ Len(Patched(s, p)) = Len(s)
         /\ Message(Patched(s, p)) = Xor(Message(s), p)
<1> USE Numbers
<1> DEFINE n == Len(s)
           t == Patched(s, p)
<1>1. n \in Nat /\ Room(n) \in Nat /\ DOMAIN s = 1..n
  BY RoomFacts
<1>2. ASSUME NEW k \in 1..n
      PROVE  /\ Room(n - k) \in Nat /\ InByte(p, n, k) \in Bytes
             /\ \A d \in Int : d \in InByte(p, n, k)
                  <=> (d + Room(n - k) \in p /\ d \in 0..ByteBits - 1)
  <2>1. n - k \in Nat
    OBVIOUS
  <2>2. /\ Room(n - k) \in Nat /\ ByteBits * (n - k) = Room(n - k)
        /\ ByteBits * (n - k + 1) = Room(n - k) + ByteBits
    <3>1. Room(n - k) \in Nat /\ Room((n - k) + 1) = Room(n - k) + ByteBits
      BY <2>1, RoomFacts
    <3> QED
      BY <3>1 DEF Room
  <2> DEFINE r == Room(n - k)
  <2>3. InByte(p, n, k) = {e - r : e \in {x \in {y \in p : y < r + ByteBits} : x >= r}}
    BY <2>2 DEF InByte, ShiftRight
  <2>4. p \in SUBSET Int /\ r \in Nat
    BY <1>1, <2>2
  <2> HIDE DEF r
  <2>5. InByte(p, n, k) \in SUBSET (0..ByteBits - 1)
    BY <2>3, <2>4
  <2>6. ASSUME NEW d \in Int
        PROVE  d \in InByte(p, n, k) <=> (d + r \in p /\ d \in 0..ByteBits - 1)
    <3>1. ASSUME d \in InByte(p, n, k)
          PROVE  d + r \in p
      BY <2>3, <2>4, <3>1
    <3>2. ASSUME d + r \in p, d \in 0..ByteBits - 1
          PROVE  d \in InByte(p, n, k)
      <4>1. (d + r) - r = d /\ d + r < r + ByteBits /\ d + r >= r
        BY <2>4, <3>2
      <4> QED
        BY <2>3, <3>2, <4>1
    <3> QED
      BY <2>5, <3>1, <3>2
  <2> QED
    BY <2>4, <2>5, <2>6 DEF Bytes, r
<1>3. ASSUME NEW k \in 1..n
      PROVE  s[k] \in Bytes /\ t[k] = Xor(s[k], InByte(p, n, k)) /\ t[k] \in Bytes
  <2>1. s[k] \in Bytes /\ t[k] = Xor(s[k], InByte(p, n, k))
    BY <1>1 DEF Patched
  <2> QED
    BY <1>2, <2>1 DEF Bytes, Xor
<1>4. t \in Seq(Bytes) /\ Len(t) = n
  <2>1. DOMAIN t = 1..n /\ t = [k \in 1..n |-> t[k]]
    BY <1>1 DEF Patched
  <2> HIDE DEF t
  <2>2. t \in [1..n -> Bytes]
    BY <1>3, <2>1
  <2>3. t \in Seq(Bytes)
    BY <1>1, <2>2, SeqDef
  <2> QED
    BY <1>1, <2>1, <2>3
<1> HIDE DEF t, n
<1>5. /\ Message(s) \in SUBSET (0..Room(n) - 1) /\ Message(t) \in SUBSET (0..Room(n) - 1)
  BY <1>4, MessageBits DEF n
<1>6. ASSUME NEW e \in 0..Room(n) - 1
      PROVE  e \in Message(t) <=> e \in Xor(Message(s), p)
  <2>1. PICK k \in 1..n : e - Room(n - k) \in 0..ByteBits - 1
    BY <1>1, ByteOf
  <2>2. \A j \in 1..n : e - Room(n - j) \in 0..ByteBits - 1 => j = k
    BY <1>1, <2>1, ByteOf
  <2>3. ASSUME NEW x \in Seq(Bytes), Len(x) = n
        PROVE  e \in Message(x) <=> e - Room(n - k) \in x[k]
    <3>1. e \in Message(x) <=> \E j \in 1..Len(x) : e - Room(Len(x) - j) \in x[j]
      BY <1>1, MessageBits
    <3>2. \A j \in 1..Len(x) : x[j] \in SUBSET (0..ByteBits - 1)
      BY DEF Bytes
    <3> QED
      BY <2>1, <2>2, <2>3, <3>1, <3>2
  <2> DEFINE d == e - Room(n - k)
  <2>4. d \in Int /\ d + Room(n - k) = e
    <3>1. Room(n - k) \in Nat
      BY <1>2
    <3>2. e \in Int
      BY <1>1
    <3> QED
      BY <3>1, <3>2
  <2>5. d \in InByte(p, n, k) <=> e \in p
    BY <1>2, <2>1, <2>4
  <2>6. e \in Message(t) <=> d \in t[k]
    BY <1>4, <2>3
  <2>7. e \in Message(s) <=> d \in s[k]
    BY <2>3 DEF n
  <2> HIDE DEF d
  <2> QED
    BY <1>3, <2>5, <2>6, <2>7 DEF Xor
<1>7. Xor(Message(s), p) \in SUBSET (0..Room(n) - 1)
  BY <1>5 DEF Xor, n
<1>8. Message(t) = Xor(Message(s), p)
  BY <1>5, <1>6, <1>7
<1> QED
  BY <1>4, <1>8 DEF t, n

LEMMA InvBurstsDetected == CrcInv => BurstsDetected
<1> USE Numbers
<1> SUFFICES ASSUME CrcInv, bytes # <<>>, NEW t \in Damaged(bytes)
             PROVE  CrcOf(t) # crc
  BY DEF BurstsDetected
<1> DEFINE s == bytes
           n == Len(s)
           bits == ByteBits * Len(s)
<1>1. /\ s \in Seq(Bytes) /\ n \in Nat /\ n <= MaxBytes
      /\ crc32_table = init_crc32 /\ crc = Rem(Dividend(s))
  BY DEF CrcInv
<1>2. bits = Room(n) /\ Room(n) \in Nat /\ Room(n) <= Top - WordBits
  <2>1. Room(n) \in Nat /\ Room(MaxBytes) \in Nat /\ Room(n) <= Room(MaxBytes)
    BY <1>1, RoomFacts
  <2>2. Top = WordBits + Room(MaxBytes)
    BY RoomFacts
  <2> QED
    BY <2>1, <2>2 DEF Room
<1>3. \E q \in SUBSET (0..WordBits - 1), m \in Nat :
        /\ Times(q, m) # {} /\ Times(q, m) \subseteq 0..Room(n) - 1
        /\ t = Patched(s, Times(q, m))
  <2>1. PICK p \in {b \in UNION {{{e + m : e \in q} : q \in SUBSET (0..WordBits - 1)}
                                 : m \in 0..(IF bits > WordBits THEN bits - WordBits ELSE 0)} :
                      b # {} /\ b \subseteq 0..bits - 1} :
          t = Patched(s, p)
    BY DEF Damaged, Patched, InByte
  <2>2. PICK m \in 0..(IF bits > WordBits THEN bits - WordBits ELSE 0) :
          p \in {{e + m : e \in q} : q \in SUBSET (0..WordBits - 1)}
    BY <2>1
  <2>3. m \in Nat
    BY <1>2, <2>2
  <2>4. PICK q \in SUBSET (0..WordBits - 1) : p = Times(q, m)
    BY <2>2 DEF Times
  <2> QED
    BY <1>2, <2>1, <2>3, <2>4
<1>4. PICK q \in SUBSET (0..WordBits - 1), m \in Nat :
        /\ Times(q, m) # {} /\ Times(q, m) \subseteq 0..Room(n) - 1
        /\ t = Patched(s, Times(q, m))
  BY <1>3
<1> DEFINE p == Times(q, m)
<1> HIDE DEF s, n, bits
<1>5. /\ t \in Seq(Bytes) /\ Len(t) = n /\ Message(t) = Xor(Message(s), p)
  BY <1>1, <1>4, MessagePatched DEF n
<1>6. CrcOf(t) = Rem(Dividend(t))
  BY <1>1, <1>5, CrcOfIsRemainder
<1>7. q \in Words /\ q # {} /\ q \in SUBSET Int
  BY <1>4 DEF Words, Times
<1>8. Rem(q) = q
  BY <1>7, RemWord
<1>9. m + WordBits \in Nat /\ m + WordBits <= Top /\ q \in SUBSET (0..Top - (m + WordBits))
  <2>1. ASSUME NEW e \in q PROVE e \in Nat /\ e + m <= Room(n) - 1
    <3>1. e + m \in p
      BY DEF Times
    <3> QED
      BY <1>4, <3>1
  <2>2. PICK e \in q : TRUE
    BY <1>7
  <2>3. m <= Room(n) - 1
    BY <1>2, <2>1, <2>2
  <2> QED
    BY <1>2, <2>1, <2>3
<1>10. Times(p, WordBits) = Times(q, m + WordBits)
  BY <1>7, TimesFacts
<1>11. Rem(Times(p, WordBits)) # {}
  BY <1>7, <1>8, <1>9, <1>10, ShiftedNonzero
<1>12. Times(p, WordBits) \in Polys
  BY <1>9, <1>10, RemTimes
<1>13. Dividend(s) \in SUBSET (0..WordBits + Room(n) - 1)
  <2>1. {} \in Bytes
    BY DEF Bytes
  <2> QED
    BY <1>1, <2>1, DividendAppend DEF n
<1>14. Dividend(s) \in Polys
  BY <1>2, <1>13 DEF Polys
<1>15. Dividend(t) = Xor(Dividend(s), Times(p, WordBits))
  <2>1. Message(s) \in SUBSET Int /\ p \in SUBSET Int
    BY <1>1, <1>4, MessageBits
  <2>2. Times(Message(t), WordBits) = Xor(Times(Message(s), WordBits), Times(p, WordBits))
    BY <1>5, <2>1, TimesFacts
  <2>3. \A x, y, z : Xor(Xor(x, y), z) = Xor(Xor(x, z), y)
    BY DEF Xor
  <2> QED
    BY <1>5, <2>2, <2>3 DEF Dividend, n
<1>16. Rem(Dividend(t)) = Xor(Rem(Dividend(s)), Rem(Times(p, WordBits)))
  BY <1>12, <1>14, <1>15, RemFacts
<1>17. \A x, y : y # {} => Xor(x, y) # x
  BY DEF Xor
<1> QED
  BY <1>1, <1>6, <1>11, <1>16, <1>17

\* A table or file that changed anywhere within one word of its bits, and in no
\* other bit, never passes for the one whose checksum was stored: validateTable
\* and ufat_fread tell them apart.
THEOREM BurstsAreDetected == CrcSpec => []BurstsDetected
  BY CrcInvariant, InvBurstsDetected, PTL
=============================================================================
