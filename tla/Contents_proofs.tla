---------------------------- MODULE Contents_proofs ----------------------------
(***************************************************************************)
(* What the files contain: each has its old contents or the complete new   *)
(* ones, what was acknowledged lasts, and a reader gets what was written.  *)
(* For any volume and any faults, as long as the caller is careful.        *)
(***************************************************************************)
EXTENDS Accounting_proofs, WellFoundedInduction

-----------------------------------------------------------------------------
(* Induction, with a set in place of a predicate: every nonempty set of      *)
(* numbers has a least one.                                                  *)

LEMMA Least ==
  ASSUME NEW T \in SUBSET Nat, T # {}
  PROVE  \E x \in T : \A y \in T : ~(y < x)
<1> DEFINE R == OpToRel(<, Nat)
<1>1. IsWellFoundedOn(R, Nat)
  BY NatLessThanWellFounded
<1> HIDE DEF R
<1>2. \E x \in T : \A y \in T : ~(<<y, x>> \in R)
  BY <1>1, WFMin, Zenon
<1>3. PICK x \in T : \A y \in T : ~(<<y, x>> \in R)
  BY <1>2
<1>4. ASSUME NEW y \in T, y < x
      PROVE  <<y, x>> \in R
  <2>1. <<y, x>> \in Nat \X Nat /\ <<y, x>>[1] < <<y, x>>[2]
    BY <1>4
  <2> QED
    BY <2>1, Zenon DEF R, OpToRel
<1> QED
  BY <1>3, <1>4

LEMMA Induction ==
  ASSUME NEW k \in Nat, NEW T, 0 \in T, \A i \in 1..k : i - 1 \in T => i \in T
  PROVE  \A i \in 0..k : i \in T
<1> DEFINE Out == {i \in 0..k : i \notin T}
<1> SUFFICES ASSUME Out # {}
             PROVE  FALSE
  OBVIOUS
<1>1. Out \in SUBSET Nat
  OBVIOUS
<1> HIDE DEF Out
<1>2. PICK i \in Out : \A j \in Out : ~(j < i)
  BY <1>1, Least
<1>3. i \in 1..k
  BY <1>2 DEF Out
<1>4. i - 1 \in 0..k /\ i - 1 < i
  BY <1>3
<1> QED
  BY <1>2, <1>3, <1>4 DEF Out

-----------------------------------------------------------------------------
(* Following a chain. *)

\* The last place of a walk that a file of MaxUnits units can reach.
Places == (HeaderUnits + MaxUnits) \div SectorUnits

Following(tab, x) == IF x = EOF THEN EOF ELSE tab[x].next

IsWalk(tab, s, w, k) ==
  /\ w \in [0..k -> Sectors \cup {EOF}]
  /\ w[0] = s
  /\ \A i \in 1..k : w[i] = Following(tab, w[i - 1])

LEMMA PlacesType == Places \in Nat
  BY UnitsAssumption, BoundsAssumption DEF Places

LEMMA FollowingType ==
  ASSUME NEW tab \in Fats, NEW x \in Sectors \cup {EOF}
  PROVE  Following(tab, x) \in Sectors \cup {EOF}
  BY DEF Following, Fats, Entry

LEMMA WalkExists ==
  ASSUME NEW tab \in Fats, NEW s \in Sectors, NEW k \in Nat
  PROVE  \E w : IsWalk(tab, s, w, k)
<1> DEFINE T == {i \in 0..k : \E w : IsWalk(tab, s, w, i)}
<1>1. 0 \in T
  <2>1. IsWalk(tab, s, [i \in 0..0 |-> s], 0)
    BY DEF IsWalk
  <2> QED
    BY <2>1
<1>2. ASSUME NEW i \in 1..k, i - 1 \in T
      PROVE  i \in T
  <2>1. PICK w : IsWalk(tab, s, w, i - 1)
    BY <1>2
  <2> DEFINE v == [j \in 0..i |-> IF j = i THEN Following(tab, w[i - 1]) ELSE w[j]]
  <2>2. v[0] = s /\ v[i] = Following(tab, w[i - 1]) /\ \A j \in 0..i - 1 : v[j] = w[j]
    BY <2>1 DEF IsWalk
  <2>3. v \in [0..i -> Sectors \cup {EOF}]
    <3>1. \A j \in 0..i - 1 : w[j] \in Sectors \cup {EOF}
      BY <2>1 DEF IsWalk
    <3>2. Following(tab, w[i - 1]) \in Sectors \cup {EOF}
      BY <3>1, FollowingType
    <3> QED
      BY <3>1, <3>2
  <2>4. \A j \in 1..i : v[j] = Following(tab, v[j - 1])
    <3> SUFFICES ASSUME NEW j \in 1..i
                 PROVE  v[j] = Following(tab, v[j - 1])
      OBVIOUS
    <3>1. j - 1 \in 0..i - 1 /\ v[j - 1] = w[j - 1]
      BY <2>2
    <3>2. CASE j = i
      BY <2>2, <3>1, <3>2
    <3>3. CASE j # i
      BY <2>1, <2>2, <3>1, <3>3 DEF IsWalk
    <3> QED
      BY <3>2, <3>3
  <2> HIDE DEF v
  <2>5. IsWalk(tab, s, v, i)
    BY <2>2, <2>3, <2>4 DEF IsWalk
  <2> QED
    BY <2>5
<1> HIDE DEF T
<1>3. k \in T
  BY <1>1, <1>2, Induction
<1> QED
  BY <1>3 DEF T

LEMMA WalkIs ==
  ASSUME NEW tab \in Fats, NEW s \in Sectors
  PROVE  /\ Walk(tab, s)[0] = s
         /\ \A i \in 1..Places : Walk(tab, s)[i] = Following(tab, Walk(tab, s)[i - 1])
<1> DEFINE Again(w) == [i \in 0..Places |-> IF i = 0 THEN s
                                            ELSE IF w[i - 1] = EOF THEN EOF
                                            ELSE tab[w[i - 1]].next]
<1>1. PICK w : IsWalk(tab, s, w, Places)
  BY WalkExists, PlacesType
<1>2. w = Again(w)
  <2>1. \A i \in 0..Places : w[i] = Again(w)[i]
    BY <1>1 DEF IsWalk, Following
  <2> QED
    BY <1>1, <2>1 DEF IsWalk
<1>3. Walk(tab, s) = Again(Walk(tab, s))
  BY <1>2 DEF Walk, Places
<1> DEFINE v == Walk(tab, s)
<1> HIDE DEF v
<1>4. v = Again(v)
  BY <1>3 DEF v
<1>5. v[0] = s /\ \A i \in 1..Places : v[i] = Following(tab, v[i - 1])
  BY <1>4, PlacesType DEF Following
<1> QED
  BY <1>5 DEF v
LEMMA WalkInside ==
  ASSUME NEW tab \in Fats, NEW s \in Sectors, NEW i \in 0..Places
  PROVE  Walk(tab, s)[i] \in Chain(tab, s) \cup {EOF}
<1> DEFINE w == Walk(tab, s)
           T == {j \in 0..Places : w[j] \in Chain(tab, s) \cup {EOF}}
<1>1. w[0] = s /\ \A j \in 1..Places : w[j] = Following(tab, w[j - 1])
  BY WalkIs
<1> HIDE DEF w
<1>2. 0 \in T
  BY <1>1, ChainStart, PlacesType
<1>3. ASSUME NEW j \in 1..Places, j - 1 \in T
      PROVE  j \in T
  <2>1. tab[w[j - 1]].next \in Chain(tab, s) \cup {EOF} \/ w[j - 1] = EOF
    BY <1>3, ChainIsClosed DEF Closed
  <2> QED
    BY <1>1, <2>1 DEF Following
<1> HIDE DEF T
<1>4. i \in T
  BY <1>2, <1>3, PlacesType, Induction
<1> QED
  BY <1>4 DEF T, w

\* After its end a walk stays there.
LEMMA WalkEnded ==
  ASSUME NEW tab \in Fats, NEW s \in Sectors, NEW i \in 0..Places, NEW j \in i..Places,
         Walk(tab, s)[i] = EOF
  PROVE  Walk(tab, s)[j] = EOF
<1> DEFINE w == Walk(tab, s)
           T == {d \in 0..(Places - i) : w[i + d] = EOF}
<1>1. \A d \in 1..Places : w[d] = Following(tab, w[d - 1])
  BY WalkIs
<1> HIDE DEF w
<1>2. 0 \in T
  BY PlacesType DEF w
<1>3. ASSUME NEW d \in 1..(Places - i), d - 1 \in T
      PROVE  d \in T
  <2>1. i + d \in 1..Places /\ (i + d) - 1 = i + (d - 1)
    BY PlacesType
  <2> QED
    BY <1>1, <1>3, <2>1 DEF Following
<1> HIDE DEF T
<1>4. Places - i \in Nat /\ j - i \in 0..(Places - i)
  BY PlacesType
<1>5. j - i \in T
  BY <1>2, <1>3, <1>4, Induction
<1>6. i + (j - i) = j
  OBVIOUS
<1> QED
  BY <1>5, <1>6 DEF T, w

\* A walk meets the sector that ends its chain once.
LEMMA EndOnce ==
  ASSUME NEW tab \in Fats, NEW s \in Sectors, NEW i \in 0..Places, NEW j \in 0..Places,
         Walk(tab, s)[i] \in Sectors, Walk(tab, s)[j] = Walk(tab, s)[i],
         tab[Walk(tab, s)[i]].next = EOF
  PROVE  i = j
<1>1. ASSUME NEW m \in 0..Places, NEW n \in 0..Places, m < n,
             Walk(tab, s)[m] = Walk(tab, s)[i], Walk(tab, s)[n] = Walk(tab, s)[i]
      PROVE  FALSE
  <2>1. m + 1 \in 1..Places /\ (m + 1) - 1 = m /\ n \in (m + 1)..Places
    BY <1>1, PlacesType
  <2>2. Walk(tab, s)[m + 1] = EOF
    BY <1>1, <2>1, WalkIs DEF Following
  <2>3. Walk(tab, s)[n] = EOF
    BY <2>1, <2>2, WalkEnded
  <2> QED
    BY <1>1, <2>3, EOFAssumption
<1> QED
  BY <1>1

\* What another table links alike is walked alike: to the end, or as far as that.
LEMMA WalkAlike ==
  ASSUME NEW tab \in Fats, NEW new \in Fats, NEW s \in Sectors, NEW i \in 0..Places,
         \A j \in 0..Places : j < i /\ Walk(tab, s)[j] # EOF =>
           new[Walk(tab, s)[j]].next = tab[Walk(tab, s)[j]].next
  PROVE  Walk(new, s)[i] = Walk(tab, s)[i]
<1> DEFINE w == Walk(tab, s)
           v == Walk(new, s)
           T == {j \in 0..i : v[j] = w[j]}
<1>1. /\ w[0] = s /\ \A j \in 1..Places : w[j] = Following(tab, w[j - 1])
      /\ v[0] = s /\ \A j \in 1..Places : v[j] = Following(new, v[j - 1])
      /\ \A j \in 0..Places : j < i /\ w[j] # EOF => new[w[j]].next = tab[w[j]].next
  BY WalkIs
<1> HIDE DEF w, v
<1>2. 0 \in T
  BY <1>1
<1>3. ASSUME NEW j \in 1..i, j - 1 \in T
      PROVE  j \in T
  <2>1. j \in 1..Places /\ j - 1 \in 0..Places /\ j - 1 < i /\ v[j - 1] = w[j - 1]
    BY <1>3, PlacesType
  <2>2. Following(tab, w[j - 1]) = Following(new, v[j - 1])
    BY <1>1, <2>1 DEF Following
  <2> QED
    BY <1>1, <2>1, <2>2
<1> HIDE DEF T
<1>4. i \in T
  BY <1>2, <1>3, Induction
<1> QED
  BY <1>4 DEF T, v, w

LEMMA WalkKept ==
  ASSUME NEW tab \in Fats, NEW new \in Fats, NEW s \in Sectors,
         \A x \in Chain(tab, s) : new[x].next = tab[x].next,
         NEW i \in 0..Places
  PROVE  Walk(new, s)[i] = Walk(tab, s)[i]
<1>1. \A j \in 0..Places : Walk(tab, s)[j] # EOF =>
        new[Walk(tab, s)[j]].next = tab[Walk(tab, s)[j]].next
  BY WalkInside
<1> QED
  BY <1>1, WalkAlike

\* A sector is linked to the last of a chain: the walk goes one sector further.
LEMMA WalkExtended ==
  ASSUME NEW tab \in Fats, NEW new \in Fats, NEW s \in Sectors,
         NEW k \in 0..Places, NEW last \in Sectors, Walk(tab, s)[k] = last,
         tab[last].next = EOF, NEW added \in Sectors,
         \A x \in Chain(tab, s) \ {last} : new[x].next = tab[x].next,
         new[last].next = added
  PROVE  /\ \A i \in 0..Places : Walk(tab, s)[i] # EOF => Walk(new, s)[i] = Walk(tab, s)[i]
         /\ k < Places => Walk(new, s)[k + 1] = added
<1> DEFINE w == Walk(tab, s)
<1>1. ASSUME NEW i \in 0..Places, w[i] # EOF
      PROVE  Walk(new, s)[i] = w[i]
  <2>1. ASSUME NEW j \in 0..Places, j < i, w[j] # EOF
        PROVE  new[w[j]].next = tab[w[j]].next
    <3>1. w[j] # last
      <4> SUFFICES ASSUME w[j] = last
                   PROVE  FALSE
        OBVIOUS
      <4>1. j + 1 \in 1..Places /\ (j + 1) - 1 = j /\ i \in (j + 1)..Places
        BY <2>1, PlacesType
      <4>2. w[j + 1] = EOF
        BY <2>1, <4>1, WalkIs DEF Following
      <4> QED
        BY <1>1, <4>1, <4>2, WalkEnded
    <3> QED
      BY <2>1, <3>1, WalkInside
  <2> QED
    BY <2>1, WalkAlike
<1>2. last # EOF
  BY EOFAssumption
<1>3. k < Places => Walk(new, s)[k + 1] = added
  <2> SUFFICES ASSUME k < Places
               PROVE  Walk(new, s)[k + 1] = added
    OBVIOUS
  <2>1. k + 1 \in 1..Places /\ (k + 1) - 1 = k
    BY PlacesType
  <2> QED
    BY <1>1, <1>2, <2>1, WalkIs DEF Following
<1> QED
  BY <1>1, <1>3

-----------------------------------------------------------------------------
(* Positions: where the units of a file are. *)

\* Unit p of a file is at Place(p), counted from the front of its first sector.
Place(p) == HeaderUnits + p - 1
SectorOf(p) == Place(p) \div SectorUnits
UnitOf(p) == Place(p) % SectorUnits

LEMMA Division ==
  ASSUME NEW a \in Nat, NEW b \in Nat \ {0}
  PROVE  /\ a \div b \in Nat /\ a % b \in 0..b - 1
         /\ a = b * (a \div b) + (a % b)
  OBVIOUS

LEMMA DivisionUnique ==
  ASSUME NEW b \in Nat \ {0}, NEW q \in Nat, NEW r \in 0..b - 1,
         NEW q2 \in Nat, NEW r2 \in 0..b - 1, b * q + r = b * q2 + r2
  PROVE  q = q2 /\ r = r2
<1>1. ASSUME NEW x \in Nat, NEW y \in Nat, x < y
      PROVE  b * x + b <= b * y
  <2>1. y = x + 1 + (y - x - 1) /\ y - x - 1 \in Nat
    BY <1>1
  <2>2. PICK d \in Nat : y = x + 1 + d
    BY <2>1
  <2>3. b * y = b * x + b + b * d /\ b * d \in Nat
    BY <2>2
  <2> QED
    BY <2>3
<1>2. ~(q < q2)
  <2> SUFFICES ASSUME q < q2
               PROVE  FALSE
    OBVIOUS
  <2>1. b * q + b <= b * q2
    BY <1>1
  <2>2. b * q \in Nat /\ b * q2 \in Nat
    OBVIOUS
  <2> QED
    BY <2>1, <2>2
<1>3. ~(q2 < q)
  <2> SUFFICES ASSUME q2 < q
               PROVE  FALSE
    OBVIOUS
  <2>1. b * q2 + b <= b * q
    BY <1>1
  <2>2. b * q \in Nat /\ b * q2 \in Nat
    OBVIOUS
  <2> QED
    BY <2>1, <2>2
<1>4. q = q2
  BY <1>2, <1>3
<1>5. b * q = b * q2 /\ b * q \in Nat
  BY <1>4
<1> QED
  BY <1>4, <1>5
LEMMA DivisionOf ==
  ASSUME NEW a \in Nat, NEW b \in Nat \ {0}, NEW q \in Nat, NEW r \in 0..b - 1,
         a = b * q + r
  PROVE  a \div b = q /\ a % b = r
  BY Division, DivisionUnique

LEMMA PlaceType ==
  ASSUME NEW p \in Nat
  PROVE  /\ Place(p) \in Nat /\ SectorOf(p) \in Nat /\ UnitOf(p) \in Units
         /\ Place(p) = SectorUnits * SectorOf(p) + UnitOf(p)
<1>1. Place(p) \in Nat
  BY UnitsAssumption DEF Place
<1>2. SectorUnits \in Nat \ {0}
  BY UnitsAssumption
<1>3. /\ Place(p) \div SectorUnits \in Nat /\ Place(p) % SectorUnits \in 0..SectorUnits - 1
      /\ Place(p) = SectorUnits * (Place(p) \div SectorUnits) + (Place(p) % SectorUnits)
  BY <1>1, <1>2, Division
<1> QED
  BY <1>1, <1>3 DEF SectorOf, UnitOf, Units

\* Later in the same sector.
LEMMA AdvanceWithin ==
  ASSUME NEW p \in Nat, NEW n \in Nat, UnitOf(p) + n < SectorUnits
  PROVE  SectorOf(p + n) = SectorOf(p) /\ UnitOf(p + n) = UnitOf(p) + n
<1>1. /\ SectorOf(p) \in Nat /\ UnitOf(p) \in Units
      /\ Place(p) = SectorUnits * SectorOf(p) + UnitOf(p)
  BY PlaceType
<1>2. Place(p + n) = Place(p) + n /\ Place(p + n) \in Nat
  BY PlaceType, UnitsAssumption DEF Place
<1>3. UnitOf(p) + n \in 0..SectorUnits - 1 /\ SectorUnits * SectorOf(p) \in Nat
  BY <1>1, UnitsAssumption DEF Units
<1>4. Place(p + n) = SectorUnits * SectorOf(p) + (UnitOf(p) + n)
  BY <1>1, <1>2, <1>3, UnitsAssumption DEF Units
<1> QED
  BY <1>1, <1>2, <1>3, <1>4, UnitsAssumption, DivisionOf DEF SectorOf, UnitOf

\* From the last unit of a sector into the next sector.
LEMMA AdvanceBeyond ==
  ASSUME NEW p \in Nat, NEW n \in 1..SectorUnits, UnitOf(p) = SectorUnits - 1
  PROVE  SectorOf(p + n) = SectorOf(p) + 1 /\ UnitOf(p + n) = n - 1
<1>1. SectorOf(p) \in Nat /\ Place(p) = SectorUnits * SectorOf(p) + (SectorUnits - 1)
  BY PlaceType
<1>2. Place(p + n) = Place(p) + n /\ Place(p + n) \in Nat
  BY PlaceType, UnitsAssumption DEF Place
<1>3. SectorUnits * (SectorOf(p) + 1) = SectorUnits * SectorOf(p) + SectorUnits
      /\ SectorUnits * SectorOf(p) \in Nat
  BY <1>1, UnitsAssumption
<1>4. Place(p + n) = SectorUnits * (SectorOf(p) + 1) + (n - 1)
  BY <1>1, <1>2, <1>3, UnitsAssumption
<1>5. SectorUnits \in Nat \ {0} /\ SectorOf(p) + 1 \in Nat /\ n - 1 \in 0..SectorUnits - 1
  BY <1>1, UnitsAssumption
<1> QED
  BY <1>2, <1>4, <1>5, DivisionOf DEF SectorOf, UnitOf

\* A later unit is no further back: in no earlier sector, and not before it in
\* the same sector.
LEMMA PlacesInOrder ==
  ASSUME NEW p \in Nat, NEW q \in Nat, p <= q
  PROVE  /\ SectorOf(p) <= SectorOf(q)
         /\ SectorOf(p) = SectorOf(q) => UnitOf(p) <= UnitOf(q)
<1> DEFINE A == SectorOf(p)
           B == SectorOf(q)
<1>1. /\ A \in Nat /\ UnitOf(p) \in Units /\ Place(p) = SectorUnits * A + UnitOf(p)
      /\ B \in Nat /\ UnitOf(q) \in Units /\ Place(q) = SectorUnits * B + UnitOf(q)
  BY PlaceType
<1>2. Place(p) <= Place(q)
  BY UnitsAssumption DEF Place
<1> HIDE DEF A, B
<1>3. ~(B < A)
  <2> SUFFICES ASSUME B < A
               PROVE  FALSE
    OBVIOUS
  <2>1. PICK d \in Nat : A = B + 1 + d
    <3>1. A - B - 1 \in Nat /\ A = B + 1 + (A - B - 1)
      BY <1>1
    <3> QED
      BY <3>1
  <2>2. /\ SectorUnits * A = SectorUnits * B + SectorUnits + SectorUnits * d
        /\ SectorUnits * d \in Nat /\ SectorUnits * B \in Nat
    BY <1>1, <2>1, UnitsAssumption
  <2> QED
    BY <1>1, <1>2, <2>2, UnitsAssumption DEF Units
<1>4. A = B => UnitOf(p) <= UnitOf(q)
  <2>1. SectorUnits * A \in Nat
    BY <1>1, UnitsAssumption
  <2> QED
    BY <1>1, <1>2, <2>1, UnitsAssumption DEF Units
<1> QED
  BY <1>1, <1>3, <1>4 DEF A, B

\* The first units follow the header.
LEMMA FirstPlaces ==
  /\ SectorOf(0) = 0 /\ UnitOf(0) = HeaderUnits - 1
  /\ \A p \in Nat : p > 0 /\ SectorOf(p) = 0 => UnitOf(p) >= HeaderUnits
<1>1. SectorOf(0) = 0 /\ UnitOf(0) = HeaderUnits - 1
  <2>1. /\ Place(0) = HeaderUnits - 1 /\ HeaderUnits - 1 \in 0..SectorUnits - 1
        /\ Place(0) = SectorUnits * 0 + (HeaderUnits - 1)
    BY UnitsAssumption DEF Place
  <2> QED
    BY <2>1, UnitsAssumption, DivisionOf DEF SectorOf, UnitOf
<1>2. ASSUME NEW p \in Nat, p > 0, SectorOf(p) = 0
      PROVE  UnitOf(p) >= HeaderUnits
  <2>1. Place(p) = UnitOf(p)
    BY <1>2, PlaceType, UnitsAssumption DEF Units
  <2> QED
    BY <1>2, <2>1, UnitsAssumption DEF Place
<1> QED
  BY <1>1, <1>2

\* No unit of a file is beyond the places of a walk.
LEMMA PlacesEnough ==
  ASSUME NEW p \in 0..MaxUnits
  PROVE  SectorOf(p) \in 0..Places
<1>1. p \in Nat /\ MaxUnits + 1 \in Nat /\ p <= MaxUnits + 1
  BY BoundsAssumption
<1>2. SectorOf(p) <= SectorOf(MaxUnits + 1) /\ SectorOf(p) \in Nat
  BY <1>1, PlacesInOrder, PlaceType
<1>3. Place(MaxUnits + 1) = HeaderUnits + MaxUnits
  BY UnitsAssumption, BoundsAssumption DEF Place
<1> QED
  BY <1>2, <1>3, PlacesType DEF SectorOf, Places
-----------------------------------------------------------------------------
(* Files. *)

\* The chain from s holds units 1 to total of session ver, each at its place.
Written(tab, D, s, ver, total) ==
  \A p \in 1..total :
    LET x == Walk(tab, s)[SectorOf(p)]
    IN  x # EOF /\ D[x][UnitOf(p)] = <<ver, p>>

\* The chain from s is that of a file: its header, on a media with headers H and
\* data D, is that of a session, and the chain has what the header promises.
FileAt(tab, H, D, s) ==
  /\ H[s] # Junk /\ H[s].ver # 0
  /\ Written(tab, D, s, H[s].ver, H[s].total)

FilesAt(tab, H, D) == \A s \in Starts(tab) : FileAt(tab, H, D, s)

\* A name is at most one file's.
NamesApart(tab, H) == \A s, t \in Starts(tab) : H[s].name = H[t].name => s = t

Directory(tab, H, D) == FilesAt(tab, H, D) /\ NamesApart(tab, H)

LEMMA WrittenKept ==
  ASSUME NEW tab \in Fats, NEW new \in Fats, NEW s \in Sectors, NEW D, NEW D2,
         NEW ver, NEW total \in 0..MaxUnits, Written(tab, D, s, ver, total),
         \A x \in Chain(tab, s) : new[x].next = tab[x].next /\ D2[x] = D[x]
  PROVE  Written(new, D2, s, ver, total)
<1> SUFFICES ASSUME NEW p \in 1..total
             PROVE  LET x == Walk(new, s)[SectorOf(p)]
                    IN  x # EOF /\ D2[x][UnitOf(p)] = <<ver, p>>
  BY DEF Written
<1>0. p \in 0..MaxUnits
  BY BoundsAssumption
<1>1. SectorOf(p) \in 0..Places
  BY <1>0, PlacesEnough
<1>2. Walk(tab, s)[SectorOf(p)] # EOF
      /\ D[Walk(tab, s)[SectorOf(p)]][UnitOf(p)] = <<ver, p>>
  BY DEF Written
<1>3. Walk(tab, s)[SectorOf(p)] \in Chain(tab, s)
  BY <1>1, <1>2, WalkInside
<1>4. Walk(new, s)[SectorOf(p)] = Walk(tab, s)[SectorOf(p)]
  BY <1>1, WalkKept
<1> QED
  BY <1>2, <1>3, <1>4

\* A file stays as long as its header, its sectors and their links do.
LEMMA FileKept ==
  ASSUME NEW tab \in Fats, NEW new \in Fats, NEW s \in Sectors, NEW H \in Headers, NEW H2,
         NEW D, NEW D2, FileAt(tab, H, D, s), H2[s] = H[s],
         \A x \in Chain(tab, s) : new[x].next = tab[x].next /\ D2[x] = D[x]
  PROVE  FileAt(new, H2, D2, s)
<1>1. H[s].total \in 0..MaxUnits
  BY DEF FileAt, Headers, Header
<1> QED
  BY <1>1, WrittenKept DEF FileAt

\* Writing into free sectors does nothing to the files.
LEMMA DirectoryKept ==
  ASSUME NEW tab \in Fats, WellFormed(tab), NEW H \in Headers, NEW H2, NEW D, NEW D2,
         \A x \in Sectors : tab[x] # FreeEntry => H2[x] = H[x] /\ D2[x] = D[x],
         Directory(tab, H, D)
  PROVE  Directory(tab, H2, D2)
<1>1. ASSUME NEW s \in Starts(tab)
      PROVE  s \in Sectors /\ H2[s] = H[s] /\ \A x \in Chain(tab, s) : D2[x] = D[x]
  BY CommittedChains, ChainStart DEF Starts
<1>2. FilesAt(tab, H2, D2)
  BY <1>1, FileKept DEF Directory, FilesAt
<1> QED
  BY <1>1, <1>2 DEF Directory, NamesApart

\* Freeing one file does nothing to the others.
LEMMA FilesFreed ==
  ASSUME NEW tab \in Fats, WellFormed(tab), NEW s \in Starts(tab),
         NEW H \in Headers, NEW D, FilesAt(tab, H, D)
  PROVE  FilesAt(FreeChain(tab, s), H, D)
<1>1. /\ FreeChain(tab, s) \in Fats /\ Starts(FreeChain(tab, s)) = Starts(tab) \ {s}
      /\ \A t \in Starts(tab) \ {s} : \A x \in Chain(tab, t) : FreeChain(tab, s)[x] = tab[x]
  BY FreeWellFormed, FreeChainType
<1>2. ASSUME NEW t \in Starts(tab) \ {s}
      PROVE  FileAt(FreeChain(tab, s), H, D, t)
  BY <1>1, FileKept DEF FilesAt, Starts
<1> QED
  BY <1>1, <1>2 DEF FilesAt

LEMMA DirectoryFreed ==
  ASSUME NEW tab \in Fats, WellFormed(tab), NEW s \in Starts(tab),
         NEW H \in Headers, NEW D, Directory(tab, H, D)
  PROVE  Directory(FreeChain(tab, s), H, D)
<1>1. Starts(FreeChain(tab, s)) \subseteq Starts(tab)
  BY FreeWellFormed
<1> QED
  BY <1>1, FilesFreed DEF Directory, NamesApart

LEMMA BlankDirectory ==
  ASSUME NEW H, NEW D
  PROVE  Starts(BlankFat) = {} /\ Directory(BlankFat, H, D)
<1>1. Starts(BlankFat) = {}
  BY DEF Starts, BlankFat, FreeEntry
<1> QED
  BY <1>1 DEF Directory, FilesAt, NamesApart

-----------------------------------------------------------------------------
(* The inductive invariant. *)

\* The handle is where the unit at its position, or the header, is.
Positioned(f, h) ==
  /\ Walk(f, h.start)[SectorOf(h.pos)] = h.cur
  /\ h.off = UnitOf(h.pos) + 1

\* A writer's sectors, in the table f and on a media with data D, hold what it was
\* given so far, and nothing leads back to the first of them.
Composing(f, D, h) ==
  /\ h.start = NoSector => h.pos = 0
  /\ h.start # NoSector =>
       /\ Positioned(f, h)
       /\ \A x \in Chain(f, h.start) : f[x].next # h.start
       /\ Written(f, D, h.start, h.ver, h.pos)

\* The only file of the writer's name is the one it replaces.
Replacing(tab, H, h) == \A s \in Starts(tab) : H[s].name = h.name <=> s = h.old

\* A reader is within its file, which is a file of the table tab.
Reading(tab, H, h) ==
  /\ h.start \in Starts(tab) /\ H[h.start].name = h.name
  /\ h.ver = H[h.start].ver /\ h.total = H[h.start].total
  /\ h.pos <= h.total
  /\ Positioned(tab, h)

DirectoriesGood == \A i \in 0..1 : table[i] # Bad => Directory(table[i], hdr, data)

\* Of a handle whose caller got no error.  A search that failed, which
\* ufat_fopen does not look at, shows in lastError only.
HandleGood(h) ==
  /\ h.mode = "w" => h.ver = session /\ session > 0 /\ Composing(fat, data, h)
  /\ h.mode = "w" /\ lastError # "IO" => Replacing(table[0], hdr, h)
  /\ h.mode = "r" /\ lastError # "IO" => Reading(table[0], hdr, h)

HandlesGood == \A f \in Streams : HandleGood(strm[f])

FilesInv ==
  /\ DirectoriesGood
  /\ mounted /\ ret # "IO" => HandlesGood
-----------------------------------------------------------------------------
(* Readers. *)

\* Whatever is being written, RAM has the chains of the files on the media.
LEMMA FilesInRam ==
  ASSUME AccountInv, RamAgrees, NEW s \in Starts(table[0])
  PROVE  \A x \in Chain(table[0], s) : fat[x] = table[0][x]
<1>1. WellFormed(table[0])
  BY DEF AccountInv, SectorsAccounted, RamAgrees
<1>2. Chain(table[0], s) \subseteq Sectors
  BY ChainStart DEF Starts
<1>3. CASE \A f \in Streams : strm[f].mode # "w"
  BY <1>3 DEF RamAgrees
<1>4. ASSUME NEW f \in Streams, strm[f].mode = "w"
      PROVE  \A x \in Chain(table[0], s) : fat[x] = table[0][x]
  <2>1. Unfinished(fat, table[0], strm[f])
    BY <1>4 DEF RamAgrees
  <2>2. \A x \in Chain(table[0], s) : table[0][x] # FreeEntry
    BY <1>1, CommittedChains
  <2> QED
    BY <1>2, <2>1, <2>2 DEF Unfinished
<1> QED
  BY <1>3, <1>4

\* A reader stays within its file as long as that stays.
LEMMA ReaderKept ==
  ASSUME NEW tab \in Fats, NEW new \in Fats, NEW H, NEW H2, NEW h \in Handle,
         Reading(tab, H, h), h.start \in Starts(new), H2[h.start] = H[h.start],
         \A x \in Chain(tab, h.start) : new[x].next = tab[x].next
  PROVE  Reading(new, H2, h)
<1>1. h.pos \in 0..MaxUnits /\ h.start \in Sectors
  BY DEF Handle, Starts
<1>2. SectorOf(h.pos) \in 0..Places
  BY <1>1, PlacesEnough
<1>3. Walk(new, h.start)[SectorOf(h.pos)] = Walk(tab, h.start)[SectorOf(h.pos)]
  BY <1>1, <1>2, WalkKept
<1> QED
  BY <1>3 DEF Reading, Positioned

\* What a reader reads: the chain of its file, which RAM has too.
LEMMA ReaderFile ==
  ASSUME TypeInv, AccountInv, FilesInv, RamAgrees, NEW h \in Handle, h.cur \in Sectors,
         Reading(table[0], hdr, h)
  PROVE  /\ table[0] \in Fats /\ h.start \in Sectors /\ Positioned(table[0], h)
         /\ Written(table[0], data, h.start, h.ver, h.total)
         /\ fat[h.cur] = table[0][h.cur]
<1>1. table[0] \in Fats /\ Directory(table[0], hdr, data)
  BY DEF RamAgrees, TypeInv, MediaOK, Tabs, FilesInv, DirectoriesGood
<1>2. h.start \in Sectors /\ Positioned(table[0], h)
      /\ Written(table[0], data, h.start, h.ver, h.total)
  BY <1>1 DEF Reading, Starts, Directory, FilesAt, FileAt
<1>3. h.pos \in 0..MaxUnits
  BY DEF Handle
<1>4. h.cur \in Chain(table[0], h.start)
  BY <1>1, <1>2, <1>3, PlacesEnough, WalkInside, EOFAssumption DEF Positioned
<1> QED
  BY <1>1, <1>2, <1>4, FilesInRam DEF Reading
-----------------------------------------------------------------------------
(* The contents of the volume. *)

LEMMA VolumeGood ==
  ASSUME MediaOK, DirectoriesGood
  PROVE  Volume \in Fats /\ Directory(Volume, hdr, data)
<1>1. CASE Loaded = Bad
  BY <1>1, BlankFatType, BlankDirectory DEF Volume
<1>2. CASE Loaded # Bad
  BY <1>2, LoadedType DEF Volume, Loaded, Loadable, DirectoriesGood
<1> QED
  BY <1>1, <1>2

\* A name's contents are those of its one file.
LEMMA ContentsOf ==
  MediaOK /\ DirectoriesGood =>
    \A n \in Names :
      /\ \A s \in Starts(Volume) : hdr[s].name = n => Contents(n) = hdr[s].ver
      /\ (\A s \in Starts(Volume) : hdr[s].name # n) => Contents(n) = 0
<1> SUFFICES ASSUME MediaOK, DirectoriesGood, NEW n \in Names
             PROVE  /\ \A s \in Starts(Volume) : hdr[s].name = n => Contents(n) = hdr[s].ver
                    /\ (\A s \in Starts(Volume) : hdr[s].name # n) => Contents(n) = 0
  OBVIOUS
<1>1. Directory(Volume, hdr, data)
  BY VolumeGood
<1>2. Matches(Volume, hdr, n) = {s \in Starts(Volume) : hdr[s].name = n}
  BY <1>1 DEF Matches, Starts, Directory, FilesAt, FileAt
<1>3. ASSUME NEW s \in Starts(Volume), hdr[s].name = n
      PROVE  Contents(n) = hdr[s].ver
  <2>1. Matches(Volume, hdr, n) = {s}
    BY <1>1, <1>2, <1>3 DEF Directory, NamesApart
  <2>2. s <= s
    BY SectorsAssumption DEF Starts
  <2>3. fileSearch(Volume, hdr, n) = {s}
    BY <2>1, <2>2 DEF fileSearch
  <2>4. Intact(Volume, s)
    BY <1>1 DEF Directory, FilesAt, FileAt, Written, Intact, SectorOf, UnitOf, Place
  <2>5. (CHOOSE x \in {s} : TRUE) = s
    OBVIOUS
  <2> QED
    BY <2>1, <2>3, <2>4, <2>5 DEF Contents
<1>4. ASSUME \A s \in Starts(Volume) : hdr[s].name # n
      PROVE  Contents(n) = 0
  <2>1. Matches(Volume, hdr, n) = {}
    BY <1>2, <1>4
  <2> QED
    BY <2>1 DEF Contents
<1> QED
  BY <1>3, <1>4

\* The same of the next state.
LEMMA ContentsOfNext ==
  (MediaOK /\ DirectoriesGood)' =>
    (\A n \in Names :
      /\ \A s \in Starts(Volume) : hdr[s].name = n => Contents(n) = hdr[s].ver
      /\ (\A s \in Starts(Volume) : hdr[s].name # n) => Contents(n) = 0)'
  BY ContentsOf, PTL
-----------------------------------------------------------------------------
(* Writing on. *)

LEMMA LinkNext ==
  ASSUME NEW f \in Fats, NEW h, NEW s, NEW x \in Sectors
  PROVE  Link(f, h, s)[x].next = IF x = h.cur THEN s ELSE f[x].next
<1>1. f[x] \in Entry
  BY DEF Fats
<1> QED
  BY <1>1 DEF Link, Entry

\* Units put at the handle's place, where nothing was put before, are written.
LEMMA PutWritten ==
  ASSUME data \in [Sectors -> Block], NEW g, NEW h \in Handle, h.cur \in Sectors,
         NEW n \in 1..SectorUnits, h.off + n <= SectorUnits,
         Written(g, data, h.start, h.ver, h.pos),
         \A p \in 1..h.pos : Walk(g, h.start)[SectorOf(p)] = h.cur => UnitOf(p) < h.off,
         \A i \in 1..n : /\ Walk(g, h.start)[SectorOf(h.pos + i)] = h.cur
                         /\ UnitOf(h.pos + i) = h.off + i - 1,
         data' = [data EXCEPT ![h.cur] = Put(h, n)]
  PROVE  Written(g, data', h.start, h.ver, h.pos + n)
<1>1. h.pos \in Nat /\ h.off \in 0..SectorUnits
  BY BoundsAssumption DEF Handle
<1>2. data'[h.cur] = Put(h, n) /\ \A x : x # h.cur => data'[x] = data[x]
  BY DEF Block
<1> SUFFICES ASSUME NEW p \in 1..h.pos + n
             PROVE  LET x == Walk(g, h.start)[SectorOf(p)]
                    IN  x # EOF /\ data'[x][UnitOf(p)] = <<h.ver, p>>
  BY DEF Written
<1> DEFINE x == Walk(g, h.start)[SectorOf(p)]
           u == UnitOf(p)
<1>3. p \in Nat /\ u \in Units
  BY <1>1, PlaceType
<1>4. CASE p \in 1..h.pos
  <2>1. x # EOF /\ data[x][u] = <<h.ver, p>>
    BY <1>4 DEF Written
  <2>2. CASE x = h.cur
    <3>1. u < h.off /\ u \notin h.off..h.off + n - 1
      BY <1>1, <1>3, <1>4, <2>2 DEF Units
    <3>2. Put(h, n)[u] = data[h.cur][u]
      BY <1>3, <3>1 DEF Put
    <3> QED
      BY <1>2, <2>1, <2>2, <3>2
  <2> QED
    BY <1>2, <2>1, <2>2
<1>5. CASE p \notin 1..h.pos
  <2> DEFINE i == p - h.pos
  <2>1. i \in 1..n /\ p = h.pos + i
    BY <1>1, <1>5
  <2> HIDE DEF i
  <2>2. x = h.cur /\ u = h.off + i - 1
    BY <2>1
  <2>3. u \in h.off..h.off + n - 1 /\ h.pos + 1 + u - h.off = p
    BY <1>1, <1>3, <2>1, <2>2 DEF Units
  <2>4. Put(h, n)[u] = <<h.ver, p>>
    BY <1>3, <2>3 DEF Put
  <2> QED
    BY <1>2, <2>2, <2>4, EOFAssumption
<1> QED
  BY <1>4, <1>5

\* The pass of ufat_fwrite that writes n units.
LEMMA ComposeMore ==
  ASSUME data \in [Sectors -> Block], NEW tab \in Fats, WellFormed(tab), NEW f \in Fats,
         NEW h \in Handle, Unfinished(f, tab, h), Composing(f, data, h),
         h.cur # FullSector,
         NEW s \in IF NeedsSector(h) THEN findEmptySector(f) ELSE {h.cur},
         NEW n \in 1..SectorUnits, NEW m \in Handle, NEW g \in Fats,
         m = (IF NeedsSector(h) THEN Extend(h, s) ELSE h),
         g = (IF NeedsSector(h) THEN Link(f, h, s) ELSE f),
         m.off + n <= SectorUnits, m.pos + n <= MaxUnits,
         data' = [data EXCEPT ![m.cur] = Put(m, n)],
         NEW w, w.start = m.start, w.cur = m.cur, w.ver = m.ver, w.off = m.off + n,
         w.pos = m.pos + n
  PROVE  Composing(g, data', w)
<1>1. h.pos \in Nat /\ h.off \in 0..SectorUnits /\ m.pos + n \in 0..MaxUnits
      /\ m.pos + n \in Nat
  BY BoundsAssumption DEF Handle
<1>2. h.start # NoSector =>
        /\ h.start \in Sectors /\ h.cur \in Sectors
        /\ h.cur \in Chain(f, h.start) /\ f[h.cur].next = EOF
        /\ Walk(f, h.start)[SectorOf(h.pos)] = h.cur /\ h.off = UnitOf(h.pos) + 1
        /\ SectorOf(h.pos) \in 0..Places
        /\ UnitOf(h.pos) \in 0..SectorUnits - 1 /\ SectorOf(h.pos) \in Nat
  BY <1>1, ChainStart, PlaceType, PlacesEnough DEF Unfinished, Claimed, Composing, Positioned, Handle, Units
<1>3. h.start = NoSector <=> h.cur = NoSector
  BY <1>2, SentinelAssumption DEF Unfinished, Handle
\* Before the first sector.
<1>4. CASE h.cur = NoSector
  <2>1. /\ s \in findEmptySector(f) /\ m.start = s /\ m.cur = s /\ m.off = HeaderUnits
        /\ m.pos = h.pos /\ g = Link(f, h, s) /\ s \in Sectors
    BY <1>4 DEF NeedsSector, Extend, Handle, findEmptySector
  <2>2. h.pos = 0
    BY <1>3, <1>4 DEF Composing
  <2>3. g[s].next = EOF
    BY <1>4, <2>1, EmptyIsFree, LinkNext, SentinelAssumption DEF FreeEntry
  <2>4. Walk(g, s)[0] = s
    BY <2>1, WalkIs
  <2>5. ASSUME NEW i \in 1..n
        PROVE  SectorOf(i) = 0 /\ UnitOf(i) = HeaderUnits + i - 1
    <3>1. UnitOf(0) + i < SectorUnits /\ i \in Nat /\ 0 + i = i
      BY <2>1, FirstPlaces, UnitsAssumption
    <3>2. SectorOf(i) = SectorOf(0) /\ UnitOf(i) = UnitOf(0) + i
      BY <3>1, AdvanceWithin
    <3> QED
      BY <3>2, FirstPlaces, UnitsAssumption
  <2>6. Written(g, data', m.start, m.ver, m.pos + n)
    <3>1. Written(g, data, m.start, m.ver, m.pos) /\ 1..m.pos = {}
      BY <2>1, <2>2 DEF Written
    <3>2. \A i \in 1..n : m.pos + i = i
      BY <2>1, <2>2
    <3> QED
      BY <2>1, <2>4, <2>5, <3>1, <3>2, PutWritten
  <2>7. Positioned(g, w)
    <3>1. m.pos + n = n /\ n \in 1..n
      BY <2>1, <2>2
    <3> QED
      BY <2>1, <2>4, <2>5, <3>1, UnitsAssumption DEF Positioned
  <2>8. \A x \in Chain(g, s) : g[x].next # s
    <3>1. Closed(g, {s})
      BY <2>3 DEF Closed
    <3>2. Chain(g, s) \subseteq {s}
      BY <2>1, <3>1, ChainLeast
    <3> QED
      BY <2>1, <2>3, <3>2, EOFAssumption
  <2> QED
    BY <2>1, <2>6, <2>7, <2>8, SentinelAssumption DEF Composing
\* Into the next sector.
<1>5. CASE h.cur # NoSector /\ h.off = SectorUnits
  <2> DEFINE st == h.start
             k == SectorOf(h.pos)
  <2>1. /\ s \in findEmptySector(f) /\ m.start = st /\ m.cur = s /\ m.off = 0
        /\ m.pos = h.pos /\ m.ver = h.ver /\ g = Link(f, h, s) /\ s \in Sectors
        /\ st \in Sectors /\ st # NoSector
    BY <1>2, <1>3, <1>5 DEF NeedsSector, Extend, Handle, findEmptySector
  <2>2. s \notin Chain(f, st) /\ f[s] = FreeEntry
    BY <2>1, EmptyIsFree DEF Claimed
  <2>3. /\ g[h.cur].next = s /\ g[s].next = EOF
        /\ \A x \in Chain(f, st) \ {h.cur} : g[x].next = f[x].next
    BY <1>2, <2>1, <2>2, LinkNext, ChainStart DEF FreeEntry
  <2>4. ASSUME NEW i \in 1..n
        PROVE  SectorOf(h.pos + i) = k + 1 /\ UnitOf(h.pos + i) = i - 1
    <3>1. UnitOf(h.pos) = SectorUnits - 1 /\ i \in 1..SectorUnits
      BY <1>2, <1>5, <2>1, UnitsAssumption
    <3> QED
      BY <1>1, <3>1, AdvanceBeyond
  <2>5. k < Places
    <3>1. SectorOf(h.pos + n) = k + 1 /\ SectorOf(h.pos + n) \in 0..Places
      BY <1>1, <2>1, <2>4, PlacesEnough
    <3> QED
      BY <1>2, <2>1, <3>1, PlacesType
  <2> HIDE DEF k, st
  <2>6. /\ \A i \in 0..Places : Walk(f, st)[i] # EOF => Walk(g, st)[i] = Walk(f, st)[i]
        /\ Walk(g, st)[k + 1] = s
    BY <1>2, <2>1, <2>3, <2>5, WalkExtended DEF k, st
  <2>7. ASSUME NEW p \in 1..h.pos
        PROVE  /\ Walk(f, st)[SectorOf(p)] # EOF
               /\ Walk(g, st)[SectorOf(p)] = Walk(f, st)[SectorOf(p)]
               /\ Walk(g, st)[SectorOf(p)] # s
               /\ data[Walk(f, st)[SectorOf(p)]][UnitOf(p)] = <<h.ver, p>>
    <3>1. p \in 0..MaxUnits
      BY BoundsAssumption DEF Handle
    <3>2. SectorOf(p) \in 0..Places
      BY <3>1, PlacesEnough
    <3>3. /\ Walk(f, st)[SectorOf(p)] # EOF
          /\ data[Walk(f, st)[SectorOf(p)]][UnitOf(p)] = <<h.ver, p>>
      BY <2>1 DEF Composing, Written, st
    <3>4. Walk(f, st)[SectorOf(p)] \in Chain(f, st)
      BY <2>1, <3>2, <3>3, WalkInside
    <3> QED
      BY <2>2, <2>6, <3>2, <3>3, <3>4
  <2>8. Written(g, data', st, m.ver, m.pos + n)
    <3>1. Written(g, data, m.start, m.ver, m.pos)
      BY <2>1, <2>7 DEF Written
    <3>2. \A i \in 1..n : /\ Walk(g, m.start)[SectorOf(m.pos + i)] = m.cur
                          /\ UnitOf(m.pos + i) = m.off + i - 1
      BY <2>1, <2>4, <2>6
    <3>3. \A p \in 1..m.pos : Walk(g, m.start)[SectorOf(p)] # m.cur
      BY <2>1, <2>7
    <3>4. Written(g, data', m.start, m.ver, m.pos + n)
      BY <2>1, <3>1, <3>2, <3>3, PutWritten
    <3> QED
      BY <2>1, <3>4
  <2>9. Positioned(g, w)
    BY <2>1, <2>4, <2>6 DEF Positioned
  <2>10. \A x \in Chain(g, st) : g[x].next # st
    <3>1. Chain(g, st) = Chain(f, st) \cup {s}
      BY <1>2, <2>1, <2>2, <2>3, ChainExtended DEF st
    <3>2. s # st
      BY <2>1, <2>2, ChainStart
    <3>3. \A x \in Chain(f, st) : f[x].next # st
      BY <2>1 DEF Composing, st
    <3> QED
      BY <2>1, <2>3, <3>1, <3>2, <3>3, EOFAssumption
  <2> QED
    BY <2>1, <2>8, <2>9, <2>10 DEF Composing
\* On in the same sector.
<1>6. CASE h.cur # NoSector /\ h.off # SectorUnits
  <2>1. m = h /\ g = f /\ h.start # NoSector /\ h.start \in Sectors
    BY <1>2, <1>3, <1>6 DEF NeedsSector
  <2>2. ASSUME NEW i \in 1..n
        PROVE  SectorOf(h.pos + i) = SectorOf(h.pos) /\ UnitOf(h.pos + i) = UnitOf(h.pos) + i
    <3>1. UnitOf(h.pos) + i < SectorUnits /\ i \in Nat
      BY <1>2, <2>1, UnitsAssumption
    <3> QED
      BY <1>1, <3>1, AdvanceWithin
  <2>3. ASSUME NEW p \in 1..h.pos, Walk(f, h.start)[SectorOf(p)] = h.cur
        PROVE  UnitOf(p) < h.off
    <3>1. p \in 0..MaxUnits /\ p \in Nat /\ p <= h.pos
      BY <1>1, BoundsAssumption DEF Handle
    <3>2. SectorOf(p) \in 0..Places
      BY <3>1, PlacesEnough
    <3>3. SectorOf(p) = SectorOf(h.pos)
      BY <1>2, <2>1, <2>3, <3>2, EndOnce
    <3>4. UnitOf(p) <= UnitOf(h.pos) /\ UnitOf(p) \in 0..SectorUnits - 1
      BY <1>1, <3>1, <3>3, PlacesInOrder, PlaceType DEF Units
    <3> QED
      BY <1>2, <2>1, <3>4
  <2>4. Written(f, data', h.start, h.ver, h.pos + n)
    <3>1. Written(f, data, h.start, h.ver, h.pos)
      BY <2>1 DEF Composing
    <3>2. \A i \in 1..n : /\ Walk(f, h.start)[SectorOf(h.pos + i)] = h.cur
                          /\ UnitOf(h.pos + i) = h.off + i - 1
      BY <1>2, <2>1, <2>2
    <3> QED
      BY <1>2, <2>1, <2>3, <3>1, <3>2, PutWritten
  <2>5. Positioned(f, w)
    BY <1>2, <2>1, <2>2 DEF Positioned
  <2> QED
    BY <2>1, <2>4, <2>5 DEF Composing
<1> QED
  BY <1>4, <1>5, <1>6
-----------------------------------------------------------------------------
(* Reading on. *)

\* Where ufat_fread goes on reading.
SectorAhead(f, h) == IF h.off = SectorUnits THEN f[h.cur].next ELSE h.cur
UnitAhead(h) == IF h.off = SectorUnits THEN 0 ELSE h.off

\* Before the end of its file a reader finds a sector to read from, and there
\* the units that come next.
LEMMA ReadOn ==
  ASSUME NEW f \in Fats, NEW h \in Handle, h.start \in Sectors, h.cur \in Sectors,
         Positioned(f, h), Written(f, data, h.start, h.ver, h.total), h.pos < h.total
  PROVE  /\ SectorAhead(f, h) \in Sectors
         /\ \A n \in 1..SectorUnits : UnitAhead(h) + n <= SectorUnits /\ h.pos + n <= h.total =>
              /\ \A i \in 1..n :
                   data[SectorAhead(f, h)][UnitAhead(h) + i - 1] = <<h.ver, h.pos + i>>
              /\ Walk(f, h.start)[SectorOf(h.pos + n)] = SectorAhead(f, h)
              /\ UnitAhead(h) + n = UnitOf(h.pos + n) + 1
<1> DEFINE k == SectorOf(h.pos)
           s == SectorAhead(f, h)
           off == UnitAhead(h)
<1>0. /\ s = (IF h.off = SectorUnits THEN f[h.cur].next ELSE h.cur)
      /\ off = (IF h.off = SectorUnits THEN 0 ELSE h.off)
  BY DEF SectorAhead, UnitAhead
<1> HIDE DEF s, off
<1>1. /\ h.pos \in Nat /\ h.total \in 0..MaxUnits /\ h.off \in 0..SectorUnits
      /\ h.pos \in 0..MaxUnits
  BY BoundsAssumption DEF Handle
<1>2. /\ k \in Nat /\ k \in 0..Places /\ Walk(f, h.start)[k] = h.cur
      /\ h.off = UnitOf(h.pos) + 1 /\ UnitOf(h.pos) \in 0..SectorUnits - 1
  BY <1>1, PlaceType, PlacesEnough DEF Positioned, Units
<1>3. ASSUME NEW i \in 1..SectorUnits, off + i <= SectorUnits, h.pos + i <= h.total
      PROVE  /\ s # EOF
             /\ data[s][off + i - 1] = <<h.ver, h.pos + i>>
             /\ Walk(f, h.start)[SectorOf(h.pos + i)] = s
             /\ off + i = UnitOf(h.pos + i) + 1
  <2>1. Walk(f, h.start)[SectorOf(h.pos + i)] = s /\ UnitOf(h.pos + i) = off + i - 1
    <3>1. CASE h.off = SectorUnits
      <4>1. SectorOf(h.pos + i) = k + 1 /\ UnitOf(h.pos + i) = i - 1
        BY <1>1, <1>2, <3>1, UnitsAssumption, AdvanceBeyond
      <4>2. h.pos + i \in 0..MaxUnits
        BY <1>1, <1>3, BoundsAssumption
      <4>3. k + 1 \in 1..Places /\ (k + 1) - 1 = k
        BY <1>2, <4>1, <4>2, PlacesEnough, PlacesType
      <4>4. Walk(f, h.start)[k + 1] = Following(f, Walk(f, h.start)[k])
        BY <4>3, WalkIs
      <4>5. Walk(f, h.start)[k + 1] = s
        BY <1>0, <1>2, <3>1, <4>4, EOFAssumption DEF Following
      <4> QED
        BY <1>0, <3>1, <4>1, <4>5
    <3>2. CASE h.off # SectorUnits
      <4>1. UnitOf(h.pos) + i < SectorUnits /\ i \in Nat
        BY <1>0, <1>1, <1>2, <1>3, <3>2, UnitsAssumption
      <4>2. SectorOf(h.pos + i) = k /\ UnitOf(h.pos + i) = UnitOf(h.pos) + i
        BY <1>1, <4>1, AdvanceWithin
      <4> QED
        BY <1>0, <1>2, <3>2, <4>2
    <3> QED
      BY <3>1, <3>2
  <2>2. h.pos + i \in 1..h.total
    BY <1>1, <1>3
  <2>3. LET x == Walk(f, h.start)[SectorOf(h.pos + i)]
        IN  x # EOF /\ data[x][UnitOf(h.pos + i)] = <<h.ver, h.pos + i>>
    BY <2>2 DEF Written
  <2>4. off \in Nat
    BY <1>0, <1>1
  <2> QED
    BY <2>1, <2>3, <2>4
<1>4. s \in Sectors
  <2>1. off + 1 <= SectorUnits /\ h.pos + 1 <= h.total /\ 1 \in 1..SectorUnits
    BY <1>0, <1>1, UnitsAssumption DEF Handle
  <2>2. s # EOF
    BY <1>3, <2>1
  <2>3. f[h.cur].next \in Sectors \cup {EOF}
    BY DEF Fats, Entry
  <2> QED
    BY <1>0, <2>2, <2>3
<1> QED
  <2> SUFFICES ASSUME NEW n \in 1..SectorUnits, off + n <= SectorUnits, h.pos + n <= h.total
               PROVE  /\ \A i \in 1..n : data[s][off + i - 1] = <<h.ver, h.pos + i>>
                      /\ Walk(f, h.start)[SectorOf(h.pos + n)] = s
                      /\ off + n = UnitOf(h.pos + n) + 1
    BY <1>4 DEF s, off
  <2>1. ASSUME NEW i \in 1..n
        PROVE  i \in 1..SectorUnits /\ off + i <= SectorUnits /\ h.pos + i <= h.total
    BY <1>0, <1>1, UnitsAssumption
  <2> QED
    BY <1>3, <2>1

-----------------------------------------------------------------------------
(* The steps. *)

\* What a mount would find, and the headers of its files.
VolumeKept == Volume' = Volume /\ \A s \in Starts(Volume) : hdr'[s] = hdr[s]

LEMMA ContentsKept ==
  ASSUME MediaOK, DirectoriesGood, (MediaOK /\ DirectoriesGood)', VolumeKept, NEW n \in Names
  PROVE  Contents(n)' = Contents(n)
<1>1. /\ \A s \in Starts(Volume) : hdr[s].name = n => Contents(n) = hdr[s].ver
      /\ (\A s \in Starts(Volume) : hdr[s].name # n) => Contents(n) = 0
  BY ContentsOf
<1>2. /\ \A s \in Starts(Volume') : hdr'[s].name = n => Contents(n)' = hdr'[s].ver
      /\ (\A s \in Starts(Volume') : hdr'[s].name # n) => Contents(n)' = 0
  BY ContentsOfNext
<1> QED
  BY <1>1, <1>2 DEF VolumeKept

LEMMA MediaKept ==
  ASSUME DirectoriesGood, UNCHANGED media
  PROVE  DirectoriesGood' /\ VolumeKept
  BY DEF media, DirectoriesGood, VolumeKept, Volume, Loaded, Loadable

\* A call that writes to a sector that is free on the media.
LEMMA FreeSectorWritten ==
  ASSUME MediaOK, AccountInv, DirectoriesGood, RamAgrees, UNCHANGED table,
         NEW x \in Sectors, table[0][x] = FreeEntry,
         \A y \in Sectors : y # x => hdr'[y] = hdr[y] /\ data'[y] = data[y]
  PROVE  DirectoriesGood' /\ VolumeKept
<1>1. table[0] \in Fats /\ WellFormed(table[0]) /\ Directory(table[0], hdr, data)
      /\ hdr \in Headers
  BY DEF MediaOK, Tabs, AccountInv, SectorsAccounted, RamAgrees, DirectoriesGood
<1>2. \A y \in Sectors : table[0][y] # FreeEntry => hdr'[y] = hdr[y] /\ data'[y] = data[y]
  OBVIOUS
<1>3. Directory(table[0], hdr', data')
  BY <1>1, <1>2, DirectoryKept
<1>4. DirectoriesGood'
  BY <1>3 DEF DirectoriesGood, RamAgrees
<1>5. Volume' = Volume /\ Volume = table[0]
  BY DEF Volume, Loaded, Loadable, RamAgrees
<1>6. \A s \in Starts(table[0]) : table[0][s] # FreeEntry /\ s \in Sectors
  BY DEF Starts, FreeEntry
<1> QED
  BY <1>2, <1>4, <1>5, <1>6 DEF VolumeKept

LEMMA HandlesGone ==
  ASSUME (~mounted)' \/ ret' = "IO" \/ \A f \in Streams : strm'[f].mode = "none"
  PROVE  (mounted /\ ret # "IO" => HandlesGood)'
  BY DEF HandlesGood, HandleGood

LEMMA MountFiles ==
  ASSUME Careful, MediaOK, AccountInv, FilesInv, ufat_mount
  PROVE  FilesInv' /\ VolumeKept
<1>1. UNCHANGED <<hdr, data>>
  BY DEF ufat_mount, mountReadFails, mountEmpty, mountCopyFails, mountDone, media
<1>2. (mounted /\ ret # "IO" => HandlesGood)'
  <2>1. Forget => \A f \in Streams : strm'[f].mode = "none"
    BY DEF Careful, Forget, May, NoHandle
  <2>2. Reset => ~mounted'
    BY DEF Reset
  <2>3. Reset \/ Forget
    BY DEF ufat_mount, mountReadFails, mountEmpty, mountCopyFails, mountDone
  <2> QED
    BY <2>1, <2>2, <2>3, HandlesGone
<1>3. Loaded' = Loaded /\ \A i \in 0..1 : table'[i] \in {table[0], table[1], Bad}
  <2>1. CASE UNCHANGED table
    <3>1. \A i \in 0..1 : i = 0 \/ i = 1
      OBVIOUS
    <3> QED
      BY <2>1, <3>1 DEF Loaded, Loadable
  <2>2. CASE Loaded # Bad /\ table' = Both(Loaded)
    <3>1. \A i \in 0..1 : table'[i] = Loaded
      BY <2>2, BothCopies
    <3> QED
      BY <2>2, <3>1 DEF Loaded, Loadable
  <2>3. CASE mountCopyFails
    <3>1. PICK x \in {table[0], table[1], Bad} :
            table' = [table EXCEPT ![IF table[0] # Bad THEN 1 ELSE 0] = x]
      BY <2>3 DEF mountCopyFails, CopyFailed, Repaired
    <3>2. CASE table[0] # Bad
      BY <3>1, <3>2 DEF MediaOK, Tabs, Loaded, Loadable
    <3>3. CASE table[0] = Bad
      BY <3>1, <3>3 DEF MediaOK, Tabs, Loaded, Loadable
    <3> QED
      BY <3>2, <3>3
  <2>4. CASE mountDone
    <3>1. Loaded # Bad /\ Scanned = Loaded
      BY <2>4, LoadedType, ScanKeeps
      DEF mountDone, Scanned, AccountInv, SectorsAccounted, Loaded, Loadable
    <3>2. table' = Both(Loaded)
      BY <2>4, <3>1 DEF mountDone, LoadOutcomes, Loaded
    <3> QED
      BY <2>2, <3>1, <3>2
  <2> QED
    BY <2>1, <2>2, <2>3, <2>4
    DEF ufat_mount, mountReadFails, mountEmpty, media, ReadFailed, Loaded
<1>4. DirectoriesGood'
  BY <1>1, <1>3 DEF FilesInv, DirectoriesGood
<1> QED
  BY <1>1, <1>2, <1>3, <1>4 DEF FilesInv, VolumeKept, Volume

LEMMA FormatFiles ==
  ASSUME Careful, AccountInv, FilesInv, ufat_format
  PROVE  FilesInv'
<1>1. PICK o \in CommitOutcomes(table, BlankFat) :
        /\ table' = o.tab
        /\ IF o.res = "dead" THEN Reset ELSE UNCHANGED strm
  BY DEF ufat_format
<1>2. UNCHANGED <<hdr, data>>
  BY DEF ufat_format
<1>3. DirectoriesGood'
  <2>1. \A i \in 0..1 : table'[i] \in {table[i], BlankFat, Bad}
    BY <1>1, CommitCopies
  <2> QED
    BY <1>2, <2>1, BlankDirectory DEF FilesInv, DirectoriesGood
<1>4. \A f \in Streams : strm'[f].mode = "none"
  BY <1>1 DEF ufat_format, Careful, May, Idle, Reset, NoHandle
<1> QED
  BY <1>3, <1>4, HandlesGone DEF FilesInv
\* A handle that is not touched, in a call that touches neither the media nor the
\* table.
LEMMA HandleKept ==
  ASSUME NEW h, HandleGood(h), UNCHANGED <<media, fat, session>>,
         lastError' = lastError \/ lastError' = "IO"
  PROVE  HandleGood(h)'
  BY DEF HandleGood, media, Composing, Replacing, Reading

\* Latched, ufat_fsinfo and ufat_exists touch no handle.
LEMMA NothingDone ==
  ASSUME FilesInv, Calls, UNCHANGED <<media, fat, mounted, strm, session>>,
         lastError' = lastError \/ lastError' = "IO", ret' = "IO" \/ ret # "IO"
  PROVE  FilesInv' /\ VolumeKept
<1>1. DirectoriesGood' /\ VolumeKept
  BY MediaKept DEF FilesInv
<1>2. ASSUME mounted', ret' # "IO"
      PROVE  HandlesGood'
  <2>1. HandlesGood
    BY <1>2 DEF FilesInv
  <2>2. ASSUME NEW f \in Streams
        PROVE  HandleGood(strm[f])'
    <3>1. HandleGood(strm[f])
      BY <2>1 DEF HandlesGood
    <3> QED
      BY <3>1, HandleKept
  <2> QED
    BY <2>2 DEF HandlesGood
<1> QED
  BY <1>1, <1>2 DEF FilesInv

LEMMA OpenFiles ==
  ASSUME Careful, TypeInv, AccountInv, FilesInv, NEW f \in Streams,
         \/ fopenNameTooLong(f) \/ fopenUnsupported(f)
         \/ \E n \in Names : fopenRead(f, n) \/ fopenWrite(f, n)
  PROVE  FilesInv' /\ VolumeKept
<1>1. /\ Calls /\ lastError # "IO" /\ UNCHANGED <<media, fat>>
      /\ Idle(f) /\ \A g \in Streams : strm[g].mode # "w"
      /\ \A g \in Streams \ {f} : strm'[g] = strm[g]
  BY DEF fopenNameTooLong, fopenUnsupported, fopenRead, fopenWrite, Opens, OpensWriter, Enter,
         NoWriter, Idle, Careful, May, TypeInv, RamOK
<1>2. RamAgrees /\ fat = table[0] /\ mounted /\ ret # "IO"
  BY <1>1, Ready DEF RamAgrees
<1>3. DirectoriesGood' /\ VolumeKept
  BY <1>1, MediaKept DEF FilesInv
<1>4. Directory(fat, hdr, data) /\ hdr \in Headers /\ fat \in Fats
  BY <1>2 DEF FilesInv, DirectoriesGood, RamAgrees, TypeInv, MediaOK, RamOK
<1>5. \A g \in Streams \ {f} : HandleGood(strm[g])'
  <2>1. ASSUME NEW g \in Streams \ {f}, strm[g].mode = "r"
        PROVE  Reading(table[0], hdr, strm[g])
    BY <1>1, <1>2, <2>1 DEF FilesInv, HandlesGood, HandleGood
  <2> QED
    BY <1>1, <2>1 DEF HandleGood, media
<1>6. strm \in [Streams -> GoodHandle]
  BY DEF TypeInv, RamOK
<1>7. SUFFICES ASSUME strm'[f].mode # "none", ret' # "IO"
               PROVE  HandleGood(strm[f])'
  <2>1. strm'[f].mode = "none" => HandleGood(strm[f])'
    BY <1>1 DEF HandleGood
  <2> QED
    BY <1>3, <1>5, <2>1 DEF FilesInv, HandlesGood
<1>8. PICK n \in Names : fopenRead(f, n) \/ fopenWrite(f, n)
  BY <1>1, <1>7, <1>6 DEF fopenNameTooLong, fopenUnsupported, Idle, NoHandle
<1>9. CASE fopenRead(f, n)
  <2> DEFINE reader(s) == [NoHandle EXCEPT !.mode = "r", !.name = n, !.ver = hdr[s].ver,
                                           !.total = hdr[s].total, !.start = s,
                                           !.cur = s, !.off = HeaderUnits]
  <2>0. strm' = [strm EXCEPT ![f] = NoHandle]
        \/ \E s \in Search(n) : strm' = [strm EXCEPT ![f] = reader(s)]
    BY <1>9 DEF fopenRead
  <2>1. PICK s \in Search(n) : strm' = [strm EXCEPT ![f] = reader(s)]
    <3>1. strm' # [strm EXCEPT ![f] = NoHandle]
      BY <1>7, <1>6 DEF NoHandle
    <3> QED
      BY <2>0, <3>1
  <2>2. /\ reader(s).mode = "r" /\ reader(s).ver = hdr[s].ver /\ reader(s).pos = 0
        /\ reader(s).total = hdr[s].total /\ reader(s).start = s /\ reader(s).cur = s
        /\ reader(s).off = HeaderUnits /\ reader(s).name = n
    BY DEF NoHandle
  <2> HIDE DEF reader
  <2>3. s \in Starts(fat) /\ s \in Sectors /\ hdr[s].name = n
    BY DEF Search, fileSearch, Matches, Starts
  <2>4. hdr[s].total \in Nat
    BY <1>4, <2>3, BoundsAssumption DEF Directory, FilesAt, FileAt, Headers, Header
  <2>5. Positioned(fat, reader(s))
    BY <1>4, <2>2, <2>3, WalkIs, FirstPlaces, UnitsAssumption DEF Positioned
  <2>6. Reading(fat, hdr, reader(s))
    BY <2>2, <2>3, <2>4, <2>5 DEF Reading
  <2>7. strm'[f] = reader(s) /\ table' = table /\ hdr' = hdr
    BY <1>1, <1>6, <2>1 DEF media
  <2> QED
    BY <1>2, <2>2, <2>6, <2>7 DEF HandleGood
<1>10. CASE fopenWrite(f, n)
  <2>1. PICK old \in Search(n) \cup {NoSector} :
          /\ OpensWriter(f, n, old)
          /\ lastError' # "IO" => old \in Search(n) \/ (~Found(n) /\ old = NoSector)
    BY <1>1, <1>10 DEF fopenWrite, ReadFails
  <2> DEFINE writer == [NoHandle EXCEPT !.mode = "w", !.name = n, !.ver = session + 1,
                                        !.old = old]
  <2>2. /\ writer.mode = "w" /\ writer.ver = session + 1 /\ writer.name = n
        /\ writer.old = old /\ writer.start = NoSector /\ writer.pos = 0
    BY DEF NoHandle
  <2>3. strm'[f] = writer
    BY <1>6, <2>1 DEF OpensWriter
  <2> HIDE DEF writer
  <2>4. writer.ver = session' /\ session' > 0
    BY <1>10, <2>2, BoundsAssumption DEF fopenWrite, TypeInv, RestOK, Sessions
  <2>5. ASSUME lastError' # "IO"
        PROVE  Replacing(table[0], hdr, writer)
    <3>1. Matches(fat, hdr, n) = {s \in Starts(fat) : hdr[s].name = n}
      BY <1>4 DEF Matches, Starts, Directory, FilesAt, FileAt
    <3>2. CASE old \in Search(n)
      <4>1. old \in Matches(fat, hdr, n)
        BY <3>2 DEF Search, fileSearch
      <4> QED
        BY <1>2, <1>4, <2>2, <3>1, <4>1 DEF Replacing, Directory, NamesApart
    <3>3. CASE ~Found(n) /\ old = NoSector
      BY <1>2, <2>2, <3>1, <3>3, SentinelAssumption DEF Replacing, Found, Starts
    <3> QED
      BY <2>1, <2>5, <3>2, <3>3
  <2>6. Composing(fat, data, writer)
    BY <2>2 DEF Composing
  <2> QED
    BY <1>1, <2>2, <2>3, <2>4, <2>5, <2>6 DEF HandleGood, media
<1> QED
  BY <1>8, <1>9, <1>10

\* A length kept in too few bits is a shorter one.
LEMMA LenShort ==
  ASSUME NEW a \in Nat, NEW b \in Nat \ {0}
  PROVE  a % b \in Nat /\ a % b <= a /\ (a < b => a % b = a)
<1>1. /\ a \div b \in Nat /\ a % b \in Nat
      /\ a = b * (a \div b) + (a % b) /\ b * (a \div b) \in Nat
  BY Division
<1>2. a < b => a % b = a
  <2>1. a = b * 0 + a
    OBVIOUS
  <2> QED
    BY <2>1, DivisionOf
<1> QED
  BY <1>1, <1>2

LEMMA ReadFiles ==
  ASSUME Careful, TypeInv, AccountInv, FilesInv, NEW f \in Streams, ufat_fread(f)
  PROVE  /\ FilesInv' /\ VolumeKept
         /\ strm[f].mode = "r" /\ (strm[f].sound => strm'[f].sound)
         /\ \A g \in Streams \ {f} : strm'[g] = strm[g]
<1> DEFINE h == strm[f]
           s == SectorAhead(fat, h)
           off == UnitAhead(h)
           good(n) == \A i \in 1..n : data[s][off + i - 1] = <<h.ver, h.pos + i>>
           after(n) == [h EXCEPT !.cur = s, !.off = off + n, !.pos = @ + n,
                                 !.sound = @ /\ good(n)]
           moved == [h EXCEPT !.cur = s, !.off = off]
<1>1. /\ Calls /\ lastError # "IO" /\ h.mode = "r"
      /\ UNCHANGED <<media, fat, mounted, session>>
  BY DEF ufat_fread, freadNothing, fread, Reads, Enter
<1>2. RamAgrees /\ mounted /\ ret # "IO" /\ HandlesGood
  BY <1>1, Ready DEF FilesInv
<1>3. DirectoriesGood' /\ VolumeKept
  BY <1>1, MediaKept DEF FilesInv
<1>4. h \in Handle /\ h.cur \in Sectors /\ strm \in [Streams -> GoodHandle]
  BY <1>1 DEF TypeInv, RamOK, GoodHandle
<1>5. Reading(table[0], hdr, h)
  BY <1>1, <1>2 DEF HandlesGood, HandleGood
<1>6. CASE freadNothing(f)
  <2>1. UNCHANGED <<strm, lastError>>
    BY <1>6 DEF freadNothing
  <2> QED
    BY <1>1, <1>2, <2>1, NothingDone
<1>7. CASE fread(f)
  <2>1. \/ /\ \E n \in 1..SectorUnits : off + n <= SectorUnits /\ h.pos + n <= Len(h)
                                        /\ strm' = [strm EXCEPT ![f] = after(n)]
           /\ UNCHANGED lastError
        \/ lastError' = "IO" /\ strm' = [strm EXCEPT ![f] = moved]
    BY <1>7 DEF fread, ReadFails, SectorAhead, UnitAhead
  <2>2. /\ moved.mode = "r" /\ (moved.sound <=> h.sound) /\ moved.name = h.name
        /\ \A n : /\ after(n).mode = "r" /\ after(n).name = h.name /\ after(n).cur = s /\ after(n).off = off + n
                  /\ after(n).pos = h.pos + n /\ after(n).start = h.start
                  /\ after(n).ver = h.ver /\ after(n).total = h.total
    <3> HIDE DEF s, off, good
    <3>1. moved.mode = "r" /\ (moved.sound <=> h.sound) /\ moved.name = h.name
      BY <1>1, <1>4 DEF Handle
    <3>2. ASSUME NEW n
          PROVE  /\ after(n).mode = "r" /\ after(n).name = h.name /\ after(n).cur = s /\ after(n).off = off + n
                 /\ after(n).pos = h.pos + n /\ after(n).start = h.start
                 /\ after(n).ver = h.ver /\ after(n).total = h.total
      BY <1>1, <1>4 DEF Handle
    <3> HIDE DEF after, moved
    <3> QED
      BY <3>1, <3>2
  <2>9. ASSUME NEW n, good(n), h.sound
        PROVE  after(n).sound
    <3>1. (h.sound /\ good(n)) = TRUE
      BY <2>9
    <3>2. after(n).sound = (h.sound /\ good(n))
      <4> HIDE DEF s, off, good
      <4> QED
        BY <1>4, Zenon DEF Handle
    <3> HIDE DEF after, good
    <3> QED
      BY <3>1, <3>2
  <2>3. \A g \in Streams \ {f} : strm'[g] = strm[g]
    <3> HIDE DEF after, moved
    <3> QED
      BY <1>4, <2>1
  <2>10. ASSUME lastError' = lastError \/ lastError' = "IO",
                HandleGood(strm[f])'
         PROVE  FilesInv'
    <3>1. \A g \in Streams \ {f} : HandleGood(strm[g])'
      BY <1>1, <1>2, <2>3, <2>10, HandleKept DEF HandlesGood
    <3> QED
      BY <1>3, <2>10, <3>1 DEF FilesInv, HandlesGood
  <2>4. CASE lastError' = "IO" /\ strm' = [strm EXCEPT ![f] = moved]
    <3>1. strm'[f] = moved
      <4> HIDE DEF moved
      <4> QED
        BY <1>4, <2>4
    <3>2. HandleGood(strm[f])'
      BY <2>2, <2>4, <3>1 DEF HandleGood
    <3>3. FilesInv'
      BY <2>2, <2>4, <2>10, <3>1, <3>2
    <3> QED
      BY <1>1, <1>3, <2>2, <2>3, <3>1, <3>3
  <2>5. ASSUME NEW n \in 1..SectorUnits, off + n <= SectorUnits, h.pos + n <= Len(h),
               strm' = [strm EXCEPT ![f] = after(n)], UNCHANGED lastError
        PROVE  /\ FilesInv'
               /\ h.sound => strm'[f].sound
    <3>1. strm'[f] = after(n)
      <4> HIDE DEF after
      <4> QED
        BY <1>4, <2>5
    <3>2. /\ table[0] \in Fats /\ h.start \in Sectors /\ Positioned(table[0], h)
          /\ Written(table[0], data, h.start, h.ver, h.total)
          /\ fat[h.cur] = table[0][h.cur]
      BY <1>2, <1>4, <1>5, ReaderFile
    <3>3. s = SectorAhead(table[0], h)
      BY <3>2 DEF SectorAhead
    <3>4. /\ h.pos \in Nat /\ h.total \in Nat /\ h.pos + n <= h.total /\ h.pos < h.total
      <4>1. h.total % LenMod <= h.total
        BY <1>4, LenModAssumption, BoundsAssumption, LenShort DEF Handle
      <4> QED
        BY <1>4, <2>5, <4>1, LenModAssumption, BoundsAssumption DEF Handle, Len
    <3>5. /\ good(n) /\ Walk(table[0], h.start)[SectorOf(h.pos + n)] = s
          /\ off + n = UnitOf(h.pos + n) + 1
      <4>1. \A m \in 1..SectorUnits : off + m <= SectorUnits /\ h.pos + m <= h.total =>
              /\ \A i \in 1..m : data[s][off + i - 1] = <<h.ver, h.pos + i>>
              /\ Walk(table[0], h.start)[SectorOf(h.pos + m)] = s
              /\ off + m = UnitOf(h.pos + m) + 1
        BY <1>4, <3>2, <3>3, <3>4, ReadOn
      <4> QED
        BY <2>5, <3>4, <4>1
    <3>6. Reading(table[0], hdr, after(n))
      <4>1. Positioned(table[0], after(n))
        BY <2>2, <3>5 DEF Positioned
      <4> QED
        BY <1>5, <2>2, <3>4, <4>1 DEF Reading
    <3>7. HandleGood(strm[f])'
      BY <1>1, <2>2, <3>1, <3>6 DEF HandleGood, media
    <3>8. FilesInv'
      BY <2>2, <2>5, <2>10, <3>1, <3>7
    <3>9. h.sound => strm'[f].sound
      BY <2>9, <3>1, <3>5
    <3> QED
      BY <3>8, <3>9
  <2> QED
    BY <1>1, <1>3, <2>1, <2>3, <2>4, <2>5
<1> QED
  BY <1>6, <1>7 DEF ufat_fread
LEMMA WriteFiles ==
  ASSUME Careful, TypeInv, AccountInv, FilesInv, NEW f \in Streams, ufat_fwrite(f)
  PROVE  FilesInv' /\ VolumeKept
<1> DEFINE h == strm[f]
<1>1. Calls /\ h.mode = "w"
  BY DEF ufat_fwrite, fwriteFull, fwrite, fwritePass, fwriteOutside, Writes, Enter
<1>2. RamAgrees /\ mounted /\ ret # "IO" /\ HandlesGood
      /\ \A g \in Streams : g # f => strm[g].mode # "w"
  BY <1>1, Ready DEF AccountInv, OneWriter, FilesInv
<1>3. h \in Handle /\ strm \in [Streams -> GoodHandle] /\ fat \in Fats /\ MediaOK
  BY DEF TypeInv, RamOK, GoodHandle
<1>4. /\ table[0] \in Fats /\ WellFormed(table[0]) /\ Unfinished(fat, table[0], h)
      /\ HandleGood(h)
  BY <1>1, <1>2, <1>3 DEF RamAgrees, AccountInv, SectorsAccounted, MediaOK, Tabs, HandlesGood
\* The readers stay where they are.
<1>5. ASSUME UNCHANGED <<table, lastError>>, VolumeKept, HandleGood(strm[f])',
             \A g \in Streams : g # f => strm'[g] = strm[g]
      PROVE  HandlesGood'
  <2>1. ASSUME NEW g \in Streams, g # f
        PROVE  HandleGood(strm[g])'
    <3>1. \A t \in Starts(table[0]) : hdr'[t] = hdr[t]
      BY <1>2, <1>5 DEF VolumeKept, Volume, Loaded, Loadable, RamAgrees
    <3>2. HandleGood(strm[g]) /\ strm[g].mode # "w" /\ strm'[g] = strm[g]
      BY <1>2, <1>5, <2>1 DEF HandlesGood
    <3> QED
      BY <1>5, <3>1, <3>2 DEF HandleGood, Reading
  <2> QED
    BY <1>5, <2>1 DEF HandlesGood
<1>6. CASE fwriteFull(f)
  <2>1. UNCHANGED media /\ UNCHANGED <<fat, session, lastError, mounted>>
    BY <1>6 DEF fwriteFull
  <2>2. /\ \A g \in Streams : g # f => strm'[g] = strm[g]
        /\ strm'[f].mode = "w" /\ strm'[f].old = h.old /\ strm'[f].start = h.start
        /\ strm'[f].name = h.name /\ strm'[f].ver = h.ver /\ strm'[f].pos = h.pos
        /\ strm'[f].off = h.off
        /\ strm'[f].cur = IF h.cur = NoSector THEN FullSector ELSE h.cur
    BY <1>1, <1>3, <1>6 DEF fwriteFull, Handle
  <2>3. h.start # NoSector => strm'[f].cur = h.cur
    <3>1. h.start # NoSector => h.start \in Sectors
      BY <1>3 DEF Handle
    <3> QED
      BY <1>4, <2>2, <3>1, ChainStart, SentinelAssumption DEF Unfinished, Claimed
  <2>4. Composing(fat, data, strm'[f])
    BY <1>1, <1>4, <2>2, <2>3 DEF HandleGood, Composing, Positioned
  <2>5. HandleGood(strm[f])'
    BY <1>1, <1>4, <2>1, <2>2, <2>4 DEF HandleGood, Replacing, media
  <2>6. DirectoriesGood' /\ VolumeKept
    BY <2>1, MediaKept DEF FilesInv
  <2> QED
    BY <1>5, <2>1, <2>2, <2>5, <2>6 DEF FilesInv, media
<1>7. CASE fwriteOutside(f)
  <2>1. UNCHANGED media /\ ret' = "IO"
    BY <1>7 DEF fwriteOutside
  <2> QED
    BY <2>1, MediaKept, HandlesGone DEF FilesInv
<1>8. CASE fwrite(f)
  <2> DEFINE need == NeedsSector(h)
             m(s) == IF need THEN Extend(h, s) ELSE h
             g(s) == IF need THEN Link(fat, h, s) ELSE fat
  <2>1. PICK n \in 1..SectorUnits,
             s \in IF need THEN findEmptySector(fat) ELSE {h.cur} :
          /\ m(s).off + n <= SectorUnits
          /\ m(s).pos + n <= MaxUnits
          /\ \/ /\ Store(m(s), Put(m(s), n))
                /\ fat' = g(s)
                /\ strm' = [strm EXCEPT ![f] = [m(s) EXCEPT !.off = @ + n, !.pos = @ + n]]
                /\ UNCHANGED <<mounted, lastError, session>>
             \/ StoreTorn(m(s), n) /\ ret' = "IO"
             \/ StoreTorn(m(s), n) /\ Reset
    BY <1>8 DEF fwrite, fwritePass
  <2>2. UNCHANGED table /\ h.cur # FullSector
    BY <1>8 DEF fwrite, fwritePass
  <2>3. m(s) \in Handle /\ g(s) \in Fats /\ m(s).cur = s /\ s \in Sectors
        /\ table[0][s] = FreeEntry
    <3>1. CASE need
      BY <1>3, <1>4, <2>1, <3>1, ExtendType, LinkType, EmptyIsFree DEF findEmptySector
    <3>2. CASE ~need
      <4>1. s = h.cur /\ h.cur \in Sectors
        BY <1>3, <2>1, <2>2, <3>2 DEF NeedsSector, Handle
      <4> QED
        BY <1>3, <1>4, <3>2, <4>1 DEF Unfinished
    <3> QED
      BY <3>1, <3>2
  <2>4. DirectoriesGood' /\ VolumeKept
    <3>1. \A y \in Sectors : y # s => hdr'[y] = hdr[y] /\ data'[y] = data[y]
      <4> HIDE DEF m, g
      <4> QED
        BY <1>3, <2>1, <2>3 DEF StoreTorn, Store, MediaOK, Headers
    <3> QED
      BY <1>2, <1>3, <2>2, <2>3, <3>1, FreeSectorWritten DEF FilesInv
  <2>5. CASE ret' = "IO" \/ Reset
    BY <2>4, <2>5, HandlesGone DEF FilesInv, Reset
  <2>6. CASE /\ Store(m(s), Put(m(s), n))
             /\ fat' = g(s)
             /\ strm' = [strm EXCEPT ![f] = [m(s) EXCEPT !.off = @ + n, !.pos = @ + n]]
             /\ UNCHANGED <<mounted, lastError, session>>
    <3> DEFINE w == [m(s) EXCEPT !.off = @ + n, !.pos = @ + n]
    <3>1. m(s).mode = "w" /\ m(s).old = h.old /\ m(s).ver = h.ver /\ m(s).name = h.name
          /\ m(s).pos = h.pos
      BY <1>1, <1>3 DEF Extend, Handle
    <3>2. /\ w.mode = "w" /\ w.old = h.old /\ w.ver = h.ver /\ w.name = h.name
          /\ w.start = m(s).start /\ w.cur = m(s).cur
          /\ w.off = m(s).off + n /\ w.pos = m(s).pos + n
      <4> HIDE DEF m
      <4> QED
        BY <2>3, <3>1 DEF Handle
    <3>3. strm'[f] = w /\ \A k \in Streams : k # f => strm'[k] = strm[k]
      <4> HIDE DEF m
      <4> QED
        BY <1>3, <2>6
    <3> HIDE DEF w
    <3>4. Composing(g(s), data', w)
      <4>1. Composing(fat, data, h)
        BY <1>1, <1>4 DEF HandleGood
      <4>2. data \in [Sectors -> Block] /\ data' = [data EXCEPT ![m(s).cur] = Put(m(s), n)]
        BY <1>3, <2>6 DEF MediaOK, Store
      <4>3. /\ m(s) = (IF NeedsSector(h) THEN Extend(h, s) ELSE h)
            /\ g(s) = (IF NeedsSector(h) THEN Link(fat, h, s) ELSE fat)
        OBVIOUS
      <4>4. w.ver = m(s).ver
        BY <3>1, <3>2
      <4> HIDE DEF m, g, h
      <4> QED
        BY <1>3, <1>4, <2>1, <2>2, <2>3, <3>2, <4>1, <4>2, <4>3, <4>4, ComposeMore
    <3>5. lastError # "IO" => Replacing(table[0], hdr', w)
      <4>1. lastError # "IO" => Replacing(table[0], hdr, h)
        BY <1>1, <1>4 DEF HandleGood
      <4>2. \A t \in Starts(table[0]) : hdr'[t] = hdr[t]
        BY <1>2, <2>4 DEF VolumeKept, Volume, Loaded, Loadable, RamAgrees
      <4> QED
        BY <3>2, <4>1, <4>2 DEF Replacing
    <3>6. HandleGood(strm[f])'
      <4>1. h.ver = session /\ session > 0
        BY <1>1, <1>4 DEF HandleGood
      <4> HIDE DEF g, m
      <4> QED
        BY <2>2, <2>6, <3>2, <3>3, <3>4, <3>5, <4>1 DEF HandleGood
    <3>7. HandlesGood'
      BY <1>5, <2>2, <2>4, <2>6, <3>2, <3>3, <3>6
    <3> QED
      BY <2>4, <3>7 DEF FilesInv
  <2> QED
    BY <2>1, <2>5, <2>6
<1> QED
  BY <1>6, <1>7, <1>8 DEF ufat_fwrite
-----------------------------------------------------------------------------
(* Closing and removing. *)

\* The header written at the front of a file leaves its units alone.
LEMMA HeaderAtFront ==
  ASSUME data \in [Sectors -> Block], NEW f \in Fats, NEW h \in Handle, h.start \in Sectors,
         Composing(f, data, h), NEW x, StoreHeader(h.start, x)
  PROVE  Written(f, data', h.start, h.ver, h.pos)
<1> SUFFICES ASSUME NEW p \in 1..h.pos
             PROVE  LET y == Walk(f, h.start)[SectorOf(p)]
                    IN  y # EOF /\ data'[y][UnitOf(p)] = <<h.ver, p>>
  BY DEF Written
<1> DEFINE y == Walk(f, h.start)[SectorOf(p)]
<1>1. p \in 0..MaxUnits /\ p \in Nat /\ p > 0
  BY BoundsAssumption DEF Handle
<1>2. SectorOf(p) \in 0..Places /\ UnitOf(p) \in Units
  BY <1>1, PlacesEnough, PlaceType
<1>3. h.start # NoSector
  BY SentinelAssumption
<1>4. y # EOF /\ data[y][UnitOf(p)] = <<h.ver, p>>
  BY <1>3 DEF Composing, Written
<1>5. /\ data'[h.start] = [u \in Units |-> IF u < HeaderUnits THEN Junk ELSE data[h.start][u]]
      /\ \A z : z # h.start => data'[z] = data[z]
  BY DEF StoreHeader
<1>6. CASE y = h.start
  <2>1. SectorOf(p) = 0
    <3> SUFFICES ASSUME SectorOf(p) # 0
                 PROVE  FALSE
      OBVIOUS
    <3>1. SectorOf(p) \in 1..Places /\ SectorOf(p) - 1 \in 0..Places
      BY <1>2, PlacesType
    <3>2. y = Following(f, Walk(f, h.start)[SectorOf(p) - 1])
      BY <3>1, WalkIs
    <3>3. Walk(f, h.start)[SectorOf(p) - 1] \in Chain(f, h.start)
      BY <1>4, <3>1, <3>2, WalkInside DEF Following
    <3> QED
      BY <1>3, <1>6, <3>2, <3>3, ChainStart, EOFAssumption DEF Following, Composing
  <2>2. ~(UnitOf(p) < HeaderUnits)
    BY <1>1, <1>2, <2>1, FirstPlaces, UnitsAssumption DEF Units
  <2> QED
    BY <1>2, <1>4, <1>5, <1>6, <2>2
<1>7. CASE y # h.start
  BY <1>4, <1>5, <1>7
<1> QED
  BY <1>6, <1>7

LEMMA TheWriter ==
  ASSUME Careful, TypeInv, AccountInv, FilesInv, NEW f \in Streams, Closes(f)
  PROVE  /\ RamAgrees /\ Loaded = table[0] /\ Volume = table[0]
         /\ table[0] \in Fats /\ WellFormed(table[0]) /\ Directory(table[0], hdr, data)
         /\ strm[f] \in Handle /\ strm[f].name \in Names
         /\ strm[f].start # NoSector => strm[f].start \in Sectors
         /\ Unfinished(fat, table[0], strm[f])
         /\ strm[f].ver = session /\ session > 0 /\ Composing(fat, data, strm[f])
         /\ Replacing(table[0], hdr, strm[f])
         /\ \A g \in Streams : g # f /\ strm[g].mode # "none" =>
              /\ strm[g].mode = "r" /\ strm[g].name # strm[f].name
              /\ Reading(table[0], hdr, strm[g]) /\ strm[g] \in Handle
<1>1. /\ Calls /\ lastError # "IO" /\ strm[f].mode = "w"
      /\ \A g \in Streams : strm[g].mode = "r" => strm[g].name # strm[f].name
  BY DEF Closes, Enter, NotRead, Careful, May
<1>2. RamAgrees /\ mounted /\ ret # "IO"
  BY <1>1, Ready
<1>3. HandlesGood /\ HandleGood(strm[f])
  BY <1>2 DEF FilesInv, HandlesGood
<1>4. Loaded = table[0] /\ Volume = table[0]
  BY <1>2 DEF RamAgrees, Loaded, Loadable, Volume
<1>5. table[0] \in Fats /\ WellFormed(table[0]) /\ Directory(table[0], hdr, data)
  BY <1>2 DEF RamAgrees, AccountInv, SectorsAccounted, TypeInv, MediaOK, Tabs, FilesInv,
              DirectoriesGood
<1>6. strm[f] \in Handle /\ strm[f].name \in Names
      /\ (strm[f].start # NoSector => strm[f].start \in Sectors)
  BY <1>1 DEF TypeInv, RamOK, GoodHandle, Handle
<1>7. ASSUME NEW g \in Streams, g # f, strm[g].mode # "none"
      PROVE  /\ strm[g].mode = "r" /\ strm[g].name # strm[f].name
             /\ Reading(table[0], hdr, strm[g]) /\ strm[g] \in Handle
  <2>1. strm[g] \in Handle
    BY DEF TypeInv, RamOK, GoodHandle
  <2>2. strm[g].mode = "r"
    BY <1>1, <1>7, <2>1 DEF AccountInv, OneWriter, Handle
  <2> QED
    BY <1>1, <1>3, <2>1, <2>2 DEF HandlesGood, HandleGood
<1> QED
  BY <1>1, <1>2, <1>3, <1>4, <1>5, <1>6, <1>7 DEF RamAgrees, HandleGood

\* Ending a handle without a commit.
LEMMA CloseFiles ==
  ASSUME Careful, TypeInv, AccountInv, FilesInv, NEW f \in Streams, ufat_fclose(f), ~fclose(f)
  PROVE  FilesInv' /\ VolumeKept
<1>1. CASE fcloseUnopened(f)
  BY <1>1 DEF fcloseUnopened, Careful, May
<1>2. CASE fcloseReader(f) \/ fcloseErrored(f)
  <2>1. /\ UNCHANGED <<media, session, lastError>> /\ Retire(f) /\ Calls
        /\ strm[f].mode # "w" => UNCHANGED fat
    BY <1>2 DEF fcloseReader, fcloseErrored, Enter
  <2>2. HandlesGood
    BY <2>1, Ready DEF FilesInv
  <2>3. strm'[f].mode = "none" /\ \A g \in Streams : g # f => strm'[g] = strm[g]
    BY <2>1, RetireAccount DEF TypeInv
  <2>4. ASSUME NEW g \in Streams, g # f
        PROVE  HandleGood(strm[g])'
    <3>1. HandleGood(strm[g]) /\ strm'[g] = strm[g]
      BY <2>2, <2>3, <2>4 DEF HandlesGood
    <3>2. strm[f].mode = "w" => strm[g].mode # "w"
      BY <2>4 DEF AccountInv, OneWriter
    <3>3. CASE UNCHANGED fat
      BY <2>1, <3>1, <3>3, HandleKept
    <3>4. CASE strm[g].mode # "w"
      BY <2>1, <3>1, <3>4 DEF HandleGood, media, Reading
    <3> QED
      BY <2>1, <3>2, <3>3, <3>4
  <2>5. HandleGood(strm[f])'
    BY <2>3 DEF HandleGood
  <2> QED
    BY <2>1, <2>4, <2>5, MediaKept DEF FilesInv, HandlesGood
<1>3. CASE fcloseHeaderFails(f)
  <2> DEFINE s == strm[f].start
  <2>1. Closes(f) /\ s # NoSector /\ UNCHANGED table
    BY <1>3 DEF fcloseHeaderFails
  <2>2. s \in Sectors /\ table[0][s] = FreeEntry /\ RamAgrees
    BY <2>1, TheWriter, ChainStart DEF Unfinished, Claimed
  <2>3. \A y \in Sectors : y # s => hdr'[y] = hdr[y] /\ data'[y] = data[y]
    BY <1>3 DEF fcloseHeaderFails, StoreHeader, TypeInv, MediaOK, Headers
  <2>4. DirectoriesGood' /\ VolumeKept
    BY <2>1, <2>2, <2>3, FreeSectorWritten DEF TypeInv, FilesInv
  <2>5. ret' = "IO" \/ Reset
    BY <1>3 DEF fcloseHeaderFails
  <2> QED
    BY <2>4, <2>5, HandlesGone DEF FilesInv, Reset
<1>4. CASE fcloseCorrupt(f)
  <2>1. Closes(f) /\ strm[f].start # NoSector /\ ~Ends(fat, strm[f].start)
    BY <1>4 DEF fcloseCorrupt
  <2>2. Ends(fat, strm[f].start)
    BY <2>1, TheWriter, CommitWellFormed DEF TypeInv, RamOK
  <2> QED
    BY <2>1, <2>2
<1> QED
  BY <1>1, <1>2, <1>3, <1>4 DEF ufat_fclose

\* The files of the table that ufat_fclose commits.
LEMMA ReplaceFiles ==
  ASSUME Careful, TypeInv, TypeInv', AccountInv, FilesInv, NEW f \in Streams, fclose(f)
  PROVE  LET h == strm[f]
             new == Replace(h)
         IN  /\ new \in Fats
             /\ Directory(new, hdr', data') /\ Directory(table[0], hdr', data')
             /\ Starts(new) = (Starts(table[0]) \cup ({h.start} \ {NoSector})) \ {h.old}
             /\ h.start # NoSector => hdr'[h.start] = FileHeader(h)
             /\ \A s \in Starts(table[0]) : hdr'[s] = hdr[s] /\ s # h.start
             /\ \A s \in Starts(table[0]) \ {h.old} : \A x \in Chain(table[0], s) :
                  new[x] = table[0][x]
<1> DEFINE h == strm[f]
           T == table[0]
           marked == IF h.start = NoSector THEN fat ELSE MarkWritten(fat, h.start)
           new == Replace(h)
<1>1. /\ T \in Fats /\ WellFormed(T) /\ Directory(T, hdr, data)
      /\ h \in Handle /\ h.name \in Names
      /\ h.start # NoSector => h.start \in Sectors
      /\ Unfinished(fat, T, h) /\ h.ver = session /\ session > 0
      /\ Composing(fat, data, h) /\ Replacing(T, hdr, h)
  BY TheWriter DEF fclose
<1>2. /\ fat \in Fats /\ hdr \in Headers /\ hdr' \in Headers /\ data \in [Sectors -> Block]
  BY DEF TypeInv, RamOK, MediaOK
<1>3. IF h.start = NoSector THEN UNCHANGED <<hdr, data>>
      ELSE StoreHeader(h.start, FileHeader(h))
  BY DEF fclose
<1>4. h.start # NoSector => T[h.start] = FreeEntry
  BY <1>1, ChainStart DEF Unfinished, Claimed
<1>5. \A y \in Sectors : y # h.start => hdr'[y] = hdr[y] /\ data'[y] = data[y]
  BY <1>2, <1>3 DEF StoreHeader, Headers
<1>6. \A s \in Starts(T) : T[s] # FreeEntry /\ s \in Sectors
  BY DEF Starts, FreeEntry
<1>7. \A s \in Starts(T) : hdr'[s] = hdr[s] /\ s # h.start
  BY <1>4, <1>5, <1>6, SentinelAssumption
<1>8. Directory(T, hdr', data')
  <2>1. \A y \in Sectors : T[y] # FreeEntry => hdr'[y] = hdr[y] /\ data'[y] = data[y]
    BY <1>4, <1>5, SentinelAssumption
  <2> HIDE DEF T
  <2> QED
    BY <1>1, <1>2, <2>1, DirectoryKept
<1>9. h.start # NoSector => hdr'[h.start] = FileHeader(h)
  BY <1>1, <1>2, <1>3 DEF StoreHeader, Headers
\* The stream's file beside the old one.
<1>10. /\ marked \in Fats /\ WellFormed(marked)
       /\ Starts(marked) = Starts(T) \cup ({h.start} \ {NoSector})
       /\ FilesAt(marked, hdr', data')
       /\ \A t \in Starts(T) : \A x \in Chain(T, t) : marked[x] = T[x]
  <2>1. CASE h.start = NoSector
    <3>1. fat = T
      BY <1>1, <1>2, <2>1 DEF Unfinished, Claimed, Fats
    <3> QED
      BY <1>1, <1>8, <2>1, <3>1 DEF Directory
  <2>2. CASE h.start # NoSector
    <3>1. /\ marked = MarkWritten(fat, h.start) /\ marked \in Fats /\ h.start \in Sectors
          /\ WellFormed(marked) /\ Starts(marked) = Starts(T) \cup {h.start}
          /\ \A t \in Starts(T) : \A x \in Chain(T, t) : marked[x] = T[x]
      BY <1>1, <1>2, <2>2, CommitWellFormed, MarkWrittenType
    <3>2. \A x \in Sectors : marked[x].next = fat[x].next
      BY <1>2, <3>1 DEF MarkWritten, Fats, Entry
    <3> HIDE DEF marked, T, h
    <3>3. ASSUME NEW t \in Starts(T)
          PROVE  FileAt(marked, hdr', data', t)
      <4>1. t \in Sectors /\ FileAt(T, hdr', data', t)
        BY <1>6, <1>8 DEF Directory, FilesAt
      <4> QED
        BY <1>1, <1>2, <3>1, <4>1, FileKept
    <3>4. FileAt(marked, hdr', data', h.start)
      <4>1. Written(fat, data', h.start, h.ver, h.pos)
        BY <1>1, <1>2, <1>3, <2>2, <3>1, HeaderAtFront
      <4>2. h.pos \in 0..MaxUnits
        BY <1>1 DEF Handle
      <4>3. \A x \in Chain(fat, h.start) : marked[x].next = fat[x].next
        BY <3>1, <3>2, ChainStart
      <4>4. Written(marked, data', h.start, h.ver, h.pos)
        BY <1>2, <3>1, <4>1, <4>2, <4>3, WrittenKept
      <4>5. /\ hdr'[h.start] = FileHeader(h) /\ FileHeader(h).ver = h.ver
            /\ FileHeader(h).total = h.pos
        BY <1>9, <2>2 DEF FileHeader
      <4>6. FileHeader(h) # Junk
        <5>1. FileHeader(h) \in [name : Names, ver : Nat, total : Nat]
          BY <1>1, BoundsAssumption DEF FileHeader, Handle, Sessions
        <5> QED
          BY <5>1, JunkAssumption
      <4>7. h.ver # 0
        BY <1>1, BoundsAssumption DEF Handle, Sessions
      <4> QED
        BY <4>4, <4>5, <4>6, <4>7 DEF FileAt
    <3> QED
      BY <2>2, <3>1, <3>3, <3>4, SentinelAssumption DEF FilesAt
  <2> QED
    BY <2>1, <2>2
<1>11. new = IF h.old = NoSector THEN marked ELSE FreeChain(marked, h.old)
  BY DEF Replace
<1>12. h.old # NoSector => h.old \in Starts(T)
  BY <1>1 DEF Unfinished
<1>13. h.old = NoSector => h.old \notin Starts(marked)
  BY SentinelAssumption DEF Starts
<1> HIDE DEF marked, new, T, h
<1>14. new \in Fats /\ Starts(new) = Starts(marked) \ {h.old} /\ FilesAt(new, hdr', data')
  BY <1>2, <1>10, <1>11, <1>12, <1>13, FilesFreed, FreeWellFormed, FreeChainType
<1>15. NamesApart(new, hdr')
  <2>1. ASSUME NEW s \in Starts(T) \ {h.old}
        PROVE  hdr'[s].name # h.name
    BY <1>1, <1>7 DEF Replacing
  <2>2. h.start # NoSector => hdr'[h.start].name = h.name
    BY <1>9 DEF FileHeader
  <2>3. NamesApart(T, hdr')
    BY <1>8 DEF Directory
  <2> QED
    BY <1>10, <1>14, <2>1, <2>2, <2>3 DEF NamesApart
<1>16. ASSUME NEW s \in Starts(T) \ {h.old}, NEW x \in Chain(T, s)
       PROVE  new[x] = T[x]
  <2>1. marked[x] = T[x] /\ s \in Starts(marked) /\ s \in Sectors
    BY <1>6, <1>10
  <2>2. Chain(marked, s) = Chain(T, s)
    <3>1. \A y \in Chain(T, s) : marked[y].next = T[y].next
      BY <1>10
    <3> QED
      BY <1>1, <2>1, <3>1, ChainKept
  <2>3. h.old # NoSector => \A y \in Chain(marked, s) : FreeChain(marked, h.old)[y] = marked[y]
    BY <1>10, <1>12, FreeWellFormed
  <2> QED
    BY <1>11, <2>1, <2>2, <2>3
<1> QED
  BY <1>7, <1>8, <1>9, <1>10, <1>14, <1>15, <1>16 DEF Directory, new, T, h
\* The commit of a table whose files the media has already.
LEMMA CommitDirectories ==
  ASSUME RamAgrees, NEW new \in Fats, NEW o \in CommitOutcomes(table, new), table' = o.tab,
         Directory(new, hdr', data'), Directory(table[0], hdr', data')
  PROVE  /\ DirectoriesGood'
         /\ Volume' \in {Volume, new}
         /\ o.res = "OK" => Volume' = new
<1>1. table[0] # Bad /\ table[1] = table[0] /\ new # Bad /\ Volume = table[0]
  BY BadAssumption DEF RamAgrees, Volume, Loaded, Loadable
<1>2. /\ table'[0] \in {table[0], new, Bad} /\ table'[1] \in {table[0], new, Bad}
      /\ table'[0] = new \/ table'[1] = table[0]
      /\ o.res = "OK" => table'[0] = new
  BY <1>1, CommitCopies, BothCopies
<1>3. DirectoriesGood'
  <2> SUFFICES ASSUME NEW i \in 0..1, table'[i] # Bad
               PROVE  Directory(table'[i], hdr', data')
    BY DEF DirectoriesGood
  <2>1. i = 0 \/ i = 1
    OBVIOUS
  <2>2. table'[i] \in {table[0], new}
    BY <1>2, <2>1
  <2> QED
    BY <2>2
<1> QED
  BY <1>1, <1>2, <1>3 DEF Volume, Loaded, Loadable

\* The name's contents become v, and no other name's change.
Becomes(n, v) == \A m \in Names : Contents(m)' = IF m = n THEN v ELSE Contents(m)

LEMMA CommitFiles ==
  ASSUME Careful, TypeInv, TypeInv', AccountInv, FilesInv, NEW f \in Streams, fclose(f)
  PROVE  /\ FilesInv'
         /\ \/ VolumeKept
            \/ Becomes(strm[f].name, IF strm[f].start = NoSector THEN 0 ELSE strm[f].ver)
         /\ ret' = "OK" =>
              Becomes(strm[f].name, IF strm[f].start = NoSector THEN 0 ELSE strm[f].ver)
<1> DEFINE h == strm[f]
           new == Replace(h)
           v == IF h.start = NoSector THEN 0 ELSE h.ver
<1>1. /\ new \in Fats
      /\ Directory(new, hdr', data') /\ Directory(table[0], hdr', data')
      /\ Starts(new) = (Starts(table[0]) \cup ({h.start} \ {NoSector})) \ {h.old}
      /\ h.start # NoSector => hdr'[h.start] = FileHeader(h)
      /\ \A s \in Starts(table[0]) : hdr'[s] = hdr[s] /\ s # h.start
      /\ \A s \in Starts(table[0]) \ {h.old} : \A x \in Chain(table[0], s) :
           new[x] = table[0][x]
  BY ReplaceFiles
<1>2. /\ RamAgrees /\ Volume = table[0] /\ Replacing(table[0], hdr, h)
      /\ table[0] \in Fats
      /\ h.old # NoSector => h.old \in Starts(table[0])
      /\ \A g \in Streams : g # f /\ strm[g].mode # "none" =>
           /\ strm[g].mode = "r" /\ strm[g].name # h.name
           /\ Reading(table[0], hdr, strm[g]) /\ strm[g] \in Handle
  BY TheWriter DEF fclose, Unfinished
<1> HIDE DEF new
<1>3. PICK o \in CommitOutcomes(table, new) :
        /\ table' = o.tab
        /\ IF o.res = "dead" THEN Reset ELSE Retire(f) /\ ret' = o.res
  BY DEF fclose, new
<1>4. /\ DirectoriesGood'
      /\ Volume' \in {Volume, new}
      /\ o.res = "OK" => Volume' = new
  BY <1>1, <1>2, <1>3, CommitDirectories
\* The readers' files are in the new table too.
<1>5. FilesInv'
  <2>1. CASE o.res # "OK"
    <3>1. Reset \/ ret' = "IO"
      BY <1>3, <2>1, CommitCopies
    <3> QED
      BY <1>4, <3>1, HandlesGone DEF FilesInv, Reset
  <2>2. CASE o.res = "OK"
    <3>1. /\ strm'[f].mode = "none" /\ \A g \in Streams : g # f => strm'[g] = strm[g]
      BY <1>3, <2>2, RetireAccount DEF TypeInv
    <3>2. table'[0] = new
      BY <1>3, <2>2, CommitCopies, BothCopies
    <3>3. ASSUME NEW g \in Streams, g # f, strm[g].mode # "none"
          PROVE  Reading(table'[0], hdr', strm[g]) /\ strm[g].mode = "r"
      <4>1. /\ strm[g].mode = "r" /\ strm[g].name # h.name /\ strm[g] \in Handle
            /\ Reading(table[0], hdr, strm[g])
        BY <1>2, <3>3
      <4>2. strm[g].start \in Starts(table[0]) \ {h.old}
        BY <1>2, <4>1 DEF Reading, Replacing
      <4>3. /\ strm[g].start \in Starts(new) /\ hdr'[strm[g].start] = hdr[strm[g].start]
            /\ \A x \in Chain(table[0], strm[g].start) : new[x].next = table[0][x].next
        BY <1>1, <4>2
      <4>4. Reading(new, hdr', strm[g])
        BY <1>1, <1>2, <4>1, <4>3, ReaderKept
      <4> QED
        BY <3>2, <4>1, <4>4
    <3>4. \A g \in Streams : HandleGood(strm[g])'
      BY <3>1, <3>3 DEF HandleGood
    <3> QED
      BY <1>4, <3>4 DEF FilesInv, HandlesGood
  <2> QED
    BY <2>1, <2>2
<1>6. Volume' = Volume => VolumeKept
  BY <1>1, <1>2 DEF VolumeKept
<1>7. ASSUME Volume' = new
      PROVE  Becomes(h.name, v)
  <2> SUFFICES ASSUME NEW n \in Names
               PROVE  Contents(n)' = IF n = h.name THEN v ELSE Contents(n)
    BY DEF Becomes
  <2>1. /\ \A s \in Starts(table[0]) : hdr[s].name = n => Contents(n) = hdr[s].ver
        /\ (\A s \in Starts(table[0]) : hdr[s].name # n) => Contents(n) = 0
    BY <1>2, ContentsOf DEF TypeInv, FilesInv
  <2>2. /\ \A s \in Starts(new) : hdr'[s].name = n => Contents(n)' = hdr'[s].ver
        /\ (\A s \in Starts(new) : hdr'[s].name # n) => Contents(n)' = 0
    BY <1>4, <1>7, ContentsOfNext DEF TypeInv
  <2>3. h.start # NoSector => hdr'[h.start].name = h.name /\ hdr'[h.start].ver = h.ver
    BY <1>1 DEF FileHeader
  <2>4. \A s \in Starts(table[0]) : hdr[s].name = h.name <=> s = h.old
    BY <1>2 DEF Replacing
  <2> HIDE DEF h
  <2>5. CASE n = h.name /\ h.start = NoSector
    BY <1>1, <2>2, <2>4, <2>5
  <2>6. CASE n = h.name /\ h.start # NoSector
    <3>1. h.start # h.old
      BY <1>1, <1>2, <2>6
    <3>2. h.start \in Starts(new)
      BY <1>1, <2>6, <3>1
    <3> QED
      BY <2>2, <2>3, <2>6, <3>2
  <2>7. CASE n # h.name
    <3>1. ASSUME NEW s \in Starts(table[0]), hdr[s].name = n
          PROVE  Contents(n)' = Contents(n)
      <4>1. s \in Starts(new) /\ hdr'[s] = hdr[s]
        BY <1>1, <2>4, <2>7, <3>1
      <4> QED
        BY <2>1, <2>2, <3>1, <4>1
    <3>2. ASSUME \A s \in Starts(table[0]) : hdr[s].name # n
          PROVE  Contents(n)' = Contents(n)
      <4>1. \A s \in Starts(new) : hdr'[s].name # n
        BY <1>1, <2>3, <2>7, <3>2
      <4> QED
        BY <2>1, <2>2, <3>2, <4>1
    <3> QED
      BY <2>7, <3>1, <3>2
  <2> QED
    BY <2>5, <2>6, <2>7
<1>8. ret' = "OK" => Volume' = new
  BY <1>3, <1>4 DEF Reset
<1> QED
  BY <1>4, <1>5, <1>6, <1>7, <1>8

LEMMA RemoveFiles ==
  ASSUME Careful, TypeInv, TypeInv', AccountInv, FilesInv, NEW n \in Names, ufat_remove(n)
  PROVE  /\ FilesInv'
         /\ VolumeKept \/ Becomes(n, 0)
         /\ ret' = "OK" => Contents(n)' = 0
<1>1. /\ Calls /\ lastError # "IO" /\ \A f \in Streams : strm[f].mode # "w"
      /\ \A f \in Streams : strm[f].mode = "r" => strm[f].name # n
  BY DEF ufat_remove, Enter, NoWriter, NotRead, Careful, May
<1>2. /\ RamAgrees /\ fat = table[0] /\ Volume = fat /\ fat \in Fats /\ WellFormed(fat)
      /\ Directory(fat, hdr, data) /\ hdr \in Headers /\ HandlesGood
  BY <1>1, Ready DEF RamAgrees, Volume, Loaded, Loadable, TypeInv, MediaOK, RamOK, AccountInv,
                     SectorsAccounted, FilesInv, DirectoriesGood
<1>3. /\ \A m \in Names :
           /\ \A s \in Starts(fat) : hdr[s].name = m => Contents(m) = hdr[s].ver
           /\ (\A s \in Starts(fat) : hdr[s].name # m) => Contents(m) = 0
      /\ Matches(fat, hdr, n) = {s \in Starts(fat) : hdr[s].name = n}
  BY <1>2, ContentsOf DEF TypeInv, FilesInv, Matches, Starts, Directory, FilesAt, FileAt
<1>4. ASSUME NEW f \in Streams, strm[f].mode # "none"
      PROVE  /\ strm[f] \in Handle /\ strm[f].mode = "r" /\ strm[f].name # n
             /\ Reading(table[0], hdr, strm[f])
  <2>1. strm[f] \in Handle
    BY DEF TypeInv, RamOK, GoodHandle
  <2>2. strm[f].mode = "r"
    BY <1>1, <1>4, <2>1 DEF Handle
  <2> QED
    BY <1>1, <1>2, <2>1, <2>2 DEF HandlesGood, HandleGood
<1>5. ASSUME UNCHANGED strm,
             \A f \in Streams : strm[f].mode # "none" => Reading(table'[0], hdr', strm[f])
      PROVE  HandlesGood'
  <2>1. \A f \in Streams : HandleGood(strm[f])'
    BY <1>4, <1>5 DEF HandleGood
  <2> QED
    BY <2>1 DEF HandlesGood
<1>6. CASE removeAbsent(n) \/ removeSearchFails
  <2>1. UNCHANGED media /\ UNCHANGED strm
    BY <1>6 DEF removeAbsent, removeSearchFails
  <2>2. FilesInv' /\ VolumeKept
    <3>1. HandlesGood'
      BY <1>4, <1>5, <2>1 DEF media
    <3> QED
      BY <2>1, <3>1, MediaKept DEF FilesInv
  <2>3. ASSUME ret' = "OK"
        PROVE  Contents(n)' = 0
    <3>1. ~Found(n)
      BY <1>6, <2>3 DEF removeAbsent, removeSearchFails
    <3>2. Contents(n) = 0
      BY <1>3, <3>1 DEF Found
    <3>3. Contents(n)' = Contents(n)
      BY <2>2, ContentsKept DEF TypeInv, FilesInv
    <3> QED
      BY <3>2, <3>3
  <2> QED
    BY <2>2, <2>3
<1>7. CASE removeFound(n)
  <2>1. PICK s \in Search(n) : \E o \in CommitOutcomes(table, FreeChain(fat, s)) :
          /\ table' = o.tab
          /\ IF o.res = "dead" THEN Reset
             ELSE /\ ret' = o.res
                  /\ UNCHANGED strm
    BY <1>7 DEF removeFound
  <2> DEFINE new == FreeChain(fat, s)
  <2>2. UNCHANGED <<hdr, data>>
    BY <1>7 DEF removeFound
  <2>3. s \in Starts(fat) /\ hdr[s].name = n
    BY <1>3 DEF Search, fileSearch
  <2>4. /\ new \in Fats /\ Starts(new) = Starts(fat) \ {s} /\ Directory(new, hdr, data)
        /\ \A t \in Starts(fat) \ {s} : \A x \in Chain(fat, t) : new[x] = fat[x]
    BY <1>2, <2>3, FreeChainType, FreeWellFormed, DirectoryFreed
  <2> HIDE DEF new
  <2>5. PICK o \in CommitOutcomes(table, new) :
          /\ table' = o.tab
          /\ IF o.res = "dead" THEN Reset
             ELSE /\ ret' = o.res
                  /\ UNCHANGED strm
    BY <2>1 DEF new
  <2>6. /\ DirectoriesGood'
        /\ Volume' \in {Volume, new}
        /\ o.res = "OK" => Volume' = new
    BY <1>2, <2>2, <2>4, <2>5, CommitDirectories
  <2>7. FilesInv'
    <3>1. CASE o.res # "OK"
      <4>1. Reset \/ ret' = "IO"
        BY <2>5, <3>1, CommitCopies
      <4> QED
        BY <2>6, <4>1, HandlesGone DEF FilesInv, Reset
    <3>2. CASE o.res = "OK"
      <4>1. UNCHANGED strm /\ table'[0] = new
        BY <2>5, <3>2, CommitCopies, BothCopies
      <4>2. ASSUME NEW f \in Streams, strm[f].mode # "none"
            PROVE  Reading(table'[0], hdr', strm[f])
        <5>1. /\ strm[f] \in Handle /\ strm[f].name # n /\ Reading(fat, hdr, strm[f])
          BY <1>2, <1>4, <4>2
        <5>2. strm[f].start \in Starts(fat) \ {s}
          BY <2>3, <5>1 DEF Reading
        <5>3. Reading(new, hdr', strm[f])
          BY <1>2, <2>2, <2>4, <5>1, <5>2, ReaderKept
        <5> QED
          BY <4>1, <5>3
      <4> QED
        BY <1>5, <2>6, <4>1, <4>2 DEF FilesInv
    <3> QED
      BY <3>1, <3>2
  <2>8. Volume' = Volume => VolumeKept
    BY <2>2 DEF VolumeKept
  <2>9. ASSUME Volume' = new
        PROVE  Becomes(n, 0)
    <3> SUFFICES ASSUME NEW m \in Names
                 PROVE  Contents(m)' = IF m = n THEN 0 ELSE Contents(m)
      BY DEF Becomes
    <3>1. /\ \A t \in Starts(new) : hdr[t].name = m => Contents(m)' = hdr[t].ver
          /\ (\A t \in Starts(new) : hdr[t].name # m) => Contents(m)' = 0
      BY <2>2, <2>6, <2>9, ContentsOfNext DEF TypeInv
    <3>2. \A t \in Starts(fat) : hdr[t].name = n => t = s
      BY <1>2, <2>3 DEF Directory, NamesApart
    <3>3. CASE m = n
      BY <2>4, <3>1, <3>2, <3>3
    <3>4. CASE m # n
      BY <1>3, <2>3, <2>4, <3>1, <3>4
    <3> QED
      BY <3>3, <3>4
  <2>10. ret' = "OK" => Volume' = new
    BY <2>5, <2>6 DEF Reset
  <2>11. Becomes(n, 0) => Contents(n)' = 0
    BY DEF Becomes
  <2> QED
    BY <2>6, <2>7, <2>8, <2>9, <2>10, <2>11
<1> QED
  BY <1>6, <1>7 DEF ufat_remove
-----------------------------------------------------------------------------
(* Every step. *)

\* What a step of a careful caller does to the contents: nothing, but for
\* ufat_format and the commits.
LEMMA StepFiles ==
  ASSUME Careful, TypeInv, TypeInv', AccountInv, FilesInv, [Next]_vars
  PROVE  /\ FilesInv'
         /\ \/ VolumeKept
            \/ ufat_format
            \/ \E n \in Names : ufat_remove(n) /\ Becomes(n, 0)
            \/ \E f \in Streams :
                 fclose(f) /\ Becomes(strm[f].name,
                                      IF strm[f].start = NoSector THEN 0 ELSE strm[f].ver)
<1>1. CASE PowerLoss
  <2>1. UNCHANGED media /\ ~mounted'
    BY <1>1 DEF PowerLoss, Reset
  <2> QED
    BY <2>1, MediaKept, HandlesGone DEF FilesInv
<1>2. CASE UNCHANGED vars
  <2>1. DirectoriesGood' /\ VolumeKept
    BY <1>2, MediaKept DEF vars, media, FilesInv
  <2>2. (mounted /\ ret # "IO" => HandlesGood)'
    BY <1>2 DEF vars, FilesInv, HandlesGood, HandleGood, Composing, Replacing, Reading
  <2> QED
    BY <2>1, <2>2 DEF FilesInv
<1>3. ASSUME Latched \/ ufat_fsinfo \/ \E n \in Names : ufat_exists(n)
      PROVE  FilesInv' /\ VolumeKept
  <2>1. /\ Calls /\ UNCHANGED <<media, fat, mounted, strm, session>>
        /\ lastError' = lastError \/ lastError' = "IO"
    BY <1>3 DEF Latched, ufat_fsinfo, ufat_exists, Enter, ReadFails
  <2>2. ret # "IO"
    BY <2>1, Ready
  <2> QED
    BY <2>1, <2>2, NothingDone
<1>4. ASSUME NEW f \in Streams, ufat_fclose(f)
      PROVE  /\ FilesInv'
             /\ VolumeKept \/ (fclose(f) /\ Becomes(strm[f].name,
                                  IF strm[f].start = NoSector THEN 0 ELSE strm[f].ver))
  BY <1>4, CloseFiles, CommitFiles
<1>5. ASSUME ufat_mount
      PROVE  FilesInv' /\ VolumeKept
  BY <1>5, MountFiles DEF TypeInv
<1>6. ASSUME ufat_format
      PROVE  FilesInv'
  BY <1>6, FormatFiles
<1> QED
  BY <1>1, <1>2, <1>3, <1>4, <1>5, <1>6, OpenFiles, WriteFiles, ReadFiles, RemoveFiles
  DEF Next

LEMMA InitFiles == Init => FilesInv
<1> SUFFICES ASSUME Init
             PROVE  FilesInv
  OBVIOUS
<1>1. (\A i \in 0..1 : table[i] = Bad) /\ ~mounted
  BY DEF Init
<1> QED
  BY <1>1 DEF FilesInv, DirectoriesGood

LEMMA FilesAlways ==
  ASSUME Careful
  PROVE  Spec => [](TypeInv /\ AccountInv /\ FilesInv)
<1>1. Spec => [](TypeInv /\ AccountInv)
  BY AccountAlways
<1>2. TypeInv /\ TypeInv' /\ AccountInv /\ FilesInv /\ [Next]_vars => FilesInv'
  BY StepFiles
<1> QED
  BY <1>1, <1>2, InitFiles, PTL DEF Spec

-----------------------------------------------------------------------------
(* What the careful caller is promised. *)

\* The contents of a file change only in ufat_format, in ufat_remove of its name
\* and in the commit of ufat_fclose of a stream of its name: writing, a header
\* that is torn, a failing ufat_mount and a machine that dies leave every file
\* of the volume as it was.
THEOREM FilesKeptApart ==
  ASSUME Careful
  PROVE  Spec => OthersKeepOut
<1> DEFINE Kept == \A n \in Names : Contents(n)' # Contents(n) =>
                     \/ ufat_format
                     \/ ufat_remove(n)
                     \/ \E f \in Streams : strm[f].name = n /\ fclose(f)
<1>1. ASSUME TypeInv, AccountInv, FilesInv, (TypeInv /\ AccountInv /\ FilesInv)', [Next]_vars
      PROVE  Kept
  <2> SUFFICES ASSUME NEW n \in Names, Contents(n)' # Contents(n)
               PROVE  \/ ufat_format
                      \/ ufat_remove(n)
                      \/ \E f \in Streams : strm[f].name = n /\ fclose(f)
    OBVIOUS
  <2>1. ~VolumeKept
    BY <1>1, ContentsKept DEF TypeInv, FilesInv
  <2> QED
    BY <1>1, <2>1, StepFiles DEF Becomes
<1> QED
  BY <1>1, FilesAlways, PTL DEF Spec, OthersKeepOut

\* When ufat_fclose of a stream that no ufat_fwrite marked as in error returns
\* UFAT_OK, the media has the file just written, whole and the only one of its
\* name; when ufat_remove does, it has no file of that name.
THEOREM AckedLasts ==
  ASSUME Careful
  PROVE  Spec => AckedIsDurable
<1> DEFINE Acks(f, n) == /\ ufat_fclose(f) /\ ret' = "OK"
                         /\ strm[f].mode = "w" /\ strm[f].name = n /\ ~strm[f].err
           Acked == \A n \in Names :
              /\ \A f \in Streams :
                   Acks(f, n) => Contents(n)' = IF strm[f].start = NoSector THEN 0 ELSE strm[f].ver
              /\ ufat_remove(n) /\ ret' = "OK" => Contents(n)' = 0
<1>1. ASSUME TypeInv, AccountInv, FilesInv, (TypeInv /\ AccountInv /\ FilesInv)', [Next]_vars
      PROVE  Acked
  <2> SUFFICES ASSUME NEW n \in Names
               PROVE  /\ \A f \in Streams : Acks(f, n) =>
                           Contents(n)' = IF strm[f].start = NoSector THEN 0 ELSE strm[f].ver
                      /\ ufat_remove(n) /\ ret' = "OK" => Contents(n)' = 0
    OBVIOUS
  <2>1. ASSUME NEW f \in Streams, Acks(f, n)
        PROVE  Contents(n)' = IF strm[f].start = NoSector THEN 0 ELSE strm[f].ver
    <3>1. ~fcloseUnopened(f) /\ ~fcloseReader(f) /\ ~fcloseErrored(f)
      BY <2>1 DEF fcloseUnopened, fcloseReader, fcloseErrored, Idle
    <3>2. ~fcloseHeaderFails(f) /\ ~fcloseCorrupt(f)
      BY <2>1 DEF fcloseHeaderFails, fcloseCorrupt, Reset
    <3>3. fclose(f)
      BY <2>1, <3>1, <3>2 DEF ufat_fclose
    <3> QED
      BY <1>1, <2>1, <3>3, CommitFiles DEF Becomes
  <2>2. ufat_remove(n) /\ ret' = "OK" => Contents(n)' = 0
    BY <1>1, RemoveFiles
  <2> QED
    BY <2>1, <2>2
<1> QED
  BY <1>1, FilesAlways, PTL DEF Spec, AckedIsDurable
-----------------------------------------------------------------------------
(* The volume as a map from names to contents. *)

\* ufat_mount says UFAT_ERR_EMPTY of a volume without a good table only, and
\* nothing but ufat_mount and ufat_format is called then.
EmptyTold == ret = "EMPTY" => table[0] = Bad /\ table[1] = Bad

LEMMA StepEmpty ==
  ASSUME TypeInv, EmptyTold, [Next]_vars
  PROVE  EmptyTold'
<1> SUFFICES ASSUME ret' = "EMPTY"
             PROVE  table'[0] = Bad /\ table'[1] = Bad
  BY DEF EmptyTold
<1>1. CASE UNCHANGED vars
  BY <1>1 DEF vars, media, EmptyTold
<1>2. CASE ufat_mount
  BY <1>2 DEF ufat_mount, mountReadFails, mountEmpty, mountCopyFails, mountDone, Reset, media
<1>3. ~PowerLoss /\ ~Latched /\ ~ufat_fsinfo
  BY DEF PowerLoss, Latched, ufat_fsinfo, Reset
<1>4. ASSUME NEW new, NEW o \in CommitOutcomes(table, new), o.res # "dead" => ret' = o.res,
             o.res = "dead" => Reset
      PROVE  FALSE
  BY <1>4, CommitCopies DEF Reset
<1>5. ASSUME ufat_format
      PROVE  FALSE
  BY <1>4, <1>5 DEF ufat_format
<1>6. ASSUME NEW n \in Names, ufat_remove(n) \/ ufat_exists(n)
      PROVE  FALSE
  <2>1. ~ufat_exists(n) /\ ~removeAbsent(n) /\ ~removeSearchFails
    BY DEF ufat_exists, removeAbsent, removeSearchFails
  <2>2. ASSUME removeFound(n)
        PROVE  FALSE
    BY <1>4, <2>2 DEF removeFound
  <2> QED
    BY <1>6, <2>1, <2>2 DEF ufat_remove
<1>7. ASSUME NEW f \in Streams,
             \/ fopenNameTooLong(f) \/ fopenUnsupported(f)
             \/ \E n \in Names : fopenRead(f, n) \/ fopenWrite(f, n)
             \/ ufat_fwrite(f) \/ ufat_fread(f)
      PROVE  FALSE
  BY <1>7 DEF fopenNameTooLong, fopenUnsupported, fopenRead, fopenWrite, ufat_fwrite,
              fwriteFull, fwrite, fwritePass, fwriteOutside, Reset, ufat_fread, freadNothing,
              fread, Verdict
<1>8. ASSUME NEW f \in Streams, ufat_fclose(f)
      PROVE  FALSE
  <2>1. /\ ~fcloseUnopened(f) /\ ~fcloseReader(f) /\ ~fcloseErrored(f)
        /\ ~fcloseHeaderFails(f) /\ ~fcloseCorrupt(f)
    BY <1>8 DEF fcloseUnopened, fcloseReader, fcloseErrored, fcloseHeaderFails, fcloseCorrupt,
                Reset, TypeInv, RestOK
  <2>2. ASSUME fclose(f)
        PROVE  FALSE
    BY <1>4, <2>2 DEF fclose
  <2> QED
    BY <1>8, <2>1, <2>2 DEF ufat_fclose
<1> QED
  BY <1>1, <1>2, <1>3, <1>5, <1>6, <1>7, <1>8 DEF Next

\* Sessions are counted where they begin.
LEMMA StepSession ==
  ASSUME [Next]_vars, session' # session
  PROVE  \E f \in Streams : \E n \in Names : fopenWrite(f, n)
<1>1. ~PowerLoss /\ ~Latched /\ ~ufat_fsinfo /\ ~UNCHANGED vars
  BY DEF PowerLoss, Latched, ufat_fsinfo, Reset, vars
<1>2. ~ufat_mount
  BY DEF ufat_mount, mountReadFails, mountEmpty, mountCopyFails, mountDone, Reset
<1>3. ~ufat_format
  BY DEF ufat_format, Reset
<1>4. ASSUME NEW n \in Names
      PROVE  ~ufat_remove(n) /\ ~ufat_exists(n)
  BY DEF ufat_remove, removeAbsent, removeFound, removeSearchFails, ufat_exists, Reset
<1>5. ASSUME NEW f \in Streams
      PROVE  /\ ~fopenNameTooLong(f) /\ ~fopenUnsupported(f)
             /\ \A n \in Names : ~fopenRead(f, n)
             /\ ~ufat_fwrite(f) /\ ~ufat_fread(f)
  BY DEF fopenNameTooLong, fopenUnsupported, fopenRead, ufat_fwrite, fwriteFull, fwrite,
         fwritePass, fwriteOutside, ufat_fread, freadNothing, fread, Reset
<1>6. ASSUME NEW f \in Streams
      PROVE  ~ufat_fclose(f)
  BY DEF ufat_fclose, fcloseUnopened, fcloseReader, fcloseErrored, fcloseHeaderFails,
         fcloseCorrupt, fclose, Reset
<1> QED
  BY <1>1, <1>2, <1>3, <1>4, <1>5, <1>6 DEF Next
\* A caller that formats only what is mounted or was found empty has all files
\* or none, however ufat_format ends.
LEMMA FormatErases ==
  ASSUME Liberties = {}, TypeInv, AccountInv, FilesInv, EmptyTold, ufat_format
  PROVE  VolumeKept \/ Volume' = BlankFat
<1>1. UNCHANGED <<hdr, data>> /\ (ret = "EMPTY" \/ Calls) /\ Careful
  BY DEF ufat_format, May, Careful
<1>2. PICK o \in CommitOutcomes(table, BlankFat) : table' = o.tab
  BY DEF ufat_format
<1>3. CASE ret = "EMPTY"
  <2>1. table'[0] \in {Bad, BlankFat} /\ table'[1] \in {Bad, BlankFat}
    BY <1>2, <1>3, CommitCopies DEF EmptyTold
  <2> QED
    BY <2>1 DEF Volume, Loaded, Loadable
<1>4. CASE Calls
  <2>1. RamAgrees
    BY <1>1, <1>4, Ready
  <2>2. Directory(BlankFat, hdr', data') /\ Directory(table[0], hdr', data')
    BY <1>1, <2>1, BlankDirectory DEF FilesInv, DirectoriesGood, RamAgrees
  <2>3. Volume' \in {Volume, BlankFat}
    BY <1>2, <2>1, <2>2, BlankFatType, CommitDirectories
  <2> QED
    BY <1>1, <2>3 DEF VolumeKept
<1> QED
  BY <1>1, <1>3, <1>4

Files == [n \in Names |-> Contents(n)]

LEMMA StepReplaces ==
  ASSUME Liberties = {}, TypeInv, AccountInv, FilesInv, EmptyTold,
         (TypeInv /\ AccountInv /\ FilesInv)', [Next]_vars
  PROVE  [Abstract!Next]_<<Files, session>>
<1>0. Careful /\ MediaOK /\ DirectoriesGood /\ (MediaOK /\ DirectoriesGood)'
  BY DEF Careful, TypeInv, FilesInv
<1>1. VolumeKept => UNCHANGED Files
  BY <1>0, ContentsKept DEF Files
<1>2. CASE session' # session
  <2>1. PICK f \in Streams, n \in Names : fopenWrite(f, n)
    BY <1>2, StepSession
  <2>2. VolumeKept
    BY <1>0, <2>1, OpenFiles
  <2>3. session < MaxSessions /\ session' = session + 1
    BY <2>1 DEF fopenWrite
  <2>4. Abstract!Begin
    BY <1>1, <2>2, <2>3 DEF Abstract!Begin, Files
  <2> QED
    BY <2>4 DEF Abstract!Next
<1>3. CASE session' = session /\ VolumeKept
  BY <1>1, <1>3
<1>4. CASE session' = session /\ ufat_format /\ ~VolumeKept
  <2>1. Volume' = BlankFat
    BY <1>4, FormatErases
  <2>2. \A n \in Names : Contents(n)' = 0
    BY <1>0, <2>1, BlankDirectory, ContentsOfNext
  <2>3. Abstract!Erase
    BY <1>4, <2>2 DEF Abstract!Erase
  <2> QED
    BY <2>3 DEF Abstract!Next
<1>5. ASSUME session' = session, NEW n \in Names, Becomes(n, 0)
      PROVE  Abstract!Next
  <2>1. Abstract!Delete(n)
    BY <1>5 DEF Becomes, Abstract!Delete
  <2> QED
    BY <2>1 DEF Abstract!Next
<1>6. ASSUME session' = session, NEW f \in Streams, fclose(f),
             Becomes(strm[f].name, IF strm[f].start = NoSector THEN 0 ELSE strm[f].ver)
      PROVE  Abstract!Next
  <2>1. strm[f].name \in Names /\ strm[f].ver = session /\ session > 0
    BY <1>0, <1>6, TheWriter DEF fclose
  <2>2. CASE strm[f].start = NoSector
    BY <1>5, <1>6, <2>1, <2>2
  <2>3. CASE strm[f].start # NoSector
    <3>1. Abstract!Put(strm[f].name)
      BY <1>6, <2>1, <2>3 DEF Becomes, Abstract!Put
    <3> QED
      BY <2>1, <3>1 DEF Abstract!Next
  <2> QED
    BY <2>2, <2>3
<1> QED
  BY <1>0, <1>2, <1>3, <1>4, <1>5, <1>6, StepFiles

LEMMA InitReplaces == Init => Abstract!Init
<1> SUFFICES ASSUME Init
             PROVE  Abstract!Init
  OBVIOUS
<1>1. \A i \in 0..1 : table[i] = Bad
  BY DEF Init
<1>2. Volume = BlankFat
  BY <1>1 DEF Volume, Loaded, Loadable
<1>3. ASSUME NEW n \in Names
      PROVE  Contents(n) = 0
  <2>1. Matches(Volume, hdr, n) = {}
    BY <1>2 DEF Matches, BlankFat, FreeEntry
  <2> QED
    BY <2>1 DEF Contents
<1> QED
  BY <1>3 DEF Init, Abstract!Init

\* ufat_fclose and ufat_remove are atomic for a caller that takes no liberties:
\* in every state, each file has its old contents or the complete new ones, and
\* each step of the program is one step of the map from names to contents, or
\* none.
THEOREM ReplacesAtomically ==
  ASSUME Liberties = {}
  PROVE  Spec => AtomicReplace
<1>1. Careful
  BY DEF Careful
<1>2. Spec => [](TypeInv /\ AccountInv /\ FilesInv)
  BY <1>1, FilesAlways
<1>3. Init => EmptyTold
  BY DEF Init, EmptyTold
<1>4. TypeInv /\ EmptyTold /\ [Next]_vars => EmptyTold'
  BY StepEmpty
<1>5. Spec => []EmptyTold
  BY <1>2, <1>3, <1>4, PTL DEF Spec
<1>6. ASSUME TypeInv, AccountInv, FilesInv, EmptyTold, (TypeInv /\ AccountInv /\ FilesInv)',
             [Next]_vars
      PROVE  [Abstract!Next]_<<Files, session>>
  BY <1>6, StepReplaces
<1> QED
  BY <1>2, <1>5, <1>6, InitReplaces, PTL DEF Spec, AtomicReplace, Abstract!Spec, Files
-----------------------------------------------------------------------------
(* What a reader gets. *)

\* Every length fits in the header's length.
LengthsFit == MaxUnits < LenMod

LEMMA LenFits ==
  ASSUME LengthsFit, NEW h \in Handle
  PROVE  Len(h) = h.total
<1>1. h.total \in Nat /\ h.total < LenMod
  BY BoundsAssumption, LenModAssumption DEF LengthsFit, Handle
<1> QED
  BY <1>1, LenShort, LenModAssumption DEF Len

\* A sound reader is not told that its file is damaged.
LEMMA SoundVerdict ==
  ASSUME LengthsFit, NEW h \in Handle, h.sound
  PROVE  Verdict(h) = "OK"
  BY LenFits DEF Verdict

\* Only ufat_fread gives a verdict.
LEMMA OtherResults ==
  ASSUME TypeInv, Next, \A f \in Streams : ~ufat_fread(f)
  PROVE  ret' \notin {"SHORT", "FILECRC"}
<1>1. ASSUME NEW new, NEW o \in CommitOutcomes(table, new), o.res # "dead" => ret' = o.res,
             o.res = "dead" => Reset
      PROVE  ret' \notin {"SHORT", "FILECRC"}
  BY <1>1, CommitCopies DEF Reset
<1>2. CASE PowerLoss \/ Latched \/ ufat_fsinfo
  BY <1>2 DEF PowerLoss, Latched, ufat_fsinfo, Reset
<1>3. CASE ufat_mount
  BY <1>3 DEF ufat_mount, mountReadFails, mountEmpty, mountCopyFails, mountDone, Reset
<1>4. CASE ufat_format
  BY <1>1, <1>4 DEF ufat_format
<1>5. ASSUME NEW n \in Names, ufat_remove(n) \/ ufat_exists(n)
      PROVE  ret' \notin {"SHORT", "FILECRC"}
  <2>1. CASE ufat_exists(n) \/ removeAbsent(n) \/ removeSearchFails
    BY <2>1 DEF ufat_exists, removeAbsent, removeSearchFails
  <2>2. CASE removeFound(n)
    BY <1>1, <2>2 DEF removeFound
  <2> QED
    BY <1>5, <2>1, <2>2 DEF ufat_remove
<1>6. ASSUME NEW f \in Streams,
             \/ fopenNameTooLong(f) \/ fopenUnsupported(f)
             \/ \E n \in Names : fopenRead(f, n) \/ fopenWrite(f, n)
             \/ ufat_fwrite(f)
      PROVE  ret' \notin {"SHORT", "FILECRC"}
  BY <1>6 DEF fopenNameTooLong, fopenUnsupported, fopenRead, fopenWrite, ufat_fwrite,
              fwriteFull, fwrite, fwritePass, fwriteOutside, Reset
<1>7. ASSUME NEW f \in Streams, ufat_fclose(f)
      PROVE  ret' \notin {"SHORT", "FILECRC"}
  <2>1. CASE \/ fcloseUnopened(f) \/ fcloseReader(f) \/ fcloseErrored(f)
             \/ fcloseHeaderFails(f) \/ fcloseCorrupt(f)
    BY <2>1 DEF fcloseUnopened, fcloseReader, fcloseErrored, fcloseHeaderFails, fcloseCorrupt,
                Reset, TypeInv, RestOK
  <2>2. CASE fclose(f)
    BY <1>1, <2>2 DEF fclose
  <2> QED
    BY <1>7, <2>1, <2>2 DEF ufat_fclose
<1> QED
  BY <1>2, <1>3, <1>4, <1>5, <1>6, <1>7 DEF Next

LEMMA ReadResult ==
  ASSUME Careful, LengthsFit, TypeInv, TypeInv', AccountInv, FilesInv, NEW f \in Streams,
         strm[f].sound, ufat_fread(f)
  PROVE  ret' \notin {"SHORT", "FILECRC"}
<1> DEFINE h == strm[f]
<1>1. Calls /\ h.mode = "r"
  BY DEF ufat_fread, freadNothing, fread, Reads, Enter
<1>2. RamAgrees /\ mounted /\ ret # "IO" /\ lastError # "IO"
  BY <1>1, Ready DEF ufat_fread, freadNothing, fread, Reads, Enter
<1>3. h \in Handle /\ h.cur \in Sectors /\ strm'[f] \in Handle /\ fat \in Fats
  BY <1>1 DEF TypeInv, RamOK, GoodHandle
<1>4. Verdict(h) = "OK" /\ Verdict(strm'[f]) = "OK"
  BY <1>3, ReadFiles, SoundVerdict
<1>5. CASE freadNothing(f)
  <2> SUFFICES ASSUME ~AtEnd(h), h.off = SectorUnits, fat[h.cur].next = EOF
               PROVE  FALSE
    BY <1>4, <1>5 DEF freadNothing
  <2>1. h.pos <= h.total /\ Reading(table[0], hdr, h)
    BY <1>1, <1>2 DEF FilesInv, HandlesGood, HandleGood, Reading
  <2>2. h.pos < h.total
    BY <1>3, <2>1, LenFits, BoundsAssumption DEF AtEnd, Handle
  <2>3. /\ table[0] \in Fats /\ h.start \in Sectors /\ Positioned(table[0], h)
        /\ Written(table[0], data, h.start, h.ver, h.total)
        /\ fat[h.cur] = table[0][h.cur]
    BY <1>2, <1>3, <2>1, ReaderFile
  <2>4. SectorAhead(table[0], h) \in Sectors
    BY <1>3, <2>2, <2>3, ReadOn
  <2> QED
    BY <2>3, <2>4, EOFAssumption DEF SectorAhead
<1>6. CASE fread(f)
  <2> DEFINE s == SectorAhead(fat, h)
             off == UnitAhead(h)
             good(n) == \A i \in 1..n : data[s][off + i - 1] = <<h.ver, h.pos + i>>
             after(n) == [h EXCEPT !.cur = s, !.off = off + n, !.pos = @ + n,
                                   !.sound = @ /\ good(n)]
  <2>1. \/ \E n \in 1..SectorUnits : strm' = [strm EXCEPT ![f] = after(n)]
                                     /\ ret' = Verdict(after(n))
        \/ ret' = "IO"
    BY <1>6 DEF fread, ReadFails, SectorAhead, UnitAhead
  <2> HIDE DEF after
  <2>2. ASSUME NEW n, strm' = [strm EXCEPT ![f] = after(n)]
        PROVE  strm'[f] = after(n)
    BY <2>2 DEF TypeInv, RamOK
  <2>3. ret' = Verdict(strm'[f]) \/ ret' = "IO"
    BY <2>1, <2>2
  <2> QED
    BY <1>4, <2>3
<1> QED
  BY <1>5, <1>6 DEF ufat_fread

\* A handle is sound when it is opened, and only ufat_fread looks at units.
LEMMA OtherReaders ==
  ASSUME TypeInv, [Next]_vars, \A f \in Streams : ~ufat_fread(f), NEW g \in Streams,
         strm[g].mode = "r" => strm[g].sound, strm'[g].mode = "r"
  PROVE  strm'[g].sound
<1>1. strm \in [Streams -> GoodHandle] /\ NoHandle.mode = "none" /\ NoHandle.sound
  BY DEF TypeInv, RamOK, NoHandle
<1>2. UNCHANGED strm => strm'[g].sound
  OBVIOUS
<1>3. strm' # [f \in Streams |-> NoHandle]
  BY <1>1
<1>4. ~Reset /\ (Forget => strm'[g].sound)
  BY <1>2, <1>3 DEF Reset, Forget
<1>5. ASSUME NEW f \in Streams, NEW h, strm' = [strm EXCEPT ![f] = h], h.mode = "r" => h.sound
      PROVE  strm'[g].sound
  BY <1>1, <1>5
<1>6. CASE PowerLoss \/ Latched \/ ufat_fsinfo \/ UNCHANGED vars
  BY <1>2, <1>4, <1>6 DEF PowerLoss, Latched, ufat_fsinfo, vars
<1>7. CASE ufat_mount
  BY <1>4, <1>7 DEF ufat_mount, mountReadFails, mountEmpty, mountCopyFails, mountDone
<1>8. CASE ufat_format
  BY <1>2, <1>4, <1>8 DEF ufat_format
<1>9. ASSUME NEW n \in Names, ufat_remove(n) \/ ufat_exists(n)
      PROVE  strm'[g].sound
  BY <1>2, <1>4, <1>9 DEF ufat_remove, removeAbsent, removeFound, removeSearchFails, ufat_exists
<1>10. ASSUME NEW f \in Streams, fopenNameTooLong(f) \/ fopenUnsupported(f)
       PROVE  strm'[g].sound
  BY <1>1, <1>2, <1>5, <1>10 DEF fopenNameTooLong, fopenUnsupported
<1>11. ASSUME NEW f \in Streams, NEW n \in Names, fopenRead(f, n)
       PROVE  strm'[g].sound
  <2> DEFINE reader(s) == [NoHandle EXCEPT !.mode = "r", !.name = n, !.ver = hdr[s].ver,
                                           !.total = hdr[s].total, !.start = s,
                                           !.cur = s, !.off = HeaderUnits]
  <2>1. \/ strm' = [strm EXCEPT ![f] = NoHandle]
        \/ \E s \in Search(n) : strm' = [strm EXCEPT ![f] = reader(s)]
    BY <1>11 DEF fopenRead
  <2>2. \A s : reader(s).sound
    BY DEF NoHandle
  <2> HIDE DEF reader
  <2> QED
    BY <1>1, <1>5, <2>1, <2>2
<1>12. ASSUME NEW f \in Streams, NEW n \in Names, fopenWrite(f, n)
       PROVE  strm'[g].sound
  <2> DEFINE writer(old) == [NoHandle EXCEPT !.mode = "w", !.name = n, !.ver = session + 1,
                                             !.old = old]
  <2>1. \E old : strm' = [strm EXCEPT ![f] = writer(old)]
    BY <1>12 DEF fopenWrite, OpensWriter
  <2>2. \A old : writer(old).sound
    BY DEF NoHandle
  <2> HIDE DEF writer
  <2> QED
    BY <1>5, <2>1, <2>2
<1>13. ASSUME NEW f \in Streams, ufat_fwrite(f)
       PROVE  strm'[g].sound
  <2>1. \A k \in Streams \ {f} : strm'[k] = strm[k]
    BY <1>1, <1>4, <1>13
    DEF ufat_fwrite, fwriteFull, fwrite, fwritePass, fwriteOutside
  <2>2. TypeInv /\ strm[f].mode = "w" /\ strm[f] \in Handle
    BY <1>1, <1>13 DEF ufat_fwrite, fwriteFull, fwrite, fwritePass, fwriteOutside, Writes,
                       GoodHandle
  <2> DEFINE m(s) == IF NeedsSector(strm[f]) THEN Extend(strm[f], s) ELSE strm[f]
             w(s, n) == [m(s) EXCEPT !.off = @ + n, !.pos = @ + n]
             full == [strm[f] EXCEPT !.err = TRUE,
                                     !.cur = IF @ = NoSector THEN FullSector ELSE @]
  <2>3. full.mode = "w" /\ \A s, n : m(s).mode = "w" /\ w(s, n).mode = "w"
    <3>1. full.mode = "w"
      BY <2>2 DEF Handle
    <3>2. ASSUME NEW s, NEW n
          PROVE  m(s).mode = "w" /\ w(s, n).mode = "w"
      BY <2>2 DEF Extend, Handle
    <3> HIDE DEF full, m, w
    <3> QED
      BY <3>1, <3>2
  <2>4. strm'[f].mode = "w"
    <3>1. CASE fwriteFull(f)
      BY <1>1, <2>2, <3>1 DEF fwriteFull, Handle
    <3>2. CASE fwriteOutside(f)
      BY <2>2, <3>2 DEF fwriteOutside
    <3>3. CASE fwrite(f)
      <4>1. \E s, n : strm' = [strm EXCEPT ![f] = m(s)] \/ strm' = [strm EXCEPT ![f] = w(s, n)]
        BY <1>4, <3>3 DEF fwrite, fwritePass
      <4> HIDE DEF m, w
      <4> QED
        BY <1>1, <2>3, <4>1
    <3> QED
      BY <1>13, <3>1, <3>2, <3>3 DEF ufat_fwrite
  <2>5. g # f
    BY <2>4
  <2> QED
    BY <2>1, <2>5
<1>14. ASSUME NEW f \in Streams, ufat_fclose(f)
       PROVE  strm'[g].sound
  <2>1. Retire(f) => strm'[g].sound
    BY <1>1, <1>2, <1>5 DEF Retire
  <2> QED
    BY <1>2, <1>4, <1>14, <2>1
    DEF ufat_fclose, fcloseUnopened, fcloseReader, fcloseErrored, fcloseHeaderFails,
        fcloseCorrupt, fclose
<1> QED
  BY <1>6, <1>7, <1>8, <1>9, <1>10, <1>11, <1>12, <1>13, <1>14 DEF Next

LEMMA StepReads ==
  ASSUME Careful, LengthsFit, TypeInv, TypeInv', AccountInv, FilesInv, ReadsBack, [Next]_vars
  PROVE  ReadsBack'
<1>1. CASE \A f \in Streams : ~ufat_fread(f)
  <2>1. \A g \in Streams : strm'[g].mode = "r" => strm'[g].sound
    BY <1>1, OtherReaders DEF ReadsBack
  <2>2. ret' \notin {"SHORT", "FILECRC"}
    BY <1>1, OtherResults DEF ReadsBack, vars
  <2> QED
    BY <2>1, <2>2 DEF ReadsBack
<1>2. ASSUME NEW f \in Streams, ufat_fread(f)
      PROVE  ReadsBack'
  <2>1. /\ strm[f].mode = "r" /\ (strm[f].sound => strm'[f].sound)
        /\ \A g \in Streams \ {f} : strm'[g] = strm[g]
    BY <1>2, ReadFiles
  <2>2. ret' \notin {"SHORT", "FILECRC"}
    BY <1>2, <2>1, ReadResult DEF ReadsBack
  <2> QED
    BY <2>1, <2>2 DEF ReadsBack
<1> QED
  BY <1>1, <1>2

\* A reader gets what was written, unit by unit up to the length, and is never
\* told that the chain ends early or that the CRC is wrong, whatever is written
\* and committed or removed beside it: as long as that is not the file he reads,
\* and no file is longer than its header can say.
THEOREM ReadersServed ==
  ASSUME Careful, LengthsFit
  PROVE  Spec => []ReadsBack
<1>1. Spec => [](TypeInv /\ AccountInv /\ FilesInv)
  BY FilesAlways
<1>2. Init => ReadsBack
  BY DEF Init, ReadsBack, NoHandle
<1>3. TypeInv /\ TypeInv' /\ AccountInv /\ FilesInv /\ ReadsBack /\ [Next]_vars => ReadsBack'
  BY StepReads
<1> QED
  BY <1>1, <1>2, <1>3, PTL DEF Spec
=============================================================================
