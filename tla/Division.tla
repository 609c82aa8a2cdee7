------------------------------ MODULE Division ------------------------------
(* Quotients and remainders: what blocks, records and extents of a file are *)
(* made of.                                                                 *)
EXTENDS Integers, TLAPS

\* Whatever splits a number in this way are its quotient and its remainder.
LEMMA DivUnique ==
  ASSUME NEW a \in Nat, NEW b \in Nat \ {0}, NEW q \in Nat, NEW r \in 0 .. b - 1,
         a = b * q + r
  PROVE  a \div b = q /\ a % b = r
  BY Z3

\* A number is its quotient and its remainder.
LEMMA DivParts ==
  ASSUME NEW a \in Nat, NEW b \in Nat \ {0}
  PROVE  /\ a = b * (a \div b) + (a % b)
         /\ a \div b \in Nat /\ a % b \in 0 .. b - 1
  BY Z3

\* Parts of parts
LEMMA DivDiv ==
  ASSUME NEW a \in Nat, NEW b \in Nat \ {0}, NEW c \in Nat \ {0}
  PROVE  (a \div b) \div c = a \div (b * c)
<1> DEFINE q == a \div b
           r == a % b
           p == q \div c
           s == q % c
<1>1. a = b * q + r /\ q \in Nat /\ r \in 0 .. b - 1
  BY DivParts
<1>2. q = c * p + s /\ p \in Nat /\ s \in 0 .. c - 1
  BY <1>1, DivParts
<1> HIDE DEF q, r, p, s
<1>3. a = (b * c) * p + (b * s + r)
  BY <1>1, <1>2, Z3
<1>4. b * c \in Nat \ {0} /\ b * s + r \in 0 .. b * c - 1
  BY <1>1, <1>2, Z3
<1>5. a \div (b * c) = p
  BY <1>2, <1>3, <1>4, DivUnique
<1>6. QED
  BY <1>5 DEF p, q

\* A place in a part of a part
LEMMA ModMod ==
  ASSUME NEW a \in Nat, NEW b \in Nat \ {0}, NEW c \in Nat \ {0}
  PROVE  /\ (a % (b * c)) \div b = (a \div b) % c
         /\ (a % (b * c)) % b = a % b
<1> DEFINE q == a \div b
           r == a % b
           p == q \div c
           s == q % c
<1>1. a = b * q + r /\ q \in Nat /\ r \in 0 .. b - 1
  BY DivParts
<1>2. q = c * p + s /\ p \in Nat /\ s \in 0 .. c - 1
  BY <1>1, DivParts
<1> HIDE DEF q, r, p, s
<1>3. a = (b * c) * p + (b * s + r)
  BY <1>1, <1>2, Z3
<1>4. b * c \in Nat \ {0} /\ b * s + r \in 0 .. b * c - 1
  BY <1>1, <1>2, Z3
<1>5. a % (b * c) = b * s + r
  BY <1>2, <1>3, <1>4, DivUnique
<1>6. b * s + r \in Nat /\ (b * s + r) \div b = s /\ (b * s + r) % b = r
  <2>1. b * s + r \in Nat
    BY <1>4
  <2>2. s \in Nat
    BY <1>2
  <2>3. QED
    BY <1>1, <2>1, <2>2, DivUnique
<1>7. QED
  BY <1>5, <1>6 DEF s, q, r

\* A greater number is in no earlier part.
LEMMA DivMonotone ==
  ASSUME NEW a \in Nat, NEW b \in Nat, NEW c \in Nat \ {0}, a <= b
  PROVE  a \div c <= b \div c
  BY Z3

\* The next number is in the same part, or begins another one.
LEMMA DivNext ==
  ASSUME NEW a \in Nat \ {0}, NEW c \in Nat \ {0}
  PROVE  /\ a % c = 0 => /\ a \div c = (a - 1) \div c + 1
                         /\ (a - 1) % c = c - 1
         /\ a % c # 0 => /\ (a - 1) \div c = a \div c
                         /\ (a - 1) % c = (a % c) - 1
<1> DEFINE q == a \div c
           r == a % c
<1>1. a = c * q + r /\ q \in Nat /\ r \in 0 .. c - 1
  BY DivParts
<1> HIDE DEF q, r
<1>2. CASE r = 0
  <2>1. q # 0
    BY <1>1, <1>2, Z3
  <2>2. a - 1 = c * (q - 1) + (c - 1) /\ q - 1 \in Nat
    BY <1>1, <1>2, <2>1, Z3
  <2>3. (a - 1) \div c = q - 1 /\ (a - 1) % c = c - 1
    BY <2>2, DivUnique
  <2>4. (a - 1) \div c + 1 = q
    BY <1>1, <2>3
  <2>5. QED
    BY <1>2, <2>3, <2>4 DEF q, r
<1>3. CASE r # 0
  <2>1. a - 1 = c * q + (r - 1) /\ r - 1 \in 0 .. c - 1
    BY <1>1, <1>3
  <2>2. (a - 1) \div c = q /\ (a - 1) % c = r - 1
    BY <1>1, <2>1, DivUnique
  <2>3. QED
    BY <1>3, <2>2 DEF q, r
<1>4. QED
  BY <1>2, <1>3

\* Two places of the same part, one behind the other.
LEMMA DivSame ==
  ASSUME NEW a \in Nat, NEW n \in Nat, NEW c \in Nat \ {0}, (a % c) + n < c
  PROVE  (a + n) \div c = a \div c /\ (a + n) % c = (a % c) + n
<1> DEFINE q == a \div c
           r == a % c
<1>1. a = c * q + r /\ q \in Nat /\ r \in 0 .. c - 1
  BY DivParts
<1>2. r + n < c
  OBVIOUS
<1> HIDE DEF q, r
<1>3. a + n = c * q + (r + n) /\ r + n \in 0 .. c - 1 /\ a + n \in Nat
  BY <1>1, <1>2, Z3
<1>4. (a + n) \div c = q /\ (a + n) % c = r + n
  BY <1>1, <1>3, DivUnique
<1>5. QED
  BY <1>4 DEF q, r

\* A number without a remainder
LEMMA Multiple ==
  ASSUME NEW a \in Nat, NEW c \in Nat \ {0}, a % c = 0
  PROVE  a = c * (a \div c) /\ a \div c \in Nat
  BY Z3

\* A remainder of a remainder
LEMMA ModOfMod ==
  ASSUME NEW a \in Nat, NEW l \in Nat \ {0}, NEW r \in Nat \ {0}, l % r = 0
  PROVE  (a % l) % r = a % r
<1> DEFINE m == l \div r
<1>1. l = r * m /\ m \in Nat
  BY Multiple
<1> HIDE DEF m
<1>2. m \in Nat \ {0}
  BY <1>1, Z3
<1>3. (a % (r * m)) % r = a % r
  BY <1>2, ModMod, ZenonT(30)
<1>4. QED
  BY <1>1, <1>3

\* The last part of a number, counted from 1
LastIn(a, r) == IF a % r = 0 THEN r ELSE a % r

LEMMA LastOf ==
  ASSUME NEW pos \in Nat \ {0}, NEW r \in Nat \ {0}
  PROVE  ((pos - 1) % r) + 1 = LastIn(pos, r)
<1> DEFINE z == pos % r
           y == (pos - 1) % r
<1>1. z \in 0 .. r - 1
  BY DivParts
<1>2. z = 0 => y = r - 1
  BY DivNext
<1>3. z # 0 => y = z - 1
  BY DivNext
<1> HIDE DEF z, y
<1>4. y + 1 = IF z = 0 THEN r ELSE z
  BY <1>1, <1>2, <1>3
<1>5. QED
  BY <1>4 DEF z, y, LastIn

\* One part more
LEMMA OneMore ==
  ASSUME NEW a \in Nat, NEW c \in Nat \ {0}, a % c = 0
  PROVE  (a + c) % c = 0
<1> DEFINE q == a \div c
<1>1. a = c * q /\ q \in Nat
  BY Multiple
<1> HIDE DEF q
<1>2. a + c = c * (q + 1) + 0 /\ q + 1 \in Nat /\ a + c \in Nat
  BY <1>1, Z3
<1>3. QED
  BY <1>2, DivUnique

\* A number in parts of l, the last of them in parts of r.
InParts(a, l, r) ==
  /\ a = l * (a \div l) + (a % l)
  /\ a % l = r * ((a % l) \div r) + (a % r)
  /\ a \div l \in Nat /\ a % l \in Nat /\ (a % l) \div r \in Nat
  /\ a % r \in 0 .. r - 1

LEMMA PartsOfParts ==
  ASSUME NEW a \in Nat, NEW l \in Nat \ {0}, NEW r \in Nat \ {0}, l % r = 0
  PROVE  InParts(a, l, r)
<1> DEFINE q == a % l
<1>1. a = l * (a \div l) + q /\ a \div l \in Nat /\ q \in Nat
  BY DivParts
<1>2. q % r = a % r
  BY ModOfMod
<1> HIDE DEF q
<1>3. q = r * (q \div r) + (q % r) /\ q \div r \in Nat /\ q % r \in 0 .. r - 1
  BY <1>1, DivParts
<1>4. QED
  BY <1>1, <1>2, <1>3 DEF q, InParts

=============================================================================
