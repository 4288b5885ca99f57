-------------------------- MODULE HeaderChain_proofs --------------------------
(***************************************************************************)
(* Proofs about HeaderChain, for every word size, compact format, set of   *)
(* networks and set of offered headers: stored headers are well formed,    *)
(* the strict part of a chain passes the header-sync check, a restart      *)
(* loads it, and RandomX keys are buried.                                  *)
(***************************************************************************)
EXTENDS HeaderChain, WellFoundedInduction, TLAPS

(* Integer division, as / on non-negative operands.                        *)
LEMMA DivBounds ==
    ASSUME NEW a \in Nat, NEW n \in Nat \ {0}
    PROVE  /\ a \div n \in Nat
           /\ (a \div n) * n <= a
           /\ a < (a \div n) * n + n
  OBVIOUS

(* Order of products, which the provers need to be told.                   *)
LEMMA ProductMonotone ==
    ASSUME NEW a \in Nat, NEW b \in Nat, NEW n \in Nat, a <= b
    PROVE  a * n <= b * n
  OBVIOUS

(* A product is below a multiple of n only if its factor is.               *)
LEMMA FactorBelow ==
    ASSUME NEW a \in Nat, NEW b \in Nat, NEW n \in Nat \ {0}, a * n < b * n
    PROVE  a < b
<1>1. CASE b <= a
  BY <1>1, b * n <= a * n, ProductMonotone, a * n \in Nat, b * n \in Nat
<1> QED
  BY <1>1

(* The quotient is the only number whose multiple is that close.           *)
LEMMA DivUnique ==
    ASSUME NEW a \in Nat, NEW n \in Nat \ {0}, NEW q \in Nat, q * n <= a, a < q * n + n
    PROVE  a \div n = q
<1> DEFINE d == a \div n
<1>1. d \in Nat /\ d * n <= a /\ a < d * n + n
  BY DivBounds
<1>2. d * n < (q + 1) * n /\ q * n < (d + 1) * n
  BY <1>1
<1> HIDE DEF d
<1>3. d < q + 1 /\ q < d + 1
  BY <1>1, <1>2, FactorBelow
<1> QED
  BY <1>1, <1>3 DEF d

(* Division by the same number, and by a smaller one.                      *)
LEMMA DivMonotone ==
    ASSUME NEW a \in Nat, NEW b \in Nat, NEW n \in Nat \ {0}, a <= b
    PROVE  a \div n <= b \div n
<1> DEFINE d == a \div n
           e == b \div n
<1>1. d \in Nat /\ d * n <= a /\ e \in Nat /\ b < e * n + n
  BY DivBounds
<1>2. d * n < (e + 1) * n
  BY <1>1
<1> HIDE DEF d, e
<1>3. d < e + 1
  BY <1>1, <1>2, FactorBelow
<1> QED
  BY <1>1, <1>3 DEF d, e

(* A quotient is below m exactly when the number is below m divisors.      *)
LEMMA DivBelow ==
    ASSUME NEW a \in Nat, NEW n \in Nat \ {0}, NEW m \in Nat
    PROVE  a \div n < m <=> a < m * n
<1> DEFINE d == a \div n
<1>1. d \in Nat /\ d * n <= a /\ a < d * n + n
  BY DivBounds
<1> HIDE DEF d
<1>2. CASE d < m
  <2>1. (d + 1) * n <= m * n
    BY <1>1, <1>2, ProductMonotone
  <2> QED
    BY <1>1, <1>2, <2>1 DEF d
<1>3. CASE ~(d < m)
  <2>1. m * n <= d * n
    BY <1>1, <1>3, ProductMonotone
  <2> QED
    BY <1>1, <1>3, <2>1 DEF d
<1> QED
  BY <1>2, <1>3
-------------------------------------------------------------------------------
\* The compact format.

(* Every set of naturals that is not empty has a least element.            *)
LEMMA LeastElement ==
    ASSUME NEW S \in SUBSET Nat, S # {}
    PROVE  \E x \in S : \A y \in S : x <= y
<1>1. \E x \in S : \A y \in S : ~ (<<y, x>> \in OpToRel(<, Nat))
  BY NatLessThanWellFounded, WFMin, Zenon
<1>2. \A x, y \in Nat : y < x => <<y, x>> \in OpToRel(<, Nat)
  BY DEF OpToRel
<1>3. \A x, y \in Nat : ~(y < x) => x <= y
  OBVIOUS
<1> QED
  BY <1>1, <1>2, <1>3, Zenon

(* GetCompact finds a scale for every arith_uint256.                       *)
LEMMA UnitExists ==
    ASSUME NEW t \in Word
    PROVE  UnitOf(t) \in Nat \ {0} /\ IsUnitOf(UnitOf(t), t)
<1> DEFINE S == {u \in Units : t \div u < Mantissa}
<1>1. t \in Nat /\ t < Modulus /\ Mantissa \in Nat /\ Modulus \in Nat
  BY FormatAssumption DEF Word
<1>2. PICK u \in Units : Modulus <= Mantissa * u
  BY FormatAssumption
<1>3. u \in Nat \ {0}
  BY FormatAssumption
<1>4. u \in S
  BY <1>1, <1>2, <1>3, DivBelow
<1>5. S \in SUBSET Nat /\ S # {}
  BY <1>4, FormatAssumption, Zenon
<1>6. \E x \in S : \A y \in S : x <= y
  BY <1>5, LeastElement, Zenon
<1>7. \E x \in Units : IsUnitOf(x, t)
  BY <1>6 DEF IsUnitOf
<1>8. IsUnitOf(UnitOf(t), t)
  BY <1>7 DEF UnitOf
<1> QED
  BY <1>8, FormatAssumption, Zenon DEF IsUnitOf

(* The next smaller scale: a number with a scale above 1 fills a whole     *)
(* mantissa of it, and that is a multiple of the scale.                    *)
LEMMA Predecessor ==
    ASSUME NEW t \in Word, UnitOf(t) # 1
    PROVE  \E p \in Units, k \in Nat \ {0} :
               /\ p < UnitOf(t) /\ k * UnitOf(t) = Mantissa * p /\ k * UnitOf(t) <= t
               /\ \A u \in Units : u < UnitOf(t) => u <= p
<1> DEFINE v == UnitOf(t)
<1>1. v \in Nat \ {0} /\ v \in Units /\ v # 1 /\ \A u \in Units : t \div u < Mantissa => v <= u
  BY UnitExists DEF IsUnitOf
<1>2. t \in Nat /\ Mantissa \in Nat \ {0} /\ Units \subseteq Nat \ {0}
  BY FormatAssumption DEF Word
<1> HIDE DEF v
<1>3. PICK p \in Units : /\ p < v /\ (Mantissa * p) % v = 0
                         /\ \A u \in Units : u < v => u <= p
  BY <1>1, FormatAssumption
<1>4. p \in Nat \ {0} /\ Mantissa * p \in Nat \ {0}
  <2>1. p \in Nat \ {0}
    BY <1>2, <1>3
  <2>2. Mantissa * p \in Nat
    BY <1>2, <2>1
  <2>3. p <= Mantissa * p
    BY <1>2, <2>1, ProductMonotone, 1 * p = p
  <2> QED
    BY <2>1, <2>2, <2>3
<1>5. ~(t \div p < Mantissa)
  BY <1>1, <1>2, <1>3, <1>4
<1>6. Mantissa * p <= t
  BY <1>2, <1>4, <1>5, DivBelow
<1> DEFINE k == (Mantissa * p) \div v
<1>7. k \in Nat /\ k * v = Mantissa * p
  BY <1>1, <1>3, <1>4
<1>8. k # 0
  BY <1>4, <1>7, <1>1
<1> QED
  BY <1>3, <1>6, <1>7, <1>8 DEF v

(* GetCompact rounds down, by less than one unit.                          *)
LEMMA CompactBounds ==
    ASSUME NEW t \in Word
    PROVE  /\ GetCompact(t) \in Word /\ GetCompact(t) <= t
           /\ t < GetCompact(t) + UnitOf(t)
<1> DEFINE u == UnitOf(t)
<1>1. t \in Nat /\ Modulus \in Nat /\ t < Modulus /\ u \in Nat \ {0}
  BY UnitExists, FormatAssumption DEF Word
<1>2. GetCompact(t) = (t \div u) * u
  BY DEF GetCompact
<1> HIDE DEF u
<1>3. t \div u \in Nat /\ (t \div u) * u <= t /\ t < (t \div u) * u + u
  BY <1>1, DivBounds
<1> QED
  BY <1>1, <1>2, <1>3 DEF Word, u

(* What is a multiple of the scale and not above a number is not above its *)
(* rounded form.                                                           *)
LEMMA CompactAbove ==
    ASSUME NEW t \in Word, NEW k \in Nat, k * UnitOf(t) <= t
    PROVE  k * UnitOf(t) <= GetCompact(t)
<1> DEFINE u == UnitOf(t)
           q == t \div u
<1>1. t \in Nat /\ u \in Nat \ {0}
  BY UnitExists DEF Word
<1>2. q \in Nat /\ q * u <= t /\ t < q * u + u /\ GetCompact(t) = q * u
  BY <1>1, DivBounds DEF GetCompact
<1> HIDE DEF u, q
<1>3. k * u < (q + 1) * u
  BY <1>1, <1>2 DEF u
<1>4. k <= q
  BY <1>1, <1>2, <1>3, FactorBelow
<1> QED
  BY <1>1, <1>2, <1>4, ProductMonotone DEF u

(* Rounding keeps the order of targets.                                    *)
LEMMA CompactMonotone ==
    ASSUME NEW a \in Word, NEW b \in Word, a <= b
    PROVE  GetCompact(a) <= GetCompact(b)
<1> DEFINE u == UnitOf(a)
           v == UnitOf(b)
<1>1. a \in Nat /\ b \in Nat /\ Mantissa \in Nat
  BY FormatAssumption DEF Word
<1>2. /\ u \in Nat \ {0} /\ v \in Nat \ {0} /\ u \in Units /\ v \in Units
      /\ a \div u < Mantissa /\ b \div v < Mantissa
      /\ \A w \in Units : a \div w < Mantissa => u <= w
  BY UnitExists DEF IsUnitOf
<1>3. u <= v
  <2>1. a \div v <= b \div v
    BY <1>1, <1>2, DivMonotone
  <2>2. a \div v \in Nat /\ b \div v \in Nat
    BY <1>1, <1>2, DivBounds
  <2> QED
    BY <1>1, <1>2, <2>1, <2>2
<1>4. CASE u = v
  BY <1>1, <1>2, <1>4, DivMonotone, DivBounds, ProductMonotone DEF GetCompact
<1>5. CASE u < v
  <2>1. v # 1
    BY <1>2, <1>5
  <2>2. PICK p \in Units, k \in Nat \ {0} :
            /\ p < v /\ k * v = Mantissa * p /\ k * v <= b
            /\ \A w \in Units : w < v => w <= p
    BY <2>1, Predecessor
  <2>3. p \in Nat /\ u <= p
    BY <1>2, <1>5, <2>2, FormatAssumption
  <2>4. k * v <= GetCompact(b)
    BY <2>2, CompactAbove
  <2>5. a < Mantissa * u
    BY <1>1, <1>2, DivBelow
  <2>6. u * Mantissa <= p * Mantissa
    BY <1>1, <1>2, <2>3, ProductMonotone
  <2>7. GetCompact(a) <= a /\ GetCompact(a) \in Nat /\ GetCompact(b) \in Nat
    BY CompactBounds DEF Word
  <2> HIDE DEF u, v
  <2> QED
    BY <1>1, <1>2, <2>2, <2>3, <2>4, <2>5, <2>6, <2>7
<1> QED
  BY <1>2, <1>3, <1>4, <1>5

(* A rounded target is its own rounded form: nBits can be compared.        *)
LEMMA CompactStable ==
    ASSUME NEW t \in Word
    PROVE  GetCompact(GetCompact(t)) = GetCompact(t)
<1> DEFINE u == UnitOf(t)
           q == t \div u
           c == GetCompact(t)
<1>1. t \in Nat /\ Mantissa \in Nat /\ Units \subseteq Nat \ {0}
  BY FormatAssumption DEF Word
<1>2. u \in Nat \ {0} /\ u \in Units /\ q < Mantissa
  BY UnitExists DEF IsUnitOf
<1>3. c \in Word /\ c \in Nat
  BY CompactBounds DEF Word
<1>4. q \in Nat /\ c = q * u
  BY <1>1, <1>2, DivBounds DEF GetCompact
<1>5. c \div u = q
  <2> HIDE DEF u, q, c
  <2> QED
    BY <1>2, <1>3, <1>4, DivUnique
<1>6. \A w \in Units : c \div w < Mantissa => u <= w
  <2> SUFFICES ASSUME NEW w \in Units, c \div w < Mantissa, w < u
               PROVE  FALSE
    BY <1>1, <1>2
  <2>1. u # 1
    BY <1>1
  <2>2. PICK p \in Units, k \in Nat \ {0} :
            k * u = Mantissa * p /\ k * u <= t /\ \A x \in Units : x < u => x <= p
    BY <2>1, Predecessor
  <2>3. w <= p /\ w \in Nat \ {0} /\ p \in Nat
    BY <1>1, <2>2
  <2>4. Mantissa * p <= c
    BY <2>2, CompactAbove
  <2>5. c < Mantissa * w
    BY <1>1, <1>3, <2>3, DivBelow
  <2>6. w * Mantissa <= p * Mantissa
    BY <1>1, <2>3, ProductMonotone
  <2> HIDE DEF c, u, q
  <2> QED
    BY <1>1, <1>3, <2>3, <2>4, <2>5, <2>6
<1>7. IsUnitOf(u, c)
  BY <1>2, <1>5, <1>6 DEF IsUnitOf
<1>8. UnitOf(c) = u
  <2>1. UnitOf(c) \in Nat /\ IsUnitOf(UnitOf(c), c)
    BY <1>3, UnitExists
  <2>2. UnitOf(c) <= u /\ u <= UnitOf(c)
    BY <1>7, <2>1 DEF IsUnitOf
  <2> QED
    BY <1>2, <2>1, <2>2
<1>9. GetCompact(c) = (c \div UnitOf(c)) * UnitOf(c)
  BY DEF GetCompact
<1> QED
  BY <1>4, <1>5, <1>8, <1>9

(* Rounding loses less than half of a target.                              *)
LEMMA CompactHalf ==
    ASSUME NEW t \in Word
    PROVE  t <= GetCompact(t) * 4
<1> DEFINE u == UnitOf(t)
           c == GetCompact(t)
<1>1. /\ t \in Nat /\ u \in Nat \ {0} /\ c \in Nat /\ c <= t /\ t < c + u
  BY UnitExists, CompactBounds DEF Word
<1>2. CASE u = 1
  BY <1>1, <1>2
<1>3. CASE u # 1
  <2>1. PICK k \in Nat \ {0} : k * u <= t
    BY <1>3, Predecessor
  <2>2. k * u <= c
    BY <2>1, CompactAbove
  <2>3. 1 * u <= k * u
    BY <1>1, <2>1, ProductMonotone
  <2> HIDE DEF u, c
  <2> QED
    BY <1>1, <2>1, <2>2, <2>3 DEF c
<1> QED
  BY <1>2, <1>3
-------------------------------------------------------------------------------
\* The adjustment.

(* Scaling stays within a word.                                            *)
LEMMA ScaleType ==
    ASSUME NEW t \in Word, NEW ts \in Nat, NEW T \in Nat \ {0}
    PROVE  Scale(t, ts, T) \in Word
<1>1. Modulus \in Nat \ {0}
  BY FormatAssumption
<1>2. \A x \in Nat : x % Modulus \in Word
  BY <1>1 DEF Word
<1> DEFINE q == t \div T
           r == t - q * T
<1>3. t \in Nat /\ q \in Nat /\ r \in Nat
  BY DivBounds DEF Word
<1> HIDE DEF q, r
<1>4. q * ts \in Nat /\ r * ts \in Nat
  BY <1>3
<1>5. (q * ts) % Modulus \in Nat /\ (r * ts) % Modulus \in Nat
  BY <1>1, <1>4
<1>6. ((r * ts) % Modulus) \div T \in Nat
  BY <1>5, DivBounds
<1>7. Scale(t, ts, T) = (((q * ts) % Modulus) + (((r * ts) % Modulus) \div T)) % Modulus
  BY DEF Scale, q, r
<1>8. ((q * ts) % Modulus) + (((r * ts) % Modulus) \div T) \in Nat
  BY <1>5, <1>6
<1> HIDE DEF Scale
<1> QED
  BY <1>2, <1>7, <1>8

(* Dividing first, no product of the adjustment exceeds 256 bits when four *)
(* times the target does not.                                              *)
LEMMA ScaleExact ==
    ASSUME NEW t \in Word, NEW ts \in Nat, NEW T \in Nat \ {0}, ts <= T * 4, t * 4 < Modulus,
           T * (T * 4) < Modulus, NEW q, q = t \div T, NEW r, r = t - q * T
    PROVE  /\ q \in Nat /\ r \in Nat /\ (r * ts) \div T \in Nat
           /\ Scale(t, ts, T) = q * ts + ((r * ts) \div T)
           /\ (r * ts) \div T <= r * 4
<1>1. t \in Nat /\ Modulus \in Nat \ {0}
  BY FormatAssumption DEF Word
<1>2. q \in Nat /\ r \in Nat /\ q * T <= t /\ r < T /\ t = q * T + r
  BY <1>1, DivBounds
<1>3. q * ts \in Nat /\ r * ts \in Nat
  BY <1>2
<1>4. ts * q <= (T * 4) * q /\ ts * r <= (T * 4) * r
  BY <1>2, ProductMonotone
<1>5. q * ts <= (q * T) * 4 /\ r * ts <= (r * 4) * T
  BY <1>2, <1>4
<1>6. (r * ts) \div T <= r * 4 /\ (r * ts) \div T \in Nat
  <2>1. r * ts < (r * 4 + 1) * T
    BY <1>2, <1>3, <1>5
  <2>2. (r * ts) \div T < r * 4 + 1
    <3>1. r * 4 + 1 \in Nat
      BY <1>2
    <3> QED BY <1>2, <1>3, <2>1, <3>1, DivBelow, Zenon
  <2>3. (r * ts) \div T \in Nat
    BY <1>3, DivBounds
  <2> QED
    BY <1>2, <2>2, <2>3
<1>7. q * ts + r * 4 <= t * 4
  <2>1. q * T \in Nat
    BY <1>2
  <2>2. \A x, y \in Nat : x <= y * 4 /\ t = y + r => x + r * 4 <= t * 4
    BY <1>1, <1>2
  <2> QED
    BY <1>2, <1>3, <1>5, <2>1, <2>2, Zenon
<1>8. r * ts < Modulus
  <2>1. r * ts <= T * ts
    BY <1>2, ProductMonotone
  <2>2. ts * T <= (T * 4) * T
    BY ProductMonotone
  <2> QED
    BY <1>1, <1>3, <2>1, <2>2
<1>9. \A x \in Nat : x < Modulus => x % Modulus = x
  BY <1>1
<1>10. q * ts < Modulus
  BY <1>1, <1>2, <1>3, <1>7
<1>11. q * ts + ((r * ts) \div T) < Modulus
  BY <1>1, <1>2, <1>3, <1>6, <1>7
<1>12. Scale(t, ts, T)
           = (((q * ts) % Modulus) + (((r * ts) % Modulus) \div T)) % Modulus
  BY DEF Scale
<1>13. (q * ts) % Modulus = q * ts /\ (r * ts) % Modulus = r * ts
  BY <1>3, <1>8, <1>9, <1>10
<1>14. q * ts + ((r * ts) \div T) \in Nat
  BY <1>3, <1>6
<1>15. (q * ts + ((r * ts) \div T)) % Modulus = q * ts + ((r * ts) \div T)
  BY <1>9, <1>11, <1>14
<1>16. Scale(t, ts, T) = q * ts + ((r * ts) \div T)
  BY <1>12, <1>13, <1>15
<1> QED
  BY <1>2, <1>6, <1>16

(* A longer timespan gives no smaller target, and four times the timespan  *)
(* four times the target.                                                  *)
LEMMA ScaleMonotone ==
    ASSUME NEW t \in Word, NEW T \in Nat \ {0}, t * 4 < Modulus, T * (T * 4) < Modulus,
           NEW low \in Nat, NEW high \in Nat, low <= high, high <= T * 4
    PROVE  Scale(t, low, T) <= Scale(t, high, T)
<1> DEFINE q == t \div T
           r == t - q * T
<1>1. /\ q \in Nat /\ r \in Nat
      /\ Scale(t, low, T) = q * low + ((r * low) \div T) /\ (r * low) \div T \in Nat
      /\ Scale(t, high, T) = q * high + ((r * high) \div T) /\ (r * high) \div T \in Nat
  BY low <= T * 4, ScaleExact
<1> HIDE DEF q, r
<1>2. low * q <= high * q /\ low * r <= high * r
  BY <1>1, ProductMonotone
<1>3. r * low \in Nat /\ r * high \in Nat /\ r * low <= r * high
  BY <1>1, <1>2
<1>4. (r * low) \div T <= (r * high) \div T
  BY <1>3, DivMonotone
<1> QED
  BY <1>1, <1>2, <1>4

LEMMA ScaleFour ==
    ASSUME NEW t \in Word, NEW T \in Nat \ {0}, t * 4 < Modulus, T * (T * 4) < Modulus
    PROVE  Scale(t, T * 4, T) = t * 4
<1> DEFINE q == t \div T
           r == t - q * T
<1>1. /\ q \in Nat /\ r \in Nat
      /\ Scale(t, T * 4, T) = q * (T * 4) + ((r * (T * 4)) \div T)
  BY ScaleExact
<1>2. t = q * T + r /\ t \in Nat
  BY DivBounds DEF Word
<1> HIDE DEF q, r
<1>3. (r * (T * 4)) \div T = r * 4
  BY <1>1, DivUnique, r * (T * 4) = (r * 4) * T, r * 4 \in Nat
<1> QED
  BY <1>1, <1>2, <1>3
-------------------------------------------------------------------------------
\* Types: every nBits the rules produce is the compact form of a word.

LEMMA StoredHeader ==
    ASSUME NEW c \in Seq(CanonicalHeaders), NEW i \in 1 .. Len(c)
    PROVE  c[i].nBits \in Canonical /\ c[i].nTime \in Int /\ c[i].nBits \in Word
<1>1. c[i] \in CanonicalHeaders
  OBVIOUS
<1>2. c[i].nBits \in Canonical /\ c[i].nTime \in Int
  BY <1>1 DEF CanonicalHeaders
<1> QED
  BY <1>2 DEF Canonical

LEMMA CompactCanonical ==
    ASSUME NEW t \in Word
    PROVE  GetCompact(t) \in Canonical
  BY CompactBounds, CompactStable DEF Canonical

LEMMA NetworkTypes ==
    ASSUME NEW net \in Networks
    PROVE  /\ net.nPowTargetTimespan \in Nat \ {0}
           /\ DifficultyAdjustmentInterval(net) \in Nat
           /\ DifficultyAdjustmentInterval(net) >= 2
           /\ net.nRandomXForkHeight \in Int /\ net.nBootstrapEndHeight \in Int
           /\ net.nArgon2EmergencyHeight \in Int
           /\ net.nRandomXKeyBlockInterval \in Nat \ {0}
           /\ net.powLimit \in Word /\ net.powLimitRandomX \in Word
           /\ net.powLimitArgon2 \in Word /\ net.powLimitBootstrap \in Word
<1>1. net \in Params
  BY NetworksAssumption
<1>2. net.nPowTargetTimespan \in Nat \ {0} /\ net.nPowTargetSpacing \in Nat \ {0}
  BY <1>1 DEF Params
<1>3. DifficultyAdjustmentInterval(net) \in Nat
  BY <1>2, DivBounds DEF DifficultyAdjustmentInterval
<1>4. DifficultyAdjustmentInterval(net) >= 2
  BY NetworksAssumption
<1> QED
  BY <1>1, <1>2, <1>3, <1>4 DEF Params

LEMMA LimitTypes ==
    ASSUME NEW net \in Networks, NEW h
    PROVE  GetActivePowLimit(net, h) \in Word /\ RandomXLimit(net) \in Word
  BY NetworkTypes DEF GetActivePowLimit, RandomXLimit, GetPowAlgorithm

(* The walk over minimum-difficulty blocks ends at a block of the chain.   *)
LEMMA WalkEnds ==
    ASSUME NEW net, NEW c \in Seq(CanonicalHeaders), c # <<>>
    PROVE  LastRealBits(net, c) \in Canonical
<1> DEFINE H == Height(c)
           S == {n \in 0 .. H : WalkStops(net, c, H - n)}
           Last(h) == /\ WalkStops(net, c, h)
                      /\ \A k \in (h + 1) .. H : ~WalkStops(net, c, k)
<1>1. H \in Nat
  BY DEF Height
<1>2. H \in S
  BY <1>1 DEF WalkStops
<1>3. \E x \in S : \A y \in S : x <= y
  <2>1. S \in SUBSET Nat /\ S # {}
    BY <1>1, <1>2
  <2> HIDE DEF S
  <2> QED
    BY <2>1, LeastElement
<1>4. PICK n \in S : \A y \in S : n <= y
  BY <1>3
<1>5. H - n \in 0 .. H /\ WalkStops(net, c, H - n)
  BY <1>1, <1>4
<1>6. \A k \in (H - n + 1) .. H : ~WalkStops(net, c, k)
  <2> SUFFICES ASSUME NEW k \in (H - n + 1) .. H, WalkStops(net, c, k)
               PROVE  FALSE
    OBVIOUS
  <2>1. H - k \in 0 .. H /\ H - (H - k) = k /\ H - k < n
    BY <1>1, <1>4
  <2>2. H - k \in S
    BY <2>1
  <2> QED
    BY <1>1, <1>4, <2>1, <2>2
<1>7. \E h \in 0 .. H : Last(h)
  BY <1>5, <1>6
<1>8. (CHOOSE h \in 0 .. H : Last(h)) \in 0 .. H
  BY <1>7
<1>9. \A h \in 0 .. H : At(c, h).nBits \in Canonical
  BY StoredHeader DEF At, Height
<1> QED
  BY <1>8, <1>9 DEF LastRealBits

LEMMA ClampRange ==
    ASSUME NEW net \in Networks, NEW ts \in Int
    PROVE  /\ ClampTimespan(net, ts) \in Nat
           /\ net.nPowTargetTimespan \div 4 \in Nat
           /\ net.nPowTargetTimespan \div 4 <= ClampTimespan(net, ts)
           /\ ClampTimespan(net, ts) <= net.nPowTargetTimespan * 4
  BY NetworkTypes DEF ClampTimespan

(* A retarget height lies a whole period above genesis.                    *)
LEMMA FirstOfPeriod ==
    ASSUME NEW h \in Nat \ {0}, NEW n \in Nat \ {0}, h % n = 0
    PROVE  n <= h
<1>1. h = (h \div n) * n /\ h \div n \in Nat
  OBVIOUS
<1>2. h \div n # 0
  BY <1>1
<1>3. 1 * n <= (h \div n) * n
  BY <1>1, <1>2, ProductMonotone
<1> QED
  BY <1>1, <1>3

(* GetNextWorkRequired yields nBits in their canonical form.               *)
LEMMA NextCanonical ==
    ASSUME NEW net \in Networks, NEW c \in Seq(CanonicalHeaders), c # <<>>, NEW t
    PROVE  GetNextWorkRequired(net, c, t) \in Canonical
<1> DEFINE h == Height(c) + 1
           interval == DifficultyAdjustmentInterval(net)
<1>1. Len(c) \in Nat \ {0} /\ h = Len(c)
  BY DEF Height
<1>2. \A i \in 1 .. Len(c) : c[i].nBits \in Canonical /\ c[i].nTime \in Int /\ c[i].nBits \in Word
  BY StoredHeader
<1>3. GetCompact(GetActivePowLimit(net, h)) \in Canonical
  BY LimitTypes, CompactCanonical
<1>4. Tip(c).nBits \in Canonical /\ Tip(c).nTime \in Int /\ Tip(c).nBits \in Word
  BY <1>1, <1>2 DEF Tip
<1>5. ASSUME h % interval = 0
      PROVE  CalculateNextWorkRequired(net, c, At(c, h - interval).nTime) \in Canonical
  <2>1. h - interval \in 0 .. Height(c)
    BY <1>1, <1>5, NetworkTypes, FirstOfPeriod DEF Height
  <2>2. At(c, h - interval).nBits \in Word /\ At(c, h - interval).nTime \in Int
    BY <1>1, <1>2, <2>1 DEF At, Height
  <2>3. ClampTimespan(net, Tip(c).nTime - At(c, h - interval).nTime) \in Nat
    BY <1>4, <2>2, Tip(c).nTime - At(c, h - interval).nTime \in Int, ClampRange
  <2>4. \A w \in Word, ts \in Nat :
            GetCompact(Least(Scale(w, ts, net.nPowTargetTimespan), GetActivePowLimit(net, h)))
                \in Canonical
    BY NetworkTypes, ScaleType, LimitTypes, CompactCanonical DEF Least
  <2> QED
    BY <1>3, <1>4, <2>2, <2>3, <2>4 DEF CalculateNextWorkRequired
<1> QED
  BY <1>3, <1>4, <1>5, WalkEnds DEF GetNextWorkRequired
-------------------------------------------------------------------------------
\* The two implementations of the adjustment agree.

(* An adjustment of old_nbits lies within the bounds of the header-sync    *)
(* check.                                                                  *)
LEMMA AdjustmentWithin ==
    ASSUME NEW net \in Networks, NEW old \in Word, NEW limit \in Word, NEW low \in Nat,
           NEW ts \in Nat, NEW high \in Nat, old * 4 < Modulus,
           net.nPowTargetTimespan * (net.nPowTargetTimespan * 4) < Modulus,
           low <= ts, ts <= high, high <= net.nPowTargetTimespan * 4
    PROVE  /\ AdjustmentBound(net, old, low, limit) <= AdjustmentBound(net, old, ts, limit)
           /\ AdjustmentBound(net, old, ts, limit) <= AdjustmentBound(net, old, high, limit)
<1> DEFINE T == net.nPowTargetTimespan
<1>1. T \in Nat \ {0}
  BY NetworkTypes
<1> HIDE DEF T
<1>2. \A x \in Nat : Scale(old, x, T) \in Word
  BY <1>1, ScaleType
<1>3. Scale(old, low, T) <= Scale(old, ts, T) /\ Scale(old, ts, T) <= Scale(old, high, T)
  BY <1>1, ScaleMonotone DEF T
<1>4. \A a, b \in Word : a <= b => /\ Least(a, limit) <= Least(b, limit)
                                   /\ Least(a, limit) \in Word
                                   /\ Least(b, limit) \in Word
  BY DEF Least, Word
<1>5. \A a, b \in Word : a <= b => GetCompact(Least(a, limit)) <= GetCompact(Least(b, limit))
  BY <1>4, CompactMonotone
<1> QED
  BY <1>2, <1>3, <1>5 DEF AdjustmentBound, T

(* At the limit, a reset to the limit lies within the bounds.              *)
LEMMA ResetWithin ==
    ASSUME NEW net \in Networks, NEW limit \in Word, limit * 4 < Modulus,
           net.nPowTargetTimespan * (net.nPowTargetTimespan * 4) < Modulus
    PROVE  /\ AdjustmentBound(net, GetCompact(limit), net.nPowTargetTimespan \div 4, limit)
                  <= GetCompact(limit)
           /\ AdjustmentBound(net, GetCompact(limit), net.nPowTargetTimespan * 4, limit)
                  = GetCompact(limit)
<1> DEFINE T == net.nPowTargetTimespan
           c == GetCompact(limit)
<1>1. T \in Nat \ {0} /\ T \div 4 \in Nat
  BY NetworkTypes
<1>2. c \in Word /\ c <= limit /\ limit <= c * 4 /\ c \in Nat /\ limit \in Nat
  BY CompactBounds, CompactHalf DEF Word
<1>3. Modulus \in Nat
  BY FormatAssumption
<1> HIDE DEF T, c
<1>4. c * 4 < Modulus
  BY <1>2, <1>3
<1>5. Scale(c, T * 4, T) = c * 4
  BY <1>1, <1>2, <1>4, ScaleFour DEF T
<1>6. Least(c * 4, limit) = limit
  <2>1. CASE c * 4 <= limit
    BY <1>2, <2>1 DEF Least
  <2>2. CASE ~(c * 4 <= limit)
    BY <2>2 DEF Least
  <2> QED
    BY <2>1, <2>2
<1>7. Scale(c, T \div 4, T) \in Word
  BY <1>1, <1>2, ScaleType
<1>8. Least(Scale(c, T \div 4, T), limit) \in Word
      /\ Least(Scale(c, T \div 4, T), limit) <= limit
  BY <1>7 DEF Least, Word
<1>9. GetCompact(Least(Scale(c, T \div 4, T), limit)) <= GetCompact(limit)
  BY <1>8, CompactMonotone
<1> QED
  BY <1>5, <1>6, <1>9 DEF AdjustmentBound, T, c

(* The period before a retarget starts at a multiple of n, too.            *)
LEMMA PreviousMultiple ==
    ASSUME NEW h \in Nat \ {0}, NEW n \in Nat \ {0}, h % n = 0
    PROVE  h - n \in Nat /\ (h - n) % n = 0
<1> DEFINE q == h \div n
<1>1. q \in Nat /\ h = q * n /\ n <= h
  BY FirstOfPeriod
<1> HIDE DEF q
<1>2. q # 0
  BY <1>1
<1>3. h - n \in Nat /\ q - 1 \in Nat /\ h - n = (q - 1) * n
  BY <1>1, <1>2
<1>4. (h - n) \div n = q - 1
  BY <1>3, DivUnique
<1>5. h - n = ((h - n) \div n) * n + ((h - n) % n) /\ (h - n) % n \in Nat
  BY <1>3
<1> QED
  BY <1>3, <1>4, <1>5

(* No multiple of n lies strictly between two successive ones.             *)
LEMMA NoMultipleBetween ==
    ASSUME NEW a \in Nat, NEW n \in Nat \ {0}, a % n = 0, NEW k \in (a + 1) .. (a + n - 1)
    PROVE  k % n # 0
<1> DEFINE q == a \div n
<1>1. q \in Nat /\ q * n = a
  OBVIOUS
<1> HIDE DEF q
<1>2. k \in Nat /\ q * n <= k /\ k < q * n + n
  BY <1>1
<1>3. k \div n = q
  BY <1>1, <1>2, DivUnique
<1>4. k = (k \div n) * n + (k % n)
  BY <1>2
<1> QED
  BY <1>1, <1>2, <1>3, <1>4

(* A retarget height whose period started after the fork lies beyond the   *)
(* bootstrap phase, which ends in the period of the fork or before.        *)
LEMMA PeriodAfterBootstrap ==
    ASSUME NEW net \in Networks, NEW f \in Nat, f % DifficultyAdjustmentInterval(net) = 0,
           net.nRandomXForkHeight <= f, net.nBootstrapEndHeight >= 0
    PROVE  net.nBootstrapEndHeight < f
<1> DEFINE n == DifficultyAdjustmentInterval(net)
           e == net.nBootstrapEndHeight
           q == e \div n
           p == f \div n
<1>1. n \in Nat \ {0} /\ e \in Nat /\ net.nRandomXForkHeight \in Int
  BY NetworkTypes
<1>2. q * n < net.nRandomXForkHeight
  BY NetworksAssumption
<1>3. q \in Nat /\ e < q * n + n
  BY <1>1, DivBounds, Zenon
<1>4. p \in Nat /\ p * n = f
  BY <1>1
<1> HIDE DEF n, q, p
<1>5. q * n < p * n
  BY <1>1, <1>2, <1>3, <1>4
<1>6. q + 1 <= p
  BY <1>1, <1>3, <1>4, <1>5, FactorBelow
<1>7. (q + 1) * n <= p * n
  BY <1>1, <1>3, <1>4, <1>6, ProductMonotone
<1> QED
  BY <1>1, <1>3, <1>4, <1>7

(* The heights at which nBits are enforced: what the definitions say.      *)
LEMMA EnforcedHeights ==
    ASSUME NEW h \in Nat, params \in Networks
    PROVE  /\ BitsEnforced(h) <=>
                  /\ h >= params.nRandomXForkHeight
                  /\ ~(params.nArgon2EmergencyHeight >= 0 /\ h >= params.nArgon2EmergencyHeight)
                  /\ ~(params.nBootstrapEndHeight >= 0 /\ h <= params.nBootstrapEndHeight)
           /\ ~params.fPowAllowMinDifficultyBlocks =>
                  (IsReset(params, h) <=>
                     \/ params.nBootstrapEndHeight >= 0 /\ h = params.nBootstrapEndHeight + 1
                     \/ h = params.nRandomXForkHeight
                     \/ params.nArgon2EmergencyHeight >= 0 /\ h = params.nArgon2EmergencyHeight)
           /\ BitsEnforced(h) => /\ GetActivePowLimit(params, h) = RandomXLimit(params)
                                 /\ GetPowAlgorithm(params, h) = "RANDOMX"
<1>1. ~params.fPowAllowMinDifficultyBlocks => ~params.fPowNoRetargeting
  BY NetworksAssumption
<1> QED
  BY <1>1 DEF BitsEnforced, IsRandomXActive, IsArgon2EmergencyActive, IsBootstrap, IsReset,
              GetActivePowLimit, GetPowAlgorithm

(* At a retarget under BIP94 the last block of the period has the nBits    *)
(* the adjustment starts from: those of the first block where both are     *)
(* RandomX, and the limit where the fork lies in the period.               *)
LEMMA BaseIsLast ==
    ASSUME IInv, ~params.fPowAllowMinDifficultyBlocks,
           NEW h, h = Height(chain) + 1, BitsEnforced(h), ~IsReset(params, h),
           ~IsBootstrap(params, h - 1),
           NEW f, f = h - DifficultyAdjustmentInterval(params),
           h % DifficultyAdjustmentInterval(params) = 0
    PROVE  /\ GetPowAlgorithm(params, f) = "RANDOMX" => Tip(chain).nBits = At(chain, f).nBits
           /\ GetPowAlgorithm(params, f) # "RANDOMX" =>
                  Tip(chain).nBits = GetCompact(RandomXLimit(params))
<1> DEFINE n == DifficultyAdjustmentInterval(params)
           fork == params.nRandomXForkHeight
           boot == params.nBootstrapEndHeight
           argon == params.nArgon2EmergencyHeight
<1>1. /\ params \in Networks /\ chain \in Seq(CanonicalHeaders) /\ Segments /\ chain # <<>>
      /\ h \in Nat \ {0} /\ Height(chain) = h - 1 /\ h = Len(chain)
  BY DEF IInv, Height
<1>2. n \in Nat /\ n >= 2 /\ fork \in Int /\ boot \in Int /\ argon \in Int
  BY <1>1, NetworkTypes
<1>3. f = h - n /\ h % n = 0
  OBVIOUS
<1> HIDE DEF n
<1>4. f \in Nat /\ f % n = 0 /\ f < h /\ f \in 0 .. Height(chain) /\ h - 1 = f + n - 1
  <2>1. f \in Nat /\ f % n = 0
    BY <1>1, <1>2, <1>3, PreviousMultiple
  <2> QED
    BY <1>1, <1>2, <1>3, <2>1
<1>5. /\ h >= fork /\ h # fork
      /\ ~(argon >= 0 /\ h >= argon)
      /\ boot >= 0 => boot < h - 1
  BY <1>1, <1>2, EnforcedHeights DEF IsBootstrap
<1>6. Tip(chain) = At(chain, h - 1)
  BY <1>1 DEF Tip, At
<1>7. \A k \in (f + 1) .. (h - 1) : k \in Nat /\ k % n # 0
  BY <1>2, <1>4, NoMultipleBetween
<1>8. \A k \in (f + 1) .. (h - 1) :
          k > fork /\ (boot >= 0 => boot + 1 < k) => Carried(k)
  <2> SUFFICES ASSUME NEW k \in (f + 1) .. (h - 1), k > fork, boot >= 0 => boot + 1 < k
               PROVE  Carried(k)
    OBVIOUS
  <2>1. k \in Nat /\ k % n # 0 /\ k < h
    BY <1>1, <1>4, <1>7
  <2>2. ~(argon >= 0 /\ k >= argon)
    BY <1>1, <1>2, <1>5, <2>1
  <2>3. BitsEnforced(k)
    BY <1>1, <1>2, <2>1, <2>2, EnforcedHeights
  <2>4. ~IsReset(params, k)
    BY <1>1, <1>2, <2>1, <2>2, EnforcedHeights
  <2> QED
    BY <2>1, <2>3, <2>4 DEF Carried, n
<1> HIDE DEF fork, boot, argon
<1>9. ASSUME f >= fork
      PROVE  Tip(chain).nBits = At(chain, f).nBits
  <2>1. boot >= 0 => boot < f
    BY <1>1, <1>4, <1>9, PeriodAfterBootstrap DEF n, fork, boot
  <2>2. \A k \in (f + 1) .. (h - 1) : Carried(k)
    BY <1>2, <1>4, <1>8, <1>9, <2>1
  <2>3. h - 1 \in 0 .. Height(chain) /\ f <= h - 1
    BY <1>1, <1>4
  <2> QED
    BY <1>1, <1>4, <1>6, <2>2, <2>3 DEF Segments
<1>10. ASSUME f < fork
       PROVE  Tip(chain).nBits = GetCompact(RandomXLimit(params))
  <2> DEFINE r == IF boot >= 0 /\ boot >= fork THEN boot + 1 ELSE fork
  <2>1. /\ r \in Nat /\ f < r /\ r <= h - 1 /\ r >= fork
        /\ boot >= 0 => boot + 1 <= r
        /\ r = fork \/ (boot >= 0 /\ r = boot + 1)
    BY <1>1, <1>2, <1>4, <1>5, <1>10
  <2> HIDE DEF r
  <2>2. BitsEnforced(r) /\ IsReset(params, r)
    BY <1>1, <1>2, <1>5, <2>1, EnforcedHeights DEF fork, boot, argon
  <2>3. r \in 1 .. Height(chain) /\ r \in 0 .. Height(chain) /\ h - 1 \in 0 .. Height(chain)
    BY <1>1, <1>4, <2>1
  <2>4. At(chain, r).nBits = GetCompact(RandomXLimit(params))
    BY <1>1, <2>2, <2>3 DEF Segments
  <2>5. \A k \in (r + 1) .. (h - 1) : Carried(k)
    BY <1>1, <1>2, <1>4, <1>8, <2>1
  <2>6. At(chain, r).nBits = At(chain, h - 1).nBits
    BY <1>1, <2>1, <2>3, <2>5 DEF Segments
  <2> QED
    BY <1>6, <2>4, <2>6
<1>11. GetPowAlgorithm(params, f) = "RANDOMX" <=> f >= fork
  BY <1>1, <1>2, <1>4, <1>5 DEF GetPowAlgorithm, IsRandomXActive, IsArgon2EmergencyActive,
                                fork, argon
<1> QED
  BY <1>2, <1>4, <1>9, <1>10, <1>11

(* The core: what GetNextWorkRequired demands of the next block, where     *)
(* validation enforces it, PermittedDifficultyTransition lets through.     *)
LEMMA RequiredPermitted ==
    ASSUME IInv, NEW t, NEW h, h = Height(chain) + 1, BitsEnforced(h),
           ~IsBootstrap(params, h - 1)
    PROVE  PermittedDifficultyTransition(params, h, Tip(chain).nBits,
                                         GetNextWorkRequired(params, chain, t))
<1> DEFINE n == DifficultyAdjustmentInterval(params)
           old == Tip(chain).nBits
           new == GetNextWorkRequired(params, chain, t)
           limit == RandomXLimit(params)
           T == params.nPowTargetTimespan
<1>1. CASE params.fPowAllowMinDifficultyBlocks
  BY <1>1 DEF PermittedDifficultyTransition
<1>2. CASE IsReset(params, h) /\ ~params.fPowAllowMinDifficultyBlocks
  <2>1. h \in Nat /\ params \in Networks
    BY DEF IInv, Height
  <2>2. ~(params.nBootstrapEndHeight >= 0 /\ h = params.nBootstrapEndHeight + 1)
    BY <2>1, NetworkTypes DEF IsBootstrap
  <2>3. \/ h = params.nRandomXForkHeight
        \/ params.nArgon2EmergencyHeight >= 0 /\ h = params.nArgon2EmergencyHeight
    BY <1>2, <2>1, <2>2, EnforcedHeights
  <2> QED
    BY <2>3 DEF PermittedDifficultyTransition
<1>3. CASE ~IsReset(params, h) /\ ~params.fPowAllowMinDifficultyBlocks /\ h % n # 0
  <2>1. new = old
    BY <1>3 DEF GetNextWorkRequired
  <2> QED
    BY <1>3, <2>1 DEF PermittedDifficultyTransition
<1>4. CASE ~IsReset(params, h) /\ ~params.fPowAllowMinDifficultyBlocks /\ h % n = 0
  <2> DEFINE f == h - n
             ts == ClampTimespan(params, Tip(chain).nTime - At(chain, f).nTime)
  <2>1. /\ params \in Networks /\ chain \in Seq(CanonicalHeaders)
        /\ h \in Nat \ {0} /\ h = Len(chain) /\ Height(chain) = h - 1
    BY DEF IInv, Height
  <2>2. n \in Nat /\ n >= 2 /\ f \in Nat /\ h - 1 \in 1 .. Height(chain)
    <3>1. n \in Nat /\ n >= 2
      BY <2>1, NetworkTypes
    <3>2. n <= h
      BY <1>4, <2>1, <3>1, FirstOfPeriod
    <3> QED
      BY <2>1, <3>1, <3>2
  <2>3. ~params.fPowNoRetargeting
    BY <1>4, <2>1, NetworksAssumption
  <2>4. /\ limit \in Word /\ limit * 4 < Modulus /\ T * (T * 4) < Modulus
        /\ T \in Nat \ {0} /\ GetActivePowLimit(params, h) = limit
        /\ GetPowAlgorithm(params, h) = "RANDOMX"
    BY <2>1, <2>3, LimitTypes, NetworkTypes, NetworksAssumption, EnforcedHeights
  <2>5. /\ old \in Word /\ Tip(chain).nTime \in Int
        /\ At(chain, f).nTime \in Int /\ Tip(chain) = At(chain, h - 1)
    BY <2>1, <2>2, StoredHeader DEF Tip, At
  <2>6. old <= limit
    <3>1. BitsEnforced(h - 1)
      <4>1. h >= params.nRandomXForkHeight
            /\ ~(params.nArgon2EmergencyHeight >= 0 /\ h >= params.nArgon2EmergencyHeight)
        BY <2>1, EnforcedHeights
      <4>2. h # params.nRandomXForkHeight
        BY <1>4, <2>1, EnforcedHeights
      <4> QED
        BY <2>1, <2>2, <4>1, <4>2, NetworkTypes, EnforcedHeights DEF IsBootstrap
    <3> QED
      BY <2>2, <2>5, <3>1, Zenon DEF IInv
  <2>7. old * 4 < Modulus
    BY <2>4, <2>5, <2>6, FormatAssumption DEF Word
  <2>8. /\ ts \in Nat /\ T \div 4 \in Nat /\ T \div 4 <= ts /\ ts <= T * 4
    <3>1. Tip(chain).nTime - At(chain, f).nTime \in Int
      BY <2>1, <2>5
    <3> QED BY <2>1, <2>5, <3>1, ClampRange, Zenon
  <2>9. new = CalculateNextWorkRequired(params, chain, At(chain, f).nTime)
    BY <1>4 DEF GetNextWorkRequired
  <2>10. /\ GetPowAlgorithm(params, f) = "RANDOMX" => old = At(chain, f).nBits
         /\ GetPowAlgorithm(params, f) # "RANDOMX" => old = GetCompact(limit)
    BY <1>4, BaseIsLast
  <2>11. \/ new = AdjustmentBound(params, old, ts, limit)
         \/ new = GetCompact(limit) /\ old = GetCompact(limit)
    BY <2>3, <2>4, <2>9, <2>10 DEF CalculateNextWorkRequired, AdjustmentBound
  <2> HIDE DEF ts, old, new, f, limit, T, n
  <2>12. /\ AdjustmentBound(params, old, T \div 4, limit) <= new
         /\ new <= AdjustmentBound(params, old, T * 4, limit)
    <3>1. CASE new = AdjustmentBound(params, old, ts, limit)
      BY <2>1, <2>4, <2>5, <2>7, <2>8, <3>1, T * 4 \in Nat, T * 4 <= T * 4, AdjustmentWithin
         DEF T
    <3>2. CASE new = GetCompact(limit) /\ old = GetCompact(limit)
      <4>1. GetCompact(limit) \in Int
        BY <2>4, CompactBounds DEF Word
      <4> QED
        BY <2>1, <2>4, <3>2, <4>1, ResetWithin DEF T
    <3> QED
      BY <2>11, <3>1, <3>2
  <2>13. /\ new <= AdjustmentBound(params, old, T * 4, limit)
         /\ new >= AdjustmentBound(params, old, T \div 4, limit)
    <3>1. new \in Int
      BY NextCanonical DEF new, IInv, Canonical, Word
    <3>2. \A x \in Nat : AdjustmentBound(params, old, x, limit) \in Int
      <4>1. \A x \in Nat : Scale(old, x, T) \in Word
        BY <2>4, <2>5, ScaleType
      <4>2. \A x \in Nat : Least(Scale(old, x, T), limit) \in Word
        BY <2>4, <4>1 DEF Least
      <4> QED
        BY <4>2, CompactBounds DEF AdjustmentBound, Word, T
    <3> QED
      BY <2>4, <2>8, <2>12, <3>1, <3>2
  <2> QED
    BY <1>4, <2>4, <2>13 DEF PermittedDifficultyTransition, old, new, n, T, limit
<1> QED
  BY <1>1, <1>2, <1>3, <1>4
-------------------------------------------------------------------------------
\* The invariant.

LEMMA InitIInv ==
    ASSUME Init
    PROVE  IInv
<1> DEFINE genesis == [nBits |-> GenesisBits, nTime |-> 0]
<1>1. genesis \in CanonicalHeaders
  BY NetworksAssumption DEF CanonicalHeaders, Canonical
<1>2. chain \in Seq(CanonicalHeaders) /\ chain # <<>> /\ Len(chain) = 1 /\ chain[1] = genesis
  BY <1>1 DEF Init
<1>3. Height(chain) = 0
  BY <1>2 DEF Height
<1>4. Segments
  BY <1>3 DEF Segments
<1>5. Tip(chain).nTime = 0
  BY <1>2 DEF Tip
<1>6. now \in Nat /\ MaxFutureTime(0) \in Nat
  BY NetworksAssumption DEF Init, MaxFutureTime
<1>7. StrictPermitted
  BY <1>3 DEF StrictPermitted
<1>8. params \in Networks /\ now \in Clock
  BY DEF Init
<1> HIDE DEF genesis
<1> QED
  BY <1>2, <1>3, <1>4, <1>5, <1>6, <1>7, <1>8 DEF IInv

(* The checks of a new header imply those of the block index.              *)
LEMMA AcceptedLoads ==
    ASSUME params \in Networks, NEW c, NEW h, NEW nBits \in Nat, NEW met,
           CheckProofOfWorkAtHeight(params, c, h, nBits, met)
    PROVE  CheckProofOfWorkForBlockIndex(params, h, nBits, TRUE)
<1>1. CASE GetPowAlgorithm(params, h) # "SHA256D"
  <2>1. GetPowAlgorithm(params, h) \in {"RANDOMX", "ARGON2ID"}
    BY <1>1 DEF GetPowAlgorithm
  <2>2. DeriveTarget(nBits, LimitAt(params, h))
    BY <2>1, Zenon DEF CheckProofOfWorkAtHeight
  <2> QED
    BY <1>1, <2>2 DEF CheckProofOfWorkForBlockIndex
<1>2. CASE GetPowAlgorithm(params, h) = "SHA256D" /\ ~IsBootstrap(params, h)
  BY <1>2 DEF CheckProofOfWorkAtHeight, CheckProofOfWorkForBlockIndex, CheckProofOfWork
<1>3. CASE GetPowAlgorithm(params, h) = "SHA256D" /\ IsBootstrap(params, h)
  <2>1. params.powLimit <= params.powLimitBootstrap
    BY <1>3, NetworksAssumption DEF IsBootstrap
  <2>2. params.powLimit \in Nat /\ params.powLimitBootstrap \in Nat
    BY NetworkTypes DEF Word
  <2>3. CheckProofOfWork(params, nBits, met)
    BY <1>3 DEF CheckProofOfWorkAtHeight
  <2>4. DeriveTarget(nBits, params.powLimitBootstrap)
    BY <2>1, <2>2, <2>3 DEF CheckProofOfWork, DeriveTarget
  <2> QED
    BY <1>3, <2>4 DEF CheckProofOfWorkForBlockIndex, LimitAt
<1> QED
  BY <1>1, <1>2, <1>3, Zenon

LEMMA AcceptPreserves ==
    ASSUME IInv, AcceptBlockHeader
    PROVE  IInv'
<1> DEFINE H == Height(chain)
           h == H + 1
<1> DEFINE Bits(step) == OfferedBits
                             \cup {GetNextWorkRequired(params, chain, Tip(chain).nTime + step)}
<1>0. PICK step \in TimeSteps, met \in BOOLEAN : \E nBits \in Bits(step) :
          LET y == [nBits |-> nBits, nTime |-> Tip(chain).nTime + step]
          IN  /\ ContextualCheckBlockHeader(y, met)
              /\ chain' = Append(chain, y) /\ params' = params /\ now' = now
  BY DEF AcceptBlockHeader
<1>1. PICK nBits \in Bits(step) :
          LET y == [nBits |-> nBits, nTime |-> Tip(chain).nTime + step]
          IN  /\ ContextualCheckBlockHeader(y, met)
              /\ chain' = Append(chain, y) /\ params' = params /\ now' = now
  BY <1>0
<1> DEFINE x == [nBits |-> nBits, nTime |-> Tip(chain).nTime + step]
<1>2. /\ ContextualCheckBlockHeader(x, met)
      /\ chain' = Append(chain, x) /\ params' = params /\ now' = now
  BY <1>1
<1>3. params \in Networks /\ chain \in Seq(CanonicalHeaders) /\ chain # <<>> /\ now \in Clock
  BY DEF IInv
<1>4. Len(chain) \in Nat \ {0} /\ h = Len(chain) /\ H \in Nat
  BY <1>3 DEF Height
<1>5. x \in CanonicalHeaders /\ x.nBits = nBits /\ nBits \in Nat
  <2>1. Tip(chain).nTime \in Int
    BY <1>3, <1>4, StoredHeader DEF Tip
  <2>2. nBits \in Canonical
    BY <1>1, <1>3, NextCanonical, NetworksAssumption DEF Canonical
  <2>3. step \in Int
    BY NetworksAssumption
  <2> QED
    BY <2>1, <2>2, <2>3 DEF CanonicalHeaders, Canonical, Word
<1> HIDE DEF x
<1>6. chain' \in Seq(CanonicalHeaders) /\ chain' # <<>> /\ Len(chain') = Len(chain) + 1
  BY <1>2, <1>3, <1>5
<1>7. /\ Height(chain)' = h /\ Tip(chain)' = x /\ At(chain', h) = x
      /\ \A k \in 0 .. H : At(chain', k) = At(chain, k)
  BY <1>2, <1>3, <1>4, <1>5, <1>6 DEF Height, Tip, At
<1>8. Tip(chain) = At(chain, H)
  BY <1>3, <1>4 DEF Tip, At, Height
<1>9. \A k : /\ BitsEnforced(k)' <=> BitsEnforced(k)
             /\ IsReset(params, k)' <=> IsReset(params, k)
             /\ Carried(k)' <=> Carried(k)
  BY <1>2 DEF Carried, BitsEnforced
<1>10. BitsEnforced(h) => nBits = GetNextWorkRequired(params, chain, x.nTime)
  BY <1>2, <1>5 DEF ContextualCheckBlockHeader
<1>11. CheckProofOfWorkAtHeight(params, chain, h, nBits, met)
  BY <1>2, <1>5 DEF ContextualCheckBlockHeader
<1> HIDE DEF h, H
<1>12. (~params.fPowAllowMinDifficultyBlocks => Segments)'
  <2> SUFFICES ASSUME ~params.fPowAllowMinDifficultyBlocks
               PROVE  Segments'
    BY <1>2
  <2>1. Segments
    BY DEF IInv
  <2>2. Carried(h) => nBits = At(chain, H).nBits
    <3>1. ASSUME Carried(h)
          PROVE  GetNextWorkRequired(params, chain, x.nTime) = Tip(chain).nBits
      BY <3>1 DEF Carried, GetNextWorkRequired, h, H
    <3> QED
      BY <1>8, <1>10, <3>1 DEF Carried
  <2>3. ASSUME NEW first \in 0 .. h, NEW last \in 0 .. h, first <= last,
               \A k \in (first + 1) .. last : Carried(k)
        PROVE  At(chain', first).nBits = At(chain', last).nBits
    <3>1. CASE last \in 0 .. H
      <4>1. first \in 0 .. H
        BY <1>4, <2>3, <3>1
      <4> QED
        BY <1>7, <2>1, <2>3, <3>1, <4>1 DEF Segments, H
    <3>2. CASE last = h /\ first = h
      BY <3>2
    <3>3. CASE last = h /\ first # h
      <4>1. first \in 0 .. H /\ H \in 0 .. H /\ first <= H
        BY <1>4, <2>3, <3>3 DEF h
      <4>2. \A k \in (first + 1) .. H : Carried(k)
        BY <1>4, <2>3, <3>3 DEF h
      <4>3. Carried(h)
        BY <1>4, <2>3, <3>3, <4>1 DEF h
      <4>4. At(chain, first).nBits = At(chain, H).nBits
        BY <2>1, <4>1, <4>2 DEF Segments, H
      <4> QED
        BY <1>5, <1>7, <2>2, <3>3, <4>1, <4>3, <4>4
    <3> QED
      BY <1>4, <3>1, <3>2, <3>3 DEF h
  <2>4. ASSUME NEW k \in 1 .. h, BitsEnforced(k), IsReset(params, k)
        PROVE  At(chain', k).nBits = GetCompact(RandomXLimit(params))
    <3>1. CASE k \in 1 .. H
      <4>1. k \in 0 .. H
        BY <1>4, <3>1
      <4> QED
        BY <1>7, <2>1, <2>4, <3>1, <4>1 DEF Segments, H
    <3>2. CASE k = h
      <4>1. GetActivePowLimit(params, h) = RandomXLimit(params)
        BY <1>3, <1>4, <2>4, <3>2, h \in Nat, EnforcedHeights
      <4>2. GetNextWorkRequired(params, chain, x.nTime) = GetCompact(RandomXLimit(params))
        BY <2>4, <3>2, <4>1 DEF GetNextWorkRequired, h, H
      <4> QED
        BY <1>5, <1>7, <1>10, <2>4, <3>2, <4>2
    <3> QED
      BY <1>4, <3>1, <3>2 DEF h
  <2> QED
    BY <1>2, <1>7, <1>9, <2>3, <2>4 DEF Segments
<1>13. ASSUME NEW k \in 1 .. h
       PROVE  /\ BitsEnforced(k) => At(chain', k).nBits <= RandomXLimit(params)
              /\ CheckProofOfWorkForBlockIndex(params, k, At(chain', k).nBits, TRUE)
  <2>1. CASE k \in 1 .. H
    <3>1. k \in 0 .. H
      BY <1>4, <2>1
    <3> QED
      BY <1>7, <2>1, <3>1, Zenon DEF IInv, H
  <2>2. CASE k = h
    <3>1. CheckProofOfWorkForBlockIndex(params, h, nBits, TRUE)
      BY <1>3, <1>5, <1>11, AcceptedLoads, Zenon
    <3>2. ASSUME BitsEnforced(h)
          PROVE  nBits <= RandomXLimit(params)
      <4>1. /\ GetActivePowLimit(params, h) = RandomXLimit(params)
            /\ GetPowAlgorithm(params, h) = "RANDOMX"
        BY <1>3, <1>4, <3>2, h \in Nat, EnforcedHeights
      <4>2. DeriveTarget(nBits, LimitAt(params, h))
        BY <1>11, <4>1 DEF CheckProofOfWorkAtHeight
      <4> QED
        BY <3>2, <4>1, <4>2 DEF LimitAt, DeriveTarget, BitsEnforced
    <3> QED
      BY <1>5, <1>7, <2>2, <3>1, <3>2, Zenon
  <2>3. k \in 1 .. H \/ k = h
    BY <1>4 DEF h
  <2> QED
    BY <2>1, <2>2, <2>3, Zenon
<1>14. (Tip(chain).nTime <= now + MaxFutureTime(Height(chain)))'
  BY <1>2, <1>7 DEF ContextualCheckBlockHeader, MaxFutureTime, h, H
<1>15. StrictPermitted'
  <2>1. ASSUME NEW k \in 1 .. h, BitsEnforced(k), ~IsBootstrap(params, k - 1)
        PROVE  PermittedDifficultyTransition(params, k, At(chain', k - 1).nBits,
                                             At(chain', k).nBits)
    <3>1. CASE k \in 1 .. H
      <4>1. k \in 0 .. H /\ k - 1 \in 0 .. H
        BY <1>4, <3>1
      <4> QED
        BY <1>7, <2>1, <3>1, <4>1 DEF IInv, StrictPermitted, H
    <3>2. CASE k = h
      <4>1. h - 1 = H /\ H \in 0 .. H
        BY <1>4 DEF h
      <4>2. PermittedDifficultyTransition(params, h, Tip(chain).nBits,
                GetNextWorkRequired(params, chain, x.nTime))
        BY <2>1, <3>2, RequiredPermitted DEF h, H
      <4> QED
        BY <1>5, <1>7, <1>8, <1>10, <2>1, <3>2, <4>1, <4>2
    <3> QED
      BY <1>4, <3>1, <3>2 DEF h
  <2> QED
    BY <1>2, <1>7, <1>9, <2>1 DEF StrictPermitted
<1>16. (params \in Networks /\ now \in Clock)'
  BY <1>2, <1>3
<1> QED
  BY <1>2, <1>6, <1>7, <1>9, <1>12, <1>13, <1>14, <1>15, <1>16, Zenon DEF IInv

LEMMA TickPreserves ==
    ASSUME IInv, Tick
    PROVE  IInv'
<1>1. params' = params /\ chain' = chain /\ now' \in Clock /\ now' > now /\ now \in Clock
  BY DEF Tick, IInv
<1>2. now \in Nat /\ now' \in Nat /\ params \in Networks
  BY <1>1, NetworksAssumption DEF IInv
<1>3. MaxFutureTime(Height(chain)) \in Nat /\ Tip(chain).nTime \in Int
  <2>1. chain \in Seq(CanonicalHeaders) /\ Len(chain) \in 1 .. Len(chain)
    BY DEF IInv
  <2> QED
    BY <2>1, StoredHeader, NetworksAssumption DEF MaxFutureTime, Tip
<1>4. Tip(chain).nTime <= now + MaxFutureTime(Height(chain))
  BY DEF IInv
<1>5. (Tip(chain).nTime <= now + MaxFutureTime(Height(chain)))'
  <2>1. MaxFutureTime(Height(chain))' = MaxFutureTime(Height(chain))
    BY <1>1 DEF MaxFutureTime
  <2> QED
    BY <1>1, <1>2, <1>3, <1>4, <2>1
<1>6. Segments' <=> Segments
  BY <1>1 DEF Segments, Carried, BitsEnforced
<1>7. StrictPermitted' <=> StrictPermitted
  BY <1>1 DEF StrictPermitted, BitsEnforced
<1> QED
  BY <1>1, <1>5, <1>6, <1>7, Zenon DEF IInv, BitsEnforced

LEMMA Inductive ==
    ASSUME IInv, [Next]_vars
    PROVE  IInv'
<1>1. CASE UNCHANGED vars
  <2>1. params' = params /\ chain' = chain /\ now' = now
    BY <1>1, Zenon DEF vars
  <2>2. Segments' <=> Segments
    BY <2>1 DEF Segments, Carried, BitsEnforced
  <2>3. StrictPermitted' <=> StrictPermitted
    BY <2>1 DEF StrictPermitted, BitsEnforced
  <2> QED
    BY <2>1, <2>2, <2>3, Zenon DEF IInv, BitsEnforced, MaxFutureTime
<1> QED
  BY <1>1, AcceptPreserves, TickPreserves DEF Next

LEMMA Invariant == Spec => []IInv
  BY InitIInv, Inductive, PTL DEF Spec

(* Stored headers are well formed, nBits in canonical compact form: the    *)
(* adjustment, the resets and the walk over minimum-difficulty blocks      *)
(* produce no others.                                                      *)
THEOREM TypeCorrect == Spec => []TypeOK
<1>1. ASSUME IInv
      PROVE  TypeOK
  <2>1. /\ params \in Networks /\ now \in Clock /\ chain # <<>>
        /\ chain \in Seq(CanonicalHeaders)
    BY <1>1 DEF IInv
  <2>2. CanonicalHeaders \subseteq Headers
    BY DEF CanonicalHeaders, Headers, Canonical
  <2>3. chain \in Seq(Headers)
    BY <2>1, <2>2
  <2>4. \A i \in 1 .. Len(chain) : GetCompact(chain[i].nBits) = chain[i].nBits
    BY <2>1, StoredHeader DEF Canonical
  <2> QED
    BY <2>1, <2>3, <2>4 DEF TypeOK
<1> QED
  BY <1>1, Invariant, PTL

(* Where validation enforces nBits, beyond the first block after the       *)
(* bootstrap phase, PermittedDifficultyTransition refuses no block that    *)
(* GetNextWorkRequired demands: header synchronisation and validation      *)
(* agree there on every network of chainparams.cpp.                        *)
THEOREM StrictPart == Spec => []StrictPermitted
<1>1. IInv => StrictPermitted
  BY DEF IInv
<1> QED
  BY <1>1, Invariant, PTL

(* A restart loads every chain the node accepted: the checks of            *)
(* LoadBlockIndexGuts and VerifyLoadedChainstate are no stricter than      *)
(* those of AcceptBlockHeader, whenever it happens.                        *)
THEOREM RestartSafe == Spec => []RestartAccepts
<1>1. ASSUME IInv
      PROVE  RestartAccepts
  <2>1. params \in Networks /\ Tip(chain).nTime <= now + MaxFutureTime(Height(chain))
    BY <1>1 DEF IInv
  <2>2. ASSUME Tip(chain).nTime > now + MAX_FUTURE_BLOCK_TIME
        PROVE  SkipFutureTip
    <3>1. now \in Int /\ Tip(chain).nTime \in Int /\ Height(chain) \in Int
      <4>1. chain \in Seq(CanonicalHeaders) /\ Len(chain) \in 1 .. Len(chain)
        BY <1>1 DEF IInv
      <4> QED
        BY <1>1, <4>1, StoredHeader, NetworksAssumption DEF Tip, IInv, Height
    <3>2. MaxFutureTime(Height(chain)) # MAX_FUTURE_BLOCK_TIME
      BY <2>1, <2>2, <3>1, NetworksAssumption
    <3>3. /\ params.nBootstrapEndHeight >= 0
          /\ Height(chain) <= params.nBootstrapEndHeight + BootstrapTransition
      BY <3>2 DEF MaxFutureTime
    <3>4. BootstrapTransition <= DifficultyAdjustmentInterval(params)
      BY <2>1, <3>3, NetworksAssumption
    <3> QED
      BY <2>1, <3>1, <3>3, <3>4, NetworkTypes, NetworksAssumption DEF SkipFutureTip
  <2> QED
    BY <1>1, <2>2, Zenon DEF RestartAccepts, LoadSucceeds, IInv
<1> QED
  BY <1>1, Invariant, PTL

(* The key of every RandomX block is an ancestor buried for a whole key    *)
(* interval when the interval of the block begins, and all blocks of the   *)
(* interval share it.                                                      *)
THEOREM KeyChoice == Spec => []KeyBuried
<1>1. ASSUME IInv
      PROVE  KeyBuried
  <2> DEFINE height == Height(chain) + 1
             interval == params.nRandomXKeyBlockInterval
             q == height \div interval
             start == q * interval
             kh == IF start - interval >= 0 THEN start - interval ELSE 0
  <2>1. chain \in Seq(CanonicalHeaders) /\ Len(chain) \in Nat \ {0} /\ params \in Networks
    BY <1>1 DEF IInv
  <2>2. height = Len(chain) /\ height \in Nat \ {0} /\ interval \in Nat \ {0}
    BY <2>1, NetworkTypes DEF Height
  <2>3. q \in Nat /\ start \in Nat /\ start <= height /\ height < start + interval
    <3>1. q \in Nat /\ q * interval <= height /\ height < q * interval + interval
      <4> HIDE DEF height, interval
      <4> QED
        BY <2>2, DivBounds
    <3> HIDE DEF q, height, interval
    <3> QED
      BY <2>2, <3>1
  <2>4. GetRandomXKeyBlockHeight(params, height) = kh
    BY DEF GetRandomXKeyBlockHeight
  <2> HIDE DEF q, height, interval
  <2>5. kh \in Nat /\ kh <= height - 1 /\ (kh = 0 \/ kh + interval <= start)
    BY <2>2, <2>3
  <2>6. \A other \in start .. height : GetRandomXKeyBlockHeight(params, other) = kh
    <3> SUFFICES ASSUME NEW other \in start .. height
                 PROVE  GetRandomXKeyBlockHeight(params, other) = kh
      OBVIOUS
    <3>1. other \in Nat /\ q * interval <= other /\ other < q * interval + interval
      BY <2>2, <2>3
    <3>2. other \div interval = q
      BY <2>2, <2>3, <3>1, DivUnique, Zenon
    <3> QED
      BY <3>2 DEF GetRandomXKeyBlockHeight, interval
  <2> DEFINE key == SubSeq(chain, 1, kh + 1)
  <2>7. kh <= Height(chain)
    BY <2>1, <2>2, <2>5 DEF height, Height
  <2>8. /\ GetRandomXKeyBlockHash(params, chain, height) = key
        /\ \A other \in start .. height : GetRandomXKeyBlockHash(params, chain, other) = key
    BY <2>4, <2>6, <2>7, Zenon DEF GetRandomXKeyBlockHash
  <2>9. Len(key) = kh + 1 /\ key # <<>>
    <3>1. kh \in Nat /\ kh + 1 <= Len(chain)
      BY <2>1, <2>2, <2>5
    <3> HIDE DEF kh
    <3> QED
      BY <2>1, <3>1
  <2>10. Height(key) = kh
    BY <2>5, <2>9 DEF Height
  <2> HIDE DEF key, kh
  <2> QED
    BY <2>5, <2>8, <2>9, <2>10 DEF KeyBuried, height, interval, q
<1> QED
  BY <1>1, Invariant, PTL
===============================================================================
