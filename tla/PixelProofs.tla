----------------------------- MODULE PixelProofs -----------------------------
(***************************************************************************)
(* What is computed of pixels is right (MCParts' PixelsRight), for every   *)
(* value of the constants: the tile plans of images of every size leave no *)
(* pixel out (Tiles), and on masks of every shape and painting the running *)
(* extrema, the means, the blur of the crop and the regions are what they  *)
(* stand for (Masks).                                                      *)
(***************************************************************************)
EXTENDS MCParts, CollectionTheorems, TLAPS

----------------------------------------------------------------------------
(* Numbers                                                                 *)

\* A number is its quotient and its remainder.
LEMMA Divided ==
    ASSUME NEW a \in Nat, NEW b \in Nat \ {0}
    PROVE  /\ a \div b \in Nat /\ a % b \in 0 .. b - 1
           /\ a = b * (a \div b) + (a % b)
BY SMT

\* A multiple leaves no remainder.
LEMMA NoRemainder == ASSUME NEW k \in Nat, NEW b \in Nat \ {0} PROVE (b * k) % b = 0
BY SMT

\* A step up or down from a multiple is one, and a larger one is so by a step at least.
LEMMA Multiples ==
    ASSUME NEW a \in Nat, NEW b \in Nat \ {0}, a % b = 0
    PROVE  /\ (a + b) % b = 0
           /\ a >= b => (a - b) % b = 0
           /\ \A c \in Nat : c % b = 0 /\ c > a => c >= a + b
<1> DEFINE k == a \div b
<1>1. k \in Nat /\ a = b * k
  BY Divided
<1> HIDE DEF k
<1>2. (a + b) % b = 0
  <2>1. b * (k + 1) = b * k + b
    BY <1>1, SMT
  <2> QED BY <2>1, <1>1, NoRemainder
<1>3. ASSUME a >= b PROVE (a - b) % b = 0
  <2>1. k # 0
    <3>1. b * 0 = 0
      OBVIOUS
    <3> QED BY <3>1, <1>1, <1>3
  <2>2. b * (k - 1) = b * k - b /\ k - 1 \in Nat
    BY <1>1, <2>1, SMT
  <2>3. (b * (k - 1)) % b = 0
    BY <2>2, NoRemainder
  <2> QED BY <2>2, <2>3, <1>1
<1>4. ASSUME NEW c \in Nat, c % b = 0, c > a PROVE c >= a + b
  <2> DEFINE m == c \div b
  <2>1. m \in Nat /\ c = b * m
    BY <1>4, Divided
  <2> HIDE DEF m
  <2>2. m > k
    <3> SUFFICES ASSUME m <= k PROVE FALSE
      BY <1>1, <2>1
    <3>1. b * m <= b * k
      BY <1>1, <2>1, SMT
    <3> QED BY <3>1, <2>1, <1>1, <1>4
  <2>3. b * m >= b * (k + 1) /\ b * (k + 1) = b * k + b
    <3>1. m >= k + 1
      BY <2>1, <2>2, <1>1
    <3> QED BY <3>1, <2>1, <1>1, SMT
  <2> QED BY <2>1, <1>1, <2>3
<1> QED BY <1>2, <1>3, <1>4

\* What is bounded has a greatest member.
LEMMA GreatestOfSome ==
    ASSUME NEW S, S \subseteq Nat, S # {}, NEW b \in Nat, \A n \in S : n <= b
    PROVE  \E m \in S : \A n \in S : n <= m
<1> DEFINE T == {k \in Nat : \E n \in S : k = b - n}
<1>1. T \subseteq Nat /\ T # {}
  <2>1. PICK n \in S : TRUE
    OBVIOUS
  <2>2. b - n \in Nat
    BY <2>1
  <2> QED BY <2>1, <2>2
<1>2. PICK k \in T : \A j \in T : k <= j
  <2> HIDE DEF T
  <2> QED BY <1>1, LeastOfSome
<1>3. PICK m \in S : k = b - m
  BY <1>2
<1>4. ASSUME NEW n \in S PROVE n <= m
  <2>1. b - n \in T
    OBVIOUS
  <2>2. k <= b - n
    BY <1>2, <2>1
  <2> QED BY <1>3, <2>2
<1> QED BY <1>4

----------------------------------------------------------------------------
(* Upscaling                                                               *)

\* What the constants and a plan's numbers are.
LEMMA TileNumbers ==
    ASSUME size \in Nat \ {0}
    PROVE  /\ Side \in Nat \ {0} /\ Overlap \in Nat /\ Overlap >= 2 /\ Overlap < Side /\ Scale \in Nat \ {0}
           /\ Step \in Nat \ {0} /\ Step = Side - Overlap
           /\ \A x \in 0 .. size - 1 :
                  /\ Extent(x) \in Nat \ {0} /\ Extent(x) <= Side /\ x + Extent(x) <= size
                  /\ x + Side <= size => Extent(x) = Side
                  /\ x + Extent(x) < size => Extent(x) = Side
                  /\ x + Side >= size => x + Extent(x) = size
<1>1. /\ Side \in Nat \ {0} /\ Overlap \in Nat /\ Overlap >= 2 /\ Overlap < Side /\ Scale \in Nat \ {0}
  BY TilesAssumption
<1>2. Step \in Nat \ {0} /\ Step = Side - Overlap
  BY <1>1 DEF Step
<1> QED BY <1>1, <1>2 DEF Extent, Lesser

\* A weight is positive inside the tile, except on a side where another tile begins.
LEMMA SidedPositive ==
    ASSUME NEW q \in Int, NEW edge \in Nat \ {0}, NEW extent \in Nat, NEW low \in BOOLEAN, NEW high \in BOOLEAN,
           q < extent, low => q > 0, ~low => q >= 0
    PROVE  Sided(q, edge, extent, low, high) > 0
BY DEF Sided, Lesser

\* The tile that holds a pixel gives it a weight, or else the one before it does.
LEMMA UpscaleCovered ==
    ASSUME size \in Nat \ {0}
    PROVE  UpscaleCovers
<1> SUFFICES ASSUME NEW q \in 0 .. size * Scale - 1
             PROVE  \E x \in UpscaleStarts :
                        q \in x * Scale .. (x + Extent(x)) * Scale - 1 /\ UpscaleWeight(x, q) > 0
  BY DEF UpscaleCovers
<1>1. /\ Side \in Nat \ {0} /\ Overlap \in Nat /\ Overlap >= 2 /\ Overlap < Side /\ Scale \in Nat \ {0}
      /\ Step \in Nat \ {0} /\ Step = Side - Overlap
  BY TileNumbers
<1> DEFINE p == q \div Scale
           rest == q % Scale
           x == p - (p % Step)
<1>2. q \in Nat /\ size * Scale \in Nat
  BY <1>1
<1>3. p \in Nat /\ rest \in 0 .. Scale - 1 /\ q = Scale * p + rest
  BY <1>1, <1>2, Divided
<1>4. p < size
  <2> SUFFICES ASSUME p >= size PROVE FALSE
    BY <1>3
  <2>1. Scale * p >= Scale * size
    BY <1>1, <1>3, SMT
  <2> QED BY <1>1, <1>2, <1>3, <2>1
<1>5. /\ p % Step \in 0 .. Step - 1 /\ x \in Nat /\ x <= p /\ x % Step = 0 /\ p - x < Step
  <2>1. p % Step \in 0 .. Step - 1 /\ p \div Step \in Nat /\ p = Step * (p \div Step) + (p % Step)
    BY <1>1, <1>3, Divided
  <2>2. x = Step * (p \div Step)
    BY <2>1, <1>3, <1>1
  <2>3. (Step * (p \div Step)) % Step = 0
    BY <2>1, <1>1, NoRemainder
  <2>4. x % Step = 0
    BY <2>2, <2>3
  <2>5. p - x = p % Step
    BY <2>2, <2>1, <1>1, <1>3
  <2> HIDE DEF x
  <2> QED BY <2>1, <2>4, <2>5, <2>2, <1>1, <1>3
<1> HIDE DEF p, rest, x
<1>6. \A y \in Nat : y < size /\ y % Step = 0 => y \in UpscaleStarts
  BY DEF UpscaleStarts, Reaching
<1>7. x \in UpscaleStarts /\ x \in 0 .. size - 1
  BY <1>4, <1>5, <1>3, <1>6
<1>8. /\ Extent(x) \in Nat \ {0} /\ Extent(x) <= Side /\ x + Extent(x) <= size
      /\ x + Extent(x) < size => Extent(x) = Side
  BY <1>7, TileNumbers
<1>9. p - x < Extent(x)
  BY <1>8, <1>5, <1>4, <1>1, <1>3
<1>10. p + 1 <= x + Extent(x)
  BY <1>9, <1>8, <1>5, <1>3
<1>11. x * Scale <= p * Scale /\ (p + 1) * Scale <= (x + Extent(x)) * Scale
  <2>1. \A i, j \in Nat : i <= j => i * Scale <= j * Scale
    BY <1>1, SMT
  <2> QED BY <2>1, <1>3, <1>5, <1>8, <1>10
<1>12. /\ x * Scale \in Nat /\ (x + Extent(x)) * Scale \in Nat /\ Extent(x) * Scale \in Nat
       /\ (x + Extent(x)) * Scale = x * Scale + Extent(x) * Scale /\ p * Scale = Scale * p
       /\ (p + 1) * Scale = p * Scale + Scale /\ Overlap * Scale \in Nat \ {0}
  BY <1>1, <1>3, <1>5, <1>8, SMT
<1>13. q \in x * Scale .. (x + Extent(x)) * Scale - 1
  BY <1>2, <1>3, <1>11, <1>12, <1>1
<1>14. CASE x > 0 /\ q = x * Scale
  <2> DEFINE y == x - Step
  <2>1. x >= Step
    <3>1. 0 % Step = 0
      BY <1>1
    <3>2. x >= 0 + Step
      BY <3>1, <1>14, <1>5, <1>1, Multiples
    <3> QED BY <3>2, <1>1
  <2>2. y \in Nat /\ y % Step = 0 /\ y < size /\ y <= x /\ x = y + Step
    BY <2>1, <1>1, <1>5, <1>7, Multiples
  <2> HIDE DEF y
  <2>3. y \in UpscaleStarts /\ y \in 0 .. size - 1
    BY <2>2, <1>6
  <2>4. /\ Extent(y) \in Nat \ {0} /\ Extent(y) <= Side /\ y + Extent(y) <= size
        /\ y + Extent(y) < size => Extent(y) = Side
    BY <2>3, TileNumbers
  <2>5. Step < Extent(y) /\ x = y + Step
    <3>1. x = y + Step
      BY <2>2
    <3>2. CASE y + Extent(y) < size
      BY <3>1, <3>2, <2>4, <1>1
    <3>3. CASE y + Extent(y) = size
      BY <3>3, <3>1, <1>7, <2>4, <2>2, <1>1
    <3> QED BY <3>1, <3>2, <3>3, <2>4, <2>2
  <2>6. /\ x * Scale = y * Scale + Step * Scale /\ Step * Scale \in Nat \ {0} /\ y * Scale \in Nat
        /\ Extent(y) * Scale \in Nat /\ (y + Extent(y)) * Scale = y * Scale + Extent(y) * Scale
        /\ Step * Scale < Extent(y) * Scale
    <3>1. Step * Scale \in Nat \ {0} /\ y * Scale \in Nat /\ Extent(y) * Scale \in Nat
      BY <1>1, <2>2, <2>4, SMT
    <3>2. (y + Step) * Scale = y * Scale + Step * Scale /\ (y + Extent(y)) * Scale = y * Scale + Extent(y) * Scale
      BY <1>1, <2>2, <2>4, SMT
    <3>3. (Step + 1) * Scale <= Extent(y) * Scale /\ (Step + 1) * Scale = Step * Scale + Scale
      <4>1. \A i, j \in Nat : i <= j => i * Scale <= j * Scale
        BY <1>1, SMT
      <4>2. Step + 1 \in Nat /\ Step + 1 <= Extent(y)
        BY <1>1, <2>4, <2>5
      <4>3. (Step + 1) * Scale = Step * Scale + Scale
        BY <1>1, SMT
      <4> QED BY <4>1, <4>2, <4>3, <2>4
    <3> QED BY <3>1, <3>2, <3>3, <2>5, <1>1
  <2>7. q - y * Scale = Step * Scale
    BY <2>6, <1>14, <1>12
  <2>8. UpscaleWeight(y, q) > 0
    <3> DEFINE d == q - y * Scale
    <3>1. d \in Int /\ d < Extent(y) * Scale /\ (y > 0 => d > 0) /\ (~(y > 0) => d >= 0)
      BY <2>6, <2>7
    <3>2. \A v \in Int, e \in Nat \ {0}, n \in Nat, l, h \in BOOLEAN :
              v < n /\ (l => v > 0) /\ (~l => v >= 0) => Sided(v, e, n, l, h) > 0
      BY SidedPositive
    <3>3. (y > 0) \in BOOLEAN /\ (y + Extent(y) < size) \in BOOLEAN
      OBVIOUS
    <3> HIDE DEF d
    <3>4. Sided(d, Overlap * Scale, Extent(y) * Scale, y > 0, y + Extent(y) < size) > 0
      BY <3>1, <3>2, <3>3, <2>6, <1>12
    <3> QED BY <3>4 DEF UpscaleWeight, d
  <2>9. q \in y * Scale .. (y + Extent(y)) * Scale - 1
    BY <2>6, <2>7, <1>2
  <2> QED BY <2>3, <2>8, <2>9
<1>15. CASE ~(x > 0 /\ q = x * Scale)
  <2>1. q - x * Scale \in Nat /\ q - x * Scale < Extent(x) * Scale
    BY <1>12, <1>13, <1>2
  <2>2. x > 0 => q - x * Scale > 0
    BY <2>1, <1>15, <1>12, <1>2
  <2>3. UpscaleWeight(x, q) > 0
    <3> DEFINE d == q - x * Scale
    <3>1. d \in Int /\ d < Extent(x) * Scale /\ (x > 0 => d > 0) /\ (~(x > 0) => d >= 0)
      BY <2>1, <2>2
    <3>2. \A v \in Int, e \in Nat \ {0}, n \in Nat, l, h \in BOOLEAN :
              v < n /\ (l => v > 0) /\ (~l => v >= 0) => Sided(v, e, n, l, h) > 0
      BY SidedPositive
    <3>3. (x > 0) \in BOOLEAN /\ (x + Extent(x) < size) \in BOOLEAN
      OBVIOUS
    <3> HIDE DEF d
    <3>4. Sided(d, Overlap * Scale, Extent(x) * Scale, x > 0, x + Extent(x) < size) > 0
      BY <3>1, <3>2, <3>3, <1>12
    <3> QED BY <3>4 DEF UpscaleWeight, d
  <2> QED BY <2>3, <1>7, <1>13
<1> QED BY <1>14, <1>15

----------------------------------------------------------------------------
(* LaMa                                                                    *)

\* A grid is kept, and its last tile pulled back where it does not reach the end.
LEMMA ReachingHas ==
    ASSUME size \in Nat \ {0}, NEW grid, grid \subseteq 0 .. size - 1, NEW x \in grid, \A y \in grid : y <= x
    PROVE  /\ grid \subseteq Reaching(grid)
           /\ x + Side < size => size - Side \in Reaching(grid)
<1> DEFINE final == CHOOSE g \in grid : \A y \in grid : y <= g
<1>1. final \in grid /\ \A y \in grid : y <= final
  OBVIOUS
<1>2. final = x
  <2>1. final \in Int /\ x \in Int /\ final <= x /\ x <= final
    <3> HIDE DEF final
    <3> QED BY <1>1
  <2> HIDE DEF final
  <2> QED BY <2>1
<1>3. Reaching(grid) = grid \cup (IF final + Side < size THEN {size - Side} ELSE {})
  BY DEF Reaching
<1> HIDE DEF final
<1> QED BY <1>2, <1>3

\* Every pixel lies inside some tile, the border of the image apart.
LEMMA LamaCovered ==
    ASSUME size \in Nat \ {0}
    PROVE  LamaCovers
<1> SUFFICES ASSUME NEW p \in 1 .. size - 2
             PROVE  \E x \in LamaStarts : p \in x .. x + Extent(x) - 1 /\ LamaWeight(x, p) > 0
  BY DEF LamaCovers
<1>1. /\ Side \in Nat \ {0} /\ Overlap \in Nat /\ Overlap >= 2 /\ Overlap < Side
      /\ Step \in Nat \ {0} /\ Step = Side - Overlap
  BY TileNumbers
<1> DEFINE grid == {x \in 0 .. size - 1 : x % Step = 0 /\ (x = 0 \/ x + Side <= size)}
           before == {x \in grid : x < p}
<1>2. 0 \in before
  BY <1>1
<1>3. before \subseteq Nat /\ before # {} /\ p \in Nat /\ \A x \in before : x <= p
  BY <1>2
<1>4. PICK x \in before : \A y \in before : y <= x
  <2> HIDE DEF before
  <2> QED BY <1>2, <1>3, GreatestOfSome
<1>5. x \in 0 .. size - 1 /\ x % Step = 0 /\ x \in grid /\ x < p /\ (x = 0 \/ x + Side <= size)
  BY <1>4
<1>6. grid \subseteq 0 .. size - 1 /\ LamaStarts = Reaching(grid)
  BY DEF LamaStarts
<1>7. grid \subseteq LamaStarts
  BY <1>6 DEF Reaching
<1>8. \A y \in LamaStarts :
          y \in 0 .. size - 1 /\ y < p /\ p < y + Extent(y) - 1
              => p \in y .. y + Extent(y) - 1 /\ LamaWeight(y, p) > 0
  <2> SUFFICES ASSUME NEW y \in LamaStarts, y \in 0 .. size - 1, y < p, p < y + Extent(y) - 1
               PROVE  p \in y .. y + Extent(y) - 1 /\ LamaWeight(y, p) > 0
    OBVIOUS
  <2>1. Extent(y) \in Nat
    BY TileNumbers
  <2> QED BY <2>1, <1>1 DEF LamaWeight, Lesser
<1>9. Extent(x) \in Nat /\ (x + Side <= size => Extent(x) = Side) /\ (x + Side >= size => x + Extent(x) = size)
  BY <1>5, TileNumbers
<1>10. CASE p < x + Extent(x) - 1
  BY <1>10, <1>5, <1>7, <1>8
<1>11. CASE ~(p < x + Extent(x) - 1)
  <2>1. x + Side < size /\ p >= x + Side - 1
    BY <1>11, <1>9, <1>5, <1>1
  <2>2. x + Step \notin before /\ x + Step < p /\ x + Step \in 0 .. size - 1
    BY <2>1, <1>4, <1>5, <1>1
  <2>3. (x + Step) % Step = 0
    <3>1. x \in Nat
      BY <1>5
    <3> QED BY <3>1, <1>5, <1>1, Multiples
  <2>4. x + Step + Side > size
    BY <2>2, <2>3, <1>5, <1>1
  <2>5. ASSUME NEW y \in grid PROVE y <= x
    <3> SUFFICES ASSUME y > x PROVE FALSE
      BY <1>5
    <3>1. y \in Nat /\ y % Step = 0 /\ y + Side <= size /\ x \in Nat
      BY <1>5
    <3>2. y >= x + Step
      BY <3>1, <1>5, <1>1, Multiples
    <3> QED BY <3>1, <3>2, <2>4, <1>1
  <2> HIDE DEF grid, before
  <2>6. size - Side \in LamaStarts
    BY <1>5, <1>6, <2>1, <2>5, ReachingHas
  <2>7. size - Side \in 0 .. size - 1 /\ (size - Side) + Side <= size
    BY <2>1, <1>5, <1>1
  <2>8. Extent(size - Side) = Side
    BY <2>7, TileNumbers
  <2>9. size - Side < p /\ p < size - 1
    BY <2>1, <2>4, <1>1, <1>5
  <2> QED BY <2>6, <2>7, <2>8, <2>9, <1>8, <1>1
<1> QED BY <1>10, <1>11

----------------------------------------------------------------------------
(* Stable Diffusion                                                        *)

\* Rounded up, a quotient is large enough and not a whole step too large.
LEMMA CeilIs ==
    ASSUME NEW a \in Nat \ {0}, NEW b \in Nat \ {0}
    PROVE  DivCeil(a, b) \in Nat \ {0} /\ b * DivCeil(a, b) >= a /\ b * (DivCeil(a, b) - 1) < a
<1> DEFINE n == (a + b - 1) \div b
<1>1. n \in Nat /\ (a + b - 1) % b \in 0 .. b - 1 /\ a + b - 1 = b * n + ((a + b - 1) % b)
  <2>1. a + b - 1 \in Nat
    OBVIOUS
  <2> QED BY <2>1, Divided
<1> DEFINE r == (a + b - 1) % b
<1> HIDE DEF n, r
<1>2. b * n \in Nat /\ b * (n - 1) = b * n - b
  BY <1>1, SMT
<1>3. n # 0
  <2>1. b * 0 = 0
    OBVIOUS
  <2> QED BY <2>1, <1>1 DEF r
<1>4. b * n >= a /\ b * (n - 1) < a
  BY <1>1, <1>2 DEF r
<1> QED BY <1>1, <1>3, <1>4 DEF DivCeil, n

\* The one tile of a small region holds it.
LEMMA OneTile ==
    ASSUME size \in Nat \ {0}, lo \in 0 .. size - 1, hi \in lo .. size - 1, Span <= Side
    PROVE  SdCovers
<1> SUFFICES ASSUME NEW p \in lo .. hi
             PROVE  /\ p \in SdStart(0) .. SdStart(0) + Lesser(Side, size) - 1
                    /\ 2 * SdAlpha(0, p) >= SdOverlap
                    /\ 0 \in 0 .. TileCount - 1
  BY DEF SdCovers
<1>1. Side \in Nat \ {0} /\ SdOverlap \in Nat
  BY TilesAssumption DEF SdOverlap
<1>2. TileCount = 1
  BY DEF TileCount
<1>3. SdStart(0) = Lesser(lo, size - Lesser(Side, size))
  BY <1>1 DEF SdStart
<1>4. SdAlpha(0, p) = SdOverlap
  BY <1>1, <1>2 DEF SdAlpha, Lesser
<1> QED BY <1>1, <1>2, <1>3, <1>4 DEF Lesser, Span

\* Of a large region each pixel lies in the tile of its step or in the one before it, in
\* the half where that one is strong.
LEMMA ManyTiles ==
    ASSUME size \in Nat \ {0}, lo \in 0 .. size - 1, hi \in lo .. size - 1, Span > Side
    PROVE  SdCovers
<1> SUFFICES ASSUME NEW p \in lo .. hi
             PROVE  \E i \in 0 .. TileCount - 1 :
                        /\ p \in SdStart(i) .. SdStart(i) + Lesser(Side, size) - 1
                        /\ 2 * SdAlpha(i, p) >= SdOverlap
  BY DEF SdCovers
<1> DEFINE d == Side - SdOverlap
           n == TileCount
           k == (p - lo) \div d
           i == Lesser(k, n - 1)
<1>1. PICK e \in Nat \ {0} : Side = 8 * e
  <2>1. Side \in Nat \ {0} /\ Side % 8 = 0
    BY TilesAssumption
  <2>2. Side \div 8 \in Nat \ {0} /\ Side = 8 * (Side \div 8)
    BY <2>1
  <2> QED BY <2>2
<1>2. SdOverlap = 2 * e /\ d = 6 * e /\ d \in Nat \ {0}
  BY <1>1 DEF SdOverlap
<1>3. size > Side /\ Lesser(Side, size) = Side /\ Span = hi - lo + 1
  BY <1>1 DEF Span, Lesser
<1>4. n \in Nat /\ n - 1 \in Nat \ {0} /\ d * (n - 1) >= Span - Side /\ d * (n - 2) < Span - Side
  <2>1. Span - Side \in Nat \ {0}
    BY <1>1, <1>3
  <2>2. n = DivCeil(Span - Side, d) + 1
    BY <1>1, <1>3 DEF TileCount
  <2> DEFINE c == DivCeil(Span - Side, d)
  <2>3. c \in Nat \ {0} /\ d * c >= Span - Side /\ d * (c - 1) < Span - Side
    BY <2>1, <1>2, CeilIs
  <2> HIDE DEF c, d
  <2>4. n = c + 1 /\ n - 1 = c /\ n - 2 = c - 1
    BY <2>2, <2>3 DEF c
  <2> QED BY <2>3, <2>4
<1>5. k \in Nat /\ p - lo = d * k + ((p - lo) % d) /\ (p - lo) % d \in 0 .. d - 1
  <2>1. p - lo \in Nat
    OBVIOUS
  <2> QED BY <2>1, <1>2, Divided
<1>6. i \in Nat /\ i <= k /\ i <= n - 1 /\ (i = k \/ i = n - 1)
  BY <1>4, <1>5 DEF Lesser
<1>7. \A j \in Nat : SdStart(j) = Lesser(lo + j * d, size - Side)
  BY <1>3 DEF SdStart
<1>8. \A j \in Nat : SdAlpha(j, p) =
          Lesser(IF j > 0 THEN Lesser(p - SdStart(j), SdOverlap) ELSE SdOverlap,
                 IF j + 1 < n THEN Lesser(Side - (p - SdStart(j) + 1), SdOverlap) ELSE SdOverlap)
  BY <1>3 DEF SdAlpha
<1> HIDE DEF d, n, k, i
<1>9. \A j, m \in Nat : j <= m => j * d <= m * d /\ j * d \in Nat /\ m * d \in Nat
  BY <1>2, SMT
<1>10. i * d \in Nat /\ i * d <= k * d /\ k * d = d * k /\ (i + 1) * d = i * d + d
  BY <1>2, <1>5, <1>6, <1>9, SMT
<1> DEFINE rest == p - lo - i * d
<1>11. rest \in Nat /\ (i < n - 1 => rest < d)
  BY <1>5, <1>6, <1>10, <1>4, <1>2
<1>12. rest < Side
  <2>1. CASE i < n - 1
    BY <2>1, <1>11, <1>1, <1>2
  <2>2. CASE i = n - 1
    <3>1. i * d = d * (n - 1)
      BY <2>2, <1>2, <1>4, <1>6, SMT
    <3> QED BY <3>1, <1>4, <1>3, <1>1, <1>10
  <2> QED BY <2>1, <2>2, <1>6, <1>4
<1>13. ASSUME NEW j \in Nat, j < n - 1 PROVE SdStart(j) = lo + j * d /\ j * d \in Nat
  <2>1. j * d <= (n - 2) * d /\ j * d \in Nat /\ (n - 2) * d = d * (n - 2)
    <3>1. n - 2 \in Nat /\ j <= n - 2
      BY <1>13, <1>4
    <3>2. (n - 2) * d = d * (n - 2)
      BY <3>1, <1>2, SMT
    <3> QED BY <3>1, <3>2, <1>9
  <2>2. lo + j * d <= size - Side
    BY <2>1, <1>4, <1>3, <1>1, <1>2
  <2> QED BY <2>1, <2>2, <1>7, <1>3, <1>1 DEF Lesser
<1> DEFINE off == p - SdStart(i)
<1>14. SdStart(i) \in Nat /\ off \in rest .. Side - 1
  <2>1. SdStart(i) = Lesser(lo + i * d, size - Side)
    BY <1>6, <1>7
  <2>2. SdStart(i) \in {lo + i * d, size - Side} /\ SdStart(i) <= lo + i * d
    BY <2>1, <1>10, <1>3, <1>1 DEF Lesser
  <2> QED BY <2>2, <1>11, <1>12, <1>10, <1>3, <1>1
<1>15. i < n - 1 => off = rest
  BY <1>13, <1>6, <1>10
<1> HIDE DEF rest
<1>16. CASE i = 0 \/ 2 * off >= SdOverlap
  <2>1. SdAlpha(i, p) = Lesser(IF i > 0 THEN Lesser(off, SdOverlap) ELSE SdOverlap,
                 IF i + 1 < n THEN Lesser(Side - (off + 1), SdOverlap) ELSE SdOverlap)
    BY <1>6, <1>8
  <2>2. off \in Nat /\ off < Side
    BY <1>14, <1>11, <1>1
  <2> HIDE DEF off
  <2>3. i + 1 < n => Side - (off + 1) >= SdOverlap
    BY <1>15, <1>11, <1>2, <1>1, <1>6, <1>4
  <2>4. 2 * SdAlpha(i, p) >= SdOverlap
    <3>1. Side - (off + 1) \in Nat /\ SdOverlap \in Nat
      BY <2>2, <1>1, <1>2
    <3>2. SdAlpha(i, p) \in {off, SdOverlap, Side - (off + 1)} /\ SdAlpha(i, p) \in Nat
      BY <2>1, <2>2, <3>1 DEF Lesser
    <3>3. i = 0 => SdAlpha(i, p) # off \/ off >= SdOverlap
      BY <2>1, <2>2, <2>3, <3>1 DEF Lesser
    <3>4. SdAlpha(i, p) = Side - (off + 1) => i + 1 < n \/ Side - (off + 1) >= SdOverlap \/ SdAlpha(i, p) = off
      BY <2>1, <2>2, <3>1, <1>6 DEF Lesser
    <3>5. i + 1 < n \/ i + 1 = n
      BY <1>6, <1>4
    <3> QED BY <3>1, <3>2, <3>3, <3>4, <2>3, <2>2, <1>16, <1>6
  <2>5. p \in SdStart(i) .. SdStart(i) + Side - 1
    <3>1. p = SdStart(i) + off
      BY <1>14 DEF off
    <3> QED BY <3>1, <2>2, <1>14, <1>1
  <2>6. i \in 0 .. n - 1
    BY <1>6, <1>4
  <2> QED BY <2>4, <2>5, <2>6, <1>3 DEF n
<1>17. CASE ~(i = 0 \/ 2 * off >= SdOverlap)
  <2>1. i - 1 \in Nat /\ i - 1 < n - 1 /\ off \in Nat
    BY <1>17, <1>6, <1>4, <1>14, <1>11
  <2>2. rest \in Nat /\ 2 * rest < SdOverlap
    BY <1>17, <1>14, <1>11, <1>2
  <2>3. SdStart(i - 1) = lo + (i - 1) * d /\ (i - 1) * d = i * d - d
    <3>1. (i - 1) * d = i * d - d
      BY <2>1, <1>6, <1>2, SMT
    <3> QED BY <3>1, <2>1, <1>13
  <2>4. p - SdStart(i - 1) = rest + d
    BY <2>3, <1>2, <1>10 DEF rest
  <2>5. SdAlpha(i - 1, p) = Lesser(IF i - 1 > 0 THEN Lesser(rest + d, SdOverlap) ELSE SdOverlap,
                                   IF i - 1 + 1 < n THEN Lesser(Side - (rest + d + 1), SdOverlap) ELSE SdOverlap)
    BY <2>1, <2>4, <1>8
  <2>6. 2 * (Side - (rest + d + 1)) >= SdOverlap /\ rest + d >= SdOverlap
    BY <2>2, <1>1, <1>2
  <2>7. 2 * SdAlpha(i - 1, p) >= SdOverlap
    BY <2>5, <2>6, <2>2, <2>1, <1>1, <1>2 DEF Lesser
  <2>8. p \in SdStart(i - 1) .. SdStart(i - 1) + Side - 1
    BY <2>2, <2>3, <2>4, <1>1, <1>2, <1>10
  <2>9. i - 1 \in 0 .. n - 1
    BY <2>1, <1>6, <1>4
  <2> QED BY <2>7, <2>8, <2>9, <1>3 DEF n
<1> QED BY <1>16, <1>17

\* The one crop holds the region.
LEMMA CropCovered ==
    ASSUME size \in Nat \ {0}, lo \in 0 .. size - 1, hi \in lo .. size - 1
    PROVE  CropCovers
<1> SUFFICES ASSUME CropSides # {}
             PROVE  /\ CropStart + Crop <= size
                    /\ CropStart <= lo
                    /\ hi <= CropStart + Crop - (IF Span = Crop THEN 0 ELSE 1)
  BY DEF CropCovers
<1> DEFINE s == CHOOSE s \in CropSides : \A r \in CropSides : s <= r
<1>1. CropSides \subseteq Nat
  <2>1. Side \in Nat
    BY TilesAssumption
  <2> QED BY <2>1 DEF CropSides
<1>2. s \in CropSides
  <2>1. \E t \in CropSides : \A r \in CropSides : t <= r
    BY <1>1, LeastOfSome
  <2> QED BY <2>1
<1>3. s \in Nat /\ s >= Span
  BY <1>1, <1>2 DEF CropSides
<1>4. Crop = Lesser(s, size)
  BY DEF Crop
<1> HIDE DEF s
<1>5. Crop \in Nat /\ Crop <= size /\ Crop >= hi - lo + 1 /\ Span = hi - lo + 1
  BY <1>3, <1>4 DEF Lesser, Span
<1> DEFINE middle == (lo + hi) \div 2
           half == Crop \div 2
<1>6. CropStart = Lesser(middle - Lesser(middle, half), size - Crop)
  BY DEF CropStart
<1>7. /\ middle \in Nat /\ 2 * middle <= lo + hi /\ lo + hi <= 2 * middle + 1
      /\ half \in Nat /\ 2 * half <= Crop /\ Crop <= 2 * half + 1
  BY <1>5
<1> HIDE DEF middle, half
<1> QED BY <1>5, <1>6, <1>7 DEF Lesser

\* No pixel is left out, whatever the sizes and wherever the region lies.
LEMMA TilesCovered ==
    ASSUME size \in Nat \ {0}, lo \in 0 .. size - 1, hi \in lo .. size - 1
    PROVE  TilesCover
<1>1. Span \in Int /\ Side \in Int
  BY TilesAssumption DEF Span
<1>2. SdCovers
  BY <1>1, OneTile, ManyTiles
<1> QED BY <1>2, UpscaleCovered, LamaCovered, CropCovered DEF TilesCover

----------------------------------------------------------------------------
(* Windows                                                                 *)

Marks == {0, 1}

\* The mark an extremum looks for.
Sought(pick) == IF pick = "max" THEN 1 ELSE 0

\* The extremum of marks is the one looked for, where there is one.
LEMMA ExtremeIs ==
    ASSUME NEW pick, NEW S, S \subseteq Marks, S # {}
    PROVE  Extreme(pick, S) \in Marks /\ (Extreme(pick, S) = Sought(pick) <=> Sought(pick) \in S)
<1>1. S = {0} \/ S = {1} \/ S = {0, 1}
  BY DEF Marks
<1>2. \A n \in Marks : (\A y \in {n} : n >= y) /\ (\A y \in {n} : n <= y)
  BY DEF Marks
<1>3. CASE S = {0}
  <2>1. Max(S) = 0 /\ Min(S) = 0
    BY <1>3 DEF Max, Min
  <2> QED BY <2>1, <1>3 DEF Extreme, Greatest, Smallest, Sought, Marks
<1>4. CASE S = {1}
  <2>1. Max(S) = 1 /\ Min(S) = 1
    BY <1>4 DEF Max, Min
  <2> QED BY <2>1, <1>4 DEF Extreme, Greatest, Smallest, Sought, Marks
<1>5. CASE S = {0, 1}
  <2>1. Max(S) = 1
    <3>1. 1 \in S /\ \A y \in S : 1 >= y
      BY <1>5
    <3>2. \A x \in S : (\A y \in S : x >= y) => x = 1
      BY <1>5
    <3> QED BY <3>1, <3>2 DEF Max
  <2>2. Min(S) = 0
    <3>1. 0 \in S /\ \A y \in S : 0 <= y
      BY <1>5
    <3>2. \A x \in S : (\A y \in S : x <= y) => x = 0
      BY <1>5
    <3> QED BY <3>1, <3>2 DEF Min
  <2> QED BY <2>1, <2>2, <1>5 DEF Extreme, Greatest, Smallest, Sought, Marks
<1> QED BY <1>1, <1>3, <1>4, <1>5

\* The extremum of a part of a line is the mark looked for if the part has it.
LEMMA ExtremeOfLine ==
    ASSUME NEW pick, NEW n \in Nat, NEW f \in [0 .. n - 1 -> Marks],
           NEW P, P \subseteq 0 .. n - 1, P # {}
    PROVE  /\ Extreme(pick, {f[j] : j \in P}) \in Marks
           /\ Extreme(pick, {f[j] : j \in P}) = Sought(pick) <=> \E j \in P : f[j] = Sought(pick)
<1> DEFINE S == {f[j] : j \in P}
<1>1. S \subseteq Marks /\ S # {}
  OBVIOUS
<1>2. Sought(pick) \in S <=> \E j \in P : f[j] = Sought(pick)
  BY Zenon
<1> HIDE DEF S
<1>3. Extreme(pick, S) \in Marks /\ (Extreme(pick, S) = Sought(pick) <=> Sought(pick) \in S)
  BY <1>1, ExtremeIs
<1> QED BY <1>2, <1>3 DEF S

\* Where the block of k indices that holds a begins.
BlockOf(k, a) == a - (a % k)

\* Of two indices less than a block apart, the later is in the same block or in the next.
LEMMA NextBlock ==
    ASSUME NEW k \in Nat \ {0}, NEW a \in Nat, NEW b \in Nat, a <= b, b - a < k
    PROVE  /\ BlockOf(k, a) \in Nat /\ BlockOf(k, a) <= a /\ a < BlockOf(k, a) + k
           /\ BlockOf(k, b) \in Nat /\ BlockOf(k, b) <= b /\ b < BlockOf(k, b) + k
           /\ BlockOf(k, b) \in {BlockOf(k, a), BlockOf(k, a) + k}
           /\ a \div k = b \div k <=> BlockOf(k, a) = BlockOf(k, b)
<1> DEFINE A == a - (a % k)
           B == b - (b % k)
           m == a \div k
           l == b \div k
<1>1. m \in Nat /\ A = k * m /\ A \in Nat /\ A <= a /\ a < A + k
  <2>1. m \in Nat /\ a % k \in 0 .. k - 1 /\ a = k * m + (a % k)
    BY Divided
  <2>2. k * m \in Nat
    BY <2>1, SMT
  <2> HIDE DEF m
  <2> QED BY <2>1, <2>2
<1>2. l \in Nat /\ B = k * l /\ B \in Nat /\ B <= b /\ b < B + k
  <2>1. l \in Nat /\ b % k \in 0 .. k - 1 /\ b = k * l + (b % k)
    BY Divided
  <2>2. k * l \in Nat
    BY <2>1, SMT
  <2> HIDE DEF l
  <2> QED BY <2>1, <2>2
<1> HIDE DEF A, B, m, l
<1>3. A % k = 0 /\ B % k = 0
  BY <1>1, <1>2, NoRemainder
<1>4. (A + k) % k = 0 /\ (A + k) \in Nat
  BY <1>1, <1>3, Multiples
<1>5. B >= A
  <2> SUFFICES ASSUME A > B PROVE FALSE
    BY <1>1, <1>2
  <2>1. A >= B + k
    BY <1>1, <1>2, <1>3, Multiples
  <2> QED BY <2>1, <1>1, <1>2
<1>6. B > A => B >= A + k
  BY <1>1, <1>2, <1>3, Multiples
<1>7. ~(B > A + k)
  <2> SUFFICES ASSUME B > A + k PROVE FALSE
    OBVIOUS
  <2>1. B >= A + k + k
    BY <1>1, <1>2, <1>3, <1>4, Multiples
  <2> QED BY <2>1, <1>1, <1>2
<1>8. B \in {A, A + k}
  BY <1>1, <1>2, <1>5, <1>6, <1>7
<1>9. A = B => m = l
  <2> SUFFICES ASSUME k * m = k * l PROVE m = l
    BY <1>1, <1>2
  <2>1. m < l => k * m < k * l
    BY <1>1, <1>2, SMT
  <2>2. l < m => k * l < k * m
    BY <1>1, <1>2, SMT
  <2>3. k * m \in Nat /\ k * l \in Nat
    BY <1>1, <1>2
  <2> QED BY <2>1, <2>2, <2>3, <1>1, <1>2
<1> QED BY <1>1, <1>2, <1>8, <1>9 DEF A, B, m, l, BlockOf

\* What a prefix and a suffix cover.
PrefixSpan(r, i)    == (i - (i % (2 * r + 1))) .. i
SuffixSpan(n, r, i) == i .. Lesser(i - (i % (2 * r + 1)) + (2 * r + 1) - 1, n - 1)

\* Suffixes and prefixes cover the window around i, and nothing else.
CoverWindow(suffixes, prefixes, n, r, i) ==
    /\ suffixes \cup prefixes \subseteq 0 .. n - 1 /\ suffixes \cup prefixes # {}
    /\ \A j \in prefixes : PrefixSpan(r, j) \subseteq 0 .. n - 1 /\ PrefixSpan(r, j) # {}
    /\ \A j \in suffixes : SuffixSpan(n, r, j) \subseteq 0 .. n - 1 /\ SuffixSpan(n, r, j) # {}
    /\ \A m \in Int : (\E j \in suffixes : m \in SuffixSpan(n, r, j)) \/ (\E j \in prefixes : m \in PrefixSpan(r, j))
                     <=> m \in 0 .. n - 1 /\ m \in i - r .. i + r

\* So do those that window_line takes.
LEMMA TapsCover ==
    ASSUME NEW n \in Nat \ {0}, NEW r \in Nat, NEW i \in 0 .. n - 1
    PROVE  CoverWindow(Taps(i, n, r).suffix, Taps(i, n, r).prefix, n, r, i)
<1> DEFINE k == 2 * r + 1
           final == n - 1
           taps == Taps(i, n, r)
           Block(a) == BlockOf(k, a)
<1>1. k \in Nat \ {0} /\ final \in Nat /\ k = 2 * r + 1 /\ n = final + 1
  OBVIOUS
<1>2. \A a \in Nat : PrefixSpan(r, a) = Block(a) .. a /\ SuffixSpan(n, r, a) = a .. Lesser(Block(a) + k - 1, final)
  BY DEF PrefixSpan, SuffixSpan, BlockOf
<1>3. \A a \in Nat : Block(a) \in Nat /\ Block(a) <= a /\ a < Block(a) + k
  <2> HIDE DEF k
  <2>1. \A a \in Nat : a <= a /\ a - a < k
    BY <1>1
  <2> QED BY <1>1, <2>1, NextBlock
<1>4. \A a, b \in Nat : a <= b /\ b - a < k => Block(b) \in {Block(a), Block(a) + k} /\ (a \div k = b \div k <=> Block(a) = Block(b))
  <2> SUFFICES ASSUME NEW a \in Nat, NEW b \in Nat, a <= b, b - a < k
               PROVE  Block(b) \in {Block(a), Block(a) + k} /\ (a \div k = b \div k <=> Block(a) = Block(b))
    OBVIOUS
  <2> HIDE DEF k
  <2>1. k \in Nat \ {0}
    BY <1>1
  <2>2. /\ BlockOf(k, b) \in {BlockOf(k, a), BlockOf(k, a) + k}
        /\ a \div k = b \div k <=> BlockOf(k, a) = BlockOf(k, b)
    BY <2>1, NextBlock
  <2> QED BY <2>2
<1>5. taps = IF i < r THEN [suffix |-> {}, prefix |-> {Lesser(i + r, final)}]
             ELSE IF i + r <= final THEN [suffix |-> {i - r}, prefix |-> {i + r}]
             ELSE IF (i - r) \div k = final \div k THEN [suffix |-> {i - r}, prefix |-> {}]
             ELSE [suffix |-> {i - r}, prefix |-> {final}]
  BY DEF Taps
<1> HIDE DEF k, final, taps, Block
<1>6. CASE i < r
  <2> DEFINE e == Lesser(i + r, final)
  <2>1. e \in 0 .. final /\ e < k /\ e <= i + r /\ (e = final \/ e = i + r)
    BY <1>1, <1>6 DEF Lesser
  <2>2. taps = [suffix |-> {}, prefix |-> {e}]
    BY <1>5, <1>6
  <2> HIDE DEF e
  <2>3. Block(e) = 0
    <3>1. Block(0) = 0
      BY <1>3
    <3>2. Block(e) \in {Block(0), Block(0) + k}
      BY <1>4, <2>1, <1>1
    <3>3. Block(e) <= e
      BY <1>3, <2>1
    <3> QED BY <3>1, <3>2, <3>3, <2>1, <1>1
  <2>4. PrefixSpan(r, e) = 0 .. e
    BY <2>3, <2>1, <1>2
  <2>5. \A m \in Int : m \in 0 .. e <=> m \in 0 .. n - 1 /\ m \in i - r .. i + r
    BY <2>1, <1>1, <1>6
  <2>6. CoverWindow({}, {e}, n, r, i)
    <3>1. e \in 0 .. n - 1 /\ PrefixSpan(r, e) \subseteq 0 .. n - 1 /\ e \in PrefixSpan(r, e)
      BY <2>1, <2>4, <1>1
    <3> QED BY <2>4, <2>5, <3>1 DEF CoverWindow
  <2>7. taps.suffix = {} /\ taps.prefix = {e}
    BY <2>2
  <2>8. CoverWindow(taps.suffix, taps.prefix, n, r, i)
    BY <2>6, <2>7, Zenon
  <2> QED BY <2>8 DEF taps
<1>7. CASE ~(i < r) /\ i + r <= final
  <2> DEFINE a == i - r
             b == i + r
  <2>1. a \in Nat /\ b \in Nat /\ b = a + k - 1 /\ a <= b /\ b - a < k /\ b <= final
    BY <1>1, <1>7
  <2>2. taps = [suffix |-> {a}, prefix |-> {b}]
    BY <1>5, <1>7, <1>1
  <2>3. \A j : j \in i - r .. i + r <=> j \in a .. b
    OBVIOUS
  <2> HIDE DEF a, b
  <2>4. Block(b) \in {Block(a), Block(a) + k} /\ Block(a) <= a /\ a < Block(a) + k /\ Block(b) <= b /\ b < Block(b) + k
        /\ Block(a) \in Nat /\ Block(b) \in Nat
    BY <2>1, <1>3, <1>4
  <2>5. Block(b) >= a /\ Block(a) + k - 1 <= b /\ Block(b) <= Block(a) + k
    BY <2>1, <2>4, <1>1
  <2>6. SuffixSpan(n, r, a) = a .. Block(a) + k - 1 /\ PrefixSpan(r, b) = Block(b) .. b
    BY <2>1, <2>4, <2>5, <1>1, <1>2 DEF Lesser
  <2>7. \A m \in Int : m \in SuffixSpan(n, r, a) \/ m \in PrefixSpan(r, b) <=> m \in a .. b
    BY <2>1, <2>4, <2>5, <2>6, <1>1
  <2>8. \A m \in Int : m \in a .. b <=> m \in 0 .. n - 1 /\ m \in i - r .. i + r
    BY <2>1, <2>3, <1>1
  <2>9. a \in SuffixSpan(n, r, a) /\ b \in PrefixSpan(r, b)
    BY <2>1, <2>4, <2>5, <2>6, <1>1
  <2>10. SuffixSpan(n, r, a) \subseteq 0 .. n - 1 /\ PrefixSpan(r, b) \subseteq 0 .. n - 1
    BY <2>1, <2>4, <2>5, <2>6, <1>1
  <2>11. a \in 0 .. n - 1 /\ b \in 0 .. n - 1
    BY <2>1, <1>1
  <2>12. CoverWindow({a}, {b}, n, r, i)
    BY <2>7, <2>8, <2>9, <2>10, <2>11 DEF CoverWindow
  <2>13. taps.suffix = {a} /\ taps.prefix = {b}
    BY <2>2
  <2>14. CoverWindow(taps.suffix, taps.prefix, n, r, i)
    BY <2>12, <2>13, Zenon
  <2> QED BY <2>14 DEF taps
<1>8. CASE ~(i < r) /\ ~(i + r <= final)
  <2> DEFINE a == i - r
  <2>1. a \in Nat /\ a <= final /\ final - a < k /\ final < i + r
    BY <1>1, <1>8
  <2>2. \A m \in Int : m \in a .. final <=> m \in 0 .. n - 1 /\ m \in i - r .. i + r
    BY <2>1, <1>1
  <2>3. taps = IF a \div k = final \div k THEN [suffix |-> {a}, prefix |-> {}] ELSE [suffix |-> {a}, prefix |-> {final}]
    BY <1>5, <1>8
  <2> HIDE DEF a
  <2>4. Block(final) \in {Block(a), Block(a) + k} /\ Block(a) <= a /\ a < Block(a) + k /\ Block(final) <= final /\ final < Block(final) + k
        /\ Block(a) \in Nat /\ Block(final) \in Nat /\ (a \div k = final \div k <=> Block(a) = Block(final))
    BY <2>1, <1>1, <1>3, <1>4
  <2>5. SuffixSpan(n, r, a) = a .. Lesser(Block(a) + k - 1, final) /\ PrefixSpan(r, final) = Block(final) .. final
    BY <2>1, <1>1, <1>2
  <2>6. CASE a \div k = final \div k
    <3>1. SuffixSpan(n, r, a) = a .. final
      BY <2>6, <2>5, <2>4, <2>1, <1>1 DEF Lesser
    <3>2. taps = [suffix |-> {a}, prefix |-> {}]
      BY <2>3, <2>6
    <3>3. a \in 0 .. n - 1 /\ SuffixSpan(n, r, a) \subseteq 0 .. n - 1 /\ a \in SuffixSpan(n, r, a)
      BY <3>1, <2>1, <1>1
    <3>4. CoverWindow({a}, {}, n, r, i)
      BY <2>2, <3>1, <3>3 DEF CoverWindow
    <3>5. taps.suffix = {a} /\ taps.prefix = {}
      BY <3>2
    <3>6. CoverWindow(taps.suffix, taps.prefix, n, r, i)
      BY <3>4, <3>5, Zenon
    <3> QED BY <3>6 DEF taps
  <2>7. CASE ~(a \div k = final \div k)
    <3>1. Block(final) = Block(a) + k
      BY <2>7, <2>4
    <3>2. SuffixSpan(n, r, a) = a .. Block(a) + k - 1
      BY <3>1, <2>5, <2>4, <2>1, <1>1 DEF Lesser
    <3>3. \A m \in Int : m \in SuffixSpan(n, r, a) \/ m \in PrefixSpan(r, final) <=> m \in a .. final
      BY <3>1, <3>2, <2>5, <2>4, <2>1, <1>1
    <3>4. taps = [suffix |-> {a}, prefix |-> {final}]
      BY <2>3, <2>7
    <3>5. a \in SuffixSpan(n, r, a) /\ final \in PrefixSpan(r, final)
      BY <3>1, <3>2, <2>5, <2>4, <2>1, <1>1
    <3>6. SuffixSpan(n, r, a) \subseteq 0 .. n - 1 /\ PrefixSpan(r, final) \subseteq 0 .. n - 1
      BY <3>1, <3>2, <2>5, <2>4, <2>1, <1>1
    <3>7. a \in 0 .. n - 1 /\ final \in 0 .. n - 1
      BY <2>1, <1>1
    <3>8. CoverWindow({a}, {final}, n, r, i)
      BY <2>2, <3>3, <3>5, <3>6, <3>7 DEF CoverWindow
    <3>9. taps.suffix = {a} /\ taps.prefix = {final}
      BY <3>4
    <3>10. CoverWindow(taps.suffix, taps.prefix, n, r, i)
      BY <3>8, <3>9, Zenon
    <3> QED BY <3>10 DEF taps
  <2> QED BY <2>6, <2>7
<1> QED BY <1>6, <1>7, <1>8

\* window_line finds the mark it looks for where the window has it.
LEMMA WindowLineIs ==
    ASSUME NEW n \in Nat \ {0}, NEW r \in Nat, NEW f \in [0 .. n - 1 -> Marks], NEW pick
    PROVE  /\ WindowLine(f, n, r, pick) \in [0 .. n - 1 -> Marks]
           /\ \A i \in 0 .. n - 1 :
                  WindowLine(f, n, r, pick)[i] = Sought(pick)
                      <=> \E j \in 0 .. n - 1 : j \in i - r .. i + r /\ f[j] = Sought(pick)
<1> DEFINE swept == WindowLine(f, n, r, pick)
<1>1. ASSUME NEW i \in 0 .. n - 1
      PROVE  /\ swept[i] \in Marks
             /\ swept[i] = Sought(pick) <=> \E j \in 0 .. n - 1 : j \in i - r .. i + r /\ f[j] = Sought(pick)
  <2> DEFINE taps == Taps(i, n, r)
             S == {Suffix(f, n, r, pick, j) : j \in taps.suffix} \cup {Prefix(f, n, r, pick, j) : j \in taps.prefix}
  <2>1. swept[i] = Extreme(pick, S)
    BY DEF WindowLine
  <2>2. CoverWindow(taps.suffix, taps.prefix, n, r, i)
    BY TapsCover
  <2> HIDE DEF swept, taps
  <2>3. ASSUME NEW j \in taps.suffix
        PROVE  /\ Suffix(f, n, r, pick, j) \in Marks
               /\ Suffix(f, n, r, pick, j) = Sought(pick) <=> \E m \in SuffixSpan(n, r, j) : f[m] = Sought(pick)
    <3>1. Suffix(f, n, r, pick, j) = Extreme(pick, {f[m] : m \in SuffixSpan(n, r, j)})
      BY DEF Suffix, SuffixSpan
    <3> DEFINE P == SuffixSpan(n, r, j)
    <3>2. P \subseteq 0 .. n - 1 /\ P # {}
      BY <2>2 DEF CoverWindow
    <3> HIDE DEF P
    <3>3. /\ Extreme(pick, {f[m] : m \in P}) \in Marks
          /\ Extreme(pick, {f[m] : m \in P}) = Sought(pick) <=> \E m \in P : f[m] = Sought(pick)
      BY <3>2, ExtremeOfLine
    <3> QED BY <3>1, <3>3 DEF P
  <2>4. ASSUME NEW j \in taps.prefix
        PROVE  /\ Prefix(f, n, r, pick, j) \in Marks
               /\ Prefix(f, n, r, pick, j) = Sought(pick) <=> \E m \in PrefixSpan(r, j) : f[m] = Sought(pick)
    <3>1. Prefix(f, n, r, pick, j) = Extreme(pick, {f[m] : m \in PrefixSpan(r, j)})
      BY DEF Prefix, PrefixSpan
    <3> DEFINE P == PrefixSpan(r, j)
    <3>2. P \subseteq 0 .. n - 1 /\ P # {}
      BY <2>2 DEF CoverWindow
    <3> HIDE DEF P
    <3>3. /\ Extreme(pick, {f[m] : m \in P}) \in Marks
          /\ Extreme(pick, {f[m] : m \in P}) = Sought(pick) <=> \E m \in P : f[m] = Sought(pick)
      BY <3>2, ExtremeOfLine
    <3> QED BY <3>1, <3>3 DEF P
  <2>5. S \subseteq Marks /\ S # {}
    <3>1. S \subseteq Marks
      BY <2>3, <2>4
    <3>2. taps.suffix # {} \/ taps.prefix # {}
      BY <2>2 DEF CoverWindow
    <3> QED BY <3>1, <3>2
  <2>6. Sought(pick) \in S <=> \/ \E j \in taps.suffix : \E m \in SuffixSpan(n, r, j) : f[m] = Sought(pick)
                               \/ \E j \in taps.prefix : \E m \in PrefixSpan(r, j) : f[m] = Sought(pick)
    BY <2>3, <2>4
  <2>7. Sought(pick) \in S <=> \E j \in 0 .. n - 1 : j \in i - r .. i + r /\ f[j] = Sought(pick)
    <3>1. \A j \in taps.suffix : SuffixSpan(n, r, j) \subseteq Int
      BY <2>2 DEF CoverWindow
    <3>2. \A j \in taps.prefix : PrefixSpan(r, j) \subseteq Int
      BY <2>2 DEF CoverWindow
    <3>3. \A m \in Int : (\E j \in taps.suffix : m \in SuffixSpan(n, r, j)) \/ (\E j \in taps.prefix : m \in PrefixSpan(r, j))
                       <=> m \in 0 .. n - 1 /\ m \in i - r .. i + r
      BY <2>2 DEF CoverWindow
    <3> QED BY <3>1, <3>2, <3>3, <2>6
  <2> HIDE DEF S
  <2> QED BY <2>1, <2>5, <2>7, ExtremeIs
<1>2. swept = [i \in 0 .. n - 1 |-> swept[i]]
  BY DEF WindowLine
<1> HIDE DEF swept
<1>3. swept \in [0 .. n - 1 -> Marks]
  BY <1>1, <1>2
<1> QED BY <1>1, <1>3 DEF swept

\* A mask is marks on an area.
MaskTypes == wide \in Nat \ {0} /\ tall \in Nat \ {0} /\ ink \in [Pixels -> Marks] /\ radius \in Nat

\* Two marks that are the one looked for together are the same.
LEMMA SameMark ==
    ASSUME NEW pick, NEW m \in Marks, NEW n \in Marks, m = Sought(pick) <=> n = Sought(pick)
    PROVE  m = n
BY DEF Marks, Sought

\* Pixels are pairs.
LEMMA PixelPairs ==
    ASSUME MaskTypes
    PROVE  /\ \A p \in Pixels : p[1] \in 0 .. wide - 1 /\ p[2] \in 0 .. tall - 1 /\ p = <<p[1], p[2]>>
           /\ \A x \in 0 .. wide - 1, y \in 0 .. tall - 1 : <<x, y>> \in Pixels /\ ink[<<x, y>>] \in Marks
           /\ \A p \in Pixels : ink[p] \in Marks
<1>1. \A p \in Pixels : p[1] \in 0 .. wide - 1 /\ p[2] \in 0 .. tall - 1 /\ p = <<p[1], p[2]>>
  BY DEF Pixels, Area
<1>2. \A x \in 0 .. wide - 1, y \in 0 .. tall - 1 : <<x, y>> \in Pixels
  BY DEF Pixels, Area
<1>3. \A p \in Pixels : ink[p] \in Marks
  BY DEF MaskTypes
<1> QED BY <1>1, <1>2, <1>3

\* The extremum of the marks of some pixels.
LEMMA ExtremeOfInk ==
    ASSUME MaskTypes, NEW pick, NEW P, P \subseteq Pixels, P # {}
    PROVE  /\ Extreme(pick, Ink(P)) \in Marks
           /\ Extreme(pick, Ink(P)) = Sought(pick) <=> \E q \in P : ink[q] = Sought(pick)
<1>1. Ink(P) \subseteq Marks /\ Ink(P) # {}
  BY PixelPairs DEF Ink
<1>2. Sought(pick) \in Ink(P) <=> \E q \in P : ink[q] = Sought(pick)
  BY DEF Ink
<1> QED BY <1>1, <1>2, ExtremeIs

\* shift_by finds the mark it looks for where the square around a pixel has it.
LEMMA ShiftedRight ==
    ASSUME MaskTypes, NEW pick, NEW p \in Pixels
    PROVE  Shifted(pick)[p] = Extreme(pick, Ink(Near(p, radius)))
<1> DEFINE rows == [y \in 0 .. tall - 1 |-> WindowLine(RowOf(ink, wide, y), wide, radius, pick)]
           Column(x) == WindowLine([y \in 0 .. tall - 1 |-> rows[y][x]], tall, radius, pick)
           Here(v) == v \in 0 .. tall - 1 /\ v \in p[2] - radius .. p[2] + radius
           There(u) == u \in 0 .. wide - 1 /\ u \in p[1] - radius .. p[1] + radius
<1>1. Shifted(pick)[p] = Column(p[1])[p[2]]
  BY DEF Shifted
<1>2. /\ wide \in Nat \ {0} /\ tall \in Nat \ {0} /\ radius \in Nat
      /\ p[1] \in 0 .. wide - 1 /\ p[2] \in 0 .. tall - 1
  BY PixelPairs DEF MaskTypes
<1>3. ASSUME NEW y \in 0 .. tall - 1
      PROVE  /\ rows[y] \in [0 .. wide - 1 -> Marks]
             /\ \A x \in 0 .. wide - 1 :
                    rows[y][x] = Sought(pick)
                        <=> \E u \in 0 .. wide - 1 : u \in x - radius .. x + radius /\ ink[<<u, y>>] = Sought(pick)
  <2> DEFINE f == RowOf(ink, wide, y)
  <2>1. f \in [0 .. wide - 1 -> Marks] /\ \A u \in 0 .. wide - 1 : f[u] = ink[<<u, y>>]
    BY PixelPairs DEF RowOf
  <2>2. rows[y] = WindowLine(f, wide, radius, pick)
    OBVIOUS
  <2> HIDE DEF f, rows
  <2>3. /\ WindowLine(f, wide, radius, pick) \in [0 .. wide - 1 -> Marks]
        /\ \A i \in 0 .. wide - 1 :
               WindowLine(f, wide, radius, pick)[i] = Sought(pick)
                   <=> \E j \in 0 .. wide - 1 : j \in i - radius .. i + radius /\ f[j] = Sought(pick)
    BY <1>2, <2>1, WindowLineIs
  <2> QED BY <2>1, <2>2, <2>3
<1> HIDE DEF rows
<1> DEFINE g == [y \in 0 .. tall - 1 |-> rows[y][p[1]]]
<1>4. g \in [0 .. tall - 1 -> Marks]
  BY <1>2, <1>3
<1>5. Column(p[1]) = WindowLine(g, tall, radius, pick)
  OBVIOUS
<1>6. \A v \in 0 .. tall - 1 : g[v] = rows[v][p[1]]
  OBVIOUS
<1> HIDE DEF g, Column
<1>7. /\ WindowLine(g, tall, radius, pick) \in [0 .. tall - 1 -> Marks]
      /\ \A i \in 0 .. tall - 1 :
             WindowLine(g, tall, radius, pick)[i] = Sought(pick)
                 <=> \E j \in 0 .. tall - 1 : j \in i - radius .. i + radius /\ g[j] = Sought(pick)
  BY <1>2, <1>4, WindowLineIs
<1>8. Shifted(pick)[p] \in Marks
  BY <1>1, <1>2, <1>5, <1>7
<1>9. Shifted(pick)[p] = Sought(pick) <=> \E v \in 0 .. tall - 1 : Here(v) /\ g[v] = Sought(pick)
  BY <1>1, <1>2, <1>5, <1>7
<1>10. Shifted(pick)[p] = Sought(pick)
           <=> \E v \in 0 .. tall - 1, u \in 0 .. wide - 1 : Here(v) /\ There(u) /\ ink[<<u, v>>] = Sought(pick)
  <2>1. \A v \in 0 .. tall - 1 : g[v] = Sought(pick) <=> \E u \in 0 .. wide - 1 : There(u) /\ ink[<<u, v>>] = Sought(pick)
    BY <1>2, <1>3, <1>6
  <2> HIDE DEF Here, There
  <2> QED BY <1>9, <2>1
<1>11. Near(p, radius) \subseteq Pixels /\ p \in Near(p, radius)
  BY <1>2 DEF Near
<1>12. \A u \in 0 .. wide - 1, v \in 0 .. tall - 1 : <<u, v>> \in Near(p, radius) <=> Here(v) /\ There(u)
  BY PixelPairs DEF Near
<1>13. \A q \in Near(p, radius) : q[1] \in 0 .. wide - 1 /\ q[2] \in 0 .. tall - 1 /\ q = <<q[1], q[2]>>
  BY <1>11, PixelPairs
<1> HIDE DEF Here, There
<1>14. (\E q \in Near(p, radius) : ink[q] = Sought(pick))
           <=> \E v \in 0 .. tall - 1, u \in 0 .. wide - 1 : Here(v) /\ There(u) /\ ink[<<u, v>>] = Sought(pick)
  <2>1. ASSUME NEW q \in Near(p, radius), ink[q] = Sought(pick)
        PROVE  \E v \in 0 .. tall - 1, u \in 0 .. wide - 1 : Here(v) /\ There(u) /\ ink[<<u, v>>] = Sought(pick)
    <3>1. q[1] \in 0 .. wide - 1 /\ q[2] \in 0 .. tall - 1 /\ q = <<q[1], q[2]>>
      BY <1>13
    <3>2. Here(q[2]) /\ There(q[1])
      BY <3>1, <1>12
    <3>3. ink[<<q[1], q[2]>>] = Sought(pick)
      BY <3>1, <2>1
    <3> QED BY <3>1, <3>2, <3>3
  <2>2. ASSUME NEW v \in 0 .. tall - 1, NEW u \in 0 .. wide - 1, Here(v), There(u), ink[<<u, v>>] = Sought(pick)
        PROVE  \E q \in Near(p, radius) : ink[q] = Sought(pick)
    BY <2>2, <1>12
  <2> QED BY <2>1, <2>2
<1>15. /\ Extreme(pick, Ink(Near(p, radius))) \in Marks
       /\ Extreme(pick, Ink(Near(p, radius))) = Sought(pick) <=> \E q \in Near(p, radius) : ink[q] = Sought(pick)
  BY <1>11, ExtremeOfInk
<1> QED BY <1>8, <1>10, <1>14, <1>15, SameMark

\* How far the disc reaches to the sides, dy rows up or down.
LEMMA HalfWidthIs ==
    ASSUME radius \in Nat, NEW dy \in 0 .. radius
    PROVE  /\ HalfWidth(dy) \in 0 .. radius
           /\ \A m \in 0 .. radius : m <= HalfWidth(dy) <=> m * m <= radius * radius + radius - dy * dy
<1> DEFINE S == {m \in 0 .. radius : m * m <= radius * radius + radius - dy * dy}
<1>1. 0 \in S
  <2>1. dy * dy <= radius * radius
    BY SMT
  <2>2. 0 * 0 <= radius * radius + radius - dy * dy
    BY <2>1, SMT
  <2> QED BY <2>2
<1>2. S \subseteq Nat /\ S # {} /\ \A m \in S : m <= radius
  <2>1. S \subseteq 0 .. radius
    OBVIOUS
  <2> HIDE DEF S
  <2> QED BY <1>1, <2>1
<1>3. PICK w \in S : \A m \in S : m <= w
  <2> HIDE DEF S
  <2> QED BY <1>2, GreatestOfSome
<1>4. Max(S) = w
  <2>1. w \in S /\ \A y \in S : w >= y
    BY <1>2, <1>3
  <2>2. \A x \in S : (\A y \in S : x >= y) => x = w
    BY <1>2, <1>3
  <2> QED BY <2>1, <2>2 DEF Max
<1>5. HalfWidth(dy) = w
  BY <1>4 DEF HalfWidth, Greatest
<1>6. w \in 0 .. radius /\ w * w <= radius * radius + radius - dy * dy
  BY <1>3
<1>7. ASSUME NEW m \in 0 .. radius PROVE m <= w <=> m * m <= radius * radius + radius - dy * dy
  <2>1. m * m <= radius * radius + radius - dy * dy => m <= w
    BY <1>3
  <2>2. ASSUME m <= w PROVE m * m <= w * w
    BY <2>2, <1>6, SMT
  <2>3. m * m \in Int /\ w * w \in Int /\ radius * radius \in Int /\ dy * dy \in Int
    BY <1>6
  <2> QED BY <2>1, <2>2, <2>3, <1>6
<1> QED BY <1>5, <1>6, <1>7

\* A distance along an axis.
Off(a, b) == IF a < b THEN b - a ELSE a - b

\* The disc is made of rows of those widths.
LEMMA DiscRows ==
    ASSUME radius \in Nat, NEW dx \in Int, NEW dy \in Int
    PROVE  4 * (dx * dx + dy * dy) <= (2 * radius + 1) * (2 * radius + 1)
               <=> /\ Off(dy, 0) \in 0 .. radius
                   /\ Off(dx, 0) <= HalfWidth(Off(dy, 0))
<1> DEFINE r == radius
           x == Off(dx, 0)
           y == Off(dy, 0)
<1>1. x \in Nat /\ y \in Nat /\ x * x = dx * dx /\ y * y = dy * dy
  <2>1. x = dx \/ x = 0 - dx
    BY DEF Off
  <2>2. y = dy \/ y = 0 - dy
    BY DEF Off
  <2>3. (0 - dx) * (0 - dx) = dx * dx /\ (0 - dy) * (0 - dy) = dy * dy
    BY SMT
  <2> QED BY <2>1, <2>2, <2>3 DEF Off
<1> HIDE DEF x, y
<1>2. r * r \in Nat /\ x * x \in Nat /\ y * y \in Nat
  BY <1>1, SMT
<1>3. (2 * r + 1) * (2 * r + 1) = 4 * (r * r) + 4 * r + 1
  BY SMT
<1>4. 4 * (dx * dx + dy * dy) <= (2 * r + 1) * (2 * r + 1) <=> x * x + y * y <= r * r + r
  BY <1>1, <1>2, <1>3
<1>5. \A n \in Nat : n > r => n * n > r * r + r
  <2> SUFFICES ASSUME NEW n \in Nat, n > r PROVE n * n > r * r + r
    OBVIOUS
  <2>1. n * n >= (r + 1) * (r + 1)
    BY SMT
  <2>2. (r + 1) * (r + 1) = r * r + 2 * r + 1
    BY SMT
  <2> QED BY <2>1, <2>2, <1>2, SMT
<1>6. x * x + y * y <= r * r + r => x <= r /\ y <= r
  <2>1. x > r => x * x > r * r + r
    BY <1>1, <1>5
  <2>2. y > r => y * y > r * r + r
    BY <1>1, <1>5
  <2> QED BY <2>1, <2>2, <1>1, <1>2
<1>7. CASE y \in 0 .. r
  <2>1. /\ HalfWidth(y) \in 0 .. r
        /\ \A m \in 0 .. r : m <= HalfWidth(y) <=> m * m <= r * r + r - y * y
    BY <1>7, HalfWidthIs
  <2>2. CASE x \in 0 .. r
    <3>1. x <= HalfWidth(y) <=> x * x <= r * r + r - y * y
      BY <2>1, <2>2
    <3> QED BY <3>1, <1>2, <1>4, <1>7 DEF x, y
  <2>3. CASE x \notin 0 .. r
    <3>1. ~(x * x + y * y <= r * r + r)
      BY <2>3, <1>6, <1>1
    <3>2. ~(x <= HalfWidth(y))
      BY <2>1, <2>3, <1>1
    <3> QED BY <3>1, <3>2, <1>4 DEF x, y
  <2> QED BY <2>2, <2>3
<1>8. CASE y \notin 0 .. r
  <2>1. ~(x * x + y * y <= r * r + r)
    BY <1>8, <1>6, <1>1
  <2> QED BY <2>1, <1>4, <1>8 DEF y
<1> QED BY <1>7, <1>8

\* dilate_round finds a painted pixel where the disc around a pixel has one.
LEMMA RoundedRight ==
    ASSUME MaskTypes, NEW p \in Pixels
    PROVE  Rounded[p] = Greatest(Ink(InDisc(p, radius)))
<1> DEFINE Rows(y, dy) == {y - dy, y + dy} \cap (0 .. tall - 1)
           Merged(y, dy) == [x \in 0 .. wide - 1 |-> Greatest({ink[<<x, v>>] : v \in Rows(y, dy)})]
           Reached == {dy \in 0 .. radius : Rows(p[2], dy) # {}}
           Line(dy) == WindowLine(Merged(p[2], dy), wide, HalfWidth(dy), "max")
           found == {Line(dy)[p[1]] : dy \in Reached}
<1>1. /\ wide \in Nat \ {0} /\ tall \in Nat \ {0} /\ radius \in Nat
      /\ p[1] \in 0 .. wide - 1 /\ p[2] \in 0 .. tall - 1 /\ p = <<p[1], p[2]>>
  BY PixelPairs DEF MaskTypes
<1>2. Rounded[p] = Extreme("max", found)
  BY DEF Rounded, Extreme
<1>3. Sought("max") = 1
  BY DEF Sought
<1>4. ASSUME NEW dy \in Reached
      PROVE  /\ Line(dy)[p[1]] \in Marks
             /\ Line(dy)[p[1]] = 1
                    <=> \E u \in 0 .. wide - 1, v \in Rows(p[2], dy) :
                            u \in p[1] - HalfWidth(dy) .. p[1] + HalfWidth(dy) /\ ink[<<u, v>>] = 1
  <2> DEFINE f == Merged(p[2], dy)
             rows == Rows(p[2], dy)
  <2>1. rows # {} /\ rows \subseteq 0 .. tall - 1 /\ dy \in 0 .. radius
    OBVIOUS
  <2>2. f = [x \in 0 .. wide - 1 |-> Extreme("max", {ink[<<x, v>>] : v \in rows})]
    BY DEF Extreme
  <2>3. Line(dy) = WindowLine(f, wide, HalfWidth(dy), "max")
    OBVIOUS
  <2> HIDE DEF f, rows, Line
  <2>4. ASSUME NEW x \in 0 .. wide - 1
        PROVE  f[x] \in Marks /\ (f[x] = 1 <=> \E v \in rows : ink[<<x, v>>] = 1)
    <3> DEFINE S == {ink[<<x, v>>] : v \in rows}
    <3>1. S \subseteq Marks /\ S # {}
      BY <2>1, PixelPairs
    <3>2. 1 \in S <=> \E v \in rows : ink[<<x, v>>] = 1
      OBVIOUS
    <3>3. f[x] = Extreme("max", S)
      BY <2>2
    <3> HIDE DEF S
    <3> QED BY <3>1, <3>2, <3>3, <1>3, ExtremeIs
  <2>5. f \in [0 .. wide - 1 -> Marks]
    BY <2>2, <2>4
  <2>6. HalfWidth(dy) \in Nat
    BY <1>1, <2>1, HalfWidthIs
  <2>7. /\ Line(dy) \in [0 .. wide - 1 -> Marks]
        /\ \A i \in 0 .. wide - 1 :
               Line(dy)[i] = 1 <=> \E j \in 0 .. wide - 1 : j \in i - HalfWidth(dy) .. i + HalfWidth(dy) /\ f[j] = 1
    BY <2>3, <2>5, <2>6, <1>1, <1>3, WindowLineIs
  <2>8. Line(dy)[p[1]] = 1 <=> \E j \in 0 .. wide - 1 : j \in p[1] - HalfWidth(dy) .. p[1] + HalfWidth(dy) /\ f[j] = 1
    BY <2>7, <1>1
  <2>9. Line(dy)[p[1]] = 1 <=> \E u \in 0 .. wide - 1, v \in rows :
                            u \in p[1] - HalfWidth(dy) .. p[1] + HalfWidth(dy) /\ ink[<<u, v>>] = 1
    BY <2>8, <2>4
  <2> QED BY <2>7, <2>9, <1>1 DEF rows
<1> HIDE DEF Line
<1>5. 0 \in Reached
  BY <1>1
<1>6. found \subseteq Marks /\ found # {}
  BY <1>4, <1>5
<1>7. 1 \in found <=> \E dy \in Reached : Line(dy)[p[1]] = 1
  OBVIOUS
<1>8. Rounded[p] \in Marks /\ (Rounded[p] = 1 <=> \E dy \in Reached : Line(dy)[p[1]] = 1)
  <2> HIDE DEF found
  <2> QED BY <1>2, <1>3, <1>6, <1>7, ExtremeIs
<1> HIDE DEF found
<1>9. ASSUME NEW u \in 0 .. wide - 1, NEW v \in 0 .. tall - 1
      PROVE  <<u, v>> \in InDisc(p, radius)
                 <=> \E dy \in Reached : v \in Rows(p[2], dy) /\ u \in p[1] - HalfWidth(dy) .. p[1] + HalfWidth(dy)
  <2> DEFINE dx == p[1] - u
             d == p[2] - v
             e == Off(d, 0)
  <2>1. <<u, v>> \in InDisc(p, radius) <=> 4 * (dx * dx + d * d) <= (2 * radius + 1) * (2 * radius + 1)
    BY PixelPairs DEF InDisc
  <2>2. dx \in Int /\ d \in Int
    BY <1>1
  <2> HIDE DEF dx, d, e
  <2>3. <<u, v>> \in InDisc(p, radius) <=> e \in 0 .. radius /\ Off(dx, 0) <= HalfWidth(e)
    BY <2>1, <2>2, <1>1, DiscRows DEF e
  <2>4. \A dy \in 0 .. radius : v \in Rows(p[2], dy) <=> dy = e
    BY <1>1 DEF e, d, Off
  <2>5. \A w \in Nat : Off(dx, 0) <= w <=> u \in p[1] - w .. p[1] + w
    BY <1>1 DEF dx, Off
  <2>6. e \in 0 .. radius => HalfWidth(e) \in Nat
    BY <1>1, HalfWidthIs
  <2>7. e \in 0 .. radius => (e \in Reached /\ v \in Rows(p[2], e))
    BY <2>4
  <2>8. Reached \subseteq 0 .. radius
    OBVIOUS
  <2> HIDE DEF Reached, Rows
  <2> QED BY <2>3, <2>4, <2>5, <2>6, <2>7, <2>8
<1>10. \A dy \in Reached : Rows(p[2], dy) \subseteq 0 .. tall - 1
  OBVIOUS
<1>11. InDisc(p, radius) \subseteq Pixels
  BY DEF InDisc
<1> HIDE DEF Reached, Rows
<1>12. (\E dy \in Reached : Line(dy)[p[1]] = 1)
          <=> \E u \in 0 .. wide - 1, v \in 0 .. tall - 1 : <<u, v>> \in InDisc(p, radius) /\ ink[<<u, v>>] = 1
  <2>1. (\E dy \in Reached : Line(dy)[p[1]] = 1)
            <=> \E dy \in Reached : \E u \in 0 .. wide - 1, v \in Rows(p[2], dy) :
                    u \in p[1] - HalfWidth(dy) .. p[1] + HalfWidth(dy) /\ ink[<<u, v>>] = 1
    BY <1>4
  <2> QED BY <2>1, <1>9, <1>10
<1>13. (\E u \in 0 .. wide - 1, v \in 0 .. tall - 1 : <<u, v>> \in InDisc(p, radius) /\ ink[<<u, v>>] = 1)
          <=> \E q \in InDisc(p, radius) : ink[q] = 1
  <2>1. ASSUME NEW q \in InDisc(p, radius), ink[q] = 1
        PROVE  \E u \in 0 .. wide - 1, v \in 0 .. tall - 1 : <<u, v>> \in InDisc(p, radius) /\ ink[<<u, v>>] = 1
    <3>1. q[1] \in 0 .. wide - 1 /\ q[2] \in 0 .. tall - 1 /\ q = <<q[1], q[2]>>
      BY <1>11, PixelPairs
    <3>2. <<q[1], q[2]>> \in InDisc(p, radius) /\ ink[<<q[1], q[2]>>] = 1
      BY <3>1, <2>1
    <3> QED BY <3>1, <3>2
  <2> QED BY <2>1
<1>14. p \in InDisc(p, radius)
  <2>1. (p[1] - p[1]) * (p[1] - p[1]) + (p[2] - p[2]) * (p[2] - p[2]) = 0
    BY <1>1
  <2>2. (2 * radius + 1) * (2 * radius + 1) >= 0
    BY <1>1, SMT
  <2> QED BY <2>1, <2>2 DEF InDisc
<1>15. /\ Extreme("max", Ink(InDisc(p, radius))) \in Marks
       /\ Extreme("max", Ink(InDisc(p, radius))) = 1 <=> \E q \in InDisc(p, radius) : ink[q] = 1
  BY <1>3, <1>11, <1>14, ExtremeOfInk
<1>16. Rounded[p] = Extreme("max", Ink(InDisc(p, radius)))
  BY <1>3, <1>8, <1>12, <1>13, <1>15, SameMark
<1> QED BY <1>16 DEF Extreme

\* Of every mask.
LEMMA WindowsAreRight == ASSUME MaskTypes PROVE WindowsRight
<1>1. \A S : Extreme("max", S) = Greatest(S) /\ Extreme("min", S) = Smallest(S)
  BY DEF Extreme
<1> QED BY <1>1, ShiftedRight, RoundedRight DEF WindowsRight

----------------------------------------------------------------------------
(* Sums                                                                    *)

\* What f has is numbers, and S is finite.
Summable(f, S) == IsFiniteSet(S) /\ \A x \in S : f[x] \in Nat

\* The sum over two sets with no common member is the sum of the sums.
LEMMA SumOfBoth ==
    ASSUME NEW f, NEW S, NEW T, Summable(f, S \cup T), S \cap T = {}
    PROVE  /\ Total(f, S \cup T) = Total(f, S) + Total(f, T)
           /\ Total(f, S) \in Nat /\ Total(f, T) \in Nat /\ Total(f, S \cup T) \in Nat
<1>1. IsFiniteSet(S) /\ IsFiniteSet(T) /\ IsFiniteSet(S \cup T)
  <2>1. S \in SUBSET (S \cup T) /\ T \in SUBSET (S \cup T)
    OBVIOUS
  <2> QED BY <2>1, FS_Subset DEF Summable
<1>2. /\ IsFiniteSet(Tokens(f, S)) /\ IsFiniteSet(Tokens(f, T))
      /\ Total(f, S) \in Nat /\ Total(f, T) \in Nat /\ Total(f, S \cup T) \in Nat
  BY <1>1, TokensFinite DEF Summable
<1>3. Tokens(f, S \cup T) = Tokens(f, S) \cup Tokens(f, T)
  BY DEF Tokens
<1>4. Tokens(f, S) \cap Tokens(f, T) = {}
  BY DEF Tokens
<1>5. Cardinality(Tokens(f, S) \cup Tokens(f, T))
          = Cardinality(Tokens(f, S)) + Cardinality(Tokens(f, T)) - Cardinality(Tokens(f, S) \cap Tokens(f, T))
  BY <1>2, FS_Union
<1>6. Cardinality(Tokens(f, S) \cap Tokens(f, T)) = 0
  BY <1>4, FS_EmptySet
<1>7. /\ Total(f, S \cup T) = Cardinality(Tokens(f, S) \cup Tokens(f, T))
      /\ Total(f, S) = Cardinality(Tokens(f, S)) /\ Total(f, T) = Cardinality(Tokens(f, T))
  BY <1>3 DEF Total
<1> HIDE DEF Total
<1> QED BY <1>2, <1>5, <1>6, <1>7

\* Where f has nothing, the sum is nothing.
LEMMA SumOfNothing ==
    ASSUME NEW f, NEW S, \A x \in S : f[x] = 0
    PROVE  Total(f, S) = 0
<1>1. Tokens(f, S) = {}
  BY DEF Tokens
<1> QED BY <1>1, FS_EmptySet DEF Total

\* Members that have nothing do not count.
LEMMA SumOfSome ==
    ASSUME NEW f, NEW S, NEW T, T \subseteq S, Summable(f, S), \A x \in S \ T : f[x] = 0
    PROVE  Total(f, S) = Total(f, T) /\ Total(f, S) \in Nat
<1> DEFINE rest == S \ T
<1>1. S = T \cup rest /\ T \cap rest = {} /\ \A x \in rest : f[x] = 0
  OBVIOUS
<1> HIDE DEF rest
<1>2. Total(f, T \cup rest) = Total(f, T) + Total(f, rest) /\ Total(f, T) \in Nat
  BY <1>1, SumOfBoth
<1>3. Total(f, rest) = 0
  BY <1>1, SumOfNothing
<1> QED BY <1>1, <1>2, <1>3

\* Moved one by one, the members have the same sum.
LEMMA SumMoved ==
    ASSUME NEW f, NEW g, NEW S, NEW T, NEW m \in [S -> T],
           \A x, y \in S : m[x] = m[y] => x = y,
           \A y \in T : \E x \in S : y = m[x],
           \A x \in S : g[m[x]] = f[x],
           Summable(f, S)
    PROVE  Total(g, T) = Total(f, S)
<1> DEFINE M == Tokens(f, S)
           N == Tokens(g, T)
           b == [t \in M |-> <<m[t[1]], t[2]>>]
<1>1. \A t : t \in M <=> \E x \in S : \E n \in 1 .. f[x] : t = <<x, n>>
  BY DEF Tokens
<1>2. \A t : t \in N <=> \E y \in T : \E n \in 1 .. g[y] : t = <<y, n>>
  BY DEF Tokens
<1>3. IsFiniteSet(M)
  BY TokensFinite DEF Summable
<1> HIDE DEF M, N
<1>4. b \in [M -> N]
  <2> SUFFICES ASSUME NEW t \in M PROVE <<m[t[1]], t[2]>> \in N
    OBVIOUS
  <2>1. PICK x \in S : \E n \in 1 .. f[x] : t = <<x, n>>
    BY <1>1
  <2>2. PICK n \in 1 .. f[x] : t = <<x, n>>
    BY <2>1
  <2>3. m[x] \in T /\ g[m[x]] = f[x] /\ t[1] = x /\ t[2] = n
    BY <2>2
  <2> QED BY <2>2, <2>3, <1>2
<1>5. ASSUME NEW t \in M, NEW u \in M, b[t] = b[u] PROVE t = u
  <2>1. PICK x \in S : \E n \in 1 .. f[x] : t = <<x, n>>
    BY <1>1
  <2>2. PICK n \in 1 .. f[x] : t = <<x, n>>
    BY <2>1
  <2>3. PICK y \in S : \E k \in 1 .. f[y] : u = <<y, k>>
    BY <1>1
  <2>4. PICK k \in 1 .. f[y] : u = <<y, k>>
    BY <2>3
  <2>5. b[t] = <<m[x], n>> /\ b[u] = <<m[y], k>>
    BY <2>2, <2>4
  <2>6. m[x] = m[y] /\ n = k
    BY <2>5, <1>5
  <2> QED BY <2>6, <2>2, <2>4
<1>6. ASSUME NEW u \in N PROVE \E t \in M : b[t] = u
  <2>1. PICK y \in T : \E n \in 1 .. g[y] : u = <<y, n>>
    BY <1>2
  <2>2. PICK n \in 1 .. g[y] : u = <<y, n>>
    BY <2>1
  <2>3. PICK x \in S : y = m[x]
    OBVIOUS
  <2>4. n \in 1 .. f[x]
    BY <2>2, <2>3
  <2> DEFINE t == <<x, n>>
  <2>5. t \in M
    BY <1>1, <2>4
  <2>6. b[t] = <<m[x], n>>
    BY <2>5
  <2> QED BY <2>2, <2>3, <2>5, <2>6
<1>7. b \in Bijection(M, N)
  BY <1>4, <1>5, <1>6 DEF Bijection, Injection, Surjection, IsInjective
<1>8. Cardinality(N) = Cardinality(M)
  BY <1>3, <1>7, FS_Bijection DEF ExistsBijection
<1> QED BY <1>8 DEF Total, M, N

\* The sum of marks is the number of those that are set.
LEMMA SumOfMarks ==
    ASSUME NEW f, NEW S, IsFiniteSet(S), \A x \in S : f[x] \in Marks
    PROVE  Total(f, S) = Cardinality({x \in S : f[x] = 1})
<1> DEFINE set == {x \in S : f[x] = 1}
           b == [x \in set |-> <<x, 1>>]
<1>1. \A t : t \in Tokens(f, S) <=> \E x \in set : t = <<x, 1>>
  <2>1. \A t : t \in Tokens(f, S) <=> \E x \in S : \E n \in 1 .. f[x] : t = <<x, n>>
    BY DEF Tokens
  <2>2. \A x \in S, n \in Int : n \in 1 .. f[x] <=> f[x] = 1 /\ n = 1
    BY DEF Marks
  <2> QED BY <2>1, <2>2
<1>2. IsFiniteSet(set)
  BY FS_Subset
<1> HIDE DEF set
<1>3. b \in Bijection(set, Tokens(f, S))
  <2>1. b \in [set -> Tokens(f, S)]
    BY <1>1
  <2>2. \A x, y \in set : b[x] = b[y] => x = y
    OBVIOUS
  <2>3. \A t \in Tokens(f, S) : \E x \in set : b[x] = t
    BY <1>1
  <2> QED BY <2>1, <2>2, <2>3 DEF Bijection, Injection, Surjection, IsInjective
<1>4. Cardinality(Tokens(f, S)) = Cardinality(set)
  BY <1>2, <1>3, FS_Bijection DEF ExistsBijection
<1> QED BY <1>4 DEF Total, set

----------------------------------------------------------------------------
(* Prefix sums                                                             *)

\* Any part of an area is finite, and so is what a function has there.
LEMMA PartOfArea ==
    ASSUME NEW w \in Nat \ {0}, NEW h \in Nat \ {0}, NEW f \in [Area(w, h) -> Nat],
           NEW S, S \subseteq Area(w, h)
    PROVE  Summable(f, S) /\ Total(f, S) \in Nat
<1>1. IsFiniteSet(0 .. w - 1) /\ IsFiniteSet(0 .. h - 1)
  BY FS_Interval
<1>2. IsFiniteSet(Area(w, h))
  BY <1>1, FS_Product DEF Area
<1>3. IsFiniteSet(S)
  BY <1>2, FS_Subset
<1> QED BY <1>3, TokensFinite DEF Summable

\* A rectangle of an area that is cut in two has the sum of both.
LEMMA SumOfCut ==
    ASSUME NEW w \in Nat \ {0}, NEW h \in Nat \ {0}, NEW f \in [Area(w, h) -> Nat],
           NEW T, NEW U, T \cup U \subseteq Area(w, h), T \cap U = {}
    PROVE  Total(f, T \cup U) = Total(f, T) + Total(f, U) /\ Total(f, T) \in Nat /\ Total(f, U) \in Nat
<1>1. Summable(f, T \cup U)
  BY PartOfArea
<1> QED BY <1>1, SumOfBoth

\* The sum over a rectangle with a corner at the origin, and over its last row.
Corner(f, x, y) == Total(f, (0 .. x) \X (0 .. y))
Row(f, x, y)    == Total(f, (0 .. x) \X {y})

\* A row grows by a pixel, a rectangle by a row.
LEMMA CornerGrows ==
    ASSUME NEW w \in Nat \ {0}, NEW h \in Nat \ {0}, NEW f \in [Area(w, h) -> Nat],
           NEW x \in 0 .. w - 1, NEW y \in 0 .. h - 1
    PROVE  /\ Row(f, x, y) = f[<<x, y>>] + (IF x = 0 THEN 0 ELSE Row(f, x - 1, y))
           /\ Corner(f, x, y) = Row(f, x, y) + (IF y = 0 THEN 0 ELSE Corner(f, x, y - 1))
           /\ Row(f, x, y) \in Nat /\ Corner(f, x, y) \in Nat
<1>1. /\ (0 .. x) \X {y} \subseteq Area(w, h) /\ <<x, y>> \in Area(w, h)
      /\ (0 .. x) \X (0 .. y) \subseteq Area(w, h)
  BY DEF Area
<1>2. /\ Row(f, x, y) = Row(f, x - 1, y) + Total(f, {<<x, y>>})
      /\ Row(f, x - 1, y) \in Nat /\ Total(f, {<<x, y>>}) \in Nat
  <2> DEFINE S == (0 .. x) \X {y}
             T == (0 .. x - 1) \X {y}
             U == {<<x, y>>}
  <2>1. S = T \cup U /\ T \cap U = {}
    OBVIOUS
  <2>2. T \cup U \subseteq Area(w, h)
    <3>1. S \subseteq Area(w, h)
      BY <1>1
    <3> HIDE DEF S, T, U
    <3> QED BY <2>1, <3>1, Zenon
  <2> HIDE DEF S, T, U
  <2>3. Total(f, T \cup U) = Total(f, T) + Total(f, U) /\ Total(f, T) \in Nat /\ Total(f, U) \in Nat
    BY <2>1, <2>2, SumOfCut
  <2>4. Total(f, S) = Total(f, T) + Total(f, U)
    BY <2>1, <2>3, Zenon
  <2> QED BY <2>3, <2>4 DEF S, T, U, Row
<1>3. Corner(f, x, y) = Corner(f, x, y - 1) + Row(f, x, y) /\ Corner(f, x, y - 1) \in Nat /\ Row(f, x, y) \in Nat
  <2> DEFINE S == (0 .. x) \X (0 .. y)
             T == (0 .. x) \X (0 .. y - 1)
             U == (0 .. x) \X {y}
  <2>1. S = T \cup U /\ T \cap U = {}
    OBVIOUS
  <2>2. T \cup U \subseteq Area(w, h)
    <3>1. S \subseteq Area(w, h)
      BY <1>1
    <3> HIDE DEF S, T, U
    <3> QED BY <2>1, <3>1, Zenon
  <2> HIDE DEF S, T, U
  <2>3. Total(f, T \cup U) = Total(f, T) + Total(f, U) /\ Total(f, T) \in Nat /\ Total(f, U) \in Nat
    BY <2>1, <2>2, SumOfCut
  <2>4. Total(f, S) = Total(f, T) + Total(f, U)
    BY <2>1, <2>3, Zenon
  <2> QED BY <2>3, <2>4 DEF S, T, U, Row, Corner
<1>4. Total(f, {<<x, y>>}) = f[<<x, y>>] /\ f[<<x, y>>] \in Nat
  <2>1. Total(f, {} \cup {<<x, y>>}) = Total(f, {}) + f[<<x, y>>] /\ f[<<x, y>>] \in Nat
    BY <1>1, TotalWith, FS_EmptySet
  <2>2. {} \cup {<<x, y>>} = {<<x, y>>}
    OBVIOUS
  <2> QED BY <2>1, <2>2, TotalOfNobody
<1>5. x = 0 => Row(f, x - 1, y) = 0
  <2>1. x = 0 => (0 .. x - 1) \X {y} = {}
    OBVIOUS
  <2> QED BY <2>1, TotalOfNobody DEF Row
<1>6. y = 0 => Corner(f, x, y - 1) = 0
  <2>1. y = 0 => (0 .. x) \X (0 .. y - 1) = {}
    OBVIOUS
  <2> QED BY <2>1, TotalOfNobody DEF Corner
<1> QED BY <1>2, <1>3, <1>4, <1>5, <1>6

\* The equations of the two passes over an area.
RowPass(D, a, g) == [p \in D |-> a[p] + (IF p[1] = 0 THEN 0 ELSE g[<<p[1] - 1, p[2]>>])]
ColPass(D, a, g) == [p \in D |-> a[p] + (IF p[2] = 0 THEN 0 ELSE g[<<p[1], p[2] - 1>>])]

\* What solves them.
RowSolution(D, a) == CHOOSE g : g = RowPass(D, a, g)
ColSolution(D, a) == CHOOSE g : g = ColPass(D, a, g)

\* What the solutions are.
HasRows(r, f, w, h)    == \A x \in 0 .. w - 1, y \in 0 .. h - 1 : r[<<x, y>>] = Row(f, x, y)
HasCorners(s, f, w, h) == \A x \in 0 .. w - 1, y \in 0 .. h - 1 : s[<<x, y>>] = Corner(f, x, y)

\* The first pass gives the sums of rows.
LEMMA RowSums ==
    ASSUME NEW w \in Nat \ {0}, NEW h \in Nat \ {0}, NEW f \in [Area(w, h) -> Nat]
    PROVE  HasRows(RowSolution(Area(w, h), f), f, w, h)
<1> DEFINE D == Area(w, h)
           c == [p \in D |-> Row(f, p[1], p[2])]
           a == RowSolution(D, f)
<1>1. c = RowPass(D, f, c)
  <2>1. ASSUME NEW p \in D PROVE c[p] = f[p] + (IF p[1] = 0 THEN 0 ELSE c[<<p[1] - 1, p[2]>>])
    <3>1. p[1] \in 0 .. w - 1 /\ p[2] \in 0 .. h - 1 /\ p = <<p[1], p[2]>>
      BY DEF Area
    <3>2. p[1] # 0 => c[<<p[1] - 1, p[2]>>] = Row(f, p[1] - 1, p[2])
      <4>1. p[1] # 0 => <<p[1] - 1, p[2]>> \in D
        BY <3>1 DEF Area
      <4> HIDE DEF D
      <4> QED BY <4>1, <3>1
    <3>3. c[p] = Row(f, p[1], p[2])
      OBVIOUS
    <3>4. Row(f, p[1], p[2]) = f[<<p[1], p[2]>>] + (IF p[1] = 0 THEN 0 ELSE Row(f, p[1] - 1, p[2]))
      BY <3>1, CornerGrows
    <3> HIDE DEF c
    <3> QED BY <3>1, <3>2, <3>3, <3>4
  <2> QED BY <2>1 DEF RowPass
<1> HIDE DEF c
<1>2. a = RowPass(D, f, a)
  BY <1>1 DEF RowSolution
<1> HIDE DEF a
<1>3. ASSUME NEW x \in 0 .. w - 1, NEW y \in 0 .. h - 1
      PROVE  a[<<x, y>>] = f[<<x, y>>] + (IF x = 0 THEN 0 ELSE a[<<x - 1, y>>])
  <2>1. <<x, y>> \in D /\ <<x, y>>[1] = x /\ <<x, y>>[2] = y
    BY DEF Area
  <2>2. RowPass(D, f, a)[<<x, y>>] = f[<<x, y>>] + (IF x = 0 THEN 0 ELSE a[<<x - 1, y>>])
    BY <2>1, Zenon DEF RowPass
  <2> QED BY <1>2, <2>2, Zenon
<1> DEFINE P == {n \in Nat : n < w => \A y \in 0 .. h - 1 : a[<<n, y>>] = Row(f, n, y)}
<1>4. ASSUME NEW n \in Nat, n < w, NEW y \in 0 .. h - 1, n # 0 => a[<<n - 1, y>>] = Row(f, n - 1, y)
      PROVE  a[<<n, y>>] = Row(f, n, y)
  <2>1. n \in 0 .. w - 1
    BY <1>4
  <2>2. Row(f, n, y) = f[<<n, y>>] + (IF n = 0 THEN 0 ELSE Row(f, n - 1, y))
    BY <2>1, CornerGrows
  <2>3. a[<<n, y>>] = f[<<n, y>>] + (IF n = 0 THEN 0 ELSE a[<<n - 1, y>>])
    BY <2>1, <1>3
  <2> QED BY <2>2, <2>3, <1>4, Zenon
<1>5. 0 \in P
  BY <1>4
<1>6. ASSUME NEW n \in Nat, n \in P PROVE n + 1 \in P
  <2> SUFFICES ASSUME n + 1 < w, NEW y \in 0 .. h - 1 PROVE a[<<n + 1, y>>] = Row(f, n + 1, y)
    OBVIOUS
  <2> DEFINE k == n + 1
  <2>1. k \in Nat /\ k < w /\ k - 1 = n /\ n < w
    OBVIOUS
  <2>2. a[<<n, y>>] = Row(f, n, y)
    BY <1>6, <2>1
  <2> HIDE DEF k
  <2>3. a[<<k - 1, y>>] = Row(f, k - 1, y)
    BY <2>1, <2>2
  <2>4. a[<<k, y>>] = Row(f, k, y)
    BY <2>1, <2>3, <1>4
  <2> QED BY <2>4 DEF k
<1>7. Nat \subseteq P
  <2> HIDE DEF P
  <2> QED BY <1>5, <1>6, NatInductionOnSet
<1>8. ASSUME NEW x \in 0 .. w - 1, NEW y \in 0 .. h - 1 PROVE a[<<x, y>>] = Row(f, x, y)
  <2>1. x \in Nat /\ x < w
    OBVIOUS
  <2>2. x \in P
    BY <2>1, <1>7
  <2> QED BY <2>1, <2>2
<1> QED BY <1>8 DEF a, HasRows

\* The second gives those of rectangles.
LEMMA ColSums ==
    ASSUME NEW w \in Nat \ {0}, NEW h \in Nat \ {0}, NEW f \in [Area(w, h) -> Nat], NEW r, HasRows(r, f, w, h)
    PROVE  HasCorners(ColSolution(Area(w, h), r), f, w, h)
<1>0. \A x \in 0 .. w - 1, y \in 0 .. h - 1 : r[<<x, y>>] = Row(f, x, y)
  BY DEF HasRows
<1> DEFINE D == Area(w, h)
           c == [p \in D |-> Corner(f, p[1], p[2])]
           a == ColSolution(D, r)
<1>1. c = ColPass(D, r, c)
  <2>1. ASSUME NEW p \in D PROVE c[p] = r[p] + (IF p[2] = 0 THEN 0 ELSE c[<<p[1], p[2] - 1>>])
    <3>1. p[1] \in 0 .. w - 1 /\ p[2] \in 0 .. h - 1 /\ p = <<p[1], p[2]>>
      BY DEF Area
    <3>2. p[2] # 0 => c[<<p[1], p[2] - 1>>] = Corner(f, p[1], p[2] - 1)
      <4>1. p[2] # 0 => <<p[1], p[2] - 1>> \in D
        BY <3>1 DEF Area
      <4> HIDE DEF D
      <4> QED BY <4>1, <3>1
    <3>3. c[p] = Corner(f, p[1], p[2])
      OBVIOUS
    <3>4. Corner(f, p[1], p[2]) = Row(f, p[1], p[2]) + (IF p[2] = 0 THEN 0 ELSE Corner(f, p[1], p[2] - 1))
      BY <3>1, CornerGrows
    <3>5. Row(f, p[1], p[2]) = r[p]
      BY <3>1, <1>0
    <3> HIDE DEF c
    <3> QED BY <3>2, <3>3, <3>4, <3>5
  <2> QED BY <2>1 DEF ColPass
<1> HIDE DEF c
<1>2. a = ColPass(D, r, a)
  BY <1>1 DEF ColSolution
<1> HIDE DEF a
<1>3. ASSUME NEW x \in 0 .. w - 1, NEW y \in 0 .. h - 1
      PROVE  a[<<x, y>>] = r[<<x, y>>] + (IF y = 0 THEN 0 ELSE a[<<x, y - 1>>])
  <2>1. <<x, y>> \in D /\ <<x, y>>[1] = x /\ <<x, y>>[2] = y
    BY DEF Area
  <2>2. ColPass(D, r, a)[<<x, y>>] = r[<<x, y>>] + (IF y = 0 THEN 0 ELSE a[<<x, y - 1>>])
    BY <2>1, Zenon DEF ColPass
  <2> QED BY <1>2, <2>2, Zenon
<1> DEFINE P == {n \in Nat : n < h => \A x \in 0 .. w - 1 : a[<<x, n>>] = Corner(f, x, n)}
<1>4. ASSUME NEW n \in Nat, n < h, NEW x \in 0 .. w - 1, n # 0 => a[<<x, n - 1>>] = Corner(f, x, n - 1)
      PROVE  a[<<x, n>>] = Corner(f, x, n)
  <2>1. n \in 0 .. h - 1
    BY <1>4
  <2>2. Corner(f, x, n) = Row(f, x, n) + (IF n = 0 THEN 0 ELSE Corner(f, x, n - 1))
    BY <2>1, CornerGrows
  <2>3. a[<<x, n>>] = r[<<x, n>>] + (IF n = 0 THEN 0 ELSE a[<<x, n - 1>>])
    BY <2>1, <1>3
  <2>4. r[<<x, n>>] = Row(f, x, n)
    BY <2>1, <1>0
  <2> QED BY <2>2, <2>3, <2>4, <1>4, Zenon
<1>5. 0 \in P
  BY <1>4
<1>6. ASSUME NEW n \in Nat, n \in P PROVE n + 1 \in P
  <2> SUFFICES ASSUME n + 1 < h, NEW x \in 0 .. w - 1 PROVE a[<<x, n + 1>>] = Corner(f, x, n + 1)
    OBVIOUS
  <2> DEFINE k == n + 1
  <2>1. k \in Nat /\ k < h /\ k - 1 = n /\ n < h
    OBVIOUS
  <2>2. a[<<x, n>>] = Corner(f, x, n)
    BY <1>6, <2>1
  <2> HIDE DEF k
  <2>3. a[<<x, k - 1>>] = Corner(f, x, k - 1)
    BY <2>1, <2>2
  <2>4. a[<<x, k>>] = Corner(f, x, k)
    BY <2>1, <2>3, <1>4
  <2> QED BY <2>4 DEF k
<1>7. Nat \subseteq P
  <2> HIDE DEF P
  <2> QED BY <1>5, <1>6, NatInductionOnSet
<1>8. ASSUME NEW x \in 0 .. w - 1, NEW y \in 0 .. h - 1 PROVE a[<<x, y>>] = Corner(f, x, y)
  <2>1. y \in Nat /\ y < h
    OBVIOUS
  <2>2. y \in P
    BY <2>1, <1>7
  <2> QED BY <2>1, <2>2
<1> QED BY <1>8 DEF a, HasCorners

\* So an integral has at each pixel the sum up to there.
LEMMA IntegralIs ==
    ASSUME NEW w \in Nat \ {0}, NEW h \in Nat \ {0}, NEW f \in [Area(w, h) -> Nat]
    PROVE  \A x \in 0 .. w - 1, y \in 0 .. h - 1 : Integral(f)[<<x, y>>] = Corner(f, x, y)
<1> DEFINE D == Area(w, h)
           rows == RowSolution(D, f)
<1>1. DOMAIN f = D
  OBVIOUS
<1>2. Integral(f) = ColSolution(DOMAIN f, RowSolution(DOMAIN f, f))
  BY DEF Integral, RowSolution, ColSolution, RowPass, ColPass
<1>3. HasRows(rows, f, w, h)
  BY RowSums
<1> HIDE DEF rows
<1>4. HasCorners(ColSolution(D, rows), f, w, h)
  BY <1>3, ColSums
<1>5. Integral(f) = ColSolution(D, rows)
  BY <1>1, <1>2, Zenon DEF rows
<1> QED BY <1>4, <1>5, Zenon DEF HasCorners

----------------------------------------------------------------------------
(* Means                                                                   *)

\* From four corners, what is between them.
LEMMA FourCorners ==
    ASSUME NEW w \in Nat \ {0}, NEW h \in Nat \ {0}, NEW f \in [Area(w, h) -> Nat],
           NEW x2 \in 0 .. w - 1, NEW x1 \in -1 .. x2, NEW y2 \in 0 .. h - 1, NEW y1 \in -1 .. y2
    PROVE  /\ Corner(f, x2, y2) - Corner(f, x1, y2) - Corner(f, x2, y1) + Corner(f, x1, y1)
                  = Total(f, (x1 + 1 .. x2) \X (y1 + 1 .. y2))
           /\ Total(f, (x1 + 1 .. x2) \X (y1 + 1 .. y2)) \in Nat
<1> DEFINE A == (0 .. x1) \X (0 .. y1)
           B == (0 .. x1) \X (y1 + 1 .. y2)
           C == (x1 + 1 .. x2) \X (0 .. y1)
           E == (x1 + 1 .. x2) \X (y1 + 1 .. y2)
<1>1. /\ A \cap B = {} /\ A \cap C = {} /\ C \cap E = {} /\ (A \cup C) \cap (B \cup E) = {} /\ B \cap E = {}
  OBVIOUS
<1>2. /\ (0 .. x1) \X (0 .. y2) = A \cup B
      /\ (0 .. x2) \X (0 .. y1) = A \cup C
      /\ (0 .. x2) \X (0 .. y2) = (A \cup C) \cup (B \cup E)
  OBVIOUS
<1>3. (A \cup C) \cup (B \cup E) \subseteq Area(w, h)
  BY DEF Area
<1> HIDE DEF A, B, C, E
<1>4. A \cup C \subseteq Area(w, h) /\ B \cup E \subseteq Area(w, h) /\ A \cup B \subseteq Area(w, h)
  BY <1>3
<1>5. /\ Total(f, (A \cup C) \cup (B \cup E)) = Total(f, A \cup C) + Total(f, B \cup E)
      /\ Total(f, A \cup C) \in Nat /\ Total(f, B \cup E) \in Nat
  <2> DEFINE T == A \cup C
             U == B \cup E
  <2>1. T \cup U \subseteq Area(w, h) /\ T \cap U = {}
    BY <1>1, <1>3
  <2> HIDE DEF T, U
  <2>2. Total(f, T \cup U) = Total(f, T) + Total(f, U) /\ Total(f, T) \in Nat /\ Total(f, U) \in Nat
    BY <2>1, SumOfCut
  <2> QED BY <2>2 DEF T, U
<1>6. Total(f, B \cup E) = Total(f, B) + Total(f, E) /\ Total(f, B) \in Nat /\ Total(f, E) \in Nat
  BY <1>1, <1>4, SumOfCut
<1>7. Total(f, A \cup B) = Total(f, A) + Total(f, B) /\ Total(f, A) \in Nat
  BY <1>1, <1>4, SumOfCut
<1>8. /\ Corner(f, x2, y2) = Total(f, (A \cup C) \cup (B \cup E))
      /\ Corner(f, x1, y2) = Total(f, A \cup B)
      /\ Corner(f, x2, y1) = Total(f, A \cup C)
  BY <1>2, Zenon DEF Corner
<1>9. Corner(f, x1, y1) = Total(f, A)
  BY DEF Corner, A
<1>10. Total(f, (x1 + 1 .. x2) \X (y1 + 1 .. y2)) = Total(f, E)
  BY DEF E
<1> QED BY <1>5, <1>6, <1>7, <1>8, <1>9, <1>10

\* The pixels of the window around a pixel, along a side of n pixels.
LowEnd(v)     == IF v < radius THEN 0 ELSE v - radius
HighEnd(v, n) == Lesser(v + radius, n - 1)
Width(v, n)   == HighEnd(v, n) - LowEnd(v) + 1
Window(x, y, w, h) == (LowEnd(x) .. HighEnd(x, w)) \X (LowEnd(y) .. HighEnd(y, h))

\* The window is not empty, and inside.
LEMMA WindowEnds ==
    ASSUME radius \in Nat, NEW n \in Nat \ {0}, NEW v \in 0 .. n - 1
    PROVE  /\ LowEnd(v) \in 0 .. v /\ HighEnd(v, n) \in v .. n - 1 /\ Width(v, n) \in Nat \ {0}
           /\ v - radius <= LowEnd(v) /\ HighEnd(v, n) <= v + radius
           /\ \A u \in 0 .. n - 1 : u \in LowEnd(v) .. HighEnd(v, n) <=> u \in v - radius .. v + radius
BY DEF LowEnd, HighEnd, Width, Lesser

\* The mean of a box: its sum, in Fine-ths, over its size.
LEMMA BoxFilterIs ==
    ASSUME radius \in Nat, Fine \in Nat, NEW w \in Nat \ {0}, NEW h \in Nat \ {0}, NEW f \in [Area(w, h) -> Nat]
    PROVE  /\ BoxFilter(f, w, h) \in [Area(w, h) -> Nat]
           /\ \A x \in 0 .. w - 1, y \in 0 .. h - 1 :
                  BoxFilter(f, w, h)[<<x, y>>]
                      = (Total(f, Window(x, y, w, h)) * Fine) \div (Width(x, w) * Width(y, h))
<1> DEFINE r == radius
           sums == Integral(f)
           Get(x, y) == IF x < 0 \/ y < 0 THEN 0 ELSE sums[<<Lesser(x, w - 1), Lesser(y, h - 1)>>]
           Between(x1, y1, x2, y2) == Get(x2, y2) - Get(x1, y2) - Get(x2, y1) + Get(x1, y1)
           Unguarded(x1, y1, x2, y2) == sums[<<x2, y2>>] - sums[<<x1, y2>>] - sums[<<x2, y1>>] + sums[<<x1, y1>>]
           Before(v)   == IF v - r - 1 < -1 THEN -1 ELSE v - r - 1
           Until(v, n) == Lesser(v + r, n - 1)
           Interior(x, y) == y > r /\ y < h - r /\ x >= r + 1 /\ x < w - r
           Mean(x, y) ==
               IF Interior(x, y)
               THEN (Unguarded(x - r - 1, y - r - 1, x + r, y + r) * Fine) \div ((2 * r + 1) * (2 * r + 1))
               ELSE (Between(Before(x), Before(y), Until(x, w), Until(y, h)) * Fine)
                        \div ((Until(x, w) - Before(x)) * (Until(y, h) - Before(y)))
           Sum(x, y) == Total(f, Window(x, y, w, h))
<1>1. BoxFilter(f, w, h) = [p \in Area(w, h) |-> Mean(p[1], p[2])]
  BY DEF BoxFilter
<1>2. \A x \in 0 .. w - 1, y \in 0 .. h - 1 : sums[<<x, y>>] = Corner(f, x, y)
  BY IntegralIs
<1> HIDE DEF sums
<1>3. ASSUME NEW x \in -1 .. w - 1, NEW y \in -1 .. h - 1
      PROVE  Get(x, y) = Corner(f, x, y)
  <2>1. CASE x < 0 \/ y < 0
    <3>1. (0 .. x) \X (0 .. y) = {}
      BY <2>1
    <3> QED BY <2>1, <3>1, TotalOfNobody DEF Corner
  <2>2. CASE ~(x < 0 \/ y < 0)
    BY <2>2, <1>2 DEF Lesser
  <2> QED BY <2>1, <2>2
<1>4. ASSUME NEW n \in Nat \ {0}, NEW v \in 0 .. n - 1
      PROVE  /\ Before(v) = LowEnd(v) - 1 /\ Until(v, n) = HighEnd(v, n)
             /\ Until(v, n) - Before(v) = Width(v, n)
             /\ Before(v) \in -1 .. n - 1 /\ Until(v, n) \in 0 .. n - 1 /\ Before(v) <= Until(v, n)
             /\ Before(v) + 1 = LowEnd(v)
             /\ v >= r + 1 /\ v < n - r => /\ Before(v) = v - r - 1 /\ Until(v, n) = v + r
                                           /\ Width(v, n) = 2 * r + 1
  BY WindowEnds DEF LowEnd, HighEnd, Lesser, Width
<1>5. ASSUME NEW x \in 0 .. w - 1, NEW y \in 0 .. h - 1
      PROVE  /\ Mean(x, y) = (Sum(x, y) * Fine) \div (Width(x, w) * Width(y, h))
             /\ Sum(x, y) \in Nat
  <2> DEFINE x1 == Before(x)
             x2 == Until(x, w)
             y1 == Before(y)
             y2 == Until(y, h)
  <2>1. /\ x1 \in -1 .. x2 /\ x2 \in 0 .. w - 1 /\ y1 \in -1 .. y2 /\ y2 \in 0 .. h - 1
        /\ x1 \in -1 .. w - 1 /\ y1 \in -1 .. h - 1 /\ x2 \in -1 .. w - 1 /\ y2 \in -1 .. h - 1
        /\ x1 + 1 = LowEnd(x) /\ x2 = HighEnd(x, w) /\ y1 + 1 = LowEnd(y) /\ y2 = HighEnd(y, h)
        /\ x2 - x1 = Width(x, w) /\ y2 - y1 = Width(y, h)
    <3> HIDE DEF Before, Until
    <3>1. /\ x1 \in -1 .. w - 1 /\ x2 \in 0 .. w - 1 /\ x1 <= x2
          /\ x1 + 1 = LowEnd(x) /\ x2 = HighEnd(x, w) /\ x2 - x1 = Width(x, w)
      BY <1>4
    <3>2. /\ y1 \in -1 .. h - 1 /\ y2 \in 0 .. h - 1 /\ y1 <= y2
          /\ y1 + 1 = LowEnd(y) /\ y2 = HighEnd(y, h) /\ y2 - y1 = Width(y, h)
      BY <1>4
    <3> HIDE DEF x1, x2, y1, y2
    <3> QED BY <3>1, <3>2
  <2> HIDE DEF x1, x2, y1, y2, Before, Until
  <2>2. /\ Corner(f, x2, y2) - Corner(f, x1, y2) - Corner(f, x2, y1) + Corner(f, x1, y1) = Sum(x, y)
        /\ Sum(x, y) \in Nat
    <3>1. (x1 + 1 .. x2) \X (y1 + 1 .. y2) = Window(x, y, w, h)
      BY <2>1 DEF Window
    <3>2. /\ Corner(f, x2, y2) - Corner(f, x1, y2) - Corner(f, x2, y1) + Corner(f, x1, y1)
                = Total(f, (x1 + 1 .. x2) \X (y1 + 1 .. y2))
          /\ Total(f, (x1 + 1 .. x2) \X (y1 + 1 .. y2)) \in Nat
      BY <2>1, FourCorners
    <3> QED BY <3>1, <3>2, Zenon
  <2>3. Between(x1, y1, x2, y2) = Sum(x, y)
    <3>1. /\ Get(x2, y2) = Corner(f, x2, y2) /\ Get(x1, y2) = Corner(f, x1, y2)
          /\ Get(x2, y1) = Corner(f, x2, y1) /\ Get(x1, y1) = Corner(f, x1, y1)
      <4> HIDE DEF Get
      <4> QED BY <2>1, <1>3
    <3> HIDE DEF Get, Sum
    <3> QED BY <3>1, <2>2, Zenon
  <2>4. CASE Interior(x, y)
    <3>1. /\ x1 = x - r - 1 /\ x2 = x + r /\ Width(x, w) = 2 * r + 1
          /\ y1 = y - r - 1 /\ y2 = y + r /\ Width(y, h) = 2 * r + 1
          /\ x1 >= 0 /\ y1 >= 0
      <4>1. x1 = x - r - 1 /\ x2 = x + r /\ Width(x, w) = 2 * r + 1 /\ x1 >= 0
        BY <2>4, <1>4 DEF x1, x2
      <4>2. y1 = y - r - 1 /\ y2 = y + r /\ Width(y, h) = 2 * r + 1 /\ y1 >= 0
        BY <2>4, <1>4 DEF y1, y2
      <4> QED BY <4>1, <4>2
    <3>2. Unguarded(x1, y1, x2, y2) = Sum(x, y)
      <4>1. x1 \in 0 .. w - 1 /\ y1 \in 0 .. h - 1
        BY <2>1, <3>1
      <4>2. /\ sums[<<x2, y2>>] = Corner(f, x2, y2) /\ sums[<<x1, y2>>] = Corner(f, x1, y2)
            /\ sums[<<x2, y1>>] = Corner(f, x2, y1) /\ sums[<<x1, y1>>] = Corner(f, x1, y1)
        BY <2>1, <4>1, <1>2
      <4> HIDE DEF Sum
      <4> QED BY <4>2, <2>2, Zenon
    <3>3. Mean(x, y) = (Unguarded(x1, y1, x2, y2) * Fine) \div (Width(x, w) * Width(y, h))
      <4> HIDE DEF Unguarded, Interior
      <4> QED BY <2>4, <3>1, Zenon
    <3> HIDE DEF Mean, Sum, Unguarded
    <3> QED BY <3>2, <3>3, <2>2, Zenon
  <2>5. CASE ~Interior(x, y)
    <3>1. Mean(x, y) = (Between(x1, y1, x2, y2) * Fine) \div ((x2 - x1) * (y2 - y1))
      <4> HIDE DEF Between, Interior
      <4> QED BY <2>5, Zenon DEF x1, x2, y1, y2
    <3> HIDE DEF Mean, Sum, Between
    <3> QED BY <3>1, <2>1, <2>2, <2>3, Zenon
  <2> QED BY <2>4, <2>5
<1> HIDE DEF Mean
<1>6. ASSUME NEW x \in 0 .. w - 1, NEW y \in 0 .. h - 1
      PROVE  /\ BoxFilter(f, w, h)[<<x, y>>] = (Sum(x, y) * Fine) \div (Width(x, w) * Width(y, h))
             /\ Mean(x, y) \in Nat
  <2>1. <<x, y>> \in Area(w, h) /\ <<x, y>>[1] = x /\ <<x, y>>[2] = y
    BY DEF Area
  <2>2. BoxFilter(f, w, h)[<<x, y>>] = Mean(x, y)
    BY <2>1, <1>1, Zenon
  <2>3. Mean(x, y) = (Sum(x, y) * Fine) \div (Width(x, w) * Width(y, h)) /\ Sum(x, y) \in Nat
    BY <1>5
  <2>4. Width(x, w) \in Nat \ {0} /\ Width(y, h) \in Nat \ {0}
    BY WindowEnds
  <2> HIDE DEF Sum
  <2>5. Sum(x, y) * Fine \in Nat /\ Width(x, w) * Width(y, h) \in Nat \ {0}
    BY <2>3, <2>4, SMT
  <2>6. (Sum(x, y) * Fine) \div (Width(x, w) * Width(y, h)) \in Nat
    BY <2>5, Divided
  <2> QED BY <2>2, <2>3, <2>6, Zenon
<1>7. ASSUME NEW p \in Area(w, h) PROVE Mean(p[1], p[2]) \in Nat
  <2>1. p[1] \in 0 .. w - 1 /\ p[2] \in 0 .. h - 1
    BY DEF Area
  <2> QED BY <2>1, <1>6
<1> HIDE DEF Sum
<1>8. BoxFilter(f, w, h) \in [Area(w, h) -> Nat]
  BY <1>1, <1>7
<1> QED BY <1>6, <1>8 DEF Sum

\* Along one side, it is as long as Width says.
LEMMA WindowSide ==
    ASSUME radius \in Nat, NEW n \in Nat \ {0}, NEW v \in 0 .. n - 1, NEW S, S = LowEnd(v) .. HighEnd(v, n)
    PROVE  /\ S \subseteq 0 .. n - 1 /\ IsFiniteSet(S) /\ Cardinality(S) = Width(v, n)
           /\ \A u \in 0 .. n - 1 : u \in S <=> u \in v - radius .. v + radius
<1>1. /\ LowEnd(v) \in 0 .. v /\ HighEnd(v, n) \in v .. n - 1
      /\ \A u \in 0 .. n - 1 : u \in S <=> u \in v - radius .. v + radius
  BY WindowEnds
<1>2. LowEnd(v) \in Int /\ HighEnd(v, n) \in Int /\ LowEnd(v) <= HighEnd(v, n)
  BY <1>1
<1>3. \A a, b \in Int : a <= b => IsFiniteSet(a .. b) /\ Cardinality(a .. b) = b - a + 1
  BY FS_Interval
<1>4. IsFiniteSet(S) /\ Cardinality(S) = HighEnd(v, n) - LowEnd(v) + 1
  BY <1>2, <1>3, Zenon
<1>5. S \subseteq 0 .. n - 1
  BY <1>1
<1> QED BY <1>1, <1>4, <1>5, Zenon DEF Width

\* The window around a pixel of the mask is what is near it.
LEMMA NearWindow ==
    ASSUME MaskTypes, NEW x \in 0 .. wide - 1, NEW y \in 0 .. tall - 1
    PROVE  /\ Near(<<x, y>>, radius) = Window(x, y, wide, tall)
           /\ Window(x, y, wide, tall) \subseteq Pixels
           /\ Cardinality(Window(x, y, wide, tall)) = Width(x, wide) * Width(y, tall)
<1>1. wide \in Nat \ {0} /\ tall \in Nat \ {0} /\ radius \in Nat
  BY DEF MaskTypes
<1> DEFINE X == LowEnd(x) .. HighEnd(x, wide)
           Y == LowEnd(y) .. HighEnd(y, tall)
<1>2. /\ X \subseteq 0 .. wide - 1 /\ IsFiniteSet(X) /\ Cardinality(X) = Width(x, wide)
      /\ \A u \in 0 .. wide - 1 : u \in X <=> u \in x - radius .. x + radius
  BY <1>1, WindowSide
<1>3. /\ Y \subseteq 0 .. tall - 1 /\ IsFiniteSet(Y) /\ Cardinality(Y) = Width(y, tall)
      /\ \A v \in 0 .. tall - 1 : v \in Y <=> v \in y - radius .. y + radius
  BY <1>1, WindowSide
<1> HIDE DEF X, Y
<1>4. Window(x, y, wide, tall) = X \X Y
  BY DEF Window, X, Y
<1>5. X \X Y \subseteq Pixels
  BY <1>2, <1>3 DEF Pixels, Area
<1>6. Cardinality(X \X Y) = Width(x, wide) * Width(y, tall)
  BY <1>2, <1>3, FS_Product
<1>7. \A q \in Pixels : q \in X \X Y <=> q[1] \in x - radius .. x + radius /\ q[2] \in y - radius .. y + radius
  <2> TAKE q \in Pixels
  <2>1. q[1] \in 0 .. wide - 1 /\ q[2] \in 0 .. tall - 1 /\ q = <<q[1], q[2]>>
    BY PixelPairs
  <2>2. q \in X \X Y <=> q[1] \in X /\ q[2] \in Y
    BY <2>1
  <2> QED BY <2>1, <2>2, <1>2, <1>3
<1>8. <<x, y>>[1] = x /\ <<x, y>>[2] = y
  OBVIOUS
<1>9. Near(<<x, y>>, radius) = {q \in Pixels : q[1] \in x - radius .. x + radius /\ q[2] \in y - radius .. y + radius}
  BY <1>8, Zenon DEF Near
<1>10. Near(<<x, y>>, radius) = X \X Y
  BY <1>5, <1>7, <1>9
<1> QED BY <1>4, <1>5, <1>6, <1>10

\* The means of every mask are right.
LEMMA MeansAreRight == ASSUME MaskTypes, Fine \in Nat PROVE MeansRight
<1> SUFFICES ASSUME NEW p \in Pixels
             PROVE  BoxFilter(ink, wide, tall)[p]
                        = (Cardinality(Near(p, radius) \cap Painted) * Fine) \div Cardinality(Near(p, radius))
  BY DEF MeansRight
<1>1. wide \in Nat \ {0} /\ tall \in Nat \ {0} /\ radius \in Nat
  BY DEF MaskTypes
<1>2. p[1] \in 0 .. wide - 1 /\ p[2] \in 0 .. tall - 1 /\ p = <<p[1], p[2]>>
  BY PixelPairs
<1> DEFINE S == Window(p[1], p[2], wide, tall)
<1>3. S = Near(p, radius) /\ S \subseteq Pixels /\ Cardinality(S) = Width(p[1], wide) * Width(p[2], tall)
  BY <1>2, NearWindow
<1>4. ink \in [Area(wide, tall) -> Nat]
  BY DEF MaskTypes, Marks, Pixels
<1>5. BoxFilter(ink, wide, tall)[p] = (Total(ink, S) * Fine) \div (Width(p[1], wide) * Width(p[2], tall))
  BY <1>1, <1>2, <1>4, BoxFilterIs
<1> HIDE DEF S
<1>6. IsFiniteSet(S)
  BY <1>1, <1>3, <1>4, PartOfArea DEF Pixels, Summable
<1>7. \A q \in S : ink[q] \in Marks
  BY <1>3 DEF MaskTypes
<1>8. Total(ink, S) = Cardinality({q \in S : ink[q] = 1})
  BY <1>6, <1>7, SumOfMarks
<1>9. {q \in S : ink[q] = 1} = S \cap Painted
  BY <1>3 DEF Painted
<1> QED BY <1>3, <1>5, <1>8, <1>9, Zenon

----------------------------------------------------------------------------
(* Bounding boxes                                                          *)

\* The least and the greatest of some numbers.
LEMMA EndsOf ==
    ASSUME NEW S, NEW n \in Nat, S \subseteq 0 .. n - 1, S # {}
    PROVE  /\ Smallest(S) \in S /\ \A v \in S : Smallest(S) <= v
           /\ Greatest(S) \in S /\ \A v \in S : v <= Greatest(S)
<1>1. S \subseteq Nat
  OBVIOUS
<1>2. \E m \in S : \A v \in S : m <= v
  BY <1>1, LeastOfSome
<1>3. \E m \in S : \A v \in S : v <= m
  <2>1. \A v \in S : v <= n
    OBVIOUS
  <2> QED BY <1>1, <2>1, GreatestOfSome
<1>4. Smallest(S) = CHOOSE m \in S : \A v \in S : m <= v
  BY DEF Smallest, Min
<1>5. Greatest(S) = CHOOSE m \in S : \A v \in S : m >= v
  BY DEF Greatest, Max
<1>6. \E m \in S : \A v \in S : m >= v
  BY <1>1, <1>3
<1>7. \A v \in S : Greatest(S) >= v
  BY <1>5, <1>6
<1>8. Greatest(S) \in S
  BY <1>5, <1>6
<1>9. \A v \in S : v <= Greatest(S)
  BY <1>1, <1>7, <1>8
<1> QED BY <1>2, <1>4, <1>8, <1>9

\* One side of a bounding box, along n pixels: it holds S, and where it ends inside
\* the image it leaves the margin.
LowSide(S, m)     == IF Smallest(S) < m THEN 0 ELSE Smallest(S) - m
HighSide(S, m, n) == Lesser(Greatest(S) + m + 1, n)
Holds(S, n, m, a, b) ==
    /\ a \in 0 .. n - 1 /\ b \in 1 .. n /\ a < b
    /\ \A v \in S : /\ a <= v /\ v < b
                    /\ a > 0 => v >= a + m
                    /\ b < n => v + m < b

\* Such a side is what mask_bbox computes.
LEMMA OutlineSide ==
    ASSUME NEW S, NEW n \in Nat \ {0}, S \subseteq 0 .. n - 1, S # {}, NEW m \in Nat
    PROVE  Holds(S, n, m, LowSide(S, m), HighSide(S, m, n))
<1> DEFINE a == LowSide(S, m)
           b == HighSide(S, m, n)
<1>1. /\ Smallest(S) \in 0 .. n - 1 /\ \A v \in S : Smallest(S) <= v
      /\ Greatest(S) \in 0 .. n - 1 /\ \A v \in S : v <= Greatest(S)
  BY EndsOf
<1>2. PICK u \in S : TRUE
  OBVIOUS
<1>3. /\ a \in 0 .. n - 1 /\ a <= Smallest(S) /\ (a > 0 => Smallest(S) >= a + m)
      /\ b \in 1 .. n /\ Greatest(S) < b /\ (b < n => Greatest(S) + m < b)
  BY <1>1 DEF Lesser, LowSide, HighSide
<1> HIDE DEF a, b
<1>4. ASSUME NEW v \in S
      PROVE  /\ a <= v /\ v < b
             /\ a > 0 => v >= a + m
             /\ b < n => v + m < b
  <2>1. v \in 0 .. n - 1 /\ Smallest(S) <= v /\ v <= Greatest(S)
    BY <1>1
  <2> QED BY <2>1, <1>1, <1>3
<1>5. a < b
  BY <1>2, <1>3, <1>4
<1>6. Holds(S, n, m, a, b)
  BY <1>3, <1>4, <1>5 DEF Holds
<1> QED BY <1>6 DEF a, b

\* What is painted stays `gap` away from the sides where a box ends inside the image.
Clear(v, low, high, n, gap) == (low > 0 => v >= low + gap) /\ (high < n => v + gap < high)

\* A bounding box holds what is painted.
LEMMA OutlineIs ==
    ASSUME MaskTypes, Painted # {}, NEW m \in Nat, NEW o, o = Outline(m)
    PROVE  /\ o.x1 \in 0 .. wide - 1 /\ o.x2 \in 1 .. wide /\ o.x1 < o.x2
           /\ o.y1 \in 0 .. tall - 1 /\ o.y2 \in 1 .. tall /\ o.y1 < o.y2
           /\ \A p \in Painted : /\ o.x1 <= p[1] /\ p[1] < o.x2 /\ o.y1 <= p[2] /\ p[2] < o.y2
                                 /\ Clear(p[1], o.x1, o.x2, wide, m) /\ Clear(p[2], o.y1, o.y2, tall, m)
<1> DEFINE xs == {p[1] : p \in Painted}
           ys == {p[2] : p \in Painted}
           Low(v) == IF v < m THEN 0 ELSE v - m
<1>1. wide \in Nat \ {0} /\ tall \in Nat \ {0}
  BY DEF MaskTypes
<1>2. xs \subseteq 0 .. wide - 1 /\ xs # {} /\ ys \subseteq 0 .. tall - 1 /\ ys # {}
      /\ \A p \in Painted : p[1] \in xs /\ p[2] \in ys
  <2>1. \A p \in Painted : p[1] \in 0 .. wide - 1 /\ p[2] \in 0 .. tall - 1
    BY PixelPairs DEF Painted
  <2> QED BY <2>1
<1>3. /\ o.x1 = Low(Smallest(xs)) /\ o.x2 = Lesser(Greatest(xs) + m + 1, wide)
      /\ o.y1 = Low(Smallest(ys)) /\ o.y2 = Lesser(Greatest(ys) + m + 1, tall)
  BY DEF Outline
<1> HIDE DEF xs, ys
<1>4. /\ o.x1 \in 0 .. wide - 1 /\ o.x2 \in 1 .. wide /\ o.x1 < o.x2
      /\ \A v \in xs : /\ o.x1 <= v /\ v < o.x2
                       /\ o.x1 > 0 => v >= o.x1 + m
                       /\ o.x2 < wide => v + m < o.x2
  <2> DEFINE a == o.x1
             b == o.x2
  <2>1. a = LowSide(xs, m) /\ b = HighSide(xs, m, wide)
    BY <1>3 DEF LowSide, HighSide
  <2> HIDE DEF a, b, Low
  <2>2. Holds(xs, wide, m, LowSide(xs, m), HighSide(xs, m, wide))
    BY <1>1, <1>2, OutlineSide
  <2>3. Holds(xs, wide, m, a, b)
    BY <2>1, <2>2
  <2> QED BY <2>3 DEF a, b, Holds
<1>5. /\ o.y1 \in 0 .. tall - 1 /\ o.y2 \in 1 .. tall /\ o.y1 < o.y2
      /\ \A v \in ys : /\ o.y1 <= v /\ v < o.y2
                       /\ o.y1 > 0 => v >= o.y1 + m
                       /\ o.y2 < tall => v + m < o.y2
  <2> DEFINE a == o.y1
             b == o.y2
  <2>1. a = LowSide(ys, m) /\ b = HighSide(ys, m, tall)
    BY <1>3 DEF LowSide, HighSide
  <2> HIDE DEF a, b, Low
  <2>2. Holds(ys, tall, m, LowSide(ys, m), HighSide(ys, m, tall))
    BY <1>1, <1>2, OutlineSide
  <2>3. Holds(ys, tall, m, a, b)
    BY <2>1, <2>2
  <2> QED BY <2>3 DEF a, b, Holds
<1> QED BY <1>2, <1>4, <1>5 DEF Clear

\* What a crop is.
CropTypes ==
    /\ CropBox.x1 \in 0 .. wide - 1 /\ CropBox.x2 \in 1 .. wide /\ CropBox.x1 < CropBox.x2
    /\ CropBox.y1 \in 0 .. tall - 1 /\ CropBox.y2 \in 1 .. tall /\ CropBox.y1 < CropBox.y2
    /\ CropW = CropBox.x2 - CropBox.x1 /\ CropH = CropBox.y2 - CropBox.y1
    /\ CropW \in Nat \ {0} /\ CropH \in Nat \ {0}

\* Where g is not zero, it is `gap` away from the sides of the crop.
Confined(g, gap) ==
    \A p \in Pixels : g[p] # 0 => /\ Clear(p[1], CropBox.x1, CropBox.x2, wide, gap)
                                  /\ Clear(p[2], CropBox.y1, CropBox.y2, tall, gap)

\* b is what the crop has of g.
CropOf(b, g) ==
    \A x \in 0 .. CropW - 1, y \in 0 .. CropH - 1 : b[<<x, y>>] = g[<<CropBox.x1 + x, CropBox.y1 + y>>]

\* The crop of a mask, which is what it is cut out for.
LEMMA CropIs ==
    ASSUME MaskTypes, Painted # {}
    PROVE  CropTypes /\ Confined(ink, 3 * radius) /\ CropOf(Cropped, ink)
           /\ Cropped \in [Area(CropW, CropH) -> Nat] /\ ink \in [Pixels -> Nat]
<1> DEFINE m == 3 * radius
           o == CropBox
<1>1. m \in Nat /\ wide \in Nat \ {0} /\ tall \in Nat \ {0} /\ ink \in [Pixels -> Marks]
  BY DEF MaskTypes
<1>2. o = Outline(m)
  BY DEF CropBox
<1> HIDE DEF m, o
<1>3. /\ o.x1 \in 0 .. wide - 1 /\ o.x2 \in 1 .. wide /\ o.x1 < o.x2
      /\ o.y1 \in 0 .. tall - 1 /\ o.y2 \in 1 .. tall /\ o.y1 < o.y2
      /\ \A p \in Painted : /\ o.x1 <= p[1] /\ p[1] < o.x2 /\ o.y1 <= p[2] /\ p[2] < o.y2
                            /\ Clear(p[1], o.x1, o.x2, wide, m) /\ Clear(p[2], o.y1, o.y2, tall, m)
  BY <1>1, <1>2, OutlineIs
<1>4. CropTypes
  BY <1>1, <1>3 DEF CropTypes, CropW, CropH, o
<1>5. Confined(ink, m)
  <2> SUFFICES ASSUME NEW p \in Pixels, ink[p] # 0
               PROVE  Clear(p[1], o.x1, o.x2, wide, m) /\ Clear(p[2], o.y1, o.y2, tall, m)
    BY DEF Confined, o
  <2>1. p \in Painted
    BY <1>1 DEF Painted, Marks
  <2> QED BY <2>1, <1>3
<1>6. ASSUME NEW p \in Area(CropW, CropH)
      PROVE  <<o.x1 + p[1], o.y1 + p[2]>> \in Pixels /\ Cropped[p] = ink[<<o.x1 + p[1], o.y1 + p[2]>>]
  <2>1. p[1] \in 0 .. CropW - 1 /\ p[2] \in 0 .. CropH - 1
    BY DEF Area
  <2>2. o.x1 + p[1] \in 0 .. wide - 1 /\ o.y1 + p[2] \in 0 .. tall - 1
    BY <2>1, <1>1, <1>3 DEF CropW, CropH, o
  <2>3. Cropped[p] = ink[<<o.x1 + p[1], o.y1 + p[2]>>]
    BY DEF Cropped, o
  <2> QED BY <2>2, <2>3 DEF Pixels, Area
<1>7. ink \in [Pixels -> Nat]
  BY <1>1 DEF Marks
<1>8. Cropped \in [Area(CropW, CropH) -> Nat]
  <2>1. \A p \in Area(CropW, CropH) : ink[<<CropBox.x1 + p[1], CropBox.y1 + p[2]>>] \in Nat
    BY <1>6, <1>7 DEF o
  <2> QED BY <2>1 DEF Cropped
<1>9. CropOf(Cropped, ink)
  <2> SUFFICES ASSUME NEW x \in 0 .. CropW - 1, NEW y \in 0 .. CropH - 1
               PROVE  Cropped[<<x, y>>] = ink[<<o.x1 + x, o.y1 + y>>]
    BY DEF CropOf, o
  <2>1. <<x, y>> \in Area(CropW, CropH) /\ <<x, y>>[1] = x /\ <<x, y>>[2] = y
    BY DEF Area
  <2> QED BY <2>1, <1>6, Zenon
<1> QED BY <1>4, <1>5, <1>7, <1>8, <1>9 DEF m

----------------------------------------------------------------------------
(* The blur                                                                *)

\* A pass over the whole mask brings it nearer to the sides by a radius.
LEMMA PassSpreads ==
    ASSUME MaskTypes, Fine \in Nat, CropTypes, NEW g \in [Pixels -> Nat],
           NEW gap \in Nat, gap >= radius, Confined(g, gap)
    PROVE  Confined(BoxFilter(g, wide, tall), gap - radius)
<1>1. wide \in Nat \ {0} /\ tall \in Nat \ {0} /\ radius \in Nat
  BY DEF MaskTypes
<1> SUFFICES ASSUME NEW p \in Pixels, BoxFilter(g, wide, tall)[p] # 0
             PROVE  /\ Clear(p[1], CropBox.x1, CropBox.x2, wide, gap - radius)
                    /\ Clear(p[2], CropBox.y1, CropBox.y2, tall, gap - radius)
  BY DEF Confined
<1>2. p[1] \in 0 .. wide - 1 /\ p[2] \in 0 .. tall - 1 /\ p = <<p[1], p[2]>>
  BY PixelPairs
<1> DEFINE S == Window(p[1], p[2], wide, tall)
<1>3. S \subseteq Pixels /\ S = Near(p, radius)
  BY <1>2, NearWindow
<1>4. BoxFilter(g, wide, tall)[p] = (Total(g, S) * Fine) \div (Width(p[1], wide) * Width(p[2], tall))
  BY <1>1, <1>2, BoxFilterIs DEF Pixels
<1> HIDE DEF S
<1>5. \E q \in S : g[q] # 0
  <2> SUFFICES ASSUME \A q \in S : g[q] = 0 PROVE FALSE
    OBVIOUS
  <2>1. Total(g, S) = 0
    BY SumOfNothing
  <2>2. Width(p[1], wide) * Width(p[2], tall) \in Nat \ {0}
    <3>1. Width(p[1], wide) \in Nat \ {0} /\ Width(p[2], tall) \in Nat \ {0}
      BY <1>1, <1>2, WindowEnds
    <3> QED BY <3>1, SMT
  <2>3. \A n \in Nat \ {0} : (0 * Fine) \div n = 0
    BY SMT
  <2> QED BY <1>4, <2>1, <2>2, <2>3
<1>6. PICK q \in S : g[q] # 0
  BY <1>5
<1>7. /\ q \in Pixels /\ q[1] \in p[1] - radius .. p[1] + radius /\ q[2] \in p[2] - radius .. p[2] + radius
      /\ q[1] \in 0 .. wide - 1 /\ q[2] \in 0 .. tall - 1
  BY <1>3, PixelPairs DEF Near
<1>8. Clear(q[1], CropBox.x1, CropBox.x2, wide, gap) /\ Clear(q[2], CropBox.y1, CropBox.y2, tall, gap)
  BY <1>6, <1>7 DEF Confined
<1>9. Clear(p[1], CropBox.x1, CropBox.x2, wide, gap - radius)
  BY <1>1, <1>2, <1>7, <1>8 DEF Clear, CropTypes
<1>10. Clear(p[2], CropBox.y1, CropBox.y2, tall, gap - radius)
  BY <1>1, <1>2, <1>7, <1>8 DEF Clear, CropTypes
<1> QED BY <1>9, <1>10

\* Whether the window of a pixel is not cut short by the end of the crop.
Uncut(v, low, high, n, long) == (low = 0 \/ v >= radius) /\ (high = n \/ v < long - radius)

\* Along a side, the window in the crop is what is there of that in the image, and no
\* longer; it is as long, if it is not cut short.
LEMMA CropSide ==
    ASSUME radius \in Nat, NEW n \in Nat \ {0}, NEW low \in 0 .. n - 1, NEW high \in 1 .. n, low < high,
           NEW v \in 0 .. high - low - 1
    PROVE  /\ Width(v, high - low) \in Nat \ {0} /\ Width(low + v, n) \in Nat \ {0}
           /\ Width(v, high - low) <= Width(low + v, n)
           /\ Uncut(v, low, high, n, high - low) => Width(v, high - low) = Width(low + v, n)
           /\ \A u \in 0 .. high - low - 1 :
                  u \in LowEnd(v) .. HighEnd(v, high - low)
                      <=> low + u \in LowEnd(low + v) .. HighEnd(low + v, n)
BY DEF Width, LowEnd, HighEnd, Lesser, Uncut

\* The windows of a pixel in the crop and in the image, and the sums over them.
LEMMA CropSums ==
    ASSUME MaskTypes, CropTypes, NEW g \in [Pixels -> Nat], NEW b \in [Area(CropW, CropH) -> Nat],
           CropOf(b, g), NEW gap \in Nat, Confined(g, gap),
           NEW x \in 0 .. CropW - 1, NEW y \in 0 .. CropH - 1
    PROVE  /\ Total(b, Window(x, y, CropW, CropH)) = Total(g, Window(CropBox.x1 + x, CropBox.y1 + y, wide, tall))
           /\ Total(b, Window(x, y, CropW, CropH)) \in Nat
<1> DEFINE x1 == CropBox.x1
           y1 == CropBox.y1
           x2 == CropBox.x2
           y2 == CropBox.y2
           S == Window(x, y, CropW, CropH)
           W == Window(x1 + x, y1 + y, wide, tall)
           m == [q \in S |-> <<x1 + q[1], y1 + q[2]>>]
           T == {m[q] : q \in S}
<1>1. /\ wide \in Nat \ {0} /\ tall \in Nat \ {0} /\ radius \in Nat
      /\ x1 \in 0 .. wide - 1 /\ x2 \in 1 .. wide /\ x1 < x2 /\ CropW = x2 - x1 /\ CropW \in Nat \ {0}
      /\ y1 \in 0 .. tall - 1 /\ y2 \in 1 .. tall /\ y1 < y2 /\ CropH = y2 - y1 /\ CropH \in Nat \ {0}
  BY DEF MaskTypes, CropTypes
<1> HIDE DEF x1, x2, y1, y2
<1>2. x1 + x \in 0 .. wide - 1 /\ y1 + y \in 0 .. tall - 1
  BY <1>1
<1>3. \A u \in 0 .. CropW - 1 : u \in LowEnd(x) .. HighEnd(x, CropW)
                                    <=> x1 + u \in LowEnd(x1 + x) .. HighEnd(x1 + x, wide)
  BY <1>1, CropSide
<1>4. \A v \in 0 .. CropH - 1 : v \in LowEnd(y) .. HighEnd(y, CropH)
                                    <=> y1 + v \in LowEnd(y1 + y) .. HighEnd(y1 + y, tall)
  BY <1>1, CropSide
<1>5. /\ LowEnd(x) .. HighEnd(x, CropW) \subseteq 0 .. CropW - 1
      /\ LowEnd(y) .. HighEnd(y, CropH) \subseteq 0 .. CropH - 1
  <2>1. LowEnd(x) \in 0 .. x /\ HighEnd(x, CropW) \in x .. CropW - 1
    BY <1>1, WindowEnds
  <2>2. LowEnd(y) \in 0 .. y /\ HighEnd(y, CropH) \in y .. CropH - 1
    BY <1>1, WindowEnds
  <2>3. \A a \in Nat, c \in Int, n \in Nat : c <= n - 1 => a .. c \subseteq 0 .. n - 1
    OBVIOUS
  <2>4. /\ LowEnd(x) \in Nat /\ HighEnd(x, CropW) \in Int /\ HighEnd(x, CropW) <= CropW - 1
        /\ LowEnd(y) \in Nat /\ HighEnd(y, CropH) \in Int /\ HighEnd(y, CropH) <= CropH - 1
    BY <2>1, <2>2, <1>1
  <2> QED BY <2>3, <2>4, <1>1
<1>6. S \subseteq Area(CropW, CropH) /\ \A q \in S : q = <<q[1], q[2]>> /\ q[1] \in 0 .. CropW - 1 /\ q[2] \in 0 .. CropH - 1
  BY <1>5 DEF Window, Area
<1>7. W \subseteq Pixels
  BY <1>2, NearWindow
<1>8. \A u \in 0 .. CropW - 1, v \in 0 .. CropH - 1 : <<u, v>> \in S <=> <<x1 + u, y1 + v>> \in W
  BY <1>3, <1>4 DEF Window
<1> HIDE DEF S, W
<1>9. \A q \in S : m[q] = <<x1 + q[1], y1 + q[2]>> /\ m[q] \in W
  BY <1>6, <1>8
<1>10. \A q, s \in S : m[q] = m[s] => q = s
  <2> SUFFICES ASSUME NEW q \in S, NEW s \in S, m[q] = m[s] PROVE q = s
    OBVIOUS
  <2>1. x1 + q[1] = x1 + s[1] /\ y1 + q[2] = y1 + s[2]
    <3>1. <<x1 + q[1], y1 + q[2]>> = <<x1 + s[1], y1 + s[2]>>
      BY <1>9
    <3> QED BY <3>1
  <2>2. q[1] = s[1] /\ q[2] = s[2]
    BY <2>1, <1>1, <1>6
  <2> QED BY <2>2, <1>6
<1>11. \A q \in S : g[m[q]] = b[q]
  <2> TAKE q \in S
  <2>1. b[<<q[1], q[2]>>] = g[<<x1 + q[1], y1 + q[2]>>]
    BY <1>6 DEF CropOf, x1, y1
  <2> QED BY <2>1, <1>6, <1>9
<1>12. Summable(b, S) /\ Total(b, S) \in Nat
  BY <1>1, <1>6, PartOfArea
<1>13. Summable(g, W)
  BY <1>1, <1>7, PartOfArea DEF Pixels
<1>14. m \in [S -> T]
  OBVIOUS
<1>15. \A t \in T : \E q \in S : t = m[q]
  OBVIOUS
<1>16. T \subseteq W
  BY <1>9
<1> HIDE DEF m, T
<1>17. Total(g, T) = Total(b, S)
  BY <1>10, <1>11, <1>12, <1>14, <1>15, SumMoved
<1>18. ASSUME NEW p \in W \ T PROVE g[p] = 0
  <2> SUFFICES ASSUME g[p] # 0 PROVE FALSE
    OBVIOUS
  <2>1. p \in Pixels /\ p[1] \in 0 .. wide - 1 /\ p[2] \in 0 .. tall - 1 /\ p = <<p[1], p[2]>>
    BY <1>7, PixelPairs
  <2>2. Clear(p[1], x1, x2, wide, gap) /\ Clear(p[2], y1, y2, tall, gap)
    BY <2>1 DEF Confined, x1, x2, y1, y2
  <2> DEFINE u == p[1] - x1
             v == p[2] - y1
  <2>3. u \in 0 .. CropW - 1 /\ v \in 0 .. CropH - 1 /\ x1 + u = p[1] /\ y1 + v = p[2]
    BY <2>1, <2>2, <1>1 DEF Clear
  <2> HIDE DEF u, v
  <2>4. <<u, v>> \in S
    BY <2>1, <2>3, <1>8
  <2>5. m[<<u, v>>] = p
    BY <2>1, <2>3, <2>4, <1>9
  <2>6. p \in T
    BY <2>4, <2>5 DEF T
  <2> QED BY <2>6
<1>19. Total(g, W) = Total(g, T)
  BY <1>13, <1>16, <1>18, SumOfSome
<1>20. Total(b, S) = Total(g, W)
  BY <1>17, <1>19
<1> QED BY <1>12, <1>20 DEF S, W, x1, y1

\* A sum over fewer is no smaller a mean, and without a sum there is none.
LEMMA MeanOfFewer ==
    ASSUME NEW s \in Nat, NEW m \in Nat \ {0}, NEW n \in Nat \ {0}, m <= n
    PROVE  s \div m >= s \div n /\ (s = 0 => s \div m = 0 /\ s \div n = 0)
<1> DEFINE a == s \div m
           b == s \div n
<1>1. /\ a \in Nat /\ s = m * a + (s % m) /\ s % m \in 0 .. m - 1
      /\ b \in Nat /\ s = n * b + (s % n) /\ s % n \in 0 .. n - 1
  BY Divided
<1>2. s = 0 => a = 0 /\ b = 0
  BY SMT
<1> HIDE DEF a, b
<1>3. ~(a < b)
  <2> SUFFICES ASSUME a < b PROVE FALSE
    OBVIOUS
  <2>1. m * (a + 1) <= m * b
    BY <1>1, SMT
  <2>2. m * b <= n * b
    BY <1>1, SMT
  <2>3. m * (a + 1) = m * a + m
    BY <1>1, SMT
  <2>4. m * a \in Nat /\ m * b \in Nat /\ n * b \in Nat
    BY <1>1, SMT
  <2> QED BY <2>1, <2>2, <2>3, <2>4, <1>1
<1> QED BY <1>1, <1>2, <1>3 DEF a, b

\* Whether what a pass gives a pixel of the crop is what it gives it in the image.
Whole(x, y) == /\ Uncut(x, CropBox.x1, CropBox.x2, wide, CropW)
               /\ Uncut(y, CropBox.y1, CropBox.y2, tall, CropH)

\* A pass over the crop gives a pixel no less than one over the image, and just as
\* much if its window is not cut short or the sides are two radii away.
LEMMA CropMeans ==
    ASSUME MaskTypes, CropTypes, Fine \in Nat,
           NEW g \in [Pixels -> Nat], NEW b \in [Area(CropW, CropH) -> Nat],
           CropOf(b, g), NEW gap \in Nat, Confined(g, gap),
           NEW x \in 0 .. CropW - 1, NEW y \in 0 .. CropH - 1
    PROVE  LET c == BoxFilter(b, CropW, CropH)[<<x, y>>]
               d == BoxFilter(g, wide, tall)[<<CropBox.x1 + x, CropBox.y1 + y>>]
           IN  /\ c >= d
               /\ Whole(x, y) => c = d
               /\ gap >= 2 * radius => c = d
<1> DEFINE x1 == CropBox.x1
           y1 == CropBox.y1
           x2 == CropBox.x2
           y2 == CropBox.y2
           S == Window(x, y, CropW, CropH)
           W == Window(x1 + x, y1 + y, wide, tall)
           c == BoxFilter(b, CropW, CropH)[<<x, y>>]
           d == BoxFilter(g, wide, tall)[<<x1 + x, y1 + y>>]
           cw == Width(x, CropW)
           ch == Width(y, CropH)
           dw == Width(x1 + x, wide)
           dh == Width(y1 + y, tall)
           sum == Total(g, W)
<1>1. /\ wide \in Nat \ {0} /\ tall \in Nat \ {0} /\ radius \in Nat
      /\ x1 \in 0 .. wide - 1 /\ x2 \in 1 .. wide /\ x1 < x2 /\ CropW = x2 - x1 /\ CropW \in Nat \ {0}
      /\ y1 \in 0 .. tall - 1 /\ y2 \in 1 .. tall /\ y1 < y2 /\ CropH = y2 - y1 /\ CropH \in Nat \ {0}
  BY DEF MaskTypes, CropTypes
<1>2. Total(b, S) = sum /\ sum \in Nat
  <2>1. Total(b, S) = sum /\ Total(b, S) \in Nat
    BY CropSums
  <2> QED BY <2>1
<1>3. /\ cw \in Nat \ {0} /\ dw \in Nat \ {0} /\ cw <= dw
      /\ Uncut(x, x1, x2, wide, CropW) => cw = dw
  <2> HIDE DEF x1, x2
  <2> QED BY <1>1, CropSide
<1>4. /\ ch \in Nat \ {0} /\ dh \in Nat \ {0} /\ ch <= dh
      /\ Uncut(y, y1, y2, tall, CropH) => ch = dh
  <2> HIDE DEF y1, y2
  <2> QED BY <1>1, CropSide
<1>5. x1 + x \in 0 .. wide - 1 /\ y1 + y \in 0 .. tall - 1
  <2> HIDE DEF x1, x2, y1, y2
  <2> QED BY <1>1
<1>6. c = (Total(b, S) * Fine) \div (cw * ch)
  BY <1>1, BoxFilterIs
<1>7. d = (sum * Fine) \div (dw * dh)
  <2>1. g \in [Area(wide, tall) -> Nat]
    BY DEF Pixels
  <2> HIDE DEF x1, y1
  <2> QED BY <2>1, <1>1, <1>5, BoxFilterIs
<1>8. ASSUME gap >= 2 * radius, ~Whole(x, y) PROVE sum = 0
  <2>1. \A q \in W : g[q] = 0
    <3> SUFFICES ASSUME NEW q \in W, g[q] # 0 PROVE FALSE
      OBVIOUS
    <3>1. /\ q \in Pixels /\ q[1] \in x1 + x - radius .. x1 + x + radius /\ q[2] \in y1 + y - radius .. y1 + y + radius
          /\ q[1] \in 0 .. wide - 1 /\ q[2] \in 0 .. tall - 1
      <4>1. W = Near(<<x1 + x, y1 + y>>, radius) /\ W \subseteq Pixels
        BY <1>5, NearWindow
      <4> HIDE DEF W, x1, y1
      <4>2. q \in Near(<<x1 + x, y1 + y>>, radius) /\ q \in Pixels
        BY <4>1
      <4> HIDE DEF W
      <4>3. q[1] \in 0 .. wide - 1 /\ q[2] \in 0 .. tall - 1
        BY <4>2, PixelPairs
      <4> DEFINE t == <<x1 + x, y1 + y>>
      <4>4. t[1] = x1 + x /\ t[2] = y1 + y
        OBVIOUS
      <4> HIDE DEF t
      <4>5. q[1] \in t[1] - radius .. t[1] + radius /\ q[2] \in t[2] - radius .. t[2] + radius
        <5>1. q \in Near(t, radius)
          BY <4>2 DEF t
        <5> QED BY <5>1 DEF Near
      <4> QED BY <4>2, <4>3, <4>4, <4>5, <1>1
    <3>2. Clear(q[1], x1, x2, wide, gap) /\ Clear(q[2], y1, y2, tall, gap)
      BY <3>1 DEF Confined
    <3>3. ~Uncut(x, x1, x2, wide, CropW) \/ ~Uncut(y, y1, y2, tall, CropH)
      BY <1>8 DEF Whole
    <3> HIDE DEF x1, x2, y1, y2
    <3>4. CASE ~Uncut(x, x1, x2, wide, CropW)
      BY <3>4, <3>1, <3>2, <1>1, <1>8 DEF Uncut, Clear
    <3>5. CASE ~Uncut(y, y1, y2, tall, CropH)
      BY <3>5, <3>1, <3>2, <1>1, <1>8 DEF Uncut, Clear
    <3> QED BY <3>3, <3>4, <3>5
  <2> HIDE DEF W
  <2> QED BY <2>1, SumOfNothing
<1>9. Whole(x, y) => cw = dw /\ ch = dh
  BY <1>3, <1>4 DEF Whole
<1> DEFINE fines == sum * Fine
           cc == cw * ch
           dd == dw * dh
<1>10. fines \in Nat /\ (sum = 0 => fines = 0)
  <2> HIDE DEF sum
  <2> QED BY <1>2, SMT
<1>11. cc \in Nat \ {0} /\ dd \in Nat \ {0} /\ cc <= dd
  <2> HIDE DEF cw, ch, dw, dh
  <2>1. cw * ch <= dw * ch
    BY <1>3, <1>4, SMT
  <2>2. dw * ch <= dw * dh
    BY <1>3, <1>4, SMT
  <2>3. cw * ch \in Nat \ {0} /\ dw * dh \in Nat \ {0} /\ dw * ch \in Nat
    BY <1>3, <1>4, SMT
  <2> QED BY <2>1, <2>2, <2>3
<1>12. c = fines \div cc /\ d = fines \div dd /\ (Whole(x, y) => cc = dd)
  <2> HIDE DEF c, d, cw, ch, dw, dh, sum, S
  <2> QED BY <1>2, <1>6, <1>7, <1>9
<1>13. fines \div cc \in Nat /\ fines \div dd \in Nat
  <2> HIDE DEF fines, cc, dd
  <2> QED BY <1>10, <1>11, Divided
<1>14. fines \div cc >= fines \div dd /\ (fines = 0 => fines \div cc = 0 /\ fines \div dd = 0)
  <2> HIDE DEF fines, cc, dd
  <2> QED BY <1>10, <1>11, MeanOfFewer
<1>15. c >= d /\ (Whole(x, y) => c = d) /\ (gap >= 2 * radius => c = d)
  <2> HIDE DEF c, d, fines, cc, dd, sum
  <2> QED BY <1>8, <1>10, <1>12, <1>14
<1> QED BY <1>15

\* What the next pass starts from, on the crop and on the whole mask.
CropNow  == IF passes = 0 THEN Cropped ELSE buf
WholeNow == IF passes = 0 THEN ink ELSE whole

\* How far it is from the sides of the crop.
Gap == IF passes = 0 THEN 3 * radius ELSE IF passes = 1 THEN 2 * radius ELSE IF passes = 2 THEN radius ELSE 0

\* The passes keep what the next one needs: up to the last one, the crop is exact.
BlurInv ==
    /\ passes \in 0 .. 3
    /\ passes > 0 => Painted # {}
    /\ Painted # {} => /\ CropNow \in [Area(CropW, CropH) -> Nat]
                       /\ WholeNow \in [Pixels -> Nat]
                       /\ Confined(WholeNow, Gap)
                       /\ passes < 3 => CropOf(CropNow, WholeNow)
    /\ BlurRight

\* At first there is the mask and its crop.
LEMMA BlurStarts == ASSUME MaskTypes, passes = 0 PROVE BlurInv
<1>1. Painted # {} => CropTypes /\ Confined(ink, 3 * radius) /\ CropOf(Cropped, ink)
                      /\ Cropped \in [Area(CropW, CropH) -> Nat] /\ ink \in [Pixels -> Nat]
  BY CropIs
<1>2. CropNow = Cropped /\ WholeNow = ink /\ Gap = 3 * radius
  BY DEF CropNow, WholeNow, Gap
<1>3. BlurRight
  BY DEF BlurRight
<1> QED BY <1>1, <1>2, <1>3 DEF BlurInv

\* What moves when a pass is made over a mask.
LEMMA MaskStays ==
    ASSUME UNCHANGED <<wide, tall, ink, radius>>
    PROVE  /\ Pixels' = Pixels /\ Painted' = Painted /\ CropBox' = CropBox
           /\ CropW' = CropW /\ CropH' = CropH /\ Cropped' = Cropped /\ ink' = ink
           /\ wide' = wide /\ tall' = tall /\ radius' = radius
<1>1. Pixels' = Pixels
  BY DEF Pixels
<1>2. Painted' = Painted
  BY <1>1 DEF Painted
<1>3. CropBox' = CropBox
  BY <1>2 DEF CropBox, Outline
<1>4. CropW' = CropW /\ CropH' = CropH
  BY <1>3 DEF CropW, CropH
<1>5. Cropped' = Cropped
  BY <1>3, <1>4 DEF Cropped
<1> QED BY <1>1, <1>2, <1>3, <1>4, <1>5

\* A pass keeps it so.
LEMMA PassKeeps ==
    ASSUME MaskTypes, Fine \in Nat, BlurInv, Pass
    PROVE  BlurInv'
<1> DEFINE g == WholeNow
           b == CropNow
           c == BoxFilter(b, CropW, CropH)
           d == BoxFilter(g, wide, tall)
<1>1. /\ Painted # {} /\ passes \in 0 .. 2 /\ passes' = passes + 1
      /\ buf' = c /\ whole' = d
      /\ UNCHANGED <<wide, tall, ink, radius>>
  BY DEF Pass, BlurInv, CropNow, WholeNow
<1>2. /\ b \in [Area(CropW, CropH) -> Nat] /\ g \in [Pixels -> Nat]
      /\ Confined(g, Gap) /\ CropOf(b, g)
  BY <1>1 DEF BlurInv
<1>3. CropTypes
  BY <1>1, CropIs
<1>4. wide \in Nat \ {0} /\ tall \in Nat \ {0} /\ radius \in Nat
  BY DEF MaskTypes
<1>5. /\ Gap \in Nat /\ Gap >= radius /\ Gap' = Gap - radius
      /\ passes < 2 => Gap >= 2 * radius
      /\ passes = 2 => Gap = radius
  BY <1>1, <1>4 DEF Gap
<1> HIDE DEF g, b
<1>6. d \in [Pixels -> Nat] /\ c \in [Area(CropW, CropH) -> Nat]
  <2>1. CropW \in Nat \ {0} /\ CropH \in Nat \ {0}
    BY <1>3 DEF CropTypes
  <2>2. g \in [Area(wide, tall) -> Nat]
    BY <1>2 DEF Pixels
  <2>3. d \in [Area(wide, tall) -> Nat]
    BY <1>4, <2>2, BoxFilterIs
  <2>4. c \in [Area(CropW, CropH) -> Nat]
    BY <1>2, <1>4, <2>1, BoxFilterIs
  <2> HIDE DEF c, d
  <2> QED BY <2>3, <2>4 DEF Pixels
<1>7. Confined(d, Gap - radius)
  BY <1>2, <1>3, <1>5, PassSpreads
<1>8. ASSUME NEW x \in 0 .. CropW - 1, NEW y \in 0 .. CropH - 1
      PROVE  /\ c[<<x, y>>] >= d[<<CropBox.x1 + x, CropBox.y1 + y>>]
             /\ Whole(x, y) => c[<<x, y>>] = d[<<CropBox.x1 + x, CropBox.y1 + y>>]
             /\ Gap >= 2 * radius => c[<<x, y>>] = d[<<CropBox.x1 + x, CropBox.y1 + y>>]
  BY <1>2, <1>3, <1>5, CropMeans
<1> HIDE DEF c, d
<1>9. CropNow' = c /\ WholeNow' = d
  BY <1>1 DEF CropNow, WholeNow
<1>10. /\ Pixels' = Pixels /\ Painted' = Painted /\ CropBox' = CropBox
       /\ CropW' = CropW /\ CropH' = CropH /\ Cropped' = Cropped /\ ink' = ink
       /\ wide' = wide /\ tall' = tall /\ radius' = radius
  BY <1>1, MaskStays
<1>11. Confined(WholeNow, Gap)'
  BY <1>5, <1>7, <1>9, <1>10 DEF Confined, Clear
<1>12. ASSUME (passes < 3)' PROVE CropOf(CropNow, WholeNow)'
  <2>1. Gap >= 2 * radius
    BY <1>1, <1>5, <1>12
  <2> QED BY <2>1, <1>8, <1>9, <1>10 DEF CropOf
<1>13. ASSUME passes' = 3, NEW p \in Pixels,
              NEW x, x = p[1] - CropBox.x1, NEW y, y = p[2] - CropBox.y1
       PROVE  IF <<x, y>> \notin Area(CropW, CropH) THEN d[p] = 0
              ELSE /\ c[<<x, y>>] >= d[p]
                   /\ Whole(x, y) => c[<<x, y>>] = d[p]
  <2>1. p[1] \in 0 .. wide - 1 /\ p[2] \in 0 .. tall - 1 /\ p = <<p[1], p[2]>>
    BY PixelPairs
  <2>2. CASE <<x, y>> \notin Area(CropW, CropH)
    <3> SUFFICES ASSUME d[p] # 0 PROVE FALSE
      BY <2>2
    <3>1. Clear(p[1], CropBox.x1, CropBox.x2, wide, Gap - radius) /\ Clear(p[2], CropBox.y1, CropBox.y2, tall, Gap - radius)
      BY <1>7 DEF Confined
    <3>2. Gap - radius = 0
      BY <1>1, <1>4, <1>5, <1>13
    <3>3. x \in 0 .. CropW - 1 /\ y \in 0 .. CropH - 1
      BY <3>1, <3>2, <2>1, <1>3, <1>4, <1>13 DEF Clear, CropTypes
    <3> QED BY <3>3, <2>2 DEF Area
  <2>3. CASE <<x, y>> \in Area(CropW, CropH)
    <3>1. x \in 0 .. CropW - 1 /\ y \in 0 .. CropH - 1
      BY <2>3 DEF Area
    <3>2. CropBox.x1 + x = p[1] /\ CropBox.y1 + y = p[2]
      BY <2>1, <1>3, <1>13 DEF CropTypes
    <3>3. <<CropBox.x1 + x, CropBox.y1 + y>> = p
      BY <2>1, <3>2
    <3>4. /\ c[<<x, y>>] >= d[<<CropBox.x1 + x, CropBox.y1 + y>>]
          /\ Whole(x, y) => c[<<x, y>>] = d[<<CropBox.x1 + x, CropBox.y1 + y>>]
      BY <3>1, <1>8
    <3> QED BY <2>3, <3>3, <3>4
  <2> QED BY <2>2, <2>3
<1>14. BlurRight'
  <2> SUFFICES ASSUME passes' = 3, NEW p \in Pixels
               PROVE  LET x == p[1] - CropBox.x1
                          y == p[2] - CropBox.y1
                          Within(v, low, high, n, long) ==
                              (low = 0 \/ v >= radius) /\ (high = n \/ v < long - radius)
                      IN  IF <<x, y>> \notin Area(CropW, CropH) THEN d[p] = 0
                          ELSE /\ c[<<x, y>>] >= d[p]
                               /\ Within(x, CropBox.x1, CropBox.x2, wide, CropW) /\ Within(y, CropBox.y1, CropBox.y2, tall, CropH)
                                      => c[<<x, y>>] = d[p]
    BY <1>1, <1>10, Zenon DEF BlurRight
  <2> DEFINE x == p[1] - CropBox.x1
             y == p[2] - CropBox.y1
  <2> HIDE DEF x, y
  <2>1. IF <<x, y>> \notin Area(CropW, CropH) THEN d[p] = 0
        ELSE /\ c[<<x, y>>] >= d[p]
             /\ Whole(x, y) => c[<<x, y>>] = d[p]
    BY <1>13 DEF x, y
  <2>2. Whole(x, y) <=> /\ (CropBox.x1 = 0 \/ x >= radius) /\ (CropBox.x2 = wide \/ x < CropW - radius)
                        /\ (CropBox.y1 = 0 \/ y >= radius) /\ (CropBox.y2 = tall \/ y < CropH - radius)
    BY DEF Whole, Uncut
  <2> QED BY <2>1, <2>2, Zenon DEF x, y
<1> QED BY <1>1, <1>6, <1>9, <1>10, <1>11, <1>12, <1>14 DEF BlurInv

----------------------------------------------------------------------------
(* Regions                                                                 *)

\* One step to the left, to the right, up or down.
Touch(p, q) == (p[1] - q[1]) * (p[1] - q[1]) + (p[2] - q[2]) * (p[2] - q[2]) = 1

\* The four pixels around one.
LEMMA TouchIs ==
    ASSUME NEW a \in Int, NEW b \in Int
    PROVE  a * a + b * b = 1 <=> \/ a = 0 /\ b \in {1, -1}
                                 \/ b = 0 /\ a \in {1, -1}
<1>1. \A n \in Int : n * n \in Nat
  BY SMT
<1>2. \A n \in Int : n * n <= 1 => n \in {0, 1, -1}
  <2> SUFFICES ASSUME NEW n \in Int, n \notin {0, 1, -1} PROVE n * n > 1
    BY <1>1
  <2>1. n >= 2 \/ n <= -2
    OBVIOUS
  <2> QED BY <2>1, SMT
<1>3. a * a \in Nat /\ b * b \in Nat
  BY <1>1
<1>4. ASSUME a * a + b * b = 1 PROVE a \in {0, 1, -1} /\ b \in {0, 1, -1}
  <2>1. a * a <= 1 /\ b * b <= 1
    BY <1>3, <1>4
  <2> QED BY <2>1, <1>2
<1>5. /\ \A n : n = 0 => n * n = 0
      /\ \A n : n = 1 => n * n = 1
      /\ \A n : n = -1 => n * n = 1
  BY SMT
<1> QED BY <1>4, <1>5

\* What no step leads out of, by Touch.
LEMMA ClosedIs == \A S : Closed(S) <=> \A p \in S, q \in Painted \ S : ~Touch(p, q)
BY DEF Closed, Touch

\* A step back is a step.
LEMMA TouchBack == ASSUME MaskTypes, NEW p \in Pixels, NEW q \in Pixels PROVE Touch(p, q) <=> Touch(q, p)
<1>1. p[1] \in Int /\ p[2] \in Int /\ q[1] \in Int /\ q[2] \in Int
  <2>1. wide \in Int /\ tall \in Int
    BY DEF MaskTypes
  <2> QED BY <2>1, PixelPairs
<1>2. \A m, n \in Int : (m - n) * (m - n) = (n - m) * (n - m)
  BY SMT
<1> QED BY <1>1, <1>2 DEF Touch

\* The painted pixels that steps lead to from p.
Comp(p) == {q \in Painted : \A S \in SUBSET Painted : Closed(S) /\ p \in S => q \in S}

\* Of closed sets, what is in one and not in another is closed, and so is what is in
\* either.
LEMMA ClosedParts ==
    ASSUME MaskTypes, NEW S, NEW T, S \subseteq Painted, T \subseteq Painted, Closed(S), Closed(T)
    PROVE  Closed(S \ T) /\ Closed(S \cup T)
<1>1. \A p, q \in Painted : Touch(p, q) <=> Touch(q, p)
  BY TouchBack DEF Painted
<1>2. /\ \A p \in S, q \in Painted \ S : ~Touch(p, q)
      /\ \A p \in T, q \in Painted \ T : ~Touch(p, q)
  BY ClosedIs
<1>3. \A p \in S \ T, q \in Painted \ (S \ T) : ~Touch(p, q)
  BY <1>1, <1>2
<1>4. \A p \in S \cup T, q \in Painted \ (S \cup T) : ~Touch(p, q)
  BY <1>2
<1> QED BY <1>3, <1>4, ClosedIs

\* They are a closed set with p, and the smallest.
LEMMA CompIs ==
    ASSUME MaskTypes, NEW p \in Painted
    PROVE  /\ Comp(p) \subseteq Painted /\ p \in Comp(p) /\ Closed(Comp(p))
           /\ \A S \in SUBSET Painted : Closed(S) /\ p \in S => Comp(p) \subseteq S
<1>1. Comp(p) \subseteq Painted /\ p \in Comp(p)
      /\ \A S \in SUBSET Painted : Closed(S) /\ p \in S => Comp(p) \subseteq S
  BY DEF Comp
<1>2. \A q \in Comp(p), s \in Painted \ Comp(p) : ~Touch(q, s)
  <2> SUFFICES ASSUME NEW q \in Comp(p), NEW s \in Painted \ Comp(p), Touch(q, s) PROVE FALSE
    OBVIOUS
  <2>1. PICK S \in SUBSET Painted : Closed(S) /\ p \in S /\ s \notin S
    BY DEF Comp
  <2>2. q \in S
    BY <1>1, <2>1
  <2> QED BY <2>1, <2>2, ClosedIs
<1>3. Closed(Comp(p))
  BY <1>2, ClosedIs
<1> QED BY <1>1, <1>3

\* The pixels that steps lead to from p have the same.
LEMMA SameComp ==
    ASSUME MaskTypes, NEW p \in Painted, NEW q \in Comp(p)
    PROVE  q \in Painted /\ Comp(q) = Comp(p)
<1>1. /\ q \in Painted /\ Comp(p) \subseteq Painted /\ p \in Comp(p) /\ Closed(Comp(p))
      /\ \A S \in SUBSET Painted : Closed(S) /\ p \in S => Comp(p) \subseteq S
  BY CompIs
<1>2. /\ Comp(q) \subseteq Painted /\ q \in Comp(q) /\ Closed(Comp(q))
      /\ \A S \in SUBSET Painted : Closed(S) /\ q \in S => Comp(q) \subseteq S
  BY <1>1, CompIs
<1>3. Comp(q) \subseteq Comp(p)
  BY <1>1, <1>2
<1>4. p \in Comp(q)
  <2> SUFFICES ASSUME p \notin Comp(q) PROVE FALSE
    OBVIOUS
  <2> DEFINE S == Comp(p) \ Comp(q)
  <2>1. Closed(S) /\ S \in SUBSET Painted /\ p \in S
    BY <1>1, <1>2, ClosedParts
  <2> HIDE DEF S
  <2>2. Comp(p) \subseteq S
    BY <1>1, <2>1
  <2> QED BY <2>2, <1>2 DEF S
<1> QED BY <1>1, <1>2, <1>3, <1>4

\* So they are the parts of the mask.
LEMMA PartedIs == ASSUME MaskTypes PROVE Parted = {Comp(p) : p \in Painted}
<1>1. ASSUME NEW S \in Parted PROVE \E p \in Painted : S = Comp(p)
  <2>1. /\ S \in SUBSET Painted /\ S # {} /\ Closed(S)
        /\ \A inner \in (SUBSET S) \ {{}, S} : ~Closed(inner)
    BY DEF Parted
  <2>2. PICK p \in S : TRUE
    BY <2>1
  <2>3. p \in Painted /\ Comp(p) \subseteq S /\ p \in Comp(p) /\ Closed(Comp(p))
    BY <2>1, CompIs
  <2> QED BY <2>1, <2>3
<1>2. ASSUME NEW p \in Painted PROVE Comp(p) \in Parted
  <2>1. Comp(p) \in (SUBSET Painted) \ {{}} /\ Closed(Comp(p))
    BY CompIs
  <2>2. ASSUME NEW inner \in (SUBSET Comp(p)) \ {{}, Comp(p)}, Closed(inner) PROVE FALSE
    <3>1. PICK q \in inner : TRUE
      OBVIOUS
    <3>2. q \in Comp(p) /\ inner \in SUBSET Painted
      BY <2>1
    <3>3. q \in Painted /\ Comp(q) = Comp(p)
      BY <3>2, SameComp
    <3>4. Comp(q) \subseteq inner
      BY <2>2, <3>2, <3>3, CompIs
    <3> QED BY <3>3, <3>4
  <2> QED BY <2>1, <2>2 DEF Parted
<1> QED BY <1>1, <1>2

----------------------------------------------------------------------------
(* What has been seen                                                      *)

\* The painted pixels whose indices are in `visited`.
Seen == {p \in Painted : LocalIdx(p) \in visited}

\* A number of rows and a place in one say which pixel it is.
LEMMA RowAndPlace ==
    ASSUME NEW n \in Nat, NEW a \in Nat, NEW b \in Nat, NEW c \in 0 .. n - 1, NEW d \in 0 .. n - 1,
           a * n + c = b * n + d
    PROVE  a = b /\ c = d
<1>1. ASSUME NEW i \in Nat, NEW j \in Nat, i < j PROVE i * n + n <= j * n
  <2>1. (i + 1) * n <= j * n
    BY <1>1, SMT
  <2>2. (i + 1) * n = i * n + n
    BY SMT
  <2> QED BY <2>1, <2>2
<1>2. a * n \in Nat /\ b * n \in Nat
  BY SMT
<1>3. ~(a < b) /\ ~(b < a)
  <2>1. ASSUME a < b PROVE FALSE
    <3>1. a * n + n <= b * n
      BY <1>1, <2>1
    <3> QED BY <3>1, <1>2
  <2>2. ASSUME b < a PROVE FALSE
    <3>1. b * n + n <= a * n
      BY <1>1, <2>2
    <3> QED BY <3>1, <1>2
  <2> QED BY <2>1, <2>2
<1>4. a = b
  BY <1>3
<1> QED BY <1>2, <1>4

\* The outer box holds what is painted, and no two pixels of it have one index.
LEMMA OuterIs ==
    ASSUME MaskTypes, Painted # {}
    PROVE  /\ Outer.x1 \in 0 .. wide - 1 /\ Outer.x2 \in 1 .. wide
           /\ Outer.y1 \in 0 .. tall - 1 /\ Outer.y2 \in 1 .. tall
           /\ \A p \in Painted : p[1] \in Outer.x1 .. Outer.x2 - 1 /\ p[2] \in Outer.y1 .. Outer.y2 - 1
           /\ \A p, q \in Painted : LocalIdx(p) = LocalIdx(q) => p = q
<1>1. /\ Outer.x1 \in 0 .. wide - 1 /\ Outer.x2 \in 1 .. wide
      /\ Outer.y1 \in 0 .. tall - 1 /\ Outer.y2 \in 1 .. tall
      /\ \A p \in Painted : Outer.x1 <= p[1] /\ p[1] < Outer.x2 /\ Outer.y1 <= p[2] /\ p[2] < Outer.y2
  BY OutlineIs DEF Outer
<1>2. \A p \in Painted : p[1] \in 0 .. wide - 1 /\ p[2] \in 0 .. tall - 1 /\ p = <<p[1], p[2]>>
  BY PixelPairs DEF Painted
<1>3. wide \in Nat /\ tall \in Nat
  BY DEF MaskTypes
<1>4. \A p \in Painted : p[1] \in Outer.x1 .. Outer.x2 - 1 /\ p[2] \in Outer.y1 .. Outer.y2 - 1
  BY <1>1, <1>2, <1>3
<1>5. ASSUME NEW p \in Painted, NEW q \in Painted, LocalIdx(p) = LocalIdx(q) PROVE p = q
  <2> DEFINE n == Outer.x2 - Outer.x1
             a == p[2] - Outer.y1
             b == q[2] - Outer.y1
             c == p[1] - Outer.x1
             d == q[1] - Outer.x1
  <2>1. /\ n \in Nat /\ a \in Nat /\ b \in Nat /\ c \in 0 .. n - 1 /\ d \in 0 .. n - 1
    BY <1>1, <1>2, <1>3
  <2>2. a * n + c = b * n + d
    BY <1>5 DEF LocalIdx
  <2>3. a = b /\ c = d
    <3> HIDE DEF a, b, c, d, n
    <3> QED BY <2>1, <2>2, RowAndPlace
  <2>4. p[1] = q[1] /\ p[2] = q[2]
    BY <2>3, <1>1, <1>2, <1>3
  <2> QED BY <2>4, <1>2
<1> QED BY <1>1, <1>4, <1>5

\* A pixel is pushed if it is painted and not seen.
LEMMA PushedIs ==
    ASSUME MaskTypes, Painted # {}, NEW u \in Int, NEW v \in Int, NEW q, q = <<u, v>>
    PROVE  PushIfUnvisited(q) \in Seq(Painted) /\ Range(PushIfUnvisited(q)) = {q} \cap (Painted \ Seen)
<1>1. q[1] = u /\ q[2] = v
  OBVIOUS
<1> DEFINE Within == u \in Outer.x1 .. Outer.x2 - 1 /\ v \in Outer.y1 .. Outer.y2 - 1
<1>2. PushIfUnvisited(q) = IF Within /\ Unseen(q) THEN <<q>> ELSE <<>>
  BY <1>1, Zenon DEF PushIfUnvisited
<1>3. q \in Painted => Within
  BY <1>1, OuterIs
<1>4. Within => q \in Pixels
  <2>1. wide \in Nat /\ tall \in Nat
    BY DEF MaskTypes
  <2>2. /\ Outer.x1 \in 0 .. wide - 1 /\ Outer.x2 \in 1 .. wide
        /\ Outer.y1 \in 0 .. tall - 1 /\ Outer.y2 \in 1 .. tall
    BY OuterIs
  <2>3. Within => u \in 0 .. wide - 1 /\ v \in 0 .. tall - 1
    BY <2>1, <2>2
  <2> QED BY <2>3 DEF Pixels, Area
<1> HIDE DEF Within
<1>5. (Within /\ Unseen(q)) <=> q \in Painted \ Seen
  BY <1>3, <1>4 DEF Unseen, Seen, Painted
<1>6. CASE Within /\ Unseen(q)
  <2>1. PushIfUnvisited(q) = <<q>> /\ q \in Painted \ Seen
    BY <1>2, <1>5, <1>6
  <2>2. Range(<<q>>) = {q}
    BY DEF Range
  <2> QED BY <2>1, <2>2
<1>7. CASE ~(Within /\ Unseen(q))
  <2>1. PushIfUnvisited(q) = <<>> /\ q \notin Painted \ Seen
    BY <1>2, <1>5, <1>7
  <2>2. Range(<<>>) = {}
    BY DEF Range
  <2> QED BY <2>1, <2>2
<1> QED BY <1>6, <1>7

\* What is pushed from p is what one step leads to and is not seen.
LEMMA NeighboursAre ==
    ASSUME MaskTypes, NEW p \in Painted
    PROVE  /\ Neighbours(p) \in Seq(Painted)
           /\ Range(Neighbours(p)) = {q \in Painted \ Seen : Touch(p, q)}
<1> DEFINE x == p[1]
           y == p[2]
           left == <<x - 1, y>>
           right == <<x + 1, y>>
           up == <<x, y - 1>>
           down == <<x, y + 1>>
           New == Painted \ Seen
<1>1. x \in Int /\ y \in Int
  <2>1. wide \in Nat /\ tall \in Nat
    BY DEF MaskTypes
  <2> QED BY <2>1, PixelPairs DEF Painted
<1>2. Painted # {}
  OBVIOUS
<1> HIDE DEF x, y
<1>3. PushIfUnvisited(left) \in Seq(Painted) /\ Range(PushIfUnvisited(left)) = {left} \cap New
  BY <1>1, <1>2, PushedIs
<1>4. PushIfUnvisited(right) \in Seq(Painted) /\ Range(PushIfUnvisited(right)) = {right} \cap New
  BY <1>1, <1>2, PushedIs
<1>5. PushIfUnvisited(up) \in Seq(Painted) /\ Range(PushIfUnvisited(up)) = {up} \cap New
  BY <1>1, <1>2, PushedIs
<1>6. PushIfUnvisited(down) \in Seq(Painted) /\ Range(PushIfUnvisited(down)) = {down} \cap New
  BY <1>1, <1>2, PushedIs
<1> DEFINE one   == PushIfUnvisited(left) \o PushIfUnvisited(right)
           two   == one \o PushIfUnvisited(up)
           three == two \o PushIfUnvisited(down)
<1>7. Neighbours(p) = three
  BY DEF Neighbours, x, y
<1> HIDE DEF left, right, up, down, New
<1>8. one \in Seq(Painted) /\ Range(one) = {left, right} \cap New
  BY <1>3, <1>4, ConcatItems
<1> HIDE DEF one
<1>9. two \in Seq(Painted) /\ Range(two) = {left, right, up} \cap New
  <2>1. two \in Seq(Painted) /\ Range(two) = Range(one) \cup Range(PushIfUnvisited(up))
    BY <1>5, <1>8, ConcatItems
  <2> QED BY <2>1, <1>5, <1>8
<1> HIDE DEF two
<1>10. Neighbours(p) \in Seq(Painted) /\ Range(Neighbours(p)) = {left, right, up, down} \cap New
  <2>1. three \in Seq(Painted) /\ Range(three) = Range(two) \cup Range(PushIfUnvisited(down))
    BY <1>6, <1>9, ConcatItems
  <2> QED BY <2>1, <1>6, <1>7, <1>9
<1>11. ASSUME NEW q \in New PROVE q \in {left, right, up, down} <=> Touch(p, q)
  <2>1. q[1] \in Int /\ q[2] \in Int /\ q = <<q[1], q[2]>>
    <3>1. wide \in Nat /\ tall \in Nat
      BY DEF MaskTypes
    <3>2. q \in Pixels
      BY DEF New, Painted
    <3> QED BY <3>1, <3>2, PixelPairs
  <2> DEFINE a == x - q[1]
             b == y - q[2]
  <2>2. a \in Int /\ b \in Int
    BY <1>1, <2>1
  <2>3. Touch(p, q) <=> a * a + b * b = 1
    BY DEF Touch, x, y
  <2> HIDE DEF a, b
  <2>4. Touch(p, q) <=> \/ a = 0 /\ b \in {1, -1}
                        \/ b = 0 /\ a \in {1, -1}
    BY <2>2, <2>3, TouchIs
  <2>5. q \in {left, right, up, down} <=> \/ q[1] = x - 1 /\ q[2] = y
                                          \/ q[1] = x + 1 /\ q[2] = y
                                          \/ q[1] = x /\ q[2] = y - 1
                                          \/ q[1] = x /\ q[2] = y + 1
    BY <2>1 DEF left, right, up, down
  <2> QED BY <2>1, <2>4, <2>5, <1>1 DEF a, b
<1>12. New \subseteq Painted
  BY DEF New
<1>13. Range(Neighbours(p)) = {q \in New : Touch(p, q)}
  BY <1>10, <1>11
<1> QED BY <1>10, <1>13 DEF New

----------------------------------------------------------------------------
(* The regions in the making                                               *)

CompsOf(S) == {Comp(p) : p \in S}
Boxes      == {BoxOf(Comp(p)) : p \in Painted}

\* The regions made are those of S, which is closed.
Made(S, made) ==
    /\ Closed(S) /\ made \in Seq(Boxes)
    /\ Range(made) = {BoxOf(Comp(p)) : p \in S}
    /\ Len(made) = Cardinality(CompsOf(S))

\* The box b holds a pixel; the pixels of C reach its sides.
InBox(q, b) == b.x1 <= q[1] /\ q[1] <= b.x2 /\ b.y1 <= q[2] /\ q[2] <= b.y2
Reaches(C, b) ==
    /\ \E q \in C : q[1] = b.x1
    /\ \E q \in C : q[1] = b.x2
    /\ \E q \in C : q[2] = b.y1
    /\ \E q \in C : q[2] = b.y2

\* The region of c is in the making: what was seen of it and has left the queue is in
\* the box, and the painted pixels around it were seen.
Growing(c, seen, ahead, made, b) ==
    /\ c \in seen
    /\ Range(ahead) \subseteq Comp(c) \cap seen
    /\ Made(seen \ Comp(c), made)
    /\ \A q \in (seen \cap Comp(c)) \ Range(ahead) :
           InBox(q, b) /\ \A s \in Painted : Touch(q, s) => s \in seen
    /\ Reaches(Comp(c), b)

\* Between two regions those of what was seen are made; else the queue is in one.
RegionsInv ==
    /\ frontier \in Seq(Painted)
    /\ frontier = <<>> => Made(Seen, regions)
    /\ frontier # <<>> => \E c \in Painted : Growing(c, Seen, frontier, regions, box)

\* What is painted is finite.
LEMMA PaintedFinite == ASSUME MaskTypes PROVE IsFiniteSet(Painted)
<1>1. wide \in Nat \ {0} /\ tall \in Nat \ {0} /\ ink \in [Area(wide, tall) -> Nat] /\ Painted \subseteq Area(wide, tall)
  BY DEF MaskTypes, Marks, Pixels, Painted
<1> QED BY <1>1, PartOfArea DEF Summable

\* A region more.
LEMMA MadeMore ==
    ASSUME MaskTypes, NEW S, S \subseteq Painted, NEW made, Made(S, made),
           NEW c \in Painted, S \cap Comp(c) = {}
    PROVE  Made(S \cup Comp(c), Append(made, BoxOf(Comp(c))))
<1> DEFINE C == Comp(c)
           T == S \cup C
           one == BoxOf(C)
<1>1. C \subseteq Painted /\ c \in C /\ Closed(C) /\ \A q \in C : Comp(q) = C
  BY CompIs, SameComp
<1>2. Closed(S) /\ made \in Seq(Boxes) /\ Range(made) = {BoxOf(Comp(p)) : p \in S} /\ Len(made) = Cardinality(CompsOf(S))
  BY DEF Made
<1>3. Closed(T)
  BY <1>1, <1>2, ClosedParts
<1>4. one \in Boxes
  BY DEF Boxes
<1>5. CompsOf(T) = CompsOf(S) \cup {C}
  BY <1>1 DEF CompsOf
<1>6. C \notin CompsOf(S)
  <2> SUFFICES ASSUME NEW p \in S, Comp(p) = C PROVE FALSE
    BY DEF CompsOf
  <2>1. p \in Comp(p)
    BY CompIs
  <2> QED BY <2>1
<1>7. {BoxOf(Comp(p)) : p \in T} = {BoxOf(Comp(p)) : p \in S} \cup {one}
  <2>1. \A p \in C : BoxOf(Comp(p)) = one
    BY <1>1
  <2>2. c \in T /\ BoxOf(Comp(c)) = one
    BY <1>1
  <2> HIDE DEF one
  <2> QED BY <2>1, <2>2, <1>1
<1>8. IsFiniteSet(CompsOf(S))
  <2> DEFINE f == [p \in S |-> Comp(p)]
  <2>1. IsFiniteSet(S)
    BY PaintedFinite, FS_Subset
  <2>2. f \in Surjection(S, CompsOf(S))
    BY DEF Surjection, CompsOf
  <2> QED BY <2>1, <2>2, FS_Surjection
<1> HIDE DEF C, T, one
<1>9. Cardinality(CompsOf(T)) = Cardinality(CompsOf(S)) + 1
  BY <1>5, <1>6, <1>8, FS_AddElement
<1>10. /\ Append(made, one) \in Seq(Boxes) /\ Len(Append(made, one)) = Len(made) + 1
       /\ Range(Append(made, one)) = Range(made) \cup {one}
  BY <1>2, <1>4, AppendProperties, AppendItems
<1>11. Range(Append(made, one)) = {BoxOf(Comp(p)) : p \in T}
  BY <1>2, <1>7, <1>10, Zenon
<1>12. Len(Append(made, one)) = Cardinality(CompsOf(T))
  BY <1>2, <1>9, <1>10
<1>13. Made(T, Append(made, one))
  BY <1>3, <1>10, <1>11, <1>12 DEF Made
<1> QED BY <1>13 DEF T, C, one

\* With the queue empty, all of the region has been seen, and the box is that of it.
LEMMA Finished ==
    ASSUME MaskTypes, NEW c \in Painted, NEW seen, seen \subseteq Painted, NEW made,
           NEW b, Growing(c, seen, <<>>, made, b)
    PROVE  /\ \A q \in Comp(c) : InBox(q, b)
           /\ Made(seen, Append(made, BoxOf(Comp(c))))
<1> DEFINE C == Comp(c)
           S == seen \cap C
<1>1. /\ c \in seen /\ Made(seen \ C, made)
      /\ \A q \in S \ Range(<<>>) : InBox(q, b) /\ \A s \in Painted : Touch(q, s) => s \in seen
  BY DEF Growing
<1>2. Range(<<>>) = {}
  BY DEF Range
<1>3. C \subseteq Painted /\ c \in C /\ Closed(C)
      /\ \A U \in SUBSET Painted : Closed(U) /\ c \in U => C \subseteq U
  BY CompIs
<1>4. Closed(S)
  <2>1. \A q \in S, s \in Painted \ S : ~Touch(q, s)
    <3> SUFFICES ASSUME NEW q \in S, NEW s \in Painted \ S, Touch(q, s) PROVE FALSE
      OBVIOUS
    <3>1. s \in seen
      BY <1>1, <1>2
    <3>2. s \in C
      <4>1. \A p \in C, t \in Painted \ C : ~Touch(p, t)
        BY <1>3, ClosedIs
      <4> QED BY <4>1
    <3> QED BY <3>1, <3>2
  <2> QED BY <2>1, ClosedIs
<1>5. C \subseteq S
  BY <1>1, <1>3, <1>4
<1>6. \A q \in C : InBox(q, b)
  BY <1>1, <1>2, <1>5
<1>7. Made((seen \ C) \cup C, Append(made, BoxOf(C)))
  <2>1. seen \ C \subseteq Painted /\ (seen \ C) \cap C = {}
    OBVIOUS
  <2> QED BY <2>1, <1>1, MadeMore
<1>8. (seen \ C) \cup C = seen
  BY <1>5
<1> QED BY <1>6, <1>7, <1>8

\* The box with a pixel more.
Wider(b, p) == [x1 |-> Smallest({b.x1, p[1]}), y1 |-> Smallest({b.y1, p[2]}),
                x2 |-> Greatest({b.x2, p[1]}), y2 |-> Greatest({b.y2, p[2]})]

\* It holds what it held and the pixel, and is the smallest once it holds all of C.
LEMMA WiderIs ==
    ASSUME MaskTypes, NEW C, C \subseteq Painted, NEW b, Reaches(C, b), NEW p \in C
    PROVE  /\ Reaches(C, Wider(b, p)) /\ InBox(p, Wider(b, p))
           /\ \A q \in Painted : InBox(q, b) => InBox(q, Wider(b, p))
           /\ (\A q \in C : InBox(q, Wider(b, p))) => Wider(b, p) = BoxOf(C)
<1> DEFINE d == Wider(b, p)
<1>1. wide \in Nat \ {0} /\ tall \in Nat \ {0}
  BY DEF MaskTypes
<1>2. \A q \in Painted : q[1] \in 0 .. wide - 1 /\ q[2] \in 0 .. tall - 1
  BY PixelPairs DEF Painted
<1>3. /\ b.x1 \in 0 .. wide - 1 /\ b.x2 \in 0 .. wide - 1
      /\ b.y1 \in 0 .. tall - 1 /\ b.y2 \in 0 .. tall - 1
  BY <1>2 DEF Reaches
<1>4. p[1] \in 0 .. wide - 1 /\ p[2] \in 0 .. tall - 1
  BY <1>2
<1>5. ASSUME NEW n \in Nat \ {0}, NEW i \in 0 .. n - 1, NEW j \in 0 .. n - 1
      PROVE  /\ Smallest({i, j}) \in {i, j} /\ Smallest({i, j}) <= i /\ Smallest({i, j}) <= j
             /\ Greatest({i, j}) \in {i, j} /\ i <= Greatest({i, j}) /\ j <= Greatest({i, j})
  <2> DEFINE S == {i, j}
  <2>1. S \subseteq 0 .. n - 1 /\ S # {} /\ i \in S /\ j \in S
    OBVIOUS
  <2> HIDE DEF S
  <2>2. /\ Smallest(S) \in S /\ Smallest(S) <= i /\ Smallest(S) <= j
        /\ Greatest(S) \in S /\ i <= Greatest(S) /\ j <= Greatest(S)
    BY <2>1, EndsOf
  <2> QED BY <2>2 DEF S
<1>6. /\ d.x1 \in {b.x1, p[1]} /\ d.x1 <= b.x1 /\ d.x1 <= p[1]
      /\ d.x2 \in {b.x2, p[1]} /\ b.x2 <= d.x2 /\ p[1] <= d.x2
  BY <1>1, <1>3, <1>4, <1>5 DEF Wider
<1>7. /\ d.y1 \in {b.y1, p[2]} /\ d.y1 <= b.y1 /\ d.y1 <= p[2]
      /\ d.y2 \in {b.y2, p[2]} /\ b.y2 <= d.y2 /\ p[2] <= d.y2
  BY <1>1, <1>3, <1>4, <1>5 DEF Wider
<1>8. d = [x1 |-> d.x1, y1 |-> d.y1, x2 |-> d.x2, y2 |-> d.y2]
  BY DEF Wider
<1> HIDE DEF d
<1>9. Reaches(C, d)
  BY <1>6, <1>7 DEF Reaches
<1>10. InBox(p, d) /\ \A q \in Painted : InBox(q, b) => InBox(q, d)
  <2>1. InBox(p, d)
    BY <1>6, <1>7 DEF InBox
  <2>2. ASSUME NEW q \in Painted, InBox(q, b) PROVE InBox(q, d)
    <3>1. q[1] \in Int /\ q[2] \in Int /\ d.x1 \in Int /\ d.x2 \in Int /\ d.y1 \in Int /\ d.y2 \in Int
          /\ b.x1 \in Int /\ b.x2 \in Int /\ b.y1 \in Int /\ b.y2 \in Int
      BY <1>1, <1>2, <1>3, <1>4, <1>6, <1>7
    <3>2. b.x1 <= q[1] /\ q[1] <= b.x2 /\ b.y1 <= q[2] /\ q[2] <= b.y2
      BY <2>2 DEF InBox
    <3> QED BY <3>1, <3>2, <1>6, <1>7 DEF InBox
  <2> QED BY <2>1, <2>2
<1>11. ASSUME \A q \in C : InBox(q, d) PROVE d = BoxOf(C)
  <2> DEFINE xs == {q[1] : q \in C}
             ys == {q[2] : q \in C}
  <2>1. xs \subseteq 0 .. wide - 1 /\ xs # {} /\ ys \subseteq 0 .. tall - 1 /\ ys # {}
    BY <1>2
  <2>2. /\ d.x1 \in xs /\ d.x2 \in xs /\ d.y1 \in ys /\ d.y2 \in ys
    BY <1>9 DEF Reaches
  <2>3. /\ \A v \in xs : d.x1 <= v /\ v <= d.x2
        /\ \A v \in ys : d.y1 <= v /\ v <= d.y2
    BY <1>11 DEF InBox
  <2>4. BoxOf(C) = [x1 |-> Smallest(xs), y1 |-> Smallest(ys), x2 |-> Greatest(xs), y2 |-> Greatest(ys)]
    BY DEF BoxOf
  <2> HIDE DEF xs, ys
  <2>5. /\ Smallest(xs) \in xs /\ \A v \in xs : Smallest(xs) <= v
        /\ Greatest(xs) \in xs /\ \A v \in xs : v <= Greatest(xs)
    BY <1>1, <2>1, EndsOf
  <2>6. /\ Smallest(ys) \in ys /\ \A v \in ys : Smallest(ys) <= v
        /\ Greatest(ys) \in ys /\ \A v \in ys : v <= Greatest(ys)
    BY <1>1, <2>1, EndsOf
  <2>7. d.x1 = Smallest(xs) /\ d.x2 = Greatest(xs)
    <3>1. d.x1 <= Smallest(xs) /\ Smallest(xs) <= d.x1 /\ d.x2 <= Greatest(xs) /\ Greatest(xs) <= d.x2
      BY <2>2, <2>3, <2>5
    <3>2. d.x1 \in Int /\ d.x2 \in Int /\ Smallest(xs) \in Int /\ Greatest(xs) \in Int
      <4>1. \A v \in xs : v \in Int
        BY <2>1, <1>1
      <4> QED BY <4>1, <2>2, <2>5
    <3> QED BY <3>1, <3>2
  <2>8. d.y1 = Smallest(ys) /\ d.y2 = Greatest(ys)
    <3>1. d.y1 <= Smallest(ys) /\ Smallest(ys) <= d.y1 /\ d.y2 <= Greatest(ys) /\ Greatest(ys) <= d.y2
      BY <2>2, <2>3, <2>6
    <3>2. d.y1 \in Int /\ d.y2 \in Int /\ Smallest(ys) \in Int /\ Greatest(ys) \in Int
      <4>1. \A v \in ys : v \in Int
        BY <2>1, <1>1
      <4> QED BY <4>1, <2>2, <2>6
    <3> QED BY <3>1, <3>2
  <2> QED BY <1>8, <2>4, <2>7, <2>8, Zenon
<1> QED BY <1>9, <1>10, <1>11 DEF d

\* The head of the queue is visited: its neighbours are seen, and the box is wider.
LEMMA Visiting ==
    ASSUME MaskTypes, NEW c \in Painted, NEW ahead \in Seq(Painted), ahead # <<>>, NEW made, NEW b,
           Growing(c, Seen, ahead, made, b),
           NEW more, more = Neighbours(Head(ahead))
    PROVE  /\ more \in Seq(Painted) /\ Tail(ahead) \o more \in Seq(Painted)
           /\ Head(ahead) \in Comp(c) /\ Reaches(Comp(c), b)
           /\ Growing(c, Seen \cup Range(more), Tail(ahead) \o more, made, Wider(b, Head(ahead)))
<1> DEFINE p == Head(ahead)
           C == Comp(c)
           next == Tail(ahead) \o more
           seen == Seen \cup Range(more)
           d == Wider(b, p)
<1>1. /\ p \in Range(ahead) /\ p \in Painted /\ Tail(ahead) \in Seq(Painted)
      /\ Range(ahead) = {p} \cup Range(Tail(ahead))
  BY TailItems
<1>2. more \in Seq(Painted) /\ Range(more) = {q \in Painted \ Seen : Touch(p, q)}
  BY <1>1, NeighboursAre
<1>3. next \in Seq(Painted) /\ Range(next) = Range(Tail(ahead)) \cup Range(more)
  <2> DEFINE rest == Tail(ahead)
  <2>1. rest \in Seq(Painted) /\ more \in Seq(Painted)
    BY <1>1, <1>2
  <2> HIDE DEF rest
  <2>2. rest \o more \in Seq(Painted) /\ Range(rest \o more) = Range(rest) \cup Range(more)
    BY <2>1, ConcatItems
  <2> QED BY <2>2 DEF rest
<1>4. /\ c \in Seen /\ Range(ahead) \subseteq C \cap Seen /\ Made(Seen \ C, made)
      /\ \A q \in (Seen \cap C) \ Range(ahead) :
             InBox(q, b) /\ \A s \in Painted : Touch(q, s) => s \in Seen
      /\ Reaches(C, b)
  BY DEF Growing
<1>5. C \subseteq Painted /\ \A q \in C, s \in Painted \ C : ~Touch(q, s)
  BY CompIs, ClosedIs
<1>6. Seen \subseteq Painted
  BY DEF Seen
<1> HIDE DEF p, C, next, d
<1>7. Range(more) \subseteq C
  BY <1>1, <1>2, <1>4, <1>5
<1>8. seen \ C = Seen \ C
  BY <1>7
<1>9. Range(next) \subseteq C \cap seen
  BY <1>1, <1>3, <1>4, <1>7
<1>10. /\ Reaches(C, d) /\ InBox(p, d)
       /\ \A q \in Painted : InBox(q, b) => InBox(q, d)
  BY <1>1, <1>4, <1>5, WiderIs DEF d
<1>11. ASSUME NEW q \in (seen \cap C) \ Range(next)
       PROVE  InBox(q, d) /\ \A s \in Painted : Touch(q, s) => s \in seen
  <2>1. q \in Seen /\ q \notin Range(Tail(ahead))
    BY <1>3
  <2>2. CASE q = p
    BY <2>2, <1>2, <1>10
  <2>3. CASE q # p
    <3>1. q \in (Seen \cap C) \ Range(ahead)
      BY <1>1, <2>1, <2>3
    <3> QED BY <3>1, <1>4, <1>6, <1>10
  <2> QED BY <2>2, <2>3
<1>12. Growing(c, seen, next, made, d)
  BY <1>4, <1>8, <1>9, <1>10, <1>11 DEF Growing, C
<1> QED BY <1>1, <1>2, <1>3, <1>4, <1>12 DEF p, C, next, d

----------------------------------------------------------------------------
(* Every step                                                              *)

\* What the regions are made of stays as it is while the mask does.
LEMMA RegionsStay ==
    ASSUME UNCHANGED <<wide, tall, ink, radius>>
    PROVE  /\ \A p : LocalIdx(p)' = LocalIdx(p)
           /\ \A S, made : Made(S, made)' <=> Made(S, made)
           /\ \A c, seen, ahead, made, b : Growing(c, seen, ahead, made, b)' <=> Growing(c, seen, ahead, made, b)
<1>1. Painted' = Painted /\ Pixels' = Pixels /\ wide' = wide /\ tall' = tall
  BY MaskStays
<1>2. Outer' = Outer
  BY <1>1 DEF Outer, Outline
<1>3. \A p : LocalIdx(p)' = LocalIdx(p)
  BY <1>2 DEF LocalIdx
<1>4. \A S : Closed(S)' <=> Closed(S)
  BY <1>1 DEF Closed
<1>5. \A p : Comp(p)' = Comp(p)
  BY <1>1, <1>4 DEF Comp
<1>6. Boxes' = Boxes
  BY <1>1, <1>5 DEF Boxes, BoxOf
<1>7. \A S : CompsOf(S)' = CompsOf(S)
  BY <1>5 DEF CompsOf
<1>8. \A S, made : Made(S, made)' <=> Made(S, made)
  BY <1>4, <1>5, <1>6, <1>7 DEF Made, BoxOf
<1>9. \A c, seen, ahead, made, b : Growing(c, seen, ahead, made, b)' <=> Growing(c, seen, ahead, made, b)
  <2>1. \A C, b : Reaches(C, b)' <=> Reaches(C, b)
    BY DEF Reaches
  <2>2. \A q, b : InBox(q, b)' <=> InBox(q, b)
    BY DEF InBox
  <2>3. \A q, s : Touch(q, s)' <=> Touch(q, s)
    BY DEF Touch
  <2>4. SUFFICES ASSUME NEW CONSTANT c, NEW CONSTANT seen, NEW CONSTANT ahead, NEW CONSTANT made, NEW CONSTANT b
                 PROVE  Growing(c, seen, ahead, made, b)' <=> Growing(c, seen, ahead, made, b)
    OBVIOUS
  <2>5. /\ Comp(c)' = Comp(c) /\ (Made(seen \ Comp(c), made)' <=> Made(seen \ Comp(c), made))
        /\ (Reaches(Comp(c), b)' <=> Reaches(Comp(c), b))
    BY <1>5, <1>8, <2>1
  <2> QED BY <1>1, <2>2, <2>3, <2>5 DEF Growing
<1> QED BY <1>3, <1>8, <1>9

\* The regions in the making are the same, if they are and the mask is.
LEMMA RegionsSame ==
    ASSUME RegionsInv, UNCHANGED <<wide, tall, ink, radius, visited, frontier, box, regions>>
    PROVE  RegionsInv'
<1>1. Painted' = Painted
  BY MaskStays
<1>2. Seen' = Seen
  BY <1>1, RegionsStay DEF Seen
<1>3. frontier' = <<>> => Made(Seen, regions)'
  BY <1>2, RegionsStay DEF RegionsInv
<1>4. frontier' # <<>> => \E c \in Painted' : Growing(c, Seen, frontier, regions, box)'
  BY <1>1, <1>2, RegionsStay DEF RegionsInv
<1> QED BY <1>1, <1>3, <1>4 DEF RegionsInv

\* So is the blur, if what it goes through is.
LEMMA BlurSame ==
    ASSUME BlurInv, UNCHANGED <<wide, tall, ink, radius, passes, whole, buf>>
    PROVE  BlurInv'
<1>1. /\ Pixels' = Pixels /\ Painted' = Painted /\ CropBox' = CropBox
      /\ CropW' = CropW /\ CropH' = CropH /\ Cropped' = Cropped
  BY MaskStays
<1>2. CropNow' = CropNow /\ WholeNow' = WholeNow /\ Gap' = Gap
  BY <1>1 DEF CropNow, WholeNow, Gap
<1>3. Confined(WholeNow, Gap)' <=> Confined(WholeNow, Gap)
  BY <1>1, <1>2 DEF Confined, Clear
<1>4. CropOf(CropNow, WholeNow)' <=> CropOf(CropNow, WholeNow)
  BY <1>1, <1>2 DEF CropOf
<1>5. BlurRight' <=> BlurRight
  BY <1>1 DEF BlurRight
<1>6. (Area(CropW, CropH) = Area(CropW, CropH)')
  BY <1>1 DEF Area
<1> QED BY <1>1, <1>2, <1>3, <1>4, <1>5, <1>6 DEF BlurInv

\* What was seen grows by what goes into `visited`.
LEMMA SeenGrows ==
    ASSUME MaskTypes, NEW more, more \subseteq Painted,
           visited' = visited \cup {LocalIdx(q) : q \in more},
           UNCHANGED <<wide, tall, ink, radius>>
    PROVE  Seen' = Seen \cup more
<1>1. Seen' = {p \in Painted : LocalIdx(p) \in visited'}
  BY MaskStays, RegionsStay DEF Seen
<1>2. CASE Painted = {}
  BY <1>1, <1>2 DEF Seen
<1>3. CASE Painted # {}
  <2>1. \A p, q \in Painted : LocalIdx(p) = LocalIdx(q) => p = q
    BY <1>3, OuterIs
  <2>2. \A p \in Painted : LocalIdx(p) \in visited' <=> LocalIdx(p) \in visited \/ p \in more
    BY <2>1
  <2> QED BY <1>1, <2>2 DEF Seen
<1> QED BY <1>2, <1>3

\* A region is begun.
LEMMA SeedKeeps == ASSUME MaskTypes, RegionsInv, Seed PROVE RegionsInv'
<1>1. PICK p \in Painted :
        /\ Unseen(p) /\ visited' = visited \cup {LocalIdx(p)} /\ frontier' = <<p>>
        /\ box' = [x1 |-> p[1], y1 |-> p[2], x2 |-> p[1], y2 |-> p[2]]
  BY DEF Seed
<1>2. frontier = <<>> /\ UNCHANGED <<wide, tall, ink, radius, regions>>
  BY DEF Seed
<1> DEFINE C == Comp(p)
           b == [x1 |-> p[1], y1 |-> p[2], x2 |-> p[1], y2 |-> p[2]]
<1>3. Made(Seen, regions) /\ Closed(Seen) /\ Seen \subseteq Painted /\ p \notin Seen
  BY <1>1, <1>2 DEF RegionsInv, Made, Seen, Unseen
<1>4. Seen' = Seen \cup {p}
  <2>1. visited' = visited \cup {LocalIdx(q) : q \in {p}}
    BY <1>1
  <2> QED BY <2>1, <1>2, SeenGrows
<1>5. C \subseteq Painted /\ p \in C
  BY CompIs
<1>6. C \cap Seen = {}
  <2> SUFFICES ASSUME NEW q \in C, q \in Seen PROVE FALSE
    OBVIOUS
  <2>1. q \in Painted /\ Comp(q) = C
    BY SameComp
  <2>2. Comp(q) \subseteq Seen
    BY <2>1, <1>3, CompIs
  <2> QED BY <2>1, <2>2, <1>3, <1>5
<1>7. (Seen \cup {p}) \ C = Seen
  BY <1>5, <1>6
<1>8. Range(<<p>>) = {p}
  BY DEF Range
<1>9. Reaches(C, b)
  BY <1>5 DEF Reaches
<1> HIDE DEF C, b
<1>10. Growing(p, Seen \cup {p}, <<p>>, regions, b)
  <2>1. \A q \in ((Seen \cup {p}) \cap C) \ Range(<<p>>) : FALSE
    BY <1>6, <1>8
  <2> QED BY <1>3, <1>5, <1>7, <1>8, <1>9, <2>1 DEF Growing, C
<1>11. Growing(p, Seen, frontier, regions, box)'
  BY <1>1, <1>2, <1>4, <1>10, RegionsStay DEF b
<1>12. frontier' \in Seq(Painted)' /\ frontier' # <<>> /\ p \in Painted'
  <2>1. <<p>> \in Seq(Painted) /\ <<p>> # <<>>
    OBVIOUS
  <2> QED BY <1>1, <1>2, <2>1, MaskStays
<1> QED BY <1>11, <1>12 DEF RegionsInv

\* A region goes on, or is done.
LEMMA VisitKeeps == ASSUME MaskTypes, RegionsInv, Visit PROVE RegionsInv'
<1> DEFINE p    == Head(frontier)
           more == Neighbours(p)
           next == Tail(frontier) \o more
           wider == Wider(box, p)
           seen == Seen \cup Range(more)
<1>1. /\ frontier # <<>> /\ visited' = visited \cup {LocalIdx(q) : q \in Range(more)}
      /\ frontier' = next /\ box' = wider
      /\ regions' = IF frontier' = <<>> THEN Append(regions, wider) ELSE regions
      /\ UNCHANGED <<wide, tall, ink, radius>>
  BY DEF Visit, Wider
<1>2. frontier \in Seq(Painted) /\ Seen \subseteq Painted
  BY DEF RegionsInv, Seen
<1>3. PICK c \in Painted : Growing(c, Seen, frontier, regions, box)
  BY <1>1 DEF RegionsInv
<1>4. /\ more \in Seq(Painted) /\ next \in Seq(Painted)
      /\ p \in Comp(c) /\ Reaches(Comp(c), box)
      /\ Growing(c, seen, next, regions, wider)
  BY <1>1, <1>2, <1>3, Visiting
<1> HIDE DEF p, more, next, wider
<1>5. Range(more) \subseteq Painted
  BY <1>4 DEF Range
<1>6. Seen' = seen /\ seen \subseteq Painted
  BY <1>1, <1>2, <1>5, SeenGrows
<1> HIDE DEF seen
<1>7. frontier' \in Seq(Painted)'
  BY <1>1, <1>4, MaskStays
<1>8. CASE next = <<>>
  <2>1. /\ \A q \in Comp(c) : InBox(q, wider)
        /\ Made(seen, Append(regions, BoxOf(Comp(c))))
    BY <1>4, <1>6, <1>8, Finished
  <2>2. Comp(c) \subseteq Painted
    BY CompIs
  <2>3. wider = BoxOf(Comp(c))
    BY <1>4, <2>1, <2>2, WiderIs DEF wider
  <2>4. regions' = Append(regions, BoxOf(Comp(c))) /\ frontier' = <<>>
    BY <1>1, <1>8, <2>3
  <2>5. Made(Seen, regions)'
    BY <1>1, <1>6, <2>1, <2>4, RegionsStay
  <2> QED BY <1>7, <2>4, <2>5 DEF RegionsInv
<1>9. CASE next # <<>>
  <2>1. regions' = regions /\ frontier' = next /\ frontier' # <<>>
    BY <1>1, <1>9
  <2>2. Growing(c, Seen, frontier, regions, box)'
    BY <1>1, <1>4, <1>6, <2>1, RegionsStay
  <2>3. c \in Painted'
    BY <1>1, MaskStays
  <2> QED BY <1>7, <2>1, <2>2, <2>3 DEF RegionsInv
<1> QED BY <1>8, <1>9

\* With everything seen, the regions are the boxes of the parts.
LEMMA RegionsInvEnough == ASSUME MaskTypes, RegionsInv PROVE RegionsRight
<1> SUFFICES ASSUME frontier = <<>>, \A p \in Painted : ~Unseen(p)
             PROVE  Len(regions) = Cardinality(Parted) /\ Range(regions) = {BoxOf(S) : S \in Parted}
  BY DEF RegionsRight
<1>1. Seen = Painted
  BY DEF Seen, Unseen, Painted
<1>2. Made(Painted, regions)
  BY <1>1 DEF RegionsInv
<1>3. Parted = {Comp(p) : p \in Painted}
  BY PartedIs
<1>4. Parted = CompsOf(Painted)
  BY <1>3 DEF CompsOf
<1>5. {BoxOf(S) : S \in Parted} = {BoxOf(Comp(p)) : p \in Painted}
  BY <1>3
<1> QED BY <1>2, <1>4, <1>5 DEF Made

----------------------------------------------------------------------------
(* All masks                                                               *)

MaskInv == MaskTypes /\ BlurInv /\ RegionsInv

\* It holds at first, of every mask.
LEMMA MaskInvInit == MasksInit => MaskInv
<1> SUFFICES ASSUME MasksInit PROVE MaskInv
  OBVIOUS
<1>1. wide \in Nat \ {0} /\ tall \in Nat \ {0} /\ radius \in Nat /\ ink \in Inks(wide, tall)
  BY MasksAssumption DEF MasksInit
<1>2. ink \in [Pixels -> Marks]
  BY <1>1 DEF Inks, Pixels, Marks
<1>3. MaskTypes
  BY <1>1, <1>2 DEF MaskTypes
<1>4. BlurInv
  BY <1>3, BlurStarts DEF MasksInit
<1>5. RegionsInv
  <2>1. visited = {} /\ frontier = <<>> /\ regions = <<>>
    BY DEF MasksInit
  <2>2. Seen = {} /\ Closed({}) /\ CompsOf({}) = {}
    BY <2>1 DEF Seen, Closed, CompsOf
  <2>3. Range(<<>>) = {} /\ Len(<<>>) = 0 /\ <<>> \in Seq(Boxes) /\ <<>> \in Seq(Painted)
    BY DEF Range
  <2>4. Cardinality({}) = 0
    BY FS_EmptySet
  <2>5. {BoxOf(Comp(p)) : p \in {}} = {}
    OBVIOUS
  <2>6. Made({}, <<>>)
    BY <2>2, <2>3, <2>4, <2>5 DEF Made
  <2> QED BY <2>1, <2>2, <2>3, <2>6 DEF RegionsInv
<1> QED BY <1>3, <1>4, <1>5 DEF MaskInv

\* Each step keeps it.
LEMMA MaskInvNext == MaskInv /\ [MasksNext]_maskVars => MaskInv'
<1> SUFFICES ASSUME MaskInv, [MasksNext]_maskVars PROVE MaskInv'
  OBVIOUS
<1>1. MaskTypes /\ BlurInv /\ RegionsInv
  BY DEF MaskInv
<1>2. UNCHANGED <<wide, tall, ink, radius>>
  BY DEF MasksNext, Pass, Seed, Visit, maskVars
<1>3. MaskTypes'
  BY <1>1, <1>2, MaskStays DEF MaskTypes
<1>4. BlurInv'
  <2>1. CASE Pass
    BY <2>1, <1>1, PassKeeps, MasksAssumption
  <2>2. CASE ~Pass
    <3>1. UNCHANGED <<passes, whole, buf>>
      BY <2>2 DEF MasksNext, Seed, Visit, maskVars
    <3> QED BY <3>1, <1>1, <1>2, BlurSame
  <2> QED BY <2>1, <2>2
<1>5. RegionsInv'
  <2>1. CASE Seed
    BY <2>1, <1>1, SeedKeeps
  <2>2. CASE Visit
    BY <2>2, <1>1, VisitKeeps
  <2>3. CASE ~Seed /\ ~Visit
    <3>1. UNCHANGED <<visited, frontier, box, regions>>
      BY <2>3 DEF MasksNext, Pass, maskVars
    <3> QED BY <3>1, <1>1, <1>2, RegionsSame
  <2> QED BY <2>1, <2>2, <2>3
<1> QED BY <1>3, <1>4, <1>5 DEF MaskInv

\* This is what the run checks of masks.
LEMMA MaskInvEnough == MaskInv => MasksOK
<1>1. Fine \in Nat
  BY MasksAssumption
<1> QED BY <1>1, WindowsAreRight, MeansAreRight, RegionsInvEnough DEF MaskInv, BlurInv, MasksOK

----------------------------------------------------------------------------
(* All pixels                                                              *)

\* No pixel is left out of the tiles of any image, however large, and what is computed
\* of a mask is right for every shape, radius and painting.
THEOREM PixelsKept == PartsSpec => []PixelsRight
<1> DEFINE Plan == size \in Nat \ {0} /\ lo \in 0 .. size - 1 /\ hi \in lo .. size - 1
           Inv  == Plan /\ MaskInv
<1>1. PartsInit => Inv
  <2>1. TilesInit => Plan
    <3>1. MaxSize \in Nat
      BY TilesAssumption
    <3> QED BY <3>1 DEF TilesInit
  <2> QED BY <2>1, MaskInvInit DEF PartsInit
<1>2. Inv /\ [PartsNext]_partsVars => Inv'
  <2> SUFFICES ASSUME Inv, [PartsNext]_partsVars PROVE Inv'
    OBVIOUS
  <2>1. [MasksNext]_maskVars /\ UNCHANGED tileVars
    BY DEF PartsNext, partsVars, On
  <2> QED BY <2>1, MaskInvNext DEF tileVars
<1>3. Inv => PixelsRight
  BY TilesCovered, MaskInvEnough DEF PixelsRight
<1> HIDE DEF Inv
<1> QED BY <1>1, <1>2, <1>3, PTL DEF PartsSpec
=============================================================================
