-------------------------- MODULE SplitRenderingProofs --------------------------
(***************************************************************************)
(* Parallel rendering composes the undivided picture, for canvases, grids  *)
(* and scenes of every size, and however the products of doubles are       *)
(* truncated.                                                              *)
(***************************************************************************)
EXTENDS SplitRendering, NaturalsInduction, WellFoundedInduction, TLAPS

\* The program's arguments.
Config ==
    /\ mode \in {"first", "last"}
    /\ grid \in Grids
    /\ mode = "last" => grid[2] = 1
    /\ scene \in [Faces -> 1..Far]
    /\ low \subseteq Inexact
    /\ canvas \in Canvases
    /\ round \in 0..Rounds
    /\ phase \in {"split", "compose", "overlay", "display"}
    /\ phase # "split" => round < Rounds

\* The work as the splitters distribute it.
Given(i) == IF mode = "first" THEN Split(canvas, Part(i).column, Part(i).row) ELSE canvas
Range(i) == IF mode = "first" THEN [start |-> 0, end |-> grid[1]]
            ELSE [start |-> i - 1, end |-> i]

\* From the first round on the renderers have their parts of the canvas.
Handed ==
    \/ viewports = <<>> /\ phase = "split"
    \/ /\ viewports = [i \in Renderers |-> Given(i)]
       /\ ranges = [i \in Renderers |-> Range(i)]
       /\ DOMAIN frames = Renderers

\* A frame is what its renderer draws.
Framed ==
    \A i \in DOMAIN viewports :
        frames[i] # NoFrame =>
            /\ viewports[i].width > 0 /\ viewports[i].height > 0
            /\ frames[i] = Rendered(viewports[i], Drawn(ranges[i]))

\* After a failure the round does not end.
Failures ==
    /\ failed \subseteq Renderers
    /\ failed # {} => phase = "compose"
    /\ \A i \in failed :
         frames[i] = NoFrame /\ (viewports[i].width = 0 \/ viewports[i].height = 0)

\* The place on the undivided canvas of a pixel of the output, and the point of
\* the scene that belongs there.
OnCanvas(p) == <<p[1] - 2 * canvas.x, p[2] - 2 * canvas.y>>
ScenePoint(p) == <<grid[1] * (p[1] - 2 * canvas.x), grid[2] * (p[2] - 2 * canvas.y)>>

\* The i-th frame reaches over a pixel of the output.
Covers(i, p) == Place(Given(i), p) \in Pixels(Given(i).width, Given(i).height)

Canvas == Pixels(canvas.width, canvas.height)

\* f is one of the nearest triangles of a set, and the first of them in its mesh.
Leader(set, f) ==
    /\ f \in set /\ scene[f] < Far
    /\ \A g \in set : /\ scene[f] <= scene[g]
                      /\ f[1] = g[1] /\ scene[f] = scene[g] => f[2] <= g[2]

\* A pixel shows such a triangle, or that none is visible.
Leads(set, at, pixel) ==
    \/ pixel = Clear /\ \A f \in set : ~(scene[f] < Far)
    \/ \E f \in set : Leader(set, f) /\ pixel = [face |-> f, at |-> at, depth |-> scene[f]]

\* The triangles of the first k parts (sort-last).
Upto(k) == UNION {{m} \X (1..Trunc(Meshes[m], k, grid[1])) : m \in DOMAIN Meshes}

\* What the output shows at a pixel after k frames.
Shows(k, p, pixel) ==
    IF mode = "first"
    THEN pixel = IF \E i \in 1..k : Covers(i, p) THEN Nearest(Faces, ScenePoint(p)) ELSE Clear
    ELSE IF OnCanvas(p) \in Canvas THEN Leads(Upto(k), ScenePoint(p), pixel)
         ELSE pixel = Clear

\* No frame's right or upper edge wraps around.
Whole == \A i \in Renderers : ~Stretched(viewports[i])

\* The composer's output, frame by frame.
Pictured ==
    phase \in {"overlay", "display"} =>
        /\ \A i \in Renderers : frames[i] # NoFrame
        /\ composed \in 0..NumRenderers
        /\ phase = "overlay" <=> composed < NumRenderers
        /\ output.width = canvas.width /\ output.height = canvas.height
        /\ Whole => \A p \in Canvas : Shows(composed, p, output.pixels[p])

\* What is shown to be inductive.
IInv == Config /\ Handed /\ Framed /\ Failures /\ Pictured

----------------------------------------------------------------------------
\* A set of natural numbers has a least one.
LEMMA LeastNatural ==
    ASSUME NEW T, T \subseteq Nat, T # {}
    PROVE  \E m \in T : \A n \in T : m <= n
<1>1. PICK m \in T : \A n \in T : ~ (<<n, m>> \in OpToRel(<, Nat))
  BY NatLessThanWellFounded, WFMin
<1>2. \A n \in T : ~(n < m)
  BY <1>1 DEF OpToRel
<1> QED
  BY <1>2

\* Division rounds down.
LEMMA DivBounds ==
    ASSUME NEW n \in Nat, NEW q \in Nat \ {0}
    PROVE  n \div q \in Nat /\ q * (n \div q) <= n /\ n < q * (n \div q) + q
BY SMTT(30)

\* A number is its quotient and its remainder.
LEMMA DivRest ==
    ASSUME NEW n \in Nat, NEW q \in Nat \ {0}
    PROVE  n = q * (n \div q) + (n % q) /\ n % q \in 0..(q - 1)
BY SMTT(30)

\* What is at most a quotient.
LEMMA AtMostQuotient ==
    ASSUME NEW n \in Nat, NEW q \in Nat \ {0}, NEW k \in Int
    PROVE  k <= n \div q <=> q * k <= n
<1> DEFINE e == n \div q
<1>1. e \in Nat /\ q * e <= n /\ n < q * e + q
  BY DivBounds
<1> HIDE DEF e
<1>2. ASSUME k <= e PROVE q * k <= q * e
  BY <1>1, <1>2, SMTT(30)
<1>3. ASSUME e + 1 <= k PROVE q * (e + 1) <= q * k
  BY <1>1, <1>3, SMTT(30)
<1>4. q * (e + 1) = q * e + q
  BY <1>1, SMTT(30)
<1>5. CASE k <= e
  BY <1>1, <1>2, <1>5
<1>6. CASE ~(k <= e)
  BY <1>1, <1>3, <1>4, <1>6
<1> QED
  BY <1>5, <1>6 DEF e

\* A quotient without a remainder.
LEMMA ExactQuotient ==
    ASSUME NEW n \in Nat, NEW q \in Nat \ {0}
    PROVE  (q * n) \div q = n
<1> DEFINE e == (q * n) \div q
<1>1. q * n \in Nat
  BY SMTT(30)
<1>2. e \in Nat /\ (n <= e <=> q * n <= q * n) /\ (n + 1 <= e <=> q * (n + 1) <= q * n)
  BY <1>1, DivBounds, AtMostQuotient
<1>3. q * (n + 1) = q * n + q
  BY SMTT(30)
<1> QED
  BY <1>1, <1>2, <1>3

\* What may be truncated to one less is a product that is a whole number.
LEMMA LowIs ==
    ASSUME low \subseteq Inexact, NEW a, NEW p, NEW q, <<a, p, q>> \in low
    PROVE  a > 0 /\ p \in Nat /\ p > 0 /\ p < q /\ (a * p) % q = 0
<1> DEFINE amounts == UNION {{s[1], s[2]} : s \in Sizes} \cup {Meshes[m] : m \in DOMAIN Meshes}
           parts == UNION {{g[1], g[2]} : g \in Grids} \ PowersOfTwo
           shares == UNION {1..(r - 1) : r \in parts}
<1>1. Inexact = {t \in amounts \X shares \X parts :
                    t[1] > 0 /\ t[2] < t[3] /\ (t[1] * t[2]) % t[3] = 0}
  BY DEF Inexact
<1>2. <<a, p, q>> \in Inexact
  OBVIOUS
<1> HIDE DEF amounts, parts, shares
<1>3. a > 0 /\ p < q /\ (a * p) % q = 0 /\ p \in shares
  BY <1>1, <1>2
<1>4. p \in Nat /\ p > 0
  BY <1>3 DEF shares
<1> QED
  BY <1>3, <1>4

\* A truncated product, and what is at most it.
LEMMA TruncIs ==
    ASSUME low \subseteq Inexact, NEW a \in Nat, NEW q \in Nat \ {0}, NEW p \in 0..q
    PROVE  /\ Trunc(a, p, q) \in Int
           /\ \A k \in Int : k <= Trunc(a, p, q) => q * k <= a * p
           /\ \A k \in Int : q * (k + 1) <= a * p => k <= Trunc(a, p, q)
           /\ <<a, p, q>> \notin low => \A k \in Int : k <= Trunc(a, p, q) <=> q * k <= a * p
           /\ <<a, p, q>> \in low => p \in 1..(q - 1) /\ q * (Trunc(a, p, q) + 1) = a * p /\ a > 0
<1> DEFINE e == (a * p) \div q
<1>1. a * p \in Nat
  BY SMTT(30)
<1>2. e \in Nat /\ \A k \in Int : k <= e <=> q * k <= a * p
  BY <1>1, DivBounds, AtMostQuotient
<1> HIDE DEF e
<1>3. CASE <<a, p, q>> \notin low
  <2>1. Trunc(a, p, q) = e
    BY <1>2, <1>3 DEF Trunc, e
  <2>2. ASSUME NEW k \in Int, q * (k + 1) <= a * p
        PROVE  k <= e
    <3>1. k + 1 <= e
      BY <1>2, <2>2
    <3> QED
      BY <1>2, <3>1
  <2> QED
    BY <1>2, <1>3, <2>1, <2>2
<1>4. CASE <<a, p, q>> \in low
  <2>1. Trunc(a, p, q) = e - 1
    BY <1>2, <1>4 DEF Trunc, e
  <2>2. a > 0 /\ p > 0 /\ p < q /\ (a * p) % q = 0
    BY <1>4, LowIs
  <2>3. q * e = a * p
    <3>1. a * p = q * e + ((a * p) % q)
      BY <1>1, DivRest DEF e
    <3>2. q * e \in Int
      BY <1>2, SMTT(30)
    <3> QED
      BY <1>1, <2>2, <3>1, <3>2
  <2>4. ASSUME NEW k \in Int, k <= e - 1
        PROVE  q * k <= a * p
    <3>1. k <= e
      BY <1>2, <2>4
    <3> QED
      BY <1>2, <3>1
  <2>5. ASSUME NEW k \in Int, q * (k + 1) <= a * p
        PROVE  k <= e - 1
    <3>1. k + 1 <= e
      BY <1>2, <2>5
    <3> QED
      BY <1>2, <3>1
  <2>6. (e - 1) + 1 = e
    BY <1>2
  <2> QED
    BY <1>2, <1>4, <2>1, <2>2, <2>3, <2>4, <2>5, <2>6
<1> QED
  BY <1>3, <1>4

\* Products of the fractions 0 and 1 are exact, and the others lie between.
LEMMA TruncEnds ==
    ASSUME low \subseteq Inexact, NEW a \in Nat, NEW q \in Nat \ {0}
    PROVE  /\ Trunc(a, 0, q) = 0 /\ Trunc(a, q, q) = a
           /\ \A p \in 0..q : Trunc(a, p, q) \in 0..a
<1>1. <<a, 0, q>> \notin low /\ <<a, q, q>> \notin low
  BY LowIs
<1>2. Trunc(a, 0, q) = 0
  <2>1. (a * 0) \div q = 0
    BY DivBounds, AtMostQuotient, SMTT(30)
  <2> QED
    BY <1>1, <2>1 DEF Trunc
<1>3. Trunc(a, q, q) = a
  <2>1. a * q = q * a
    BY SMTT(30)
  <2>2. (q * a) \div q = a
    BY ExactQuotient
  <2> QED
    BY <1>1, <2>1, <2>2 DEF Trunc
<1>4. ASSUME NEW p \in 0..q
      PROVE  Trunc(a, p, q) \in 0..a
  <2>1. Trunc(a, p, q) \in Int
    BY TruncIs
  <2>2. Trunc(a, p, q) <= a
    <3> DEFINE t == Trunc(a, p, q)
    <3>1. q * t <= a * p
      <4>1. t <= t
        BY <2>1
      <4> QED
        BY <2>1, <4>1, TruncIs
    <3>2. a * p <= a * q
      BY SMTT(30)
    <3> HIDE DEF t
    <3>3. t \in Int
      BY <2>1 DEF t
    <3>4. ASSUME a + 1 <= t PROVE q * (a + 1) <= q * t
      BY <3>3, <3>4, SMTT(30)
    <3>5. q * (a + 1) = a * q + q
      BY SMTT(30)
    <3>6. q * t \in Int /\ a * p \in Int /\ a * q \in Int
      BY <3>3, SMTT(30)
    <3>7. t <= a
      BY <3>1, <3>2, <3>3, <3>4, <3>5, <3>6
    <3> QED
      BY <3>7 DEF t
  <2>3. 0 <= Trunc(a, p, q)
    <3>1. CASE <<a, p, q>> \in low
      <4> DEFINE t == Trunc(a, p, q)
      <4>1. q * (t + 1) = a * p /\ p >= 1 /\ a > 0 /\ t \in Int
        BY <2>1, <3>1, TruncIs
      <4> HIDE DEF t
      <4>2. a * p > 0
        BY <4>1, SMTT(30)
      <4>3. ASSUME t + 1 <= 0 PROVE q * (t + 1) <= 0
        BY <4>1, <4>3, SMTT(30)
      <4>4. 0 <= t
        BY <4>1, <4>2, <4>3
      <4> QED
        BY <4>4 DEF t
    <3>2. CASE <<a, p, q>> \notin low
      <4>1. q * 0 = 0 /\ 0 <= a * p
        BY SMTT(30)
      <4> QED
        BY <3>2, <4>1, TruncIs
    <3> QED
      BY <3>1, <3>2
  <2> QED
    BY <2>1, <2>2, <2>3
<1> QED
  BY <1>2, <1>3, <1>4

\* The parts follow one another.
LEMMA TruncGrows ==
    ASSUME low \subseteq Inexact, NEW a \in Nat, NEW q \in Nat \ {0}, NEW p \in 0..(q - 1)
    PROVE  /\ Trunc(a, p, q) <= Trunc(a, p + 1, q)
           /\ 2 * q <= a => Trunc(a, p, q) < Trunc(a, p + 1, q)
<1> DEFINE t == Trunc(a, p, q)
           u == Trunc(a, p + 1, q)
<1>1. p \in 0..q /\ p + 1 \in 0..q
  OBVIOUS
<1>2. t \in Int /\ u \in Int /\ q * t <= a * p
  <2>1. t \in Int /\ u \in Int
    BY <1>1, TruncIs
  <2>2. t <= t
    BY <2>1
  <2> QED
    BY <1>1, <2>1, <2>2, TruncIs
<1>3. a * (p + 1) = a * p + a /\ a * p \in Nat
  BY SMTT(30)
<1>4. \A k \in Int : q * (k + 1) <= a * (p + 1) => k <= u
  BY <1>1, TruncIs
<1>5. <<a, p + 1, q>> \notin low => \A k \in Int : k <= u <=> q * k <= a * (p + 1)
  BY <1>1, TruncIs
<1>6. <<a, p + 1, q>> \in low => q * (u + 1) = a * (p + 1) /\ a > 0
  BY <1>1, TruncIs
<1> HIDE DEF t, u
<1>7. q * t \in Int /\ q * (t + 1) = q * t + q /\ q * ((t + 1) + 1) = q * t + 2 * q
  BY <1>2, SMTT(30)
<1>8. t <= u
  <2>1. CASE <<a, p + 1, q>> \notin low
    BY <1>2, <1>3, <1>5, <1>7, <2>1
  <2>2. CASE <<a, p + 1, q>> \in low
    <3>1. q * t < q * (u + 1)
      BY <1>2, <1>3, <1>6, <1>7, <2>2
    <3>2. ASSUME u + 1 <= t PROVE q * (u + 1) <= q * t
      BY <1>2, <3>2, SMTT(30)
    <3>3. q * (u + 1) \in Int
      BY <1>2, SMTT(30)
    <3> QED
      BY <1>2, <1>7, <3>1, <3>2, <3>3
  <2> QED
    BY <2>1, <2>2
<1>9. ASSUME 2 * q <= a PROVE t + 1 <= u
  BY <1>2, <1>3, <1>4, <1>7, <1>9
<1> QED
  BY <1>2, <1>8, <1>9 DEF t, u

\* Every place is in one of the parts.
LEMMA TruncCovers ==
    ASSUME low \subseteq Inexact, NEW a \in Nat, NEW q \in Nat \ {0}, NEW x \in 0..(a - 1)
    PROVE  \E p \in 0..(q - 1) : Trunc(a, p, q) <= x /\ x < Trunc(a, p + 1, q)
<1> DEFINE Beyond == {p \in 0..q : x < Trunc(a, p, q)}
<1>1. q \in Beyond
  BY TruncEnds
<1>2. Beyond \subseteq Nat /\ Beyond # {}
  BY <1>1
<1>3. PICK m \in Beyond : \A n \in Beyond : m <= n
  <2> HIDE DEF Beyond
  <2> QED
    BY <1>2, LeastNatural
<1>4. m # 0
  BY TruncEnds
<1>5. m \in 1..q /\ m - 1 \in 0..q /\ m - 1 \notin Beyond
  BY <1>3, <1>4
<1>6. Trunc(a, m - 1, q) \in Int
  BY <1>5, TruncIs
<1>7. Trunc(a, m - 1, q) <= x
  BY <1>5, <1>6
<1>8. (m - 1) + 1 = m /\ m - 1 \in 0..(q - 1) /\ x < Trunc(a, m, q)
  BY <1>5
<1> QED
  BY <1>7, <1>8

----------------------------------------------------------------------------
\* The triangles, mesh by mesh.
LEMMA FaceIs ==
    /\ DOMAIN Meshes \subseteq Nat /\ \A m \in DOMAIN Meshes : Meshes[m] \in Nat
    /\ \A f : f \in Faces <=> /\ f = <<f[1], f[2]>> /\ f[1] \in DOMAIN Meshes
                            /\ f[2] \in 1..Meshes[f[1]]
<1>1. Meshes \in Seq(Nat)
  BY SplitRenderingAssumption
<1>2. DOMAIN Meshes \subseteq Nat /\ \A m \in DOMAIN Meshes : Meshes[m] \in Nat
  BY <1>1
<1> QED
  BY <1>2 DEF Faces

\* What is drawn of each mesh for a range, and with the first parts.
LEMMA SliceIs ==
    /\ \A range, f : f \in Drawn(range) <=>
         /\ f = <<f[1], f[2]>> /\ f[1] \in DOMAIN Meshes
         /\ f[2] \in (Trunc(Meshes[f[1]], range.start, grid[1]) + 1)
                       ..Trunc(Meshes[f[1]], range.end, grid[1])
    /\ \A k, f : f \in Upto(k) <=>
         /\ f = <<f[1], f[2]>> /\ f[1] \in DOMAIN Meshes
         /\ f[2] \in 1..Trunc(Meshes[f[1]], k, grid[1])
BY DEF Drawn, Upto

\* The slices of the meshes follow one another.
LEMMA Slices ==
    ASSUME low \subseteq Inexact, grid[1] \in Nat \ {0}, NEW i \in 1..grid[1],
           NEW range, range = [start |-> i - 1, end |-> i]
    PROVE  /\ Upto(i - 1) \subseteq Faces /\ Drawn(range) \subseteq Faces
           /\ Upto(i) = Upto(i - 1) \cup Drawn(range)
           /\ \A f \in Upto(i - 1), g \in Drawn(range) : f[1] = g[1] => f[2] <= g[2]
<1> DEFINE lo(m) == Trunc(Meshes[m], i - 1, grid[1])
           hi(m) == Trunc(Meshes[m], i, grid[1])
<1>1. ASSUME NEW m \in DOMAIN Meshes
      PROVE  lo(m) \in 0..Meshes[m] /\ hi(m) \in 0..Meshes[m] /\ lo(m) <= hi(m)
             /\ Meshes[m] \in Nat
  <2>1. Meshes[m] \in Nat
    BY FaceIs
  <2>2. i - 1 \in 0..(grid[1] - 1) /\ i - 1 \in 0..grid[1] /\ i \in 0..grid[1]
        /\ (i - 1) + 1 = i
    OBVIOUS
  <2>3. Trunc(Meshes[m], i - 1, grid[1]) <= Trunc(Meshes[m], (i - 1) + 1, grid[1])
    BY <2>1, <2>2, TruncGrows
  <2> QED
    BY <2>1, <2>2, <2>3, TruncEnds
<1>2. \A f : f \in Drawn(range) <=> /\ f = <<f[1], f[2]>> /\ f[1] \in DOMAIN Meshes
                                 /\ f[2] \in (lo(f[1]) + 1)..hi(f[1])
  <2>1. range.start = i - 1 /\ range.end = i
    OBVIOUS
  <2> QED
    BY <2>1, SliceIs
<1>3. /\ \A f : f \in Upto(i - 1) <=> /\ f = <<f[1], f[2]>> /\ f[1] \in DOMAIN Meshes
                                     /\ f[2] \in 1..lo(f[1])
      /\ \A f : f \in Upto(i) <=> /\ f = <<f[1], f[2]>> /\ f[1] \in DOMAIN Meshes
                                 /\ f[2] \in 1..hi(f[1])
  BY SliceIs
<1> HIDE DEF lo, hi
<1>4. \A f : f \in Upto(i) <=> f \in Upto(i - 1) \/ f \in Drawn(range)
  BY <1>1, <1>2, <1>3
<1>5. \A f \in Upto(i - 1), g \in Drawn(range) : f[1] = g[1] => f[2] <= g[2]
  BY <1>1, <1>2, <1>3
<1>6. Upto(i - 1) \subseteq Faces /\ Drawn(range) \subseteq Faces
  BY <1>1, <1>2, <1>3, FaceIs
<1> QED
  BY <1>4, <1>5, <1>6

\* No part draws nothing, all of them or the full range draw everything.
LEMMA SliceEnds ==
    ASSUME low \subseteq Inexact, grid[1] \in Nat \ {0}
    PROVE  /\ Upto(0) = {} /\ Upto(grid[1]) = Faces
           /\ \A range : range = [start |-> 0, end |-> grid[1]] => Drawn(range) = Faces
<1>1. \A m \in DOMAIN Meshes : Trunc(Meshes[m], 0, grid[1]) = 0
                              /\ Trunc(Meshes[m], grid[1], grid[1]) = Meshes[m]
  BY FaceIs, TruncEnds
<1>2. \A f : ~(f \in Upto(0))
  BY <1>1, SliceIs
<1>3. \A f : f \in Upto(grid[1]) <=> f \in Faces
  BY <1>1, SliceIs, FaceIs
<1>4. ASSUME NEW range, range = [start |-> 0, end |-> grid[1]]
      PROVE  \A f : f \in Drawn(range) <=> f \in Faces
  <2>1. range.start = 0 /\ range.end = grid[1]
    BY <1>4
  <2> QED
    BY <1>1, <2>1, SliceIs, FaceIs
<1> QED
  BY <1>2, <1>3, <1>4

----------------------------------------------------------------------------
\* f is the nearest triangle of a set, the first of several.
First(set, f) ==
    /\ f \in set /\ scene[f] < Far
    /\ \A g \in set : scene[g] < Far =>
         scene[f] < scene[g] \/ (scene[f] = scene[g] /\ Before(f, g))

\* In a set of triangles there is one before all others.
LEMMA Foremost ==
    ASSUME NEW T, T \subseteq Faces, T # {}
    PROVE  \E f \in T : \A g \in T : Before(f, g)
<1> DEFINE meshes == {f[1] : f \in T}
<1>1. meshes \subseteq Nat /\ meshes # {}
  BY FaceIs
<1>2. PICK m \in meshes : \A n \in meshes : m <= n
  <2> HIDE DEF meshes
  <2> QED
    BY <1>1, LeastNatural
<1> DEFINE numbers == {f[2] : f \in {g \in T : g[1] = m}}
<1>3. numbers \subseteq Nat /\ numbers # {}
  <2>1. PICK h \in T : h[1] = m
    BY <1>2
  <2> QED
    BY <2>1, FaceIs
<1>4. PICK k \in numbers : \A n \in numbers : k <= n
  <2> HIDE DEF numbers
  <2> QED
    BY <1>3, LeastNatural
<1>5. PICK f \in T : f[1] = m /\ f[2] = k
  BY <1>4
<1>6. ASSUME NEW g \in T
      PROVE  Before(f, g)
  <2>1. m <= g[1] /\ m \in Nat /\ g[1] \in Nat
    BY <1>1, <1>2
  <2>2. g[1] = m => k <= g[2]
    BY <1>4
  <2> QED
    BY <1>5, <2>1, <2>2 DEF Before
<1> QED
  BY <1>6

\* There is one if any is visible, and it is what drawing the set shows.
LEMMA NearestIs ==
    ASSUME NEW set, set \subseteq Faces, scene \in [Faces -> 1..Far], NEW at
    PROVE  /\ \A f : First(set, f) =>
                Nearest(set, at) = [face |-> f, at |-> at, depth |-> scene[f]]
           /\ (\A f \in set : ~(scene[f] < Far)) => Nearest(set, at) = Clear
           /\ (\E f \in set : scene[f] < Far) => \E f \in set : First(set, f)
<1>0. Far \in Nat
  BY SplitRenderingAssumption
<1> DEFINE visible == {f \in set : scene[f] < Far}
           Best(f) == \A g \in visible : scene[f] < scene[g] \/ (scene[f] = scene[g] /\ Before(f, g))
<1>1. ASSUME NEW f, First(set, f)
      PROVE  Nearest(set, at) = [face |-> f, at |-> at, depth |-> scene[f]]
  <2>1. f \in visible /\ Best(f)
    BY <1>1 DEF First
  <2>2. \A g \in visible : Best(g) => g = f
    <3> TAKE g \in visible
    <3> HAVE Best(g)
    <3>1. scene[f] \in Nat /\ scene[g] \in Nat
      BY <1>0, <2>1
    <3>2. scene[f] < scene[g] \/ (scene[f] = scene[g] /\ Before(f, g))
      BY <2>1
    <3>3. scene[g] < scene[f] \/ (scene[g] = scene[f] /\ Before(g, f))
      BY <2>1
    <3>4. Before(f, g) /\ Before(g, f)
      BY ONLY <3>1, <3>2, <3>3
    <3>5. f \in Faces /\ g \in Faces
      BY <2>1
    <3>6. /\ f = <<f[1], f[2]>> /\ g = <<g[1], g[2]>>
          /\ f[1] \in Nat /\ g[1] \in Nat /\ f[2] \in Nat /\ g[2] \in Nat
      BY ONLY <3>5, FaceIs
    <3>7. f[1] = g[1] /\ f[2] = g[2]
      BY ONLY <3>4, <3>6 DEF Before
    <3> QED
      BY ONLY <3>6, <3>7
  <2>3. (CHOOSE g \in visible : Best(g)) = f
    BY <2>1, <2>2
  <2> QED
    BY <2>1, <2>3 DEF Nearest
<1>2. ASSUME \A f \in set : ~(scene[f] < Far)
      PROVE  Nearest(set, at) = Clear
  BY <1>2 DEF Nearest
<1>3. ASSUME NEW h \in set, scene[h] < Far
      PROVE  \E f \in set : First(set, f)
  <2> DEFINE depths == {scene[f] : f \in visible}
  <2>1. depths \subseteq Nat /\ depths # {}
    BY <1>0, <1>3
  <2>2. PICK d \in depths : \A e \in depths : d <= e
    <3> HIDE DEF depths
    <3> QED
      BY <2>1, LeastNatural
  <2> DEFINE near == {f \in visible : scene[f] = d}
  <2>3. near \subseteq Faces /\ near # {}
    BY <2>2
  <2>4. PICK f \in near : \A g \in near : Before(f, g)
    <3> HIDE DEF near
    <3> QED
      BY <2>3, Foremost
  <2>5. ASSUME NEW g \in set, scene[g] < Far
        PROVE  scene[f] < scene[g] \/ (scene[f] = scene[g] /\ Before(f, g))
    <3>1. scene[g] \in depths /\ scene[f] = d /\ scene[g] \in Nat /\ d \in Nat
      BY <1>0, <2>1, <2>2, <2>4, <2>5
    <3>2. d <= scene[g]
      BY <2>2, <3>1
    <3>3. CASE scene[g] = d
      BY <2>4, <2>5, <3>1, <3>3
    <3>4. CASE scene[g] # d
      BY ONLY <3>1, <3>2, <3>4
    <3> QED
      BY <3>3, <3>4
  <2> QED
    BY <2>4, <2>5 DEF First
<1> QED
  BY <1>1, <1>2, <1>3

\* What drawing a set shows is a leader of the set.
LEMMA NearestLeads ==
    ASSUME NEW set, set \subseteq Faces, scene \in [Faces -> 1..Far], NEW at
    PROVE  Leads(set, at, Nearest(set, at))
<1>0. Far \in Nat
  BY SplitRenderingAssumption
<1>1. CASE \E f \in set : scene[f] < Far
  <2>1. PICK f \in set : First(set, f)
    BY <1>1, NearestIs
  <2>2. Nearest(set, at) = [face |-> f, at |-> at, depth |-> scene[f]]
    BY <2>1, NearestIs
  <2>3. \A g \in set : scene[g] \in Nat /\ g[1] \in Nat /\ g[2] \in Nat
    BY <1>0, FaceIs
  <2>4. ASSUME NEW g \in set
        PROVE  scene[f] <= scene[g] /\ (f[1] = g[1] /\ scene[f] = scene[g] => f[2] <= g[2])
    <3>1. scene[f] < Far /\ scene[f] \in Nat /\ scene[g] \in Nat
      BY <2>1, <2>3 DEF First
    <3>2. CASE scene[g] < Far
      <4>1. scene[f] < scene[g] \/ (scene[f] = scene[g] /\ Before(f, g))
        BY <2>1, <3>2 DEF First
      <4>2. f[1] \in Nat /\ g[1] \in Nat /\ f[2] \in Nat /\ g[2] \in Nat
        BY <2>3
      <4> QED
        BY ONLY <3>1, <4>1, <4>2 DEF Before
    <3>3. CASE ~(scene[g] < Far)
      BY ONLY <1>0, <3>1, <3>3
    <3> QED
      BY <3>2, <3>3
  <2>5. Leader(set, f)
    BY <2>1, <2>4 DEF Leader, First
  <2> QED
    BY <2>2, <2>5 DEF Leads
<1>2. CASE \A f \in set : ~(scene[f] < Far)
  BY <1>2, NearestIs DEF Leads
<1> QED
  BY <1>1, <1>2

\* Drawing one set over another by depth draws both, if the triangles of each
\* mesh in the one come before those in the other.
LEMMA LeadsBoth ==
    ASSUME NEW A, NEW B, A \subseteq Faces, B \subseteq Faces,
           scene \in [Faces -> 1..Far],
           \A f \in A, g \in B : f[1] = g[1] => f[2] <= g[2],
           NEW at, NEW old, NEW new, Leads(A, at, old), Leads(B, at, new)
    PROVE  Leads(A \cup B, at, IF new.depth < old.depth THEN new ELSE old)
<1>1. \A f \in Faces : scene[f] \in Nat
  BY SplitRenderingAssumption
<1>2. Far \in Nat
  BY SplitRenderingAssumption
<1>3. CASE new = Clear /\ \A f \in B : ~(scene[f] < Far)
  <2>1. CASE old = Clear /\ \A f \in A : ~(scene[f] < Far)
    BY <1>3, <2>1 DEF Leads
  <2>2. CASE \E f \in A : Leader(A, f) /\ old = [face |-> f, at |-> at, depth |-> scene[f]]
    <3>1. PICK f \in A : Leader(A, f) /\ old = [face |-> f, at |-> at, depth |-> scene[f]]
      BY <2>2
    <3>2. new.depth = Far /\ old.depth = scene[f] /\ scene[f] < Far /\ scene[f] \in Nat
      BY <1>1, <1>3, <3>1 DEF Leader, Clear
    <3>3. ~(new.depth < old.depth)
      BY ONLY <1>2, <3>2
    <3>4. Leader(A \cup B, f)
      BY <1>1, <1>2, <1>3, <3>1, <3>2 DEF Leader
    <3> QED
      BY <3>1, <3>3, <3>4 DEF Leads
  <2> QED
    BY <2>1, <2>2 DEF Leads
<1>4. CASE \E g \in B : Leader(B, g) /\ new = [face |-> g, at |-> at, depth |-> scene[g]]
  <2>1. PICK g \in B : Leader(B, g) /\ new = [face |-> g, at |-> at, depth |-> scene[g]]
    BY <1>4
  <2>2. new.depth = scene[g] /\ scene[g] < Far /\ scene[g] \in Nat
    BY <1>1, <2>1 DEF Leader
  <2>3. CASE old = Clear /\ \A f \in A : ~(scene[f] < Far)
    <3>1. new.depth < old.depth
      BY <2>2, <2>3 DEF Clear
    <3>2. Leader(A \cup B, g)
      BY <1>1, <1>2, <2>1, <2>2, <2>3 DEF Leader
    <3> QED
      BY <2>1, <3>1, <3>2 DEF Leads
  <2>4. CASE \E f \in A : Leader(A, f) /\ old = [face |-> f, at |-> at, depth |-> scene[f]]
    <3>1. PICK f \in A : Leader(A, f) /\ old = [face |-> f, at |-> at, depth |-> scene[f]]
      BY <2>4
    <3>2. old.depth = scene[f] /\ scene[f] < Far /\ scene[f] \in Nat
      BY <1>1, <3>1 DEF Leader
    <3>3. CASE scene[g] < scene[f]
      <4>1. Leader(A \cup B, g)
        <5>1. ASSUME NEW h \in A
              PROVE  scene[g] < scene[h]
          <6>1. scene[f] <= scene[h] /\ scene[h] \in Nat
            BY <1>1, <3>1 DEF Leader
          <6> QED
            BY ONLY <2>2, <3>2, <3>3, <6>1
        <5> QED
          BY <1>1, <2>1, <2>2, <5>1 DEF Leader
      <4>2. new.depth < old.depth
        BY <2>2, <3>2, <3>3
      <4> QED
        BY <2>1, <4>1, <4>2 DEF Leads
    <3>4. CASE ~(scene[g] < scene[f])
      <4>1. Leader(A \cup B, f)
        <5>1. ASSUME NEW h \in B
              PROVE  scene[f] <= scene[h]
          <6>1. scene[g] <= scene[h] /\ scene[h] \in Nat
            BY <1>1, <2>1 DEF Leader
          <6> QED
            BY ONLY <2>2, <3>2, <3>4, <6>1
        <5> QED
          BY <3>1, <5>1 DEF Leader
      <4>2. ~(new.depth < old.depth)
        BY <2>2, <3>2, <3>4
      <4> QED
        BY <3>1, <4>1, <4>2 DEF Leads
    <3> QED
      BY <3>3, <3>4
  <2> QED
    BY <2>3, <2>4 DEF Leads
<1> QED
  BY <1>3, <1>4 DEF Leads

\* A leader of all triangles is like the one that is drawn first.
LEMMA LeadsLike ==
    ASSUME scene \in [Faces -> 1..Far], mode = "last", NEW at, NEW pixel,
           Leads(Faces, at, pixel)
    PROVE  Like(pixel, Nearest(Faces, at))
<1>1. CASE pixel = Clear /\ \A f \in Faces : ~(scene[f] < Far)
  BY <1>1, NearestIs DEF Like
<1>2. CASE \E f \in Faces : Leader(Faces, f) /\ pixel = [face |-> f, at |-> at, depth |-> scene[f]]
  <2>1. PICK f \in Faces : Leader(Faces, f) /\ pixel = [face |-> f, at |-> at, depth |-> scene[f]]
    BY <1>2
  <2>2. PICK g \in Faces : First(Faces, g)
    <3>1. scene[f] < Far
      BY <2>1 DEF Leader
    <3> QED
      BY <3>1, NearestIs
  <2> DEFINE wanted == Nearest(Faces, at)
  <2>3. wanted = [face |-> g, at |-> at, depth |-> scene[g]]
    BY <2>2, NearestIs
  <2> HIDE DEF wanted
  <2>4. /\ f = <<f[1], f[2]>> /\ g = <<g[1], g[2]>>
        /\ f[1] \in Nat /\ g[1] \in Nat /\ f[2] \in Nat /\ g[2] \in Nat
    BY FaceIs
  <2>5. scene[f] \in Nat /\ scene[g] \in Nat
    BY SplitRenderingAssumption
  <2>6. scene[f] = scene[g] /\ Before(g, f)
    <3>1. scene[f] <= scene[g]
      BY <2>1 DEF Leader
    <3>2. scene[g] < scene[f] \/ (scene[g] = scene[f] /\ Before(g, f))
      BY <2>1, <2>2 DEF First, Leader
    <3> QED
      BY ONLY <2>5, <3>1, <3>2
  <2>7. CASE f[1] = g[1]
    <3>1. f[2] <= g[2]
      BY <2>1, <2>6, <2>7 DEF Leader
    <3>2. f[2] = g[2]
      BY ONLY <2>4, <2>6, <2>7, <3>1 DEF Before
    <3>3. f = g
      BY ONLY <2>4, <2>7, <3>2
    <3> QED
      BY <2>1, <2>3, <3>3 DEF Like, wanted
  <2>8. CASE f[1] # g[1]
    <3>1. g[1] < f[1]
      BY ONLY <2>4, <2>6, <2>8 DEF Before
    <3>2. pixel = [wanted EXCEPT !.face = f] /\ scene[f] = wanted.depth /\ wanted.face[1] < f[1]
      BY <2>1, <2>3, <2>6, <3>1
    <3>3. wanted # Clear
      <4>1. wanted.depth # Clear.depth
        BY <2>2, <2>3, <2>5, SplitRenderingAssumption DEF First, Clear
      <4> QED
        BY <4>1
    <3> QED
      BY <3>2, <3>3 DEF Like, wanted
  <2> QED
    BY <2>7, <2>8
<1> QED
  BY <1>1, <1>2 DEF Leads

----------------------------------------------------------------------------
\* The numbers of a configuration.
LEMMA ConfigIs ==
    ASSUME Config
    PROVE  /\ grid[1] \in Nat \ {0} /\ grid[2] \in Nat \ {0} /\ low \subseteq Inexact
           /\ canvas.x \in Int /\ canvas.y \in Int /\ Word \in Nat
           /\ canvas.width \in Nat \ {0} /\ canvas.height \in Nat \ {0}
           /\ 2 * (canvas.x + canvas.width) < Word /\ 2 * (canvas.y + canvas.height) < Word
           /\ canvas.left = 0 /\ canvas.right = canvas.width * grid[1]
           /\ canvas.bottom = 0 /\ canvas.top = canvas.height * grid[2]
           /\ NumRenderers \in Nat \ {0}
<1>1. grid \in (Nat \ {0}) \X (Nat \ {0}) /\ Word \in Nat
  BY SplitRenderingAssumption DEF Config
<1>2. PICK o \in Origins, s \in Sizes :
        canvas = Viewport(o[1], o[2], s[1], s[2], 0, s[1] * grid[1], 0, s[2] * grid[2])
  BY DEF Config, Canvases
<1>3. o \in Int \X Int /\ s \in (Nat \ {0}) \X (Nat \ {0})
      /\ 2 * (o[1] + s[1]) < Word /\ 2 * (o[2] + s[2]) < Word
  BY SplitRenderingAssumption
<1>4. grid[1] \in Nat \ {0} /\ grid[2] \in Nat \ {0}
  BY <1>1
<1>5. NumRenderers \in Nat \ {0}
  BY <1>4, SMTT(30) DEF NumRenderers
<1>6. /\ canvas.x = o[1] /\ canvas.y = o[2] /\ canvas.width = s[1] /\ canvas.height = s[2]
      /\ canvas.left = 0 /\ canvas.right = s[1] * grid[1]
      /\ canvas.bottom = 0 /\ canvas.top = s[2] * grid[2]
  BY <1>2 DEF Viewport
<1> QED
  BY <1>1, <1>3, <1>4, <1>5, <1>6 DEF Config

\* The parts of the grid, row by row.
LEMMA PartIs ==
    ASSUME Config, NEW i \in Renderers
    PROVE  Part(i).column \in 0..(grid[1] - 1) /\ Part(i).row \in 0..(grid[2] - 1)
<1> DEFINE c == grid[1]
           r == grid[2]
           n == i - 1
           e == n \div c
<1>1. c \in Nat \ {0} /\ r \in Nat \ {0}
  BY ConfigIs
<1>2. n \in Nat /\ n + 1 <= c * r
  BY <1>1, SMTT(30) DEF Renderers, NumRenderers
<1>3. n % c \in 0..(c - 1) /\ e \in Nat /\ (r <= e => c * r <= n)
  <2> HIDE DEF n, c, r
  <2>1. n % c \in 0..(c - 1) /\ e \in Nat
    BY <1>1, <1>2, DivRest, DivBounds
  <2>2. \A k \in Int : k <= n \div c <=> c * k <= n
    BY <1>1, <1>2, AtMostQuotient
  <2> QED
    BY <1>1, <2>1, <2>2
<1>4. c * r \in Nat
  BY <1>1, SMTT(30)
<1>5. Part(i).column = n % c /\ Part(i).row = e
  BY DEF Part
<1> HIDE DEF c, r, n, e
<1>6. e \in 0..(r - 1)
  BY <1>1, <1>2, <1>3, <1>4
<1> QED
  BY <1>3, <1>5, <1>6 DEF c, r

\* Every part of the grid is a renderer's.
LEMMA PartOf ==
    ASSUME Config, NEW c \in 0..(grid[1] - 1), NEW r \in 0..(grid[2] - 1)
    PROVE  \E i \in Renderers : Part(i).column = c /\ Part(i).row = r
<1> DEFINE g == grid[1]
           h == grid[2]
           n == g * r + c
<1>1. g \in Nat \ {0} /\ h \in Nat \ {0} /\ c \in Nat /\ c < g /\ r \in Nat /\ r + 1 <= h
  BY ConfigIs
<1> HIDE DEF g, h
<1>2. g * r \in Nat /\ g * (r + 1) = g * r + g /\ g * (r + 1) <= g * h /\ g * h \in Nat
  BY <1>1, SMTT(30)
<1>3. n \in Nat /\ n + 1 \in 1..(g * h) /\ (n + 1) - 1 = n
  BY <1>1, <1>2
<1>4. n \div g = r
  <2>1. g * r <= n /\ ~(g * (r + 1) <= n)
    BY <1>1, <1>2
  <2>2. n \div g \in Nat /\ (r <= n \div g) /\ ~(r + 1 <= n \div g)
    <3> HIDE DEF n
    <3>1. n \div g \in Nat /\ \A k \in Int : k <= n \div g <=> g * k <= n
      BY <1>1, <1>3, DivBounds, AtMostQuotient
    <3> QED
      BY <1>1, <2>1, <3>1
  <2> QED
    BY <1>1, <2>2
<1>5. n % g = c
  <2>1. n = g * (n \div g) + (n % g) /\ n % g \in 0..(g - 1)
    BY <1>1, <1>3, DivRest
  <2>2. n = g * r + (n % g) /\ n % g \in Int
    BY <1>1, <1>4, <2>1
  <2> QED
    BY <1>1, <1>2, <2>2
<1> HIDE DEF n
<1>6. Part(n + 1).column = c /\ Part(n + 1).row = r
  BY <1>3, <1>4, <1>5 DEF Part, g
<1>7. n + 1 \in Renderers
  BY <1>3 DEF Renderers, NumRenderers, g, h
<1> QED
  BY <1>6, <1>7

\* Where a column or row of the grid begins.
Column(c) == Trunc(canvas.width, c, grid[1])
Row(r) == Trunc(canvas.height, r, grid[2])

\* The edges of columns and rows.
LEMMA Edges ==
    ASSUME Config
    PROVE  /\ \A c \in 0..(grid[1] - 1) :
                /\ Column(c) \in 0..canvas.width /\ Column(c + 1) \in 0..canvas.width
                /\ Column(c) <= Column(c + 1)
                /\ 2 * grid[1] <= canvas.width => Column(c) < Column(c + 1)
           /\ \A r \in 0..(grid[2] - 1) :
                /\ Row(r) \in 0..canvas.height /\ Row(r + 1) \in 0..canvas.height
                /\ Row(r) <= Row(r + 1)
                /\ 2 * grid[2] <= canvas.height => Row(r) < Row(r + 1)
<1> USE ConfigIs
<1>1. ASSUME NEW c \in 0..(grid[1] - 1)
      PROVE  /\ Column(c) \in 0..canvas.width /\ Column(c + 1) \in 0..canvas.width
             /\ Column(c) <= Column(c + 1)
             /\ 2 * grid[1] <= canvas.width => Column(c) < Column(c + 1)
  <2>1. c \in 0..grid[1] /\ c + 1 \in 0..grid[1]
    OBVIOUS
  <2> QED
    BY <2>1, TruncEnds, TruncGrows DEF Column
<1>2. ASSUME NEW r \in 0..(grid[2] - 1)
      PROVE  /\ Row(r) \in 0..canvas.height /\ Row(r + 1) \in 0..canvas.height
             /\ Row(r) <= Row(r + 1)
             /\ 2 * grid[2] <= canvas.height => Row(r) < Row(r + 1)
  <2>1. r \in 0..grid[2] /\ r + 1 \in 0..grid[2]
    OBVIOUS
  <2> QED
    BY <2>1, TruncEnds, TruncGrows DEF Row
<1> QED
  BY <1>1, <1>2

\* A part of the canvas, in pixels and in the projection.
LEMMA SplitIs ==
    ASSUME Config, NEW c \in 0..(grid[1] - 1), NEW r \in 0..(grid[2] - 1)
    PROVE  Split(canvas, c, r) =
             Viewport(canvas.x + Column(c), canvas.y + Row(r),
                      Column(c + 1) - Column(c), Row(r + 1) - Row(r),
                      grid[1] * Column(c), grid[1] * Column(c + 1),
                      grid[2] * Row(r), grid[2] * Row(r + 1))
<1>1. ASSUME NEW n \in Nat, NEW w \in Nat \ {0}, NEW g \in Nat \ {0}
      PROVE  0 + ((w * g - 0) * n) \div w = g * n
  <2>1. (w * g - 0) * n = w * (g * n) /\ g * n \in Nat
    BY SMTT(30)
  <2>2. (w * (g * n)) \div w = g * n
    BY <2>1, ExactQuotient
  <2> QED
    BY <2>1, <2>2
<1>2. /\ Column(c) \in Nat /\ Column(c + 1) \in Nat /\ Row(r) \in Nat /\ Row(r + 1) \in Nat
  BY Edges
<1>3. /\ grid[1] \in Nat \ {0} /\ grid[2] \in Nat \ {0}
      /\ canvas.width \in Nat \ {0} /\ canvas.height \in Nat \ {0}
      /\ canvas.left = 0 /\ canvas.right = canvas.width * grid[1]
      /\ canvas.bottom = 0 /\ canvas.top = canvas.height * grid[2]
  BY ConfigIs
<1>4. /\ canvas.left + ((canvas.right - canvas.left) * Column(c)) \div canvas.width
           = grid[1] * Column(c)
      /\ canvas.left + ((canvas.right - canvas.left) * Column(c + 1)) \div canvas.width
           = grid[1] * Column(c + 1)
      /\ canvas.bottom + ((canvas.top - canvas.bottom) * Row(r)) \div canvas.height
           = grid[2] * Row(r)
      /\ canvas.bottom + ((canvas.top - canvas.bottom) * Row(r + 1)) \div canvas.height
           = grid[2] * Row(r + 1)
  BY ONLY <1>1, <1>2, <1>3
<1> QED
  BY <1>4, Zenon DEF Split, Column, Row

----------------------------------------------------------------------------
\* What a renderer is given: a part of the canvas, with its position, its size
\* and its part of the projection.
LEMMA GivenIs ==
    ASSUME Config, NEW i \in Renderers
    PROVE  LET v == Given(i) IN
           /\ v.x \in Int /\ v.y \in Int /\ v.width \in Nat /\ v.height \in Nat
           /\ canvas.x <= v.x /\ v.x + v.width <= canvas.x + canvas.width
           /\ canvas.y <= v.y /\ v.y + v.height <= canvas.y + canvas.height
           /\ v.left = grid[1] * (v.x - canvas.x)
           /\ v.right = grid[1] * (v.x - canvas.x + v.width)
           /\ v.bottom = grid[2] * (v.y - canvas.y)
           /\ v.top = grid[2] * (v.y - canvas.y + v.height)
<1> USE ConfigIs
<1>1. CASE mode = "first"
  <2> DEFINE c == Part(i).column
             r == Part(i).row
  <2>1. c \in 0..(grid[1] - 1) /\ r \in 0..(grid[2] - 1)
    BY PartIs
  <2> HIDE DEF c, r
  <2>2. Given(i) = Viewport(canvas.x + Column(c), canvas.y + Row(r),
                      Column(c + 1) - Column(c), Row(r + 1) - Row(r),
                      grid[1] * Column(c), grid[1] * Column(c + 1),
                      grid[2] * Row(r), grid[2] * Row(r + 1))
    BY <1>1, <2>1, SplitIs DEF Given, c, r
  <2>3. /\ Column(c) \in 0..canvas.width /\ Column(c + 1) \in 0..canvas.width
        /\ Column(c) <= Column(c + 1)
        /\ Row(r) \in 0..canvas.height /\ Row(r + 1) \in 0..canvas.height
        /\ Row(r) <= Row(r + 1)
    BY <2>1, Edges
  <2>4. \A x, n, m \in Int : (x + n) - x = n /\ (x + n) - x + (m - n) = m
    OBVIOUS
  <2>5. LET v == Given(i) IN
        /\ v.x = canvas.x + Column(c) /\ v.width = Column(c + 1) - Column(c)
        /\ v.y = canvas.y + Row(r) /\ v.height = Row(r + 1) - Row(r)
        /\ v.left = grid[1] * Column(c) /\ v.right = grid[1] * Column(c + 1)
        /\ v.bottom = grid[2] * Row(r) /\ v.top = grid[2] * Row(r + 1)
    BY <2>2 DEF Viewport
  <2> QED
    BY <2>3, <2>4, <2>5
<1>2. CASE mode # "first"
  <2>1. Given(i) = canvas
    BY <1>2 DEF Given
  <2>2. \A x, n \in Int : x - x = 0 /\ x - x + n = n
    OBVIOUS
  <2>3. \A n \in Nat : /\ grid[1] * 0 = 0 /\ grid[2] * 0 = 0
                       /\ n * grid[1] = grid[1] * n /\ n * grid[2] = grid[2] * n
    BY SMTT(30)
  <2> QED
    BY <2>1, <2>2, <2>3
<1> QED
  BY <1>1, <1>2

\* The canvas itself is a viewport of this kind.
LEMMA CanvasIs ==
    ASSUME Config
    PROVE  /\ canvas.left = grid[1] * (canvas.x - canvas.x)
           /\ canvas.right = grid[1] * (canvas.x - canvas.x + canvas.width)
           /\ canvas.bottom = grid[2] * (canvas.y - canvas.y)
           /\ canvas.top = grid[2] * (canvas.y - canvas.y + canvas.height)
<1> USE ConfigIs
<1>1. \A x, n \in Int : x - x = 0 /\ x - x + n = n
  OBVIOUS
<1>2. \A n \in Nat : /\ grid[1] * 0 = 0 /\ grid[2] * 0 = 0
                     /\ n * grid[1] = grid[1] * n /\ n * grid[2] = grid[2] * n
  BY SMTT(30)
<1> QED
  BY <1>1, <1>2

\* A viewport that shows its part of the canvas shows at each pixel the point
\* that belongs there.
LEMMA PointIs ==
    ASSUME NEW g \in Nat \ {0}, NEW x \in Nat, NEW w \in Nat \ {0}, NEW q \in 0..(w - 1)
    PROVE  g * x + ((g * (x + w) - g * x) * q) \div w = g * (x + q)
<1>1. (g * (x + w) - g * x) * q = w * (g * q) /\ g * q \in Nat
  BY SMTT(30)
<1>2. (w * (g * q)) \div w = g * q
  BY <1>1, ExactQuotient
<1>3. g * x + g * q = g * (x + q)
  BY SMTT(30)
<1> QED
  BY <1>1, <1>2, <1>3

\* What a renderer's frame shows at a place.
LEMMA RenderedIs ==
    ASSUME Config, NEW v, NEW set, NEW q \in Pixels(v.width, v.height),
           v.x \in Int, v.y \in Int, v.width \in Nat, v.height \in Nat,
           canvas.x <= v.x, canvas.y <= v.y,
           v.left = grid[1] * (v.x - canvas.x),
           v.right = grid[1] * (v.x - canvas.x + v.width),
           v.bottom = grid[2] * (v.y - canvas.y),
           v.top = grid[2] * (v.y - canvas.y + v.height)
    PROVE  Rendered(v, set).pixels[q]
             = Nearest(set, <<grid[1] * (v.x - canvas.x + q[1]), grid[2] * (v.y - canvas.y + q[2])>>)
<1> USE ConfigIs
<1>1. q[1] \in 0..(v.width - 1) /\ q[2] \in 0..(v.height - 1) /\ q = <<q[1], q[2]>>
  BY DEF Pixels
<1>2. v.width \in Nat \ {0} /\ v.height \in Nat \ {0} /\ v.x - canvas.x \in Nat
      /\ v.y - canvas.y \in Nat
  BY <1>1
<1>3. Point(v, q) = <<grid[1] * (v.x - canvas.x + q[1]), grid[2] * (v.y - canvas.y + q[2])>>
  <2> DEFINE x == v.x - canvas.x
             y == v.y - canvas.y
             w == v.width
             h == v.height
  <2>1. /\ v.left = grid[1] * x /\ v.right = grid[1] * (x + w)
        /\ v.bottom = grid[2] * y /\ v.top = grid[2] * (y + h)
    OBVIOUS
  <2>2. /\ x \in Nat /\ y \in Nat /\ w \in Nat \ {0} /\ h \in Nat \ {0}
        /\ q[1] \in 0..(w - 1) /\ q[2] \in 0..(h - 1)
    BY <1>1, <1>2
  <2>3. Point(v, q) = <<v.left + ((v.right - v.left) * q[1]) \div w,
                        v.bottom + ((v.top - v.bottom) * q[2]) \div h>>
    BY DEF Point
  <2> HIDE DEF x, y, w, h
  <2> DEFINE c == grid[1]
             r == grid[2]
             k == q[1]
             l == q[2]
  <2>7. c \in Nat \ {0} /\ r \in Nat \ {0} /\ k \in 0..(w - 1) /\ l \in 0..(h - 1)
    BY <2>2
  <2> HIDE DEF c, r, k, l
  <2>8. c * x + ((c * (x + w) - c * x) * k) \div w = c * (x + k)
    BY ONLY <2>2, <2>7, PointIs
  <2>9. r * y + ((r * (y + h) - r * y) * l) \div h = r * (y + l)
    BY ONLY <2>2, <2>7, PointIs
  <2>4. grid[1] * x + ((grid[1] * (x + w) - grid[1] * x) * q[1]) \div w = grid[1] * (x + q[1])
    BY <2>8 DEF c, k
  <2>5. grid[2] * y + ((grid[2] * (y + h) - grid[2] * y) * q[2]) \div h = grid[2] * (y + q[2])
    BY <2>9 DEF r, l
  <2>6. Point(v, q) = <<grid[1] * (x + q[1]), grid[2] * (y + q[2])>>
    BY <2>1, <2>3, <2>4, <2>5
  <2> QED
    BY <2>6 DEF x, y
<1>4. /\ Rendered(v, set).width = v.width /\ Rendered(v, set).height = v.height
      /\ Rendered(v, set).pixels = [p \in Pixels(v.width, v.height) |-> Nearest(set, Point(v, p))]
  BY DEF Rendered, Texture
<1> QED
  BY <1>3, <1>4

\* A frame whose edges do not wrap around is drawn on a quad of its own size.
LEMMA QuadIs ==
    ASSUME Config, NEW i \in Renderers, ~Stretched(Given(i))
    PROVE  LET v == Given(i) IN
           /\ Edge(v.x, v.width) - v.x = v.width /\ Edge(v.y, v.height) - v.y = v.height
           /\ Quad(v) = Pixels(v.width, v.height)
<1> DEFINE v == Given(i)
<1>1. /\ v.x \in Int /\ v.y \in Int /\ v.width \in Nat /\ v.height \in Nat
      /\ v.x + v.width <= canvas.x + canvas.width
      /\ v.y + v.height <= canvas.y + canvas.height
  BY GivenIs
<1>2. 0 <= v.x + v.width /\ 0 <= v.y + v.height
  BY <1>1 DEF Stretched
<1> HIDE DEF v
<1>3. ASSUME NEW n \in Nat, NEW w \in Nat, n < w
      PROVE  n % w = n
  <2>1. n = w * (n \div w) + (n % w) /\ n % w \in 0..(w - 1)
    BY <1>3, DivRest
  <2>2. n \div w \in Nat /\ ~(1 <= n \div w)
    <3>1. 1 <= n \div w <=> w * 1 <= n
      BY <1>3, AtMostQuotient
    <3> QED
      BY <1>3, <3>1, DivBounds
  <2>3. n \div w = 0 /\ w * 0 = 0
    BY <2>2
  <2> QED
    BY <2>1, <2>3
<1>4. ASSUME NEW a \in Int, NEW l \in Nat, NEW b \in Int, 0 <= a + l, a + l <= b, 2 * b < Word
      PROVE  Edge(a, l) - a = l
  <2>1. Word \in Nat
    BY ConfigIs
  <2>2. a + l \in Nat /\ a + l < Word
    BY ONLY <1>4, <2>1
  <2>3. (a + l) % Word = a + l
    BY <1>3, <2>1, <2>2
  <2> QED
    BY <2>3 DEF Edge
<1>5. Edge(v.x, v.width) - v.x = v.width
  <2>1. canvas.x + canvas.width \in Int /\ 2 * (canvas.x + canvas.width) < Word
    BY ConfigIs
  <2> QED
    BY ONLY <1>1, <1>2, <1>4, <2>1
<1>6. Edge(v.y, v.height) - v.y = v.height
  <2>1. canvas.y + canvas.height \in Int /\ 2 * (canvas.y + canvas.height) < Word
    BY ConfigIs
  <2> QED
    BY ONLY <1>1, <1>2, <1>4, <2>1
<1>7. Quad(v) = Pixels(v.width, v.height)
  BY <1>5, <1>6 DEF Quad
<1> QED
  BY <1>5, <1>6, <1>7 DEF v

\* What such a frame leaves at a pixel of the output.
LEMMA TexelIs ==
    ASSUME Config, NEW i \in Renderers, ~Stretched(Given(i)), NEW set,
           NEW q \in Pixels(Given(i).width, Given(i).height)
    PROVE  Texel(Rendered(Given(i), set), Given(i), q)
             = Nearest(set, <<grid[1] * (Given(i).x - canvas.x + q[1]),
                              grid[2] * (Given(i).y - canvas.y + q[2])>>)
<1> DEFINE v == Given(i)
<1>1. /\ v.x \in Int /\ v.y \in Int /\ v.width \in Nat /\ v.height \in Nat
      /\ canvas.x <= v.x /\ canvas.y <= v.y
      /\ v.left = grid[1] * (v.x - canvas.x)
      /\ v.right = grid[1] * (v.x - canvas.x + v.width)
      /\ v.bottom = grid[2] * (v.y - canvas.y)
      /\ v.top = grid[2] * (v.y - canvas.y + v.height)
  BY GivenIs
<1>2. Edge(v.x, v.width) - v.x = v.width /\ Edge(v.y, v.height) - v.y = v.height
  BY QuadIs
<1>3. q \in Pixels(v.width, v.height)
  OBVIOUS
<1> HIDE DEF v
<1>4. q[1] \in 0..(v.width - 1) /\ q[2] \in 0..(v.height - 1) /\ q = <<q[1], q[2]>>
  BY <1>3 DEF Pixels
<1>5. (q[1] * v.width) \div v.width = q[1] /\ (q[2] * v.height) \div v.height = q[2]
  <2>1. \A n \in Nat : \A w \in Nat \ {0} : (n * w) \div w = n
    <3> TAKE n \in Nat, w \in Nat \ {0}
    <3>1. n * w = w * n
      BY SMTT(30)
    <3> QED
      BY <3>1, ExactQuotient
  <2>2. /\ q[1] \in Nat /\ q[2] \in Nat
        /\ v.width \in Nat \ {0} /\ v.height \in Nat \ {0}
    BY <1>1, <1>4
  <2> QED
    BY <2>1, <2>2
<1>6. Rendered(v, set).width = v.width /\ Rendered(v, set).height = v.height
  BY DEF Rendered, Texture
<1>7. Texel(Rendered(v, set), v, q) = Rendered(v, set).pixels[q]
  BY <1>2, <1>4, <1>5, <1>6 DEF Texel
<1>8. Rendered(v, set).pixels[q]
        = Nearest(set, <<grid[1] * (v.x - canvas.x + q[1]), grid[2] * (v.y - canvas.y + q[2])>>)
  BY ONLY Config, <1>1, <1>3, RenderedIs
<1> QED
  BY <1>7, <1>8 DEF v

\* Nor is it clipped.
LEMMA NotClipped ==
    ASSUME Config, NEW i \in Renderers, NEW p \in Canvas, Covers(i, p)
    PROVE  Unclipped(p)
<1> DEFINE v == Given(i)
<1>1. /\ v.x \in Int /\ v.y \in Int /\ v.width \in Nat /\ v.height \in Nat
      /\ canvas.x <= v.x /\ canvas.y <= v.y
      /\ v.x + v.width <= canvas.x + canvas.width
      /\ v.y + v.height <= canvas.y + canvas.height
  BY GivenIs
<1>2. p[1] \in 0..(canvas.width - 1) /\ p[2] \in 0..(canvas.height - 1)
  BY DEF Canvas, Pixels
<1>3. /\ p[1] - (canvas.x + v.x) \in 0..(v.width - 1)
      /\ p[2] - (canvas.y + v.y) \in 0..(v.height - 1)
  BY DEF Covers, Place, Pixels
<1> HIDE DEF v
<1>4. ASSUME NEW c \in Int, NEW w \in Nat, NEW x \in Int, NEW l \in Nat, NEW n \in 0..(w - 1),
             c <= x, x + l <= c + w, n - (c + x) \in 0..(l - 1)
      PROVE  n - c \in 0..(w - 1)
  BY <1>4
<1>5. canvas.x \in Int /\ canvas.y \in Int /\ canvas.width \in Nat /\ canvas.height \in Nat
  BY ConfigIs
<1>6. p[1] - canvas.x \in 0..(canvas.width - 1)
  BY ONLY <1>1, <1>2, <1>3, <1>4, <1>5
<1>7. p[2] - canvas.y \in 0..(canvas.height - 1)
  BY ONLY <1>1, <1>2, <1>3, <1>4, <1>5
<1> QED
  BY <1>6, <1>7 DEF Unclipped, Pixels

----------------------------------------------------------------------------
\* What the composer has drawn after one more frame.
LEMMA ShowsNext ==
    ASSUME Config, NEW i \in Renderers, NEW p \in Canvas, ~Stretched(Given(i)),
           NEW frame, frame = Rendered(Given(i), Drawn(Range(i))),
           NEW pixel, Shows(i - 1, p, pixel)
    PROVE  LET v == Given(i)
               hides == /\ Place(v, p) \in Quad(v) /\ Unclipped(p)
                        /\ mode = "last" => Texel(frame, v, Place(v, p)).depth < pixel.depth
           IN  Shows(i, p, IF hides THEN Texel(frame, v, Place(v, p)) ELSE pixel)
<1> DEFINE v == Given(i)
           q == Place(v, p)
           at == ScenePoint(p)
           texel == Texel(frame, v, q)
           hides == /\ q \in Quad(v) /\ Unclipped(p)
                    /\ mode = "last" => texel.depth < pixel.depth
<1>1. /\ v.x \in Int /\ v.y \in Int /\ canvas.x \in Int /\ canvas.y \in Int
      /\ i \in Nat /\ i - 1 \in Nat
  BY GivenIs, ConfigIs DEF Renderers
<1>2. p[1] \in Int /\ p[2] \in Int
  BY ConfigIs DEF Canvas, Pixels
<1>3. Covers(i, p) <=> q \in Quad(v) /\ Unclipped(p)
  <2>1. Quad(v) = Pixels(v.width, v.height)
    BY QuadIs
  <2>2. Covers(i, p) <=> q \in Pixels(v.width, v.height)
    BY DEF Covers
  <2> QED
    BY ONLY Config, i \in Renderers, p \in Canvas, <2>1, <2>2, NotClipped
<1>4. ASSUME Covers(i, p)
      PROVE  texel = Nearest(Drawn(Range(i)), at)
  <2>1. q \in Pixels(v.width, v.height)
    BY <1>4 DEF Covers
  <2>2. texel = Nearest(Drawn(Range(i)), <<grid[1] * (v.x - canvas.x + q[1]), grid[2] * (v.y - canvas.y + q[2])>>)
    BY <2>1, TexelIs
  <2>3. q[1] = p[1] - (canvas.x + v.x) /\ q[2] = p[2] - (canvas.y + v.y)
    BY DEF Place
  <2> HIDE DEF q, v
  <2>4. /\ v.x - canvas.x + q[1] = p[1] - 2 * canvas.x
        /\ v.y - canvas.y + q[2] = p[2] - 2 * canvas.y
    BY ONLY <1>1, <1>2, <2>3
  <2> QED
    BY <2>2, <2>4 DEF ScenePoint
<1>5. CASE mode = "first"
  <2>1. Drawn(Range(i)) = Faces
    BY <1>5, ConfigIs, SliceEnds DEF Range
  <2>2. (\E j \in 1..i : Covers(j, p)) <=> (Covers(i, p) \/ \E j \in 1..(i - 1) : Covers(j, p))
    BY <1>1 DEF Renderers
  <2>3. pixel = IF \E j \in 1..(i - 1) : Covers(j, p) THEN Nearest(Faces, at) ELSE Clear
    BY <1>5 DEF Shows
  <2> HIDE DEF texel, q, v, at
  <2>4. CASE Covers(i, p)
    <3>1. hides
      BY <1>3, <1>5, <2>4
    <3>2. Shows(i, p, texel)
      BY <1>4, <1>5, <2>1, <2>2, <2>4 DEF Shows, at
    <3> QED
      BY <3>1, <3>2 DEF texel, q, v
  <2>5. CASE ~Covers(i, p)
    <3>1. ~hides
      BY <1>3, <2>5
    <3>2. Shows(i, p, pixel)
      BY <1>5, <2>2, <2>3, <2>5 DEF Shows, at
    <3> QED
      BY <3>1, <3>2 DEF texel, q, v
  <2> QED
    BY <2>4, <2>5
<1>6. CASE mode = "last"
  <2>1. v = canvas /\ i \in 1..grid[1]
    <3>1. NumRenderers = grid[1]
      BY <1>6, ConfigIs DEF NumRenderers, Config
    <3> QED
      BY <1>6, <3>1 DEF Given, Renderers
  <2>2. Covers(i, p) <=> OnCanvas(p) \in Canvas
    <3>1. q = OnCanvas(p)
      <4>1. p[1] - (canvas.x + canvas.x) = p[1] - 2 * canvas.x
            /\ p[2] - (canvas.y + canvas.y) = p[2] - 2 * canvas.y
        BY ONLY <1>1, <1>2
      <4> QED
        BY <2>1, <4>1 DEF OnCanvas, Place
    <3> QED
      BY <2>1, <3>1 DEF Covers, Canvas
  <2> HIDE DEF texel, q, v, at
  <2>3. CASE Covers(i, p)
    <3> DEFINE A == Upto(i - 1)
               B == Drawn(Range(i))
    <3>1. /\ A \subseteq Faces /\ B \subseteq Faces /\ Upto(i) = A \cup B
          /\ \A f \in A, g \in B : f[1] = g[1] => f[2] <= g[2]
      <4>1. Range(i) = [start |-> i - 1, end |-> i]
        BY <1>6 DEF Range
      <4>2. low \subseteq Inexact /\ grid[1] \in Nat \ {0}
        BY ConfigIs
      <4> QED
        BY ONLY <2>1, <4>1, <4>2, Slices
    <3>2. scene \in [Faces -> 1..Far]
      BY DEF Config
    <3>3. Leads(A, at, pixel)
      BY <1>6, <2>2, <2>3 DEF Shows, at
    <3>4. Leads(B, at, texel)
      <4>1. Leads(B, at, Nearest(B, at))
        BY <3>1, <3>2, NearestLeads
      <4> QED
        BY <1>4, <2>3, <4>1
    <3> HIDE DEF A, B
    <3>5. Leads(A \cup B, at, IF texel.depth < pixel.depth THEN texel ELSE pixel)
      BY ONLY <3>1, <3>2, <3>3, <3>4, LeadsBoth
    <3>6. hides <=> texel.depth < pixel.depth
      BY <1>3, <1>6, <2>3
    <3> HIDE DEF hides
    <3>7. Leads(Upto(i), at, IF hides THEN texel ELSE pixel)
      BY <3>1, <3>5, <3>6
    <3>8. Shows(i, p, IF hides THEN texel ELSE pixel)
      BY <1>6, <2>2, <2>3, <3>7 DEF Shows, at
    <3> QED
      BY <3>8 DEF hides, texel, q, v
  <2>4. CASE ~Covers(i, p)
    <3>1. ~hides
      BY <1>3, <2>4
    <3>2. Shows(i, p, pixel)
      BY <1>6, <2>2, <2>4 DEF Shows
    <3> QED
      BY <3>1, <3>2 DEF texel, q, v
  <2> QED
    BY <2>3, <2>4
<1> QED
  BY <1>5, <1>6 DEF Config

\* When all frames are drawn the output shows what the undivided picture does.
LEMMA ShowsAll ==
    ASSUME Config, NEW p \in Canvas, NEW pixel, Shows(NumRenderers, p, pixel)
    PROVE  Like(pixel, Displaced(Rendered(canvas, Faces), 2 * canvas.x, 2 * canvas.y).pixels[p])
<1> USE ConfigIs
<1> DEFINE q == OnCanvas(p)
           W == canvas.width
           H == canvas.height
           wanted == Displaced(Rendered(canvas, Faces), 2 * canvas.x, 2 * canvas.y).pixels[p]
<1>1. p[1] \in 0..(W - 1) /\ p[2] \in 0..(H - 1)
  BY DEF Canvas, Pixels
<1>2. /\ q = <<p[1] - 2 * canvas.x, p[2] - 2 * canvas.y>>
      /\ q[1] = p[1] - 2 * canvas.x /\ q[2] = p[2] - 2 * canvas.y /\ q[1] \in Int
      /\ q[2] \in Int
  BY <1>1 DEF OnCanvas
<1>3. wanted = IF q \in Canvas THEN Rendered(canvas, Faces).pixels[q] ELSE Clear
  <2> DEFINE picture == Rendered(canvas, Faces)
  <2>1. picture.width = W /\ picture.height = H
    BY DEF Rendered, Texture
  <2> HIDE DEF picture
  <2>2. p \in Pixels(picture.width, picture.height)
    BY <2>1 DEF Canvas
  <2> QED
    BY <2>1, <2>2 DEF Displaced, Texture, OnCanvas, Canvas, picture
<1>4. ScenePoint(p) = <<grid[1] * q[1], grid[2] * q[2]>>
  BY <1>2 DEF ScenePoint
<1> HIDE DEF q, W, H
<1>5. ASSUME q \in Canvas
      PROVE  Rendered(canvas, Faces).pixels[q] = Nearest(Faces, ScenePoint(p))
  <2>1. Rendered(canvas, Faces).pixels[q]
          = Nearest(Faces, <<grid[1] * (canvas.x - canvas.x + q[1]), grid[2] * (canvas.y - canvas.y + q[2])>>)
    <3>1. q \in Pixels(canvas.width, canvas.height)
      BY <1>5 DEF Canvas
    <3>2. canvas.width \in Nat /\ canvas.height \in Nat /\ canvas.x <= canvas.x
          /\ canvas.y <= canvas.y
      OBVIOUS
    <3>3. /\ canvas.left = grid[1] * (canvas.x - canvas.x)
          /\ canvas.right = grid[1] * (canvas.x - canvas.x + canvas.width)
          /\ canvas.bottom = grid[2] * (canvas.y - canvas.y)
          /\ canvas.top = grid[2] * (canvas.y - canvas.y + canvas.height)
      BY CanvasIs
    <3>4. canvas.x \in Int /\ canvas.y \in Int
      OBVIOUS
    <3> QED
      BY ONLY Config, <3>1, <3>2, <3>3, <3>4, RenderedIs
  <2>2. canvas.x - canvas.x + q[1] = q[1] /\ canvas.y - canvas.y + q[2] = q[2]
    BY <1>2
  <2> QED
    BY <1>4, <2>1, <2>2
<1> HIDE DEF wanted
<1>6. CASE mode = "first"
  <2>1. ASSUME q \in Canvas
        PROVE  \E i \in 1..NumRenderers : Covers(i, p)
    <3>1. q[1] \in 0..(W - 1) /\ q[2] \in 0..(H - 1)
      BY <2>1 DEF Canvas, Pixels, W, H
    <3>2. PICK c \in 0..(grid[1] - 1) : Column(c) <= q[1] /\ q[1] < Column(c + 1)
      BY <3>1, TruncCovers DEF Column, W
    <3>3. PICK r \in 0..(grid[2] - 1) : Row(r) <= q[2] /\ q[2] < Row(r + 1)
      BY <3>1, TruncCovers DEF Row, H
    <3>4. PICK i \in Renderers : Part(i).column = c /\ Part(i).row = r
      BY PartOf
    <3>5. Given(i) = Split(canvas, c, r)
      BY <1>6, <3>4 DEF Given
    <3>6. LET v == Given(i) IN
          /\ v.x = canvas.x + Column(c) /\ v.width = Column(c + 1) - Column(c)
          /\ v.y = canvas.y + Row(r) /\ v.height = Row(r + 1) - Row(r)
      BY <3>5, SplitIs DEF Viewport
    <3>7. Column(c) \in Int /\ Column(c + 1) \in Int /\ Row(r) \in Int
          /\ Row(r + 1) \in Int
      BY Edges
    <3>8. /\ p[1] - (canvas.x + Given(i).x) \in 0..(Given(i).width - 1)
          /\ p[2] - (canvas.y + Given(i).y) \in 0..(Given(i).height - 1)
      BY <1>1, <1>2, <3>2, <3>3, <3>6, <3>7
    <3>9. Covers(i, p)
      BY <3>8 DEF Covers, Place, Pixels
    <3> QED
      BY <3>9 DEF Renderers
  <2>2. ASSUME NEW i \in 1..NumRenderers, Covers(i, p)
        PROVE  q \in Canvas
    <3> DEFINE v == Given(i)
    <3>1. /\ v.x \in Int /\ v.y \in Int /\ v.width \in Nat /\ v.height \in Nat
          /\ canvas.x <= v.x /\ canvas.y <= v.y
          /\ v.x + v.width <= canvas.x + canvas.width
          /\ v.y + v.height <= canvas.y + canvas.height
      BY GivenIs DEF Renderers
    <3>2. /\ p[1] - (canvas.x + v.x) \in 0..(v.width - 1)
          /\ p[2] - (canvas.y + v.y) \in 0..(v.height - 1)
      BY <2>2 DEF Covers, Place, Pixels
    <3> HIDE DEF v
    <3>3. p[1] \in Int /\ p[2] \in Int /\ canvas.x \in Int /\ canvas.y \in Int
          /\ canvas.width \in Int /\ canvas.height \in Int
      BY <1>1 DEF W, H
    <3>4. /\ p[1] - 2 * canvas.x \in 0..(canvas.width - 1)
          /\ p[2] - 2 * canvas.y \in 0..(canvas.height - 1)
      BY ONLY <3>1, <3>2, <3>3
    <3> QED
      BY <1>2, <3>4 DEF Canvas, Pixels
  <2>3. pixel = wanted
    <3>1. pixel = IF \E i \in 1..NumRenderers : Covers(i, p) THEN Nearest(Faces, ScenePoint(p))
                  ELSE Clear
      BY <1>6 DEF Shows
    <3>2. (\E i \in 1..NumRenderers : Covers(i, p)) <=> q \in Canvas
      BY ONLY <2>1, <2>2
    <3> QED
      BY <1>3, <1>5, <3>1, <3>2
  <2> QED
    BY <2>3 DEF Like, wanted
<1>7. CASE mode = "last"
  <2>1. Upto(NumRenderers) = Faces
    <3>1. NumRenderers = grid[1]
      BY <1>7 DEF NumRenderers, Config
    <3> QED
      BY <3>1, SliceEnds
  <2>2. CASE q \in Canvas
    <3>1. Leads(Faces, ScenePoint(p), pixel)
      BY <1>7, <2>1, <2>2 DEF Shows, q
    <3>2. Like(pixel, Nearest(Faces, ScenePoint(p)))
      BY <1>7, <3>1, LeadsLike DEF Config
    <3> QED
      BY <1>3, <1>5, <2>2, <3>2 DEF wanted
  <2>3. CASE q \notin Canvas
    <3>1. pixel = Clear
      BY <1>7, <2>3 DEF Shows, q
    <3> QED
      BY <1>3, <2>3, <3>1 DEF Like, wanted
  <2> QED
    BY <2>2, <2>3
<1> QED
  BY <1>6, <1>7 DEF Config, wanted

----------------------------------------------------------------------------
\* Before the first frame the output is clear.
LEMMA ShowsNone ==
    ASSUME Config, NEW p \in Canvas
    PROVE  Shows(0, p, Clear)
<1>1. 1..0 = {}
  OBVIOUS
<1>2. Upto(0) = {}
  BY ConfigIs, SliceEnds
<1>3. Leads({}, ScenePoint(p), Clear)
  BY DEF Leads
<1>4. CASE mode = "first"
  BY <1>1, <1>4 DEF Shows
<1>5. CASE mode = "last"
  BY <1>2, <1>3, <1>5 DEF Shows
<1> QED
  BY <1>4, <1>5 DEF Config

\* What the program's arguments and the work determine stays as they do.
LEMMA Determined ==
    ASSUME UNCHANGED <<program, work>>
    PROVE  /\ NumRenderers' = NumRenderers /\ Renderers' = Renderers
           /\ Canvas' = Canvas /\ Canvases' = Canvases
           /\ \A i : Given(i)' = Given(i) /\ Range(i)' = Range(i)
           /\ \A p : Shows(composed, p, output.pixels[p])' <=> Shows(composed', p, output'.pixels[p])
           /\ Whole' <=> Whole
           /\ \A v, r : Rendered(v, Drawn(r))' = Rendered(v, Drawn(r))
<1>1. /\ mode' = mode /\ grid' = grid /\ scene' = scene /\ low' = low
      /\ canvas' = canvas /\ viewports' = viewports /\ ranges' = ranges
  BY DEF program, work
<1>2. /\ NumRenderers' = NumRenderers /\ Renderers' = Renderers
      /\ Canvas' = Canvas /\ Canvases' = Canvases
  BY <1>1 DEF NumRenderers, Renderers, Canvas, Canvases, Pixels, Viewport
<1>3. \A a, p, q : Trunc(a, p, q)' = Trunc(a, p, q)
  BY <1>1 DEF Trunc
<1>4. \A set, at : Nearest(set, at)' = Nearest(set, at)
  BY <1>1, Zenon DEF Nearest
<1>5. \A i : Part(i)' = Part(i)
  BY <1>1 DEF Part
<1>6. \A c, r : Split(canvas, c, r)' = Split(canvas, c, r)
  BY <1>1, <1>3, Zenon DEF Split
<1>7. \A i : Given(i)' = Given(i) /\ Range(i)' = Range(i)
  BY <1>1, <1>5, <1>6, Zenon DEF Given, Range
<1>8. \A v, p : Place(v, p)' = Place(v, p)
  BY <1>1, Zenon DEF Place
<1>9. \A i, p : Covers(i, p)' <=> Covers(i, p)
  BY <1>7, <1>8, Zenon DEF Covers
<1>10. \A p : ScenePoint(p)' = ScenePoint(p) /\ OnCanvas(p)' = OnCanvas(p)
  BY <1>1, Zenon DEF ScenePoint, OnCanvas
<1>11. \A p : Shows(composed, p, output.pixels[p])' <=> Shows(composed', p, output'.pixels[p])
  <2>1. \A p : Nearest(Faces, ScenePoint(p))' = Nearest(Faces, ScenePoint(p))
    BY <1>1, <1>10, Zenon DEF Nearest
  <2>2. Upto(composed)' = Upto(composed')
    BY <1>1, <1>3, Zenon DEF Upto, Trunc
  <2>3. \A p : Leads(Upto(composed), ScenePoint(p), output.pixels[p])'
                <=> Leads(Upto(composed'), ScenePoint(p), output'.pixels[p])
    BY <1>1, <1>10, <2>2, Zenon DEF Leads, Leader
  <2> QED
    BY <1>1, <1>2, <1>9, <1>10, <2>1, <2>3, Zenon DEF Shows
<1>12. \A r : Drawn(r)' = Drawn(r)
  BY <1>1, <1>3, Zenon DEF Drawn
<1>13. \A v, r : Rendered(v, Drawn(r))' = Rendered(v, Drawn(r))
  BY <1>4, <1>12, Zenon DEF Rendered
<1>14. Whole' <=> Whole
  BY <1>1, <1>2, Zenon DEF Whole
<1> QED
  BY <1>2, <1>7, <1>11, <1>13, <1>14

\* It holds when the program begins.
LEMMA Initially == Init => IInv
<1> SUFFICES ASSUME Init PROVE IInv
  OBVIOUS
<1> USE SplitRenderingAssumption DEF Init
<1>1. Config
  BY DEF Config
<1>2. Handed
  BY DEF Handed
<1>3. Framed
  BY DEF Framed
<1>4. Failures
  BY DEF Failures
<1>5. Pictured
  BY DEF Pictured
<1> QED
  BY <1>1, <1>2, <1>3, <1>4, <1>5 DEF IInv

\* A round in progress has handed its work out.
LEMMA HandedOut ==
    ASSUME Handed, phase # "split"
    PROVE  /\ viewports = [i \in Renderers |-> Given(i)]
           /\ ranges = [i \in Renderers |-> Range(i)]
           /\ DOMAIN frames = Renderers /\ DOMAIN viewports = Renderers
BY DEF Handed

\* The splitters hand out the work of a round.
LEMMA DistributeStep ==
    ASSUME IInv, Distribute
    PROVE  IInv'
<1> USE DEF Distribute
<1>1. mode' = mode /\ grid' = grid /\ scene' = scene /\ low' = low
  BY DEF program
<1>2. Renderers' = Renderers /\ Canvases' = Canvases
  BY <1>1 DEF Renderers, NumRenderers, Canvases, Viewport
<1>3. Config'
  BY <1>1, <1>2 DEF IInv, Config
<1>4. Handed'
  <2>1. \A a, p, q : Trunc(a, p, q)' = Trunc(a, p, q)
    BY <1>1 DEF Trunc
  <2>2. \A c, r : Split(canvas, c, r)' = Split(canvas', c, r)
    BY <1>1, <2>1, Zenon DEF Split
  <2>3. \A i : Part(i)' = Part(i)
    BY <1>1 DEF Part
  <2>4. ASSUME NEW i
        PROVE  /\ Given(i)' = IF mode = "first" THEN Split(canvas', Part(i).column, Part(i).row)
                              ELSE canvas'
               /\ Range(i)' = IF mode = "first" THEN [start |-> 0, end |-> grid[1]]
                              ELSE [start |-> i - 1, end |-> i]
    <3>1. Part(i)' = Part(i)
      BY <2>3
    <3>2. Split(canvas', Part(i).column, Part(i).row)
            = Split(canvas, Part(i).column, Part(i).row)'
      BY <2>2, <3>1, Zenon
    <3> QED
      BY <1>1, <3>1, <3>2, Zenon DEF Given, Range
  <2>5. viewports' = [i \in Renderers |-> Given(i)']
        /\ ranges' = [i \in Renderers |-> Range(i)']
    BY <2>4
  <2> QED
    BY <1>2, <2>5 DEF Handed
<1>5. Framed'
  <2>1. DOMAIN viewports' = Renderers
    OBVIOUS
  <2> QED
    BY <2>1 DEF Framed
<1>6. Failures'
  BY <1>2 DEF IInv, Failures
<1>7. Pictured'
  BY DEF Pictured
<1> QED
  BY <1>3, <1>4, <1>5, <1>6, <1>7 DEF IInv

\* The composer fetches the frames and clears its output.
LEMMA ComposeStep ==
    ASSUME IInv, Compose
    PROVE  IInv'
<1> USE DEF Compose
<1>1. /\ mode' = mode /\ grid' = grid /\ scene' = scene /\ low' = low
      /\ canvas' = canvas /\ viewports' = viewports /\ ranges' = ranges
      /\ frames' = frames /\ failed' = failed /\ round' = round
  BY DEF program, work
<1> USE Determined
<1>2. Config'
  BY <1>1 DEF IInv, Config
<1>3. Handed'
  <2>1. phase # "split"
    OBVIOUS
  <2> QED
    BY <1>1, <2>1, HandedOut DEF IInv, Handed
<1>4. Framed'
  BY <1>1 DEF IInv, Framed
<1>5. Failures'
  <2>1. failed = {}
    BY DEF IInv, Failures
  <2> QED
    BY <1>1, <2>1 DEF Failures
<1>6. Pictured'
  <2>1. NumRenderers \in Nat \ {0} /\ Config
    BY ConfigIs DEF IInv
  <2>2. /\ output'.width = canvas.width /\ output'.height = canvas.height
        /\ \A p \in Canvas : output'.pixels[p] = Clear
    BY DEF Texture, Canvas
  <2>3. ASSUME NEW p \in Canvas
        PROVE  Shows(composed, p, output.pixels[p])'
    <3>1. Shows(0, p, Clear)
      BY <2>1, ShowsNone
    <3>2. Shows(composed', p, output'.pixels[p])
      BY <2>2, <3>1
    <3> QED
      BY ONLY UNCHANGED <<program, work>>, <3>2, Determined
  <2>4. \A i \in Renderers' : frames'[i] # NoFrame
    BY <1>1
  <2> QED
    BY <1>1, <2>1, <2>2, <2>3, <2>4 DEF Pictured
<1> QED
  BY <1>2, <1>3, <1>4, <1>5, <1>6 DEF IInv

\* The composer draws one more frame.
LEMMA DrawFrameStep ==
    ASSUME IInv, DrawFrame
    PROVE  IInv'
<1> USE DEF DrawFrame
<1>1. /\ mode' = mode /\ grid' = grid /\ scene' = scene /\ low' = low
      /\ canvas' = canvas /\ viewports' = viewports /\ ranges' = ranges
      /\ frames' = frames /\ failed' = failed /\ round' = round
  BY DEF program, work
<1> USE Determined
<1>2. Config'
  BY <1>1 DEF IInv, Config
<1>3. Handed'
  <2>1. phase # "split"
    OBVIOUS
  <2> QED
    BY <1>1, <2>1, HandedOut DEF IInv, Handed
<1>4. Framed'
  BY <1>1 DEF IInv, Framed
<1>5. Failures'
  <2>1. failed = {}
    BY DEF IInv, Failures
  <2> QED
    BY <1>1, <2>1 DEF Failures
<1>6. Pictured'
  <2> DEFINE i == composed + 1
             frame == frames[i]
             v == viewports[i]
  <2>1. NumRenderers \in Nat \ {0} /\ Config /\ canvas.width \in Nat
        /\ canvas.height \in Nat
    BY ConfigIs DEF IInv
  <2>2. /\ composed \in 0..NumRenderers /\ composed < NumRenderers
        /\ \A j \in Renderers : frames[j] # NoFrame
        /\ output.width = canvas.width /\ output.height = canvas.height
        /\ Whole => \A p \in Canvas : Shows(composed, p, output.pixels[p])
    BY DEF IInv, Pictured
  <2>3. /\ viewports = [j \in Renderers |-> Given(j)]
        /\ ranges = [j \in Renderers |-> Range(j)]
        /\ DOMAIN viewports = Renderers
    BY HandedOut DEF IInv
  <2>4. i \in Renderers /\ i - 1 = composed
    BY <2>1, <2>2 DEF Renderers
  <2>5. v = Given(i) /\ frame = Rendered(Given(i), Drawn(Range(i)))
    BY <2>2, <2>3, <2>4 DEF IInv, Framed
  <2> DEFINE hides(p) == /\ Place(v, p) \in Quad(v) /\ Unclipped(p)
                         /\ mode = "last" =>
                              Texel(frame, v, Place(v, p)).depth < output.pixels[p].depth
             drawn(p) == IF hides(p) THEN Texel(frame, v, Place(v, p)) ELSE output.pixels[p]
  <2>6. /\ output'.width = canvas.width /\ output'.height = canvas.height
        /\ \A p \in Canvas : output'.pixels[p] = drawn(p)
    <3>1. output' = Overlay(output, frame, v)
      OBVIOUS
    <3>2. output' = Texture(canvas.width, canvas.height, [p \in Canvas |-> drawn(p)])
      BY <2>2, <3>1 DEF Overlay, Canvas
    <3> HIDE DEF drawn
    <3> QED
      BY <3>2 DEF Texture
  <2>7. ASSUME Whole, NEW p \in Canvas
        PROVE  Shows(composed, p, output.pixels[p])'
    <3>1. Shows(i - 1, p, output.pixels[p])
      BY <2>2, <2>4, <2>7
    <3>2. ~Stretched(Given(i))
      BY <2>4, <2>5, <2>7 DEF Whole
    <3>3. Shows(i, p, drawn(p))
      <4> HIDE DEF DrawFrame, i, frame, v
      <4>1. Shows(i, p, IF /\ Place(Given(i), p) \in Quad(Given(i)) /\ Unclipped(p)
                           /\ mode = "last" => Texel(frame, Given(i), Place(Given(i), p)).depth
                                                 < output.pixels[p].depth
                        THEN Texel(frame, Given(i), Place(Given(i), p)) ELSE output.pixels[p])
        BY ONLY <2>1, <2>4, <2>5, <2>7, <3>1, <3>2, ShowsNext
      <4> QED
        BY <2>5, <4>1
    <3>4. composed' = i /\ output'.pixels[p] = drawn(p)
      BY <2>6, <2>7
    <3> HIDE DEF drawn, i
    <3>5. Shows(composed', p, output'.pixels[p])
      BY ONLY <3>3, <3>4
    <3> QED
      BY ONLY UNCHANGED <<program, work>>, <3>5, Determined
  <2>8. \A j \in Renderers' : frames'[j] # NoFrame
    BY <1>1, <2>2
  <2>9. composed' \in 0..NumRenderers /\ (phase' = "overlay" <=> composed' < NumRenderers)
    BY <2>1, <2>2
  <2> HIDE DEF drawn
  <2> QED
    BY <1>1, <2>6, <2>7, <2>8, <2>9 DEF Pictured
<1> QED
  BY <1>2, <1>3, <1>4, <1>5, <1>6 DEF IInv

\* The picture is displayed, and the round ends.
LEMMA DisplayStep ==
    ASSUME IInv, Display
    PROVE  IInv'
<1> USE DEF Display
<1>1. /\ mode' = mode /\ grid' = grid /\ scene' = scene /\ low' = low
      /\ canvas' = canvas /\ viewports' = viewports /\ ranges' = ranges
      /\ frames' = frames /\ failed' = failed
  BY DEF program, work
<1> USE Determined
<1>2. Config'
  BY <1>1, SplitRenderingAssumption DEF IInv, Config
<1>3. Handed'
  <2>1. phase # "split"
    OBVIOUS
  <2> QED
    BY <1>1, <2>1, HandedOut DEF IInv, Handed
<1>4. Framed'
  BY <1>1 DEF IInv, Framed
<1>5. Failures'
  <2>1. failed = {}
    BY DEF IInv, Failures
  <2> QED
    BY <1>1, <2>1 DEF Failures
<1>6. Pictured'
  BY DEF Pictured
<1> QED
  BY <1>2, <1>3, <1>4, <1>5, <1>6 DEF IInv

\* A renderer draws its frame and sends it.
LEMMA RenderStep ==
    ASSUME IInv, NEW i \in Renderers, Render(i)
    PROVE  IInv'
<1> USE DEF Render
<1>1. /\ mode' = mode /\ grid' = grid /\ scene' = scene /\ low' = low
      /\ canvas' = canvas /\ viewports' = viewports /\ ranges' = ranges
      /\ failed' = failed /\ round' = round /\ phase' = phase
  BY DEF program, work
<1> USE Determined
<1>2. Config'
  BY <1>1 DEF IInv, Config
<1>3. /\ viewports = [j \in Renderers |-> Given(j)]
      /\ ranges = [j \in Renderers |-> Range(j)]
      /\ DOMAIN frames = Renderers /\ DOMAIN viewports = Renderers
  BY HandedOut DEF IInv
<1> DEFINE frame == Rendered(viewports[i], Drawn(ranges[i]))
<1>4. frames' = [frames EXCEPT ![i] = frame]
  OBVIOUS
<1> HIDE DEF frame
<1>5. Handed'
  BY <1>1, <1>3, <1>4 DEF Handed
<1>6. Framed'
  <2>1. ASSUME NEW j \in Renderers, frames'[j] # NoFrame
        PROVE  /\ viewports[j].width > 0 /\ viewports[j].height > 0
               /\ frames'[j] = Rendered(viewports[j], Drawn(ranges[j]))
    <3>1. CASE j = i
      BY <1>3, <1>4, <3>1 DEF frame
    <3>2. CASE j # i
      BY <1>3, <1>4, <2>1, <3>2 DEF IInv, Framed
    <3> QED
      BY <3>1, <3>2
  <2>2. ASSUME NEW j \in Renderers
        PROVE  Rendered(viewports[j], Drawn(ranges[j]))' = Rendered(viewports[j], Drawn(ranges[j]))
    BY <1>1
  <2>3. DOMAIN viewports' = Renderers
    BY <1>1, <1>3
  <2> QED
    BY <1>1, <2>1, <2>2, <2>3 DEF Framed
<1>7. Failures'
  <2>1. i \notin failed
    OBVIOUS
  <2> QED
    BY <1>1, <1>3, <1>4, <2>1 DEF IInv, Failures
<1>8. Pictured'
  BY <1>1 DEF Pictured
<1> QED
  BY <1>2, <1>5, <1>6, <1>7, <1>8 DEF IInv

\* A renderer's thread ends.
LEMMA RenderFailsStep ==
    ASSUME IInv, NEW i \in Renderers, RenderFails(i)
    PROVE  IInv'
<1> USE DEF RenderFails
<1>1. /\ mode' = mode /\ grid' = grid /\ scene' = scene /\ low' = low
      /\ canvas' = canvas /\ viewports' = viewports /\ ranges' = ranges
      /\ frames' = frames /\ round' = round /\ phase' = phase
  BY DEF program, work
<1> USE Determined
<1>2. Config'
  BY <1>1 DEF IInv, Config
<1>3. /\ viewports = [j \in Renderers |-> Given(j)]
      /\ ranges = [j \in Renderers |-> Range(j)]
      /\ DOMAIN frames = Renderers /\ DOMAIN viewports = Renderers
  BY HandedOut DEF IInv
<1>4. Handed'
  BY <1>1, <1>3 DEF Handed
<1>5. Framed'
  BY <1>1 DEF IInv, Framed
<1>6. Failures'
  BY <1>1, <1>3 DEF IInv, Failures
<1>7. Pictured'
  BY <1>1 DEF Pictured
<1> QED
  BY <1>2, <1>4, <1>5, <1>6, <1>7 DEF IInv

\* Nothing happens to the variables.
LEMMA StutterStep ==
    ASSUME IInv, UNCHANGED vars
    PROVE  IInv'
<1>1. /\ mode' = mode /\ grid' = grid /\ scene' = scene /\ low' = low
      /\ canvas' = canvas /\ viewports' = viewports /\ ranges' = ranges
      /\ frames' = frames /\ failed' = failed /\ round' = round /\ phase' = phase
      /\ composed' = composed /\ output' = output
      /\ UNCHANGED <<program, work>>
  BY DEF vars, program, work
<1> USE Determined, <1>1
<1>2. Config'
  BY DEF IInv, Config
<1>3. Handed'
  <2>1. CASE phase = "split" /\ viewports = <<>>
    BY <2>1 DEF Handed
  <2>2. CASE ~(phase = "split" /\ viewports = <<>>)
    BY <2>2 DEF IInv, Handed
  <2> QED
    BY <2>1, <2>2
<1>4. Framed'
  BY DEF IInv, Framed
<1>5. Failures'
  BY DEF IInv, Failures
<1>6. Pictured'
  <2>1. ASSUME NEW p \in Canvas
        PROVE  Shows(composed, p, output.pixels[p])' <=> Shows(composed, p, output.pixels[p])
    OBVIOUS
  <2> QED
    BY <2>1 DEF IInv, Pictured
<1> QED
  BY <1>2, <1>3, <1>4, <1>5, <1>6 DEF IInv

----------------------------------------------------------------------------
\* The inductive invariant: what the renderers are given, have sent and the
\* composer has drawn, in every state.
THEOREM Invariant == Spec => []IInv
<1>1. IInv /\ [Next]_vars => IInv'
  BY DistributeStep, ComposeStep, DrawFrameStep, DisplayStep, RenderStep, RenderFailsStep,
     StutterStep DEF Next
<1> QED
  BY <1>1, Initially, PTL DEF Spec

\* Parts lie on the canvas, the ranges draw triangles of the scene, and frames
\* have the size of their viewports (GLScreenSplitter::split,
\* GLDataRangeSplitter).
THEOREM TypeCorrect == Spec => []TypeOK
<1>1. ASSUME IInv PROVE TypeOK
  <2> USE <1>1 DEF IInv
  <2>1. /\ phase \in {"split", "compose", "overlay", "display"} /\ round \in 0..Rounds
        /\ canvas \in Canvases /\ failed \subseteq Renderers
    BY DEF Config, Failures
  <2>2. ASSUME NEW i \in DOMAIN viewports
        PROVE  LET v == viewports[i] IN
               /\ {v.x, v.y} \subseteq Int /\ {v.width, v.height} \subseteq Nat
               /\ canvas.x <= v.x /\ v.x + v.width <= canvas.x + canvas.width
               /\ canvas.y <= v.y /\ v.y + v.height <= canvas.y + canvas.height
               /\ Drawn(ranges[i]) \subseteq Faces
               /\ frames[i] # NoFrame =>
                    frames[i].width = v.width /\ frames[i].height = v.height
    <3>1. /\ viewports = [j \in Renderers |-> Given(j)]
          /\ ranges = [j \in Renderers |-> Range(j)]
          /\ i \in Renderers
      BY <2>2 DEF Handed
    <3>2. viewports[i] = Given(i) /\ ranges[i] = Range(i)
      BY <3>1
    <3>3. LET v == Given(i) IN
          /\ v.x \in Int /\ v.y \in Int /\ v.width \in Nat /\ v.height \in Nat
          /\ canvas.x <= v.x /\ v.x + v.width <= canvas.x + canvas.width
          /\ canvas.y <= v.y /\ v.y + v.height <= canvas.y + canvas.height
      BY <3>1, GivenIs
    <3>4. Drawn(Range(i)) \subseteq Faces
      <4>1. CASE mode = "first"
        BY <4>1, ConfigIs, SliceEnds DEF Range
      <4>2. CASE mode = "last"
        <5>1. NumRenderers = grid[1] /\ low \subseteq Inexact /\ grid[1] \in Nat \ {0}
          BY <4>2, ConfigIs DEF NumRenderers, Config
        <5>2. Range(i) = [start |-> i - 1, end |-> i] /\ i \in 1..grid[1]
          BY <3>1, <4>2, <5>1 DEF Range, Renderers
        <5> QED
          BY ONLY <5>1, <5>2, Slices
      <4> QED
        BY <4>1, <4>2 DEF Config
    <3>5. frames[i] # NoFrame =>
            frames[i].width = viewports[i].width /\ frames[i].height = viewports[i].height
      <4>1. \A v, set : Rendered(v, set).width = v.width /\ Rendered(v, set).height = v.height
        BY DEF Rendered, Texture
      <4>2. frames[i] # NoFrame => frames[i] = Rendered(viewports[i], Drawn(ranges[i]))
        BY <2>2 DEF Framed
      <4> QED
        BY <4>1, <4>2
    <3> QED
      BY <3>2, <3>3, <3>4, <3>5
  <2> QED
    BY <2>1, <2>2 DEF TypeOK
<1> QED
  BY <1>1, Invariant, PTL

\* However the work is split, and however the products of doubles are
\* truncated, the composed picture is the undivided one, moved by twice the
\* canvas' position: unless an edge of a frame is negative, and in sort-last with
\* another of several triangles that are equally near (GLScreenSplitter,
\* GLDataRangeSplitter, GLFrameComposer).
THEOREM PictureIsComplete == Spec => []PictureComplete
<1>1. ASSUME IInv PROVE PictureComplete
  <2> USE <1>1 DEF IInv
  <2> SUFFICES ASSUME phase = "display"
               PROVE  PictureComplete
    BY DEF PictureComplete
  <2>1. /\ composed = NumRenderers
        /\ output.width = canvas.width /\ output.height = canvas.height
        /\ Whole => \A p \in Canvas : Shows(composed, p, output.pixels[p])
    <3>1. /\ composed \in 0..NumRenderers /\ (phase = "overlay" <=> composed < NumRenderers)
          /\ output.width = canvas.width /\ output.height = canvas.height
          /\ Whole => \A p \in Canvas : Shows(composed, p, output.pixels[p])
      BY DEF Pictured
    <3>2. NumRenderers \in Nat
      BY ConfigIs
    <3> QED
      BY <3>1, <3>2
  <2>2. ASSUME Whole, NEW p \in Canvas
        PROVE  Like(output.pixels[p],
                    Displaced(Rendered(canvas, Faces), 2 * canvas.x, 2 * canvas.y).pixels[p])
    <3>1. Config /\ Shows(NumRenderers, p, output.pixels[p])
      BY <2>1, <2>2
    <3> QED
      BY ONLY <2>2, <3>1, ShowsAll
  <2> QED
    BY <2>1, <2>2 DEF PictureComplete, Whole, Canvas
<1> QED
  BY <1>1, Invariant, PTL

\* A renderer fails only for a canvas with less than two pixels per column and
\* row of the grid (GLScreenSplitter::split, glFrustum).
THEOREM OnlyTinyFail == Spec => []FailsOnlyTiny
<1>1. ASSUME IInv PROVE FailsOnlyTiny
  <2> USE <1>1 DEF IInv
  <2> SUFFICES ASSUME NEW i \in failed,
                      ~(canvas.width < 2 * grid[1]), ~(canvas.height < 2 * grid[2])
               PROVE  FALSE
    BY DEF FailsOnlyTiny
  <2>1. i \in Renderers /\ phase # "split"
        /\ (viewports[i].width = 0 \/ viewports[i].height = 0)
    BY DEF Failures
  <2>2. Given(i).width = 0 \/ Given(i).height = 0
    BY <2>1, HandedOut
  <2>3. mode = "first"
    BY <2>2, ConfigIs DEF Given, Config
  <2> DEFINE c == Part(i).column
             r == Part(i).row
  <2>4. c \in 0..(grid[1] - 1) /\ r \in 0..(grid[2] - 1)
    BY <2>1, PartIs
  <2> HIDE DEF c, r
  <2>5. Given(i).width = Column(c + 1) - Column(c) /\ Given(i).height = Row(r + 1) - Row(r)
    BY <2>3, <2>4, SplitIs DEF Given, Viewport, c, r
  <2>6. /\ Column(c) \in Int /\ Column(c + 1) \in Int /\ Column(c) < Column(c + 1)
        /\ Row(r) \in Int /\ Row(r + 1) \in Int /\ Row(r) < Row(r + 1)
    BY <2>4, Edges, ConfigIs
  <2> QED
    BY <2>2, <2>5, <2>6
<1> QED
  BY <1>1, Invariant, PTL
============================================================================
