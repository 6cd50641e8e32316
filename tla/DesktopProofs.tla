----------------------------- MODULE DesktopProofs -----------------------------
(***************************************************************************)
(* Proofs about the functions that place windows: whatever the monitors,   *)
(* the boxes and the order of the functions, arranging tiles the work      *)
(* areas, rotating and exchanging lose no place, and only moving takes a   *)
(* window out of a work area.                                              *)
(***************************************************************************)
EXTENDS Desktop, InductionProofs

-----------------------------------------------------------------------------
(***************************************************************************)
(* Boxes.                                                                  *)
(***************************************************************************)
LEMMA Edges ==
    ASSUME NEW b \in Box, NEW a \in Axis
    PROVE  /\ b[a][1] \in Int /\ b[a][2] \in Int /\ b[a][1] <= b[a][2]
           /\ b[a] = <<b[a][1], b[a][2]>>
           /\ Size(b, a) = b[a][2] - b[a][1] /\ Size(b, a) \in Nat
BY DEF Box, Size

\* The box with the edges lo and hi on the axis a.
With(b, a, lo, hi) == [b EXCEPT ![a] = <<lo, hi>>]

LEMMA WithIsBox ==
    ASSUME NEW b \in Box, NEW a \in Axis, NEW lo \in Int, NEW hi \in Int, lo <= hi
    PROVE  With(b, a, lo, hi) \in Box
BY DEF With, Box

LEMMA WithEdges ==
    ASSUME NEW b \in Box, NEW a \in Axis, NEW lo \in Int, NEW hi \in Int, lo <= hi
    PROVE  /\ With(b, a, lo, hi)[a] = <<lo, hi>>
           /\ With(b, a, lo, hi)[a][1] = lo /\ With(b, a, lo, hi)[a][2] = hi
           /\ \A c \in Axis : c # a => With(b, a, lo, hi)[c] = b[c]
BY DEF With, Box

LEMMA Same ==
    ASSUME NEW b \in Box, NEW c \in Box, \A a \in Axis : b[a][1] = c[a][1] /\ b[a][2] = c[a][2]
    PROVE  b = c
<1>1. \A a \in Axis : b[a] = c[a]
  BY Edges
<1> QED
  BY <1>1 DEF Box

LEMMA WithSecond ==
    ASSUME NEW b \in Box, NEW a \in Axis, NEW hi \in Int
    PROVE  [b EXCEPT ![a][2] = hi] = With(b, a, b[a][1], hi)
<1>1. b[a] = <<b[a][1], b[a][2]>>
  BY Edges
<1>2. [b[a] EXCEPT ![2] = hi] = <<b[a][1], hi>>
  BY <1>1
<1> QED
  BY <1>2 DEF With

LEMMA WithFirst ==
    ASSUME NEW b \in Box, NEW a \in Axis, NEW lo \in Int
    PROVE  [b EXCEPT ![a][1] = lo] = With(b, a, lo, b[a][2])
<1>1. b[a] = <<b[a][1], b[a][2]>>
  BY Edges
<1>2. [b[a] EXCEPT ![1] = lo] = <<lo, b[a][2]>>
  BY <1>1
<1> QED
  BY <1>2 DEF With

\* A side changes within the range.
LEMMA WithStays ==
    ASSUME NEW b \in Box, NEW r \in Box, NEW a \in Axis, Within(b, r),
           NEW lo \in Int, NEW hi \in Int, r[a][1] <= lo, lo <= hi, hi <= r[a][2]
    PROVE  With(b, a, lo, hi) \in Box /\ Within(With(b, a, lo, hi), r)
BY WithIsBox, WithEdges DEF Within

LEMMA WithinWithin ==
    ASSUME NEW b \in Box, NEW c \in Box, NEW r \in Box, Within(b, c), Within(c, r)
    PROVE  Within(b, r)
<1> SUFFICES ASSUME NEW a \in Axis PROVE r[a][1] <= b[a][1] /\ b[a][2] <= r[a][2]
  BY DEF Within
<1>1. /\ c[a][1] <= b[a][1] /\ b[a][2] <= c[a][2]
      /\ r[a][1] <= c[a][1] /\ c[a][2] <= r[a][2]
  BY DEF Within
<1> QED
  BY <1>1, Edges

LEMMA Halves ==
    ASSUME NEW n \in Nat
    PROVE  /\ n \div 2 \in Nat /\ 2 * (n \div 2) <= n /\ n <= 2 * (n \div 2) + 1
           /\ n > 0 => n \div 2 < n
OBVIOUS

LEMMA Middle ==
    ASSUME NEW b \in Box, NEW a \in Axis
    PROVE  Mid(b, a) \in Int /\ b[a][1] <= Mid(b, a) /\ Mid(b, a) <= b[a][2]
<1>1. Size(b, a) \in Nat /\ Size(b, a) = b[a][2] - b[a][1] /\ b[a][1] \in Int /\ b[a][2] \in Int
  BY Edges
<1>2. Size(b, a) \div 2 \in Nat /\ Size(b, a) \div 2 <= Size(b, a)
  BY <1>1, Halves
<1> QED
  BY <1>1, <1>2 DEF Mid

-----------------------------------------------------------------------------
(***************************************************************************)
(* The placed boxes.                                                       *)
(***************************************************************************)
LEMMA ResizedInside ==
    ASSUME NEW b \in Box, NEW r \in Box, NEW a \in Axis, NEW size \in Nat
    PROVE  /\ Resized(b, a, size, r) \in Box
           /\ Within(b, r) => Within(Resized(b, a, size, r), r)
<1> DEFINE first == b[a][1] - (IF size > r[a][2] - b[a][1] THEN size - (r[a][2] - b[a][1]) ELSE 0)
<1>1. /\ b[a][1] \in Int /\ b[a][2] \in Int /\ b[a][1] <= b[a][2]
      /\ r[a][1] \in Int /\ r[a][2] \in Int /\ r[a][1] <= r[a][2] /\ Size(r, a) = r[a][2] - r[a][1]
      /\ r[a] = <<r[a][1], r[a][2]>>
  BY Edges
<1>2. CASE size >= Size(r, a)
  <2>1. Resized(b, a, size, r) = With(b, a, r[a][1], r[a][2])
    BY <1>1, <1>2 DEF Resized, With
  <2>2. With(b, a, r[a][1], r[a][2]) \in Box
    BY <1>1, WithIsBox
  <2>3. Within(b, r) => Within(With(b, a, r[a][1], r[a][2]), r)
    BY <1>1, WithStays
  <2> QED
    BY <2>1, <2>2, <2>3
<1>3. CASE ~(size >= Size(r, a))
  <2>1. Resized(b, a, size, r) = With(b, a, first, first + size)
    BY <1>1, <1>3 DEF Resized, With
  <2>2. first \in Int /\ first + size \in Int /\ first <= first + size
    BY <1>1
  <2>3. Within(b, r) => r[a][1] <= b[a][1] /\ b[a][2] <= r[a][2]
    BY DEF Within
  <2>4. Within(b, r) => r[a][1] <= first /\ first + size <= r[a][2]
    BY <1>1, <1>3, <2>3
  <2> HIDE DEF first
  <2>5. With(b, a, first, first + size) \in Box
    BY <2>2, WithIsBox
  <2>6. Within(b, r) => Within(With(b, a, first, first + size), r)
    BY <1>1, <2>2, <2>4, WithStays
  <2> QED
    BY <2>1, <2>5, <2>6
<1> QED
  BY <1>2, <1>3

LEMMA DecreasedInside ==
    ASSUME NEW b \in Box, NEW a \in Axis, NEW delta \in Nat
    PROVE  /\ Decreased(b, a, delta) \in Box
           /\ \A r \in Box : Within(b, r) => Within(Decreased(b, a, delta), r)
<1>1. b[a][1] \in Int /\ b[a][2] \in Int /\ b[a][1] <= b[a][2] /\ Size(b, a) = b[a][2] - b[a][1]
  BY Edges
<1>2. CASE Size(b, a) - delta <= 0
  BY <1>2 DEF Decreased
<1>3. CASE ~(Size(b, a) - delta <= 0)
  <2> DEFINE hi == b[a][2] - delta
  <2>1. hi \in Int /\ b[a][1] <= hi /\ hi <= b[a][2]
    BY <1>1, <1>3
  <2>2. [b EXCEPT ![a][2] = hi] = With(b, a, b[a][1], hi)
    BY <2>1, WithSecond
  <2>3. Decreased(b, a, delta) = With(b, a, b[a][1], hi)
    BY <1>3, <2>2, Zenon DEF Decreased
  <2> HIDE DEF hi
  <2>4. With(b, a, b[a][1], hi) \in Box
    BY <1>1, <2>1, WithIsBox
  <2>5. ASSUME NEW r \in Box, Within(b, r) PROVE Within(With(b, a, b[a][1], hi), r)
    <3>1. r[a][1] <= b[a][1] /\ b[a][2] <= r[a][2] /\ r[a][1] \in Int /\ r[a][2] \in Int
      BY <2>5, Edges DEF Within
    <3> QED
      BY <1>1, <2>1, <2>5, <3>1, WithStays
  <2> QED
    BY <2>3, <2>4, <2>5
<1> QED
  BY <1>2, <1>3

LEMMA HalfInside ==
    ASSUME NEW r \in Box, NEW d \in Direction
    PROVE  HalfOf(r, d) \in Box /\ Within(HalfOf(r, d), r)
<1>1. PICK a \in Axis, e \in {1, 2} : d = <<a, e>>
  BY DEF Direction
<1>2. /\ r[a][1] \in Int /\ r[a][2] \in Int /\ r[a] = <<r[a][1], r[a][2]>>
      /\ Mid(r, a) \in Int /\ r[a][1] <= Mid(r, a) /\ Mid(r, a) <= r[a][2]
  BY Edges, Middle
<1>3. Within(r, r)
  BY Edges DEF Within
<1>4. CASE e = 1
  <2>1. HalfOf(r, d) = With(r, a, r[a][1], Mid(r, a))
    BY <1>1, <1>4 DEF HalfOf, With
  <2> QED
    BY <1>2, <1>3, <2>1, WithStays
<1>5. CASE e = 2
  <2>1. HalfOf(r, d) = With(r, a, Mid(r, a), r[a][2])
    BY <1>1, <1>5 DEF HalfOf, With
  <2> QED
    BY <1>2, <1>3, <2>1, WithStays
<1> QED
  BY <1>4, <1>5

LEMMA SplitInside ==
    ASSUME NEW b \in Box, NEW a \in Axis
    PROVE  /\ SplitFirst(b, a) \in Box /\ Within(SplitFirst(b, a), b)
           /\ SplitSecond(b, a) \in Box /\ Within(SplitSecond(b, a), b)
<1> DEFINE half == Size(b, a) \div 2
<1>1. b[a][1] \in Int /\ b[a][2] \in Int /\ Size(b, a) = b[a][2] - b[a][1] /\ Size(b, a) \in Nat
  BY Edges
<1>2. half \in Nat /\ 2 * half <= Size(b, a)
  BY <1>1, Halves
<1>3. Within(b, b)
  BY Edges DEF Within
<1>4. /\ SplitFirst(b, a) = With(b, a, b[a][1], b[a][1] + half)
      /\ SplitSecond(b, a) = With(b, a, b[a][1] + half, b[a][1] + 2 * half)
  BY DEF SplitFirst, SplitSecond, With
<1> HIDE DEF half
<1>5. /\ b[a][1] + half \in Int /\ b[a][1] + 2 * half \in Int
      /\ b[a][1] <= b[a][1] + half /\ b[a][1] + half <= b[a][1] + 2 * half
      /\ b[a][1] + half <= b[a][2] /\ b[a][1] + 2 * half <= b[a][2]
  BY <1>1, <1>2
<1> QED
  BY <1>1, <1>3, <1>4, <1>5, WithStays

LEMMA ShiftedIsBox ==
    ASSUME NEW b \in Box, NEW a \in Axis, NEW first \in Int
    PROVE  Shifted(b, a, first) \in Box
<1>1. Size(b, a) \in Nat
  BY Edges
<1>2. Shifted(b, a, first) = With(b, a, first, first + Size(b, a))
  BY DEF Shifted, With
<1> QED
  BY <1>1, <1>2, WithIsBox

-----------------------------------------------------------------------------
(***************************************************************************)
(* The monitor of a box.                                                   *)
(***************************************************************************)
LEMMA WorkBox ==
    ASSUME NEW m \in Monitor
    PROVE  /\ Work[m] \in Box /\ Rect[m] \in Box /\ Within(Work[m], Rect[m])
           /\ \A a \in Axis : Size(Work[m], a) > 0
BY DesktopAssumption

LEMMA CommonType ==
    ASSUME NEW b \in Box, NEW r \in Box, NEW a \in Axis
    PROVE  Common(b, r, a) \in Int
BY Edges DEF Common, Less, Greater

Gap(n) == IF n < 0 THEN n ELSE 0

LEMMA ShareIs ==
    ASSUME NEW b \in Box, NEW m \in Monitor
    PROVE  Share(b, m) = IF Common(b, Rect[m], "x") > 0 /\ Common(b, Rect[m], "y") > 0
                         THEN Common(b, Rect[m], "x") * Common(b, Rect[m], "y")
                         ELSE Gap(Common(b, Rect[m], "x")) + Gap(Common(b, Rect[m], "y"))
BY DEF Share, Gap, Axis

LEMMA Product ==
    ASSUME NEW x \in Int, NEW y \in Int
    PROVE  x * y \in Int /\ (x > 0 /\ y > 0 => x * y > 0)
OBVIOUS

LEMMA ShareType ==
    ASSUME NEW b \in Box, NEW m \in Monitor
    PROVE  Share(b, m) \in Int
<1> DEFINE x == Common(b, Rect[m], "x")
           y == Common(b, Rect[m], "y")
<1>1. x \in Int /\ y \in Int
  BY CommonType, WorkBox DEF Axis
<1>2. Share(b, m) = IF x > 0 /\ y > 0 THEN x * y ELSE Gap(x) + Gap(y)
  BY ShareIs
<1> HIDE DEF x, y
<1>3. x * y \in Int /\ Gap(x) + Gap(y) \in Int
  BY <1>1, Product DEF Gap
<1> QED
  BY <1>2, <1>3

LEMMA MonitorFound ==
    ASSUME NEW b \in Box
    PROVE  /\ MonitorOf(b) \in Monitor
           /\ \A n \in Monitor : Share(b, n) <= Share(b, MonitorOf(b))
<1> DEFINE f == [m \in Monitor |-> Share(b, m)]
<1>1. f \in [Monitor -> Int]
  BY ShareType
<1>2. PICK m \in Monitor : \A n \in Monitor : f[n] <= f[m]
  <2> HIDE DEF f
  <2> QED
    BY <1>1, Greatest, DesktopAssumption
<1>3. \A n \in Monitor : Share(b, n) <= Share(b, m)
  BY <1>2
<1> QED
  BY <1>3, Zenon DEF MonitorOf

HasArea(b) == \A a \in Axis : Size(b, a) # 0

\* A box with an area that lies in the work area of a monitor is on this monitor.
LEMMA MonitorWithin ==
    ASSUME NEW b \in Box, NEW m \in Monitor, Within(b, Work[m]), HasArea(b)
    PROVE  MonitorOf(b) = m
<1>1. Work[m] \in Box /\ Rect[m] \in Box /\ Within(b, Rect[m])
  BY WorkBox, WithinWithin
<1>2. ASSUME NEW a \in Axis PROVE Common(b, Rect[m], a) \in Int /\ Common(b, Rect[m], a) > 0
  <2>1. b[a][1] \in Int /\ b[a][2] \in Int /\ b[a][2] - b[a][1] \in Nat /\ b[a][2] - b[a][1] # 0
    BY Edges DEF HasArea
  <2>2. Rect[m][a][1] \in Int /\ Rect[m][a][2] \in Int /\ Rect[m][a][1] <= b[a][1] /\ b[a][2] <= Rect[m][a][2]
    BY <1>1, Edges DEF Within
  <2> QED
    BY <2>1, <2>2 DEF Common, Less, Greater
<1>3. Share(b, m) > 0
  <2> DEFINE x == Common(b, Rect[m], "x")
             y == Common(b, Rect[m], "y")
  <2>1. x \in Int /\ y \in Int /\ x > 0 /\ y > 0
    BY <1>2 DEF Axis
  <2>2. Share(b, m) = x * y
    BY <2>1, ShareIs
  <2> HIDE DEF x, y
  <2> QED
    BY <2>1, <2>2, Product
<1>4. ASSUME NEW n \in Monitor, n # m PROVE Share(b, n) <= 0
  <2>1. PICK a \in Axis : Rect[m][a][2] <= Rect[n][a][1] \/ Rect[m][a][1] >= Rect[n][a][2]
    BY <1>4, DesktopAssumption DEF OutOf
  <2>2. Common(b, Rect[n], a) <= 0
    <3>1. /\ b[a][1] \in Int /\ b[a][2] \in Int /\ b[a][1] <= b[a][2]
          /\ Rect[m][a][1] \in Int /\ Rect[m][a][2] \in Int /\ Rect[m][a][1] <= b[a][1] /\ b[a][2] <= Rect[m][a][2]
          /\ Rect[n][a][1] \in Int /\ Rect[n][a][2] \in Int
      BY <1>1, WorkBox, Edges DEF Within
    <3> QED
      BY <2>1, <3>1 DEF Common, Less, Greater
  <2> DEFINE x == Common(b, Rect[n], "x")
             y == Common(b, Rect[n], "y")
  <2>3. x \in Int /\ y \in Int
    BY CommonType, WorkBox DEF Axis
  <2>4. x <= 0 \/ y <= 0
    BY <2>2 DEF Axis
  <2>5. Share(b, n) = IF x > 0 /\ y > 0 THEN x * y ELSE Gap(x) + Gap(y)
    BY ShareIs
  <2> HIDE DEF x, y
  <2> QED
    BY <2>3, <2>4, <2>5 DEF Gap
<1>5. MonitorOf(b) \in Monitor /\ Share(b, m) <= Share(b, MonitorOf(b)) /\ Share(b, MonitorOf(b)) \in Int /\ Share(b, m) \in Int
  BY MonitorFound, ShareType
<1> QED
  BY <1>3, <1>4, <1>5

LEMMA MonitorAtFound ==
    ASSUME NEW p \in [Axis -> Int]
    PROVE  MonitorAt(p) \in Monitor
<1>1. [a \in Axis |-> <<p[a], p[a] + 1>>] \in Box
  BY DEF Box
<1> QED
  BY <1>1, MonitorFound DEF MonitorAt

LEMMA SnappedInside ==
    ASSUME NEW b \in Box, NEW d \in Direction
    PROVE  Snapped(b, d) \in Box /\ \E m \in Monitor : Within(Snapped(b, d), Work[m])
<1> DEFINE m == MonitorOf(b)
           beyond == IF d[2] = 1 THEN Rect[m][d[1]][1] - Probe ELSE Rect[m][d[1]][2] + Probe
           p == [Centre(Rect[m]) EXCEPT ![d[1]] = beyond]
           next == MonitorAt(p)
<1>1. m \in Monitor /\ Rect[m] \in Box /\ Work[m] \in Box
  BY MonitorFound, WorkBox
<1> HIDE DEF m
<1>2. d[1] \in Axis
  BY DEF Direction
<1>3. beyond \in Int
  <2>1. Rect[m][d[1]][1] \in Int /\ Rect[m][d[1]][2] \in Int /\ Probe \in Int
    BY <1>1, <1>2, Edges, DesktopAssumption
  <2> QED
    BY <2>1
<1> HIDE DEF beyond
<1>4. p \in [Axis -> Int]
  BY <1>1, <1>2, <1>3, Middle DEF Centre
<1> HIDE DEF p
<1>5. next \in Monitor /\ Work[next] \in Box
  BY <1>4, MonitorAtFound, WorkBox
<1>6. Snapped(b, d) = IF b = HalfOf(Work[m], d) THEN HalfOf(Work[next], d) ELSE HalfOf(Work[m], d)
  BY DEF Snapped, m, beyond, p
<1> HIDE DEF next
<1>7. /\ HalfOf(Work[m], d) \in Box /\ Within(HalfOf(Work[m], d), Work[m])
      /\ HalfOf(Work[next], d) \in Box /\ Within(HalfOf(Work[next], d), Work[next])
  BY <1>1, <1>5, HalfInside
<1> QED
  BY <1>1, <1>5, <1>6, <1>7

-----------------------------------------------------------------------------
(***************************************************************************)
(* Cutting: the two halves of a box cover it and share at most a line, and *)
(* so do the areas that are cut off one after the other.                   *)
(***************************************************************************)
Longer(b) == IF Size(b, "x") > Size(b, "y") THEN "x" ELSE "y"
Half(b) == Size(b, Longer(b)) \div 2
First(b) == With(b, Longer(b), b[Longer(b)][1], b[Longer(b)][2] - Half(b))
Second(b) == With(b, Longer(b), b[Longer(b)][1] + Half(b), b[Longer(b)][2])

LEMMA LongerEdges ==
    ASSUME NEW b \in Box
    PROVE  /\ Longer(b) \in Axis /\ Half(b) \in Nat
           /\ b[Longer(b)][1] \in Int /\ b[Longer(b)][2] \in Int
           /\ 2 * Half(b) <= b[Longer(b)][2] - b[Longer(b)][1]
           /\ b[Longer(b)][2] - b[Longer(b)][1] <= 2 * Half(b) + 1
<1>1. Longer(b) \in Axis
  BY DEF Longer, Axis
<1> DEFINE a == Longer(b)
<1>2. /\ b[a][1] \in Int /\ b[a][2] \in Int
      /\ Size(b, a) = b[a][2] - b[a][1] /\ Size(b, a) \in Nat
  BY <1>1, Edges
<1>3. Half(b) = Size(b, a) \div 2
  BY DEF Half
<1> HIDE DEF a
<1>4. /\ Half(b) \in Nat /\ 2 * Half(b) <= Size(b, a) /\ Size(b, a) <= 2 * Half(b) + 1
  BY <1>2, <1>3, Halves
<1> QED
  BY <1>1, <1>2, <1>4 DEF a

LEMMA CutIs ==
    ASSUME NEW b \in Box
    PROVE  Cut(b) = <<First(b), Second(b)>>
<1> DEFINE a == Longer(b)
           lo == b[a][1] + Half(b)
           hi == b[a][2] - Half(b)
<1>1. a \in Axis /\ lo \in Int /\ hi \in Int
  BY LongerEdges
<1>2. Cut(b) = <<[b EXCEPT ![a][2] = hi], [b EXCEPT ![a][1] = lo]>>
  BY Zenon DEF Cut, Longer, Half
<1>3. /\ First(b) = With(b, a, b[a][1], hi)
      /\ Second(b) = With(b, a, lo, b[a][2])
  BY DEF First, Second
<1> HIDE DEF a, lo, hi
<1>4. [b EXCEPT ![a][2] = hi] = With(b, a, b[a][1], hi)
  BY <1>1, WithSecond
<1>5. [b EXCEPT ![a][1] = lo] = With(b, a, lo, b[a][2])
  BY <1>1, WithFirst
<1> QED
  BY <1>2, <1>3, <1>4, <1>5, Zenon

LEMMA Reflexive ==
    ASSUME NEW b \in Box
    PROVE  Within(b, b)
BY Edges DEF Within

LEMMA FirstInside ==
    ASSUME NEW b \in Box
    PROVE  First(b) \in Box /\ Within(First(b), b)
BY LongerEdges, WithStays, Reflexive DEF First

LEMMA SecondInside ==
    ASSUME NEW b \in Box
    PROVE  Second(b) \in Box /\ Within(Second(b), b)
BY LongerEdges, WithStays, Reflexive DEF Second

LEMMA WithHasArea ==
    ASSUME NEW b \in Box, HasArea(b), NEW a \in Axis, NEW lo \in Int, NEW hi \in Int, lo < hi
    PROVE  HasArea(With(b, a, lo, hi))
<1> SUFFICES ASSUME NEW c \in Axis PROVE Size(With(b, a, lo, hi), c) # 0
  BY DEF HasArea
<1>1. Size(With(b, a, lo, hi), c) = With(b, a, lo, hi)[c][2] - With(b, a, lo, hi)[c][1]
  BY DEF Size
<1>2. CASE c = a
  BY <1>1, <1>2, WithEdges
<1>3. CASE c # a
  <2>1. With(b, a, lo, hi)[c] = b[c]
    BY <1>3, WithEdges
  <2> QED
    BY <1>1, <2>1 DEF HasArea, Size
<1> QED
  BY <1>2, <1>3

LEMMA HalvesHaveArea ==
    ASSUME NEW b \in Box, HasArea(b)
    PROVE  HasArea(First(b)) /\ HasArea(Second(b))
<1>1. b[Longer(b)][1] < b[Longer(b)][2]
  BY LongerEdges, Edges DEF HasArea
<1>2. /\ b[Longer(b)][1] < b[Longer(b)][2] - Half(b)
      /\ b[Longer(b)][1] + Half(b) < b[Longer(b)][2]
  BY <1>1, LongerEdges
<1> QED
  BY <1>2, LongerEdges, WithHasArea DEF First, Second

\* The cell at <<x, y>>.
Cell(x, y) == [a \in Axis |-> IF a = "x" THEN <<x, x + 1>> ELSE <<y, y + 1>>]

LEMMA HalvesCover ==
    ASSUME NEW b \in Box, NEW x \in Int, NEW y \in Int, Within(Cell(x, y), b)
    PROVE  Within(Cell(x, y), First(b)) \/ Within(Cell(x, y), Second(b))
<1> DEFINE a == Longer(b)
           h == Half(b)
           lo == b[a][1]
           hi == b[a][2]
           z == IF a = "x" THEN x ELSE y
<1>1. a \in Axis /\ h \in Int /\ lo \in Int /\ hi \in Int /\ z \in Int /\ 2 * h <= hi - lo
      /\ lo <= hi - h /\ lo + h <= hi
  BY LongerEdges
<1>2. /\ First(b) = With(b, a, lo, hi - h)
      /\ Second(b) = With(b, a, lo + h, hi)
  BY DEF First, Second
<1>3. Cell(x, y)[a] = <<z, z + 1>> /\ lo <= z /\ z + 1 <= hi
  BY <1>1 DEF Cell, Within
<1> HIDE DEF a, h, lo, hi, z
<1>4. /\ First(b)[a] = <<lo, hi - h>> /\ \A c \in Axis : c # a => First(b)[c] = b[c]
      /\ Second(b)[a] = <<lo + h, hi>> /\ \A c \in Axis : c # a => Second(b)[c] = b[c]
  BY <1>1, <1>2, WithEdges
<1>5. CASE z + 1 <= hi - h
  BY <1>3, <1>4, <1>5 DEF Within
<1>6. CASE lo + h <= z
  BY <1>3, <1>4, <1>6 DEF Within
<1> QED
  BY <1>1, <1>5, <1>6

\* Two boxes share at most a line.
Apart(b, c) == \E a \in Axis : Common(b, c, a) <= 1

LEMMA HalvesApart ==
    ASSUME NEW b \in Box, NEW c \in Box, NEW d \in Box, Within(c, First(b)), Within(d, Second(b))
    PROVE  Apart(c, d) /\ Apart(d, c)
<1> DEFINE a == Longer(b)
<1>1. /\ a \in Axis /\ Half(b) \in Int /\ b[a][1] \in Int /\ b[a][2] \in Int
      /\ b[a][2] - b[a][1] <= 2 * Half(b) + 1 /\ 2 * Half(b) <= b[a][2] - b[a][1]
  BY LongerEdges
<1>2. First(b)[a][2] = b[a][2] - Half(b) /\ Second(b)[a][1] = b[a][1] + Half(b)
  BY <1>1, WithEdges, LongerEdges DEF First, Second
<1>3. /\ c[a][1] \in Int /\ c[a][2] \in Int /\ d[a][1] \in Int /\ d[a][2] \in Int
      /\ c[a][2] <= First(b)[a][2] /\ Second(b)[a][1] <= d[a][1]
  BY <1>1, Edges DEF Within
<1> HIDE DEF a
<1>4. Common(c, d, a) <= 1 /\ Common(d, c, a) <= 1
  BY <1>1, <1>2, <1>3 DEF Common, Less, Greater
<1> QED
  BY <1>1, <1>4 DEF Apart

LEMMA RestIs ==
    ASSUME NEW r \in Box
    PROVE  /\ Rest(r) \in [Nat -> Box] /\ Rest(r)[0] = r
           /\ \A n \in Nat : Rest(r)[n + 1] = Second(Rest(r)[n])
<1> DEFINE Step(g) == [i \in Nat |-> IF i = 0 THEN r ELSE Cut(g[i - 1])[2]]
           F == [b \in Box |-> Second(b)]
<1>1. F \in [Box -> Box]
  BY SecondInside
<1>2. PICK g : Iterates(g, Box, F, r)
  <2> HIDE DEF F
  <2> QED
    BY <1>1, Iteration
<1>3. g \in [Nat -> Box] /\ g[0] = r /\ \A n \in Nat : g[n + 1] = Second(g[n])
  BY <1>2 DEF Iterates
<1>4. g = Step(g)
  <2>1. g = [i \in Nat |-> g[i]]
    BY <1>3
  <2>2. ASSUME NEW i \in Nat PROVE g[i] = IF i = 0 THEN r ELSE Cut(g[i - 1])[2]
    <3>1. CASE i = 0
      BY <1>3, <3>1
    <3>2. CASE i # 0
      <4>1. i - 1 \in Nat /\ (i - 1) + 1 = i
        BY <3>2
      <4>2. g[i - 1] \in Box /\ g[i] = Second(g[i - 1])
        BY <1>3, <4>1
      <4>3. Cut(g[i - 1]) = <<First(g[i - 1]), Second(g[i - 1])>>
        BY <4>2, CutIs
      <4>4. Cut(g[i - 1])[2] = Second(g[i - 1])
        BY <4>3
      <4> QED
        BY <3>2, <4>2, <4>4
    <3> QED
      BY <3>1, <3>2
  <2> QED
    BY <2>1, <2>2, Zenon
<1>5. Rest(r) = Step(Rest(r))
  <2>1. Rest(r) = CHOOSE rest : rest = Step(rest)
    BY DEF Rest
  <2> HIDE DEF Step
  <2> QED
    BY <1>4, <2>1
<1>6. ASSUME NEW n \in Nat, Rest(r)[n] \in Box PROVE Rest(r)[n + 1] = Second(Rest(r)[n])
  <2>1. n + 1 \in Nat /\ n + 1 # 0 /\ (n + 1) - 1 = n
    OBVIOUS
  <2>2. Step(Rest(r))[n + 1] = Cut(Rest(r)[(n + 1) - 1])[2]
    BY <2>1
  <2>3. Rest(r)[n + 1] = Cut(Rest(r)[n])[2]
    BY <1>5, <2>1, <2>2, Zenon
  <2>4. Cut(Rest(r)[n]) = <<First(Rest(r)[n]), Second(Rest(r)[n])>>
    BY <1>6, CutIs
  <2> QED
    BY <2>3, <2>4
<1>7. Rest(r)[0] = r
  <2>1. Step(Rest(r))[0] = r
    OBVIOUS
  <2> QED
    BY <1>5, <2>1, Zenon
<1>8. \A n \in Nat : Rest(r)[n] \in Box
  <2> DEFINE T == {n \in Nat : Rest(r)[n] \in Box}
  <2>1. 0 \in T
    BY <1>7
  <2>2. ASSUME NEW n \in Nat, n \in T PROVE n + 1 \in T
    BY <1>6, <2>2, SecondInside
  <2> HIDE DEF T
  <2>3. Nat \subseteq T
    BY <2>1, <2>2, Induction
  <2> QED
    BY <2>3 DEF T
<1>9. Rest(r) = [n \in Nat |-> Rest(r)[n]]
  <2>1. Step(Rest(r)) = [n \in Nat |-> Step(Rest(r))[n]]
    OBVIOUS
  <2> HIDE DEF Step
  <2> QED
    BY <1>5, <2>1, Zenon
<1> QED
  BY <1>6, <1>7, <1>8, <1>9

LEMMA RestInside ==
    ASSUME NEW r \in Box, NEW n \in Nat
    PROVE  Rest(r)[n] \in Box /\ Within(Rest(r)[n], r) /\ (HasArea(r) => HasArea(Rest(r)[n]))
<1> DEFINE T == {i \in Nat : /\ Rest(r)[i] \in Box /\ Within(Rest(r)[i], r)
                             /\ HasArea(r) => HasArea(Rest(r)[i])}
<1>1. 0 \in T
  BY RestIs, Reflexive
<1>2. ASSUME NEW i \in Nat, i \in T PROVE i + 1 \in T
  <2> DEFINE c == Rest(r)[i]
             d == Rest(r)[i + 1]
  <2>1. c \in Box /\ Within(c, r) /\ (HasArea(r) => HasArea(c)) /\ d = Second(c)
    BY <1>2, RestIs
  <2> HIDE DEF c, d
  <2>2. d \in Box /\ Within(d, c) /\ (HasArea(c) => HasArea(d))
    BY <2>1, SecondInside, HalvesHaveArea
  <2>3. Within(d, r)
    BY <2>1, <2>2, WithinWithin
  <2> QED
    BY <2>1, <2>2, <2>3 DEF d
<1> HIDE DEF T
<1>3. Nat \subseteq T
  BY <1>1, <1>2, Induction
<1> QED
  BY <1>3 DEF T

LEMMA RestNested ==
    ASSUME NEW r \in Box, NEW i \in Nat, NEW j \in Nat, i <= j
    PROVE  Within(Rest(r)[j], Rest(r)[i])
<1> DEFINE T == {n \in Nat : Within(Rest(r)[i + n], Rest(r)[i])}
<1>1. 0 \in T
  BY RestInside, Reflexive
<1>2. ASSUME NEW n \in Nat, n \in T PROVE n + 1 \in T
  <2> DEFINE c == Rest(r)[i + n]
             d == Rest(r)[(i + n) + 1]
  <2>0. i + n \in Nat /\ (i + n) + 1 \in Nat
    OBVIOUS
  <2>1. c \in Box /\ d \in Box /\ Rest(r)[i] \in Box /\ d = Second(c)
    BY <2>0, RestIs
  <2>2. Within(c, Rest(r)[i])
    BY <1>2
  <2> HIDE DEF c, d
  <2>3. Within(d, Rest(r)[i])
    BY <2>1, <2>2, SecondInside, WithinWithin
  <2>4. (i + n) + 1 = i + (n + 1)
    OBVIOUS
  <2> QED
    BY <2>3, <2>4 DEF d
<1> HIDE DEF T
<1>3. Nat \subseteq T
  BY <1>1, <1>2, Induction
<1>4. j - i \in Nat /\ i + (j - i) = j
  OBVIOUS
<1>5. j - i \in T
  BY <1>3, <1>4
<1> QED
  BY <1>4, <1>5 DEF T

LEMMA AreaIs ==
    ASSUME NEW r \in Box, NEW n \in Nat, NEW i \in 1..n
    PROVE  /\ i - 1 \in Nat /\ Rest(r)[i - 1] \in Box
           /\ Area(r, i, n) = IF i = n THEN Rest(r)[i - 1] ELSE First(Rest(r)[i - 1])
<1>1. i - 1 \in Nat
  OBVIOUS
<1>2. Rest(r)[i - 1] \in Box
  BY <1>1, RestIs
<1>3. Cut(Rest(r)[i - 1]) = <<First(Rest(r)[i - 1]), Second(Rest(r)[i - 1])>>
  BY <1>2, CutIs
<1>4. Area(r, i, n) = IF i = n THEN Rest(r)[i - 1] ELSE Cut(Rest(r)[i - 1])[1]
  BY DEF Area
<1> QED
  BY <1>1, <1>2, <1>3, <1>4

LEMMA AreaInside ==
    ASSUME NEW r \in Box, HasArea(r), NEW n \in Nat, NEW i \in 1..n
    PROVE  Area(r, i, n) \in Box /\ Within(Area(r, i, n), r) /\ HasArea(Area(r, i, n))
<1> DEFINE c == Rest(r)[i - 1]
<1>1. c \in Box /\ Area(r, i, n) = IF i = n THEN c ELSE First(c)
  BY AreaIs
<1>2. Within(c, r) /\ HasArea(c)
  BY AreaIs, RestInside
<1> HIDE DEF c
<1>3. First(c) \in Box /\ Within(First(c), c) /\ HasArea(First(c))
  BY <1>1, <1>2, FirstInside, HalvesHaveArea
<1>4. Within(First(c), r)
  BY <1>1, <1>2, <1>3, WithinWithin
<1> QED
  BY <1>1, <1>2, <1>3, <1>4

LEMMA AreasCover ==
    ASSUME NEW r \in Box, NEW n \in Nat \ {0}, NEW x \in Int, NEW y \in Int, Within(Cell(x, y), r)
    PROVE  \E i \in 1..n : Within(Cell(x, y), Area(r, i, n))
<1> DEFINE c == Cell(x, y)
           T == {k \in Nat : k < n => Within(c, Rest(r)[k]) \/ \E i \in 1..k : Within(c, Area(r, i, n))}
<1>1. 0 \in T
  BY RestIs
<1> HIDE DEF c
<1>2. ASSUME NEW k \in Nat, k \in T PROVE k + 1 \in T
  <2> SUFFICES ASSUME k + 1 < n, ~ \E i \in 1..k + 1 : Within(c, Area(r, i, n))
               PROVE  Within(c, Rest(r)[k + 1])
    OBVIOUS
  <2>1. k + 1 \in 1..n /\ k + 1 # n /\ (k + 1) - 1 = k
    OBVIOUS
  <2>6. Rest(r)[k] \in Box /\ Rest(r)[k + 1] = Second(Rest(r)[k])
    BY RestIs
  <2>7. Area(r, k + 1, n) = IF k + 1 = n THEN Rest(r)[(k + 1) - 1] ELSE First(Rest(r)[(k + 1) - 1])
    BY <2>1, AreaIs
  <2>2. Rest(r)[k] \in Box /\ Area(r, k + 1, n) = First(Rest(r)[k]) /\ Rest(r)[k + 1] = Second(Rest(r)[k])
    BY <2>1, <2>6, <2>7
  <2>3. Within(c, Rest(r)[k])
    BY <1>2
  <2>4. Within(c, First(Rest(r)[k])) \/ Within(c, Second(Rest(r)[k]))
    BY <2>2, <2>3, HalvesCover DEF c
  <2>5. ~Within(c, Area(r, k + 1, n))
    <3>1. k + 1 \in 1..k + 1
      OBVIOUS
    <3> QED
      BY <3>1
  <2> QED
    BY <2>2, <2>4, <2>5
<1>3. n - 1 \in Nat /\ n - 1 < n
  OBVIOUS
<1>4. n - 1 \in T
  <2> HIDE DEF T
  <2>1. Nat \subseteq T
    BY <1>1, <1>2, Induction
  <2> QED
    BY <1>3, <2>1
<1>5. CASE Within(c, Rest(r)[n - 1])
  <2>1. n \in 1..n
    OBVIOUS
  <2>2. Area(r, n, n) = Rest(r)[n - 1]
    BY <2>1, AreaIs
  <2> QED
    BY <1>5, <2>1, <2>2 DEF c
<1>6. CASE \E i \in 1..n - 1 : Within(c, Area(r, i, n))
  BY <1>6 DEF c
<1> QED
  BY <1>3, <1>4, <1>5, <1>6

LEMMA AreasApart ==
    ASSUME NEW r \in Box, HasArea(r), NEW n \in Nat, NEW i \in 1..n, NEW j \in 1..n, i # j
    PROVE  Apart(Area(r, i, n), Area(r, j, n))
<1>1. ASSUME NEW k \in 1..n, NEW l \in 1..n, k < l
      PROVE  Apart(Area(r, k, n), Area(r, l, n)) /\ Apart(Area(r, l, n), Area(r, k, n))
  <2> DEFINE b == Rest(r)[k - 1]
             c == Rest(r)[l - 1]
  <2>0. k # n
    BY <1>1
  <2>8. b \in Box /\ Area(r, k, n) = IF k = n THEN b ELSE First(b)
    BY AreaIs
  <2>9. c \in Box /\ Area(r, l, n) = IF l = n THEN c ELSE First(c)
    BY AreaIs
  <2>1. b \in Box /\ c \in Box /\ Area(r, k, n) = First(b) /\ Area(r, l, n) = IF l = n THEN c ELSE First(c)
    BY <2>0, <2>8, <2>9
  <2>2. k \in Nat /\ l - 1 \in Nat /\ k <= l - 1 /\ k - 1 \in Nat /\ (k - 1) + 1 = k
    BY <1>1
  <2>3. Within(c, Rest(r)[k]) /\ Rest(r)[k] = Second(b)
    BY <2>2, RestNested, RestIs
  <2>4. Area(r, k, n) \in Box /\ Area(r, l, n) \in Box
    BY AreaInside
  <2> HIDE DEF b, c
  <2>5. Second(b) \in Box /\ First(b) \in Box /\ Within(First(b), First(b))
    BY <2>1, SecondInside, FirstInside, Reflexive
  <2>6. Within(c, Second(b)) /\ Within(First(c), Second(b))
    BY <2>1, <2>3, <2>5, FirstInside, WithinWithin
  <2>7. Within(Area(r, l, n), Second(b))
    BY <2>1, <2>6
  <2> QED
    BY <2>1, <2>4, <2>5, <2>7, HalvesApart
<1>2. i < j \/ j < i
  OBVIOUS
<1> QED
  BY <1>1, <1>2

-----------------------------------------------------------------------------
(***************************************************************************)
(* The inductive invariant: every window has a box, and only a visible one *)
(* is in the foreground.                                                   *)
(***************************************************************************)
DesktopInv ==
    /\ box \in [Window -> Box]
    /\ shown \subseteq Window
    /\ fg \in shown \cup {None}

-----------------------------------------------------------------------------
(***************************************************************************)
(* Arranging.                                                              *)
(***************************************************************************)
Mine(m) == Arrangeable(m) \ Ignored
Rank(at, w, m) == Cardinality(Upto(at, Mine(m), w))

LEMMA MineIs ==
    ASSUME DesktopInv, NEW m \in Monitor
    PROVE  /\ Mine(m) \subseteq Enumerated \cap Readable /\ Mine(m) \subseteq Window
           /\ IsFiniteSet(Mine(m)) /\ IsFiniteSet(Enumerated \cap Readable)
           /\ \A w \in Mine(m) : MonitorOf(box[w]) = m /\ w \notin Ignored
<1>1. Enumerated \subseteq shown
  BY DEF Enumerated
<1>2. Mine(m) \subseteq Enumerated \cap Readable
  BY DEF Mine, Arrangeable
<1>3. Mine(m) \in SUBSET Window /\ Enumerated \cap Readable \in SUBSET Window
  BY <1>1, <1>2 DEF DesktopInv
<1>4. IsFiniteSet(Window)
  BY DesktopAssumption
<1>5. IsFiniteSet(Mine(m)) /\ IsFiniteSet(Enumerated \cap Readable)
  BY <1>3, <1>4, FS_Subset
<1>6. \A w \in Mine(m) : MonitorOf(box[w]) = m /\ w \notin Ignored
  BY DEF Mine, Arrangeable
<1> QED
  BY <1>2, <1>3, <1>5, <1>6

LEMMA MineRanks ==
    ASSUME DesktopInv, NEW at \in Orders, NEW m \in Monitor
    PROVE  /\ Cardinality(Mine(m)) \in Nat
           /\ \A w \in Mine(m) : Rank(at, w, m) \in 1..Cardinality(Mine(m))
           /\ \A v, w \in Mine(m) : Rank(at, v, m) = Rank(at, w, m) => v = w
           /\ \A i \in 1..Cardinality(Mine(m)) : \E w \in Mine(m) : Rank(at, w, m) = i
<1> DEFINE all == Enumerated \cap Readable
           S == Mine(m)
<1>1. at \in Bijection(all, 1..Cardinality(all))
  BY DEF Orders
<1>2. S \subseteq all /\ IsFiniteSet(S)
  BY MineIs
<1> HIDE DEF all
<1>3. at \in [all -> 1..Cardinality(all)] /\ \A v, w \in all : at[v] = at[w] => v = w
  BY <1>1, Fun_BijectionProperties
<1>4. (\A w \in S : at[w] \in Int) /\ \A v, w \in S : at[v] = at[w] => v = w
  BY <1>2, <1>3
<1> HIDE DEF S
<1>5. /\ Cardinality(S) \in Nat
      /\ \A w \in S : Cardinality(Upto(at, S, w)) \in 1..Cardinality(S)
      /\ \A v, w \in S : Cardinality(Upto(at, S, v)) = Cardinality(Upto(at, S, w)) => v = w
      /\ \A i \in 1..Cardinality(S) : \E w \in S : Cardinality(Upto(at, S, w)) = i
  BY <1>2, <1>4, PlacesInOrder
<1> QED
  BY <1>5 DEF Rank, S

LEMMA ArrangedIs ==
    ASSUME DesktopInv, NEW at \in Orders
    PROVE  /\ \A m \in Monitor : \A w \in Mine(m) :
                Arranged(at)[w] = Area(Work[m], Rank(at, w, m), Cardinality(Mine(m)))
           /\ \A w \in Window : w \notin Mine(MonitorOf(box[w])) => Arranged(at)[w] = box[w]
           /\ DOMAIN Arranged(at) = Window /\ Arranged(at) = [w \in Window |-> Arranged(at)[w]]
<1> DEFINE mine == [m \in Monitor |-> Mine(m)]
           placed(w, m) == IF w \in mine[m]
                           THEN Area(Work[m], Cardinality({v \in mine[m] : at[v] <= at[w]}), Cardinality(mine[m]))
                           ELSE box[w]
<1>1. Arranged(at) = [w \in Window |-> placed(w, MonitorOf(box[w]))]
  BY DEF Arranged, Mine
<1>2. ASSUME NEW w \in Window PROVE MonitorOf(box[w]) \in Monitor
  BY <1>2, MonitorFound DEF DesktopInv
<1>3. ASSUME NEW m \in Monitor, NEW w \in Mine(m)
      PROVE  Arranged(at)[w] = Area(Work[m], Rank(at, w, m), Cardinality(Mine(m)))
  <2>1. w \in Window /\ MonitorOf(box[w]) = m /\ mine[m] = Mine(m)
    BY MineIs
  <2>2. Arranged(at)[w] = placed(w, m)
    BY <1>1, <2>1
  <2> QED
    BY <2>1, <2>2 DEF Rank, Upto
<1>4. ASSUME NEW w \in Window, w \notin Mine(MonitorOf(box[w])) PROVE Arranged(at)[w] = box[w]
  <2>1. mine[MonitorOf(box[w])] = Mine(MonitorOf(box[w]))
    BY <1>2
  <2>2. Arranged(at)[w] = placed(w, MonitorOf(box[w]))
    BY <1>1
  <2> QED
    BY <1>4, <2>1, <2>2
<1>5. DOMAIN Arranged(at) = Window /\ Arranged(at) = [w \in Window |-> Arranged(at)[w]]
  BY <1>1
<1> QED
  BY <1>3, <1>4, <1>5

LEMMA WorkHasArea ==
    ASSUME NEW m \in Monitor
    PROVE  HasArea(Work[m])
<1> SUFFICES ASSUME NEW a \in Axis PROVE Size(Work[m], a) # 0
  BY DEF HasArea
<1>1. Size(Work[m], a) > 0 /\ Size(Work[m], a) \in Nat
  BY WorkBox, Edges
<1> QED
  BY <1>1

LEMMA ArrangedInside ==
    ASSUME DesktopInv, NEW at \in Orders, NEW m \in Monitor, NEW w \in Mine(m)
    PROVE  Arranged(at)[w] \in Box /\ Within(Arranged(at)[w], Work[m]) /\ HasArea(Arranged(at)[w])
<1>1. Rank(at, w, m) \in 1..Cardinality(Mine(m)) /\ Cardinality(Mine(m)) \in Nat
  BY MineRanks
<1>2. Arranged(at)[w] = Area(Work[m], Rank(at, w, m), Cardinality(Mine(m)))
  BY ArrangedIs
<1>3. Work[m] \in Box /\ HasArea(Work[m])
  BY WorkBox, WorkHasArea
<1> QED
  BY <1>1, <1>2, <1>3, AreaInside

LEMMA ArrangedType ==
    ASSUME DesktopInv, NEW at \in Orders
    PROVE  Arranged(at) \in [Window -> Box]
<1>1. ASSUME NEW w \in Window PROVE Arranged(at)[w] \in Box
  <2>1. box[w] \in Box /\ MonitorOf(box[w]) \in Monitor
    BY MonitorFound DEF DesktopInv
  <2>2. CASE w \in Mine(MonitorOf(box[w]))
    BY <2>1, <2>2, ArrangedInside
  <2>3. CASE w \notin Mine(MonitorOf(box[w]))
    BY <2>1, <2>3, ArrangedIs
  <2> QED
    BY <2>2, <2>3
<1>2. Arranged(at) = [w \in Window |-> Arranged(at)[w]]
  BY ArrangedIs
<1> QED
  BY <1>1, <1>2, Zenon

LEMMA CellsOfRange ==
    ASSUME NEW r \in Box, NEW x \in r["x"][1]..r["x"][2] - 1, NEW y \in r["y"][1]..r["y"][2] - 1
    PROVE  /\ x \in Int /\ y \in Int /\ Within(Cell(x, y), r)
           /\ Cell(x, y) = [x |-> <<x, x + 1>>, y |-> <<y, y + 1>>]
<1>1. /\ r["x"][1] \in Int /\ r["x"][2] \in Int /\ r["y"][1] \in Int /\ r["y"][2] \in Int
  BY Edges DEF Axis
<1>2. Cell(x, y)["x"] = <<x, x + 1>> /\ Cell(x, y)["y"] = <<y, y + 1>>
  BY DEF Cell, Axis
<1>3. Cell(x, y) = [x |-> <<x, x + 1>>, y |-> <<y, y + 1>>]
  <2>1. Cell(x, y) = [a \in {"x", "y"} |-> Cell(x, y)[a]]
    BY DEF Cell, Axis
  <2> QED
    BY <1>2, <2>1
<1>4. Within(Cell(x, y), r)
  BY <1>1, <1>2 DEF Within, Axis
<1> QED
  BY <1>1, <1>3, <1>4

\* The windows of a monitor tile its work area.
LEMMA ArrangedTiles ==
    ASSUME DesktopInv, NEW at \in Orders, NEW m \in Monitor
    PROVE  /\ Mine(m) # {} =>
                \A x \in Work[m]["x"][1]..Work[m]["x"][2] - 1, y \in Work[m]["y"][1]..Work[m]["y"][2] - 1 :
                    \E w \in Mine(m) : Within(Cell(x, y), Arranged(at)[w])
           /\ \A w \in Mine(m) : Within(Arranged(at)[w], Work[m])
           /\ \A v, w \in Mine(m) : v = w \/ Apart(Arranged(at)[v], Arranged(at)[w])
<1> DEFINE n == Cardinality(Mine(m))
           r == Work[m]
<1>0. r \in Box /\ HasArea(r) /\ n \in Nat
  BY WorkBox, WorkHasArea, MineRanks
<1>1. \A w \in Mine(m) : Rank(at, w, m) \in 1..n /\ Arranged(at)[w] = Area(r, Rank(at, w, m), n)
  BY MineRanks, ArrangedIs
<1>2. \A i \in 1..n : \E w \in Mine(m) : Rank(at, w, m) = i
  BY MineRanks
<1>3. \A v, w \in Mine(m) : Rank(at, v, m) = Rank(at, w, m) => v = w
  BY MineRanks
<1>4. Mine(m) # {} => n # 0
  <2>1. IsFiniteSet(Mine(m))
    BY MineIs
  <2> QED
    BY <2>1, FS_EmptySet
<1> HIDE DEF n, r
<1>5. ASSUME Mine(m) # {}, NEW x \in r["x"][1]..r["x"][2] - 1, NEW y \in r["y"][1]..r["y"][2] - 1
      PROVE  \E w \in Mine(m) : Within(Cell(x, y), Arranged(at)[w])
  <2>1. x \in Int /\ y \in Int /\ Within(Cell(x, y), r)
    BY <1>0, CellsOfRange
  <2>2. PICK i \in 1..n : Within(Cell(x, y), Area(r, i, n))
    <3>1. n \in Nat \ {0}
      BY <1>0, <1>4, <1>5
    <3> QED
      BY <1>0, <2>1, <3>1, AreasCover
  <2>3. PICK w \in Mine(m) : Rank(at, w, m) = i
    BY <1>2
  <2> QED
    BY <1>1, <2>2, <2>3
<1>6. \A w \in Mine(m) : Within(Arranged(at)[w], r)
  BY ArrangedInside DEF r
<1>7. ASSUME NEW v \in Mine(m), NEW w \in Mine(m), v # w PROVE Apart(Arranged(at)[v], Arranged(at)[w])
  <2>1. Rank(at, v, m) # Rank(at, w, m)
    BY <1>3, <1>7
  <2>2. /\ Rank(at, v, m) \in 1..n /\ Arranged(at)[v] = Area(r, Rank(at, v, m), n)
        /\ Rank(at, w, m) \in 1..n /\ Arranged(at)[w] = Area(r, Rank(at, w, m), n)
    BY <1>1
  <2>3. Apart(Area(r, Rank(at, v, m), n), Area(r, Rank(at, w, m), n))
    BY <1>0, <2>1, <2>2, AreasApart
  <2> QED
    BY <2>2, <2>3
<1> QED
  BY <1>5, <1>6, <1>7 DEF r

-----------------------------------------------------------------------------
(***************************************************************************)
(* Rotating and exchanging permute the places.                             *)
(***************************************************************************)
\* The boxes after are those before, at other windows.
Permutes(after, before) ==
    \E f \in [Window -> Window] :
        /\ \A v, w \in Window : f[v] = f[w] => v = w
        /\ \A w \in Window : after[w] = before[f[w]]

LEMMA PermutedKeeps ==
    ASSUME NEW after, NEW before, Permutes(after, before), NEW p
    PROVE  Cardinality(Having(Window, after, p)) = Cardinality(Having(Window, before, p))
<1>1. PICK f \in [Window -> Window] :
        /\ \A v, w \in Window : f[v] = f[w] => v = w
        /\ \A w \in Window : after[w] = before[f[w]]
  BY DEF Permutes
<1>2. IsFiniteSet(Window)
  BY DesktopAssumption
<1> QED
  BY <1>1, <1>2, Permuted

LEMMA ExchangePermutes ==
    ASSUME DesktopInv, fg # None, NEW w \in Window, w # fg
    PROVE  Exchanged(box, w) \in [Window -> Box] /\ Permutes(Exchanged(box, w), box)
<1> DEFINE f == [v \in Window |-> IF v = w THEN fg ELSE IF v = fg THEN w ELSE v]
           after == Exchanged(box, w)
<1>1. fg \in Window /\ box \in [Window -> Box]
  BY DEF DesktopInv
<1>2. f \in [Window -> Window] /\ \A u, v \in Window : f[u] = f[v] => u = v
  BY <1>1
<1>3. after \in [Window -> Box] /\ \A v \in Window : after[v] = box[f[v]]
  BY <1>1 DEF Exchanged
<1> HIDE DEF f, after
<1>4. Permutes(after, box)
  BY <1>2, <1>3 DEF Permutes
<1> QED
  BY <1>3, <1>4 DEF after

Cross(r, s) == r.x * s.y - r.y * s.x

LEMMA Signs ==
    ASSUME NEW a \in Int, NEW b \in Int
    PROVE  /\ a * b \in Int
           /\ (a > 0 /\ b > 0) \/ (a < 0 /\ b < 0) => a * b > 0
           /\ (a > 0 /\ b < 0) \/ (a < 0 /\ b > 0) => a * b < 0
           /\ a = 0 => a * b = 0 /\ b * a = 0
OBVIOUS

LEMMA Crosses ==
    ASSUME NEW rx \in Int, NEW ry \in Int, NEW sx \in Int, NEW sy \in Int, NEW tx \in Int, NEW ty \in Int
    PROVE  sy * (rx * ty - ry * tx) = ry * (sx * ty - sy * tx) + ty * (rx * sy - ry * sx)
OBVIOUS

Plane == [x : Int, y : Int]

LEMMA CrossType ==
    ASSUME NEW r \in Plane, NEW s \in Plane
    PROVE  Cross(r, s) \in Int
<1>1. r.x \in Int /\ r.y \in Int /\ s.x \in Int /\ s.y \in Int
  BY DEF Plane
<1>2. r.x * s.y \in Int /\ r.y * s.x \in Int
  BY <1>1, Signs
<1> QED
  BY <1>2 DEF Cross

LEMMA SmallerTransitive ==
    ASSUME NEW r \in Plane, NEW s \in Plane, NEW t \in Plane, SmallerAngle(r, s), SmallerAngle(s, t)
    PROVE  SmallerAngle(r, t)
<1>1. /\ r.x \in Int /\ r.y \in Int /\ s.x \in Int /\ s.y \in Int /\ t.x \in Int /\ t.y \in Int
  BY DEF Plane
<1>2. Turn(r) \in Int /\ Turn(s) \in Int /\ Turn(t) \in Int
  BY DEF Turn
<1>3. CASE Turn(r) < Turn(s) \/ Turn(s) < Turn(t)
  BY <1>2, <1>3 DEF SmallerAngle
<1>4. CASE ~(Turn(r) < Turn(s)) /\ ~(Turn(s) < Turn(t))
  <2>1. Turn(r) = Turn(s) /\ Turn(s) = Turn(t) /\ Cross(r, s) > 0 /\ Cross(s, t) > 0
    BY <1>4 DEF SmallerAngle, Cross
  <2>2. /\ Cross(r, s) \in Int /\ Cross(s, t) \in Int /\ Cross(r, t) \in Int
        /\ s.y * Cross(r, t) = r.y * Cross(s, t) + t.y * Cross(r, s)
    <3>1. s.y * (r.x * t.y - r.y * t.x) = r.y * (s.x * t.y - s.y * t.x) + t.y * (r.x * s.y - r.y * s.x)
      BY <1>1, Crosses
    <3> QED
      BY <3>1, CrossType DEF Cross
  <2>3. \/ r.y < 0 /\ s.y < 0 /\ t.y < 0
        \/ r.y > 0 /\ s.y > 0 /\ t.y > 0
        \/ r.y = 0 /\ s.y = 0 /\ t.y = 0
    BY <1>1, <2>1 DEF Turn
  <2>4. CASE r.y = 0 /\ s.y = 0 /\ t.y = 0
    <3>1. Cross(r, s) = 0
      BY <1>1, <2>4, Signs DEF Cross
    <3> QED
      BY <2>1, <3>1
  <2>5. CASE r.y < 0 /\ s.y < 0 /\ t.y < 0
    <3>1. r.y * Cross(s, t) < 0 /\ t.y * Cross(r, s) < 0 /\ r.y * Cross(s, t) \in Int /\ t.y * Cross(r, s) \in Int
      BY <1>1, <2>1, <2>2, <2>5, Signs
    <3>2. s.y * Cross(r, t) < 0
      BY <2>2, <3>1
    <3>3. Cross(r, t) > 0
      BY <1>1, <2>2, <2>5, <3>2, Signs
    <3> QED
      BY <2>1, <3>3 DEF SmallerAngle, Cross
  <2>6. CASE r.y > 0 /\ s.y > 0 /\ t.y > 0
    <3>1. r.y * Cross(s, t) > 0 /\ t.y * Cross(r, s) > 0 /\ r.y * Cross(s, t) \in Int /\ t.y * Cross(r, s) \in Int
      BY <1>1, <2>1, <2>2, <2>6, Signs
    <3>2. s.y * Cross(r, t) > 0
      BY <2>2, <3>1
    <3>3. Cross(r, t) > 0
      BY <1>1, <2>2, <2>6, <3>2, Signs
    <3> QED
      BY <2>1, <3>3 DEF SmallerAngle, Cross
  <2> QED
    BY <2>3, <2>4, <2>5, <2>6
<1> QED
  BY <1>3, <1>4

LEMMA Commutes ==
    ASSUME NEW a \in Int, NEW b \in Int
    PROVE  a * b = b * a
OBVIOUS

LEMMA SmallerAsymmetric ==
    ASSUME NEW r \in Plane, NEW s \in Plane
    PROVE  ~(SmallerAngle(r, s) /\ SmallerAngle(s, r))
<1>1. /\ r.x \in Int /\ r.y \in Int /\ s.x \in Int /\ s.y \in Int
  BY DEF Plane
<1>2. Turn(r) \in Int /\ Turn(s) \in Int
  BY DEF Turn
<1>3. /\ r.x * s.y \in Int /\ r.y * s.x \in Int
      /\ s.x * r.y = r.y * s.x /\ s.y * r.x = r.x * s.y
  BY <1>1, Signs, Commutes
<1>4. ~(r.x * s.y - r.y * s.x > 0 /\ s.x * r.y - s.y * r.x > 0)
  BY <1>3
<1> QED
  BY <1>2, <1>4 DEF SmallerAngle

LEMMA Remainders ==
    ASSUME NEW n \in Nat \ {0}, NEW a \in Int
    PROVE  /\ a % n \in 0..n - 1
           /\ \E q \in Int : a = n * q + (a % n)
<1>1. a = n * (a \div n) + (a % n) /\ a \div n \in Int /\ a % n \in 0..n - 1
  OBVIOUS
<1> QED
  BY <1>1

LEMMA Distributes ==
    ASSUME NEW n \in Int, NEW p \in Int, NEW q \in Int
    PROVE  n * p - n * q = n * (p - q) /\ n * p \in Int /\ n * q \in Int /\ n * (p - q) \in Int
OBVIOUS

LEMMA Multiple ==
    ASSUME NEW n \in Nat \ {0}, NEW k \in Int, k # 0
    PROVE  n * k >= n \/ n * k <= -n
OBVIOUS

\* Numbers below n are told apart by their remainders after the same shift.
LEMMA ShiftIsInjective ==
    ASSUME NEW n \in Nat \ {0}, NEW i \in 0..n - 1, NEW j \in 0..n - 1, NEW c \in Int,
           (i + c) % n = (j + c) % n
    PROVE  i = j
<1>1. i + c \in Int /\ j + c \in Int
  OBVIOUS
<1>2. PICK p \in Int : i + c = n * p + ((i + c) % n)
  BY <1>1, Remainders
<1>3. PICK q \in Int : j + c = n * q + ((j + c) % n)
  BY <1>1, Remainders
<1>4. (i + c) % n \in Int
  BY <1>1, Remainders
<1>5. i - j = n * (p - q)
  <2>1. n * p - n * q = n * (p - q) /\ n * p \in Int /\ n * q \in Int /\ n * (p - q) \in Int
    BY Distributes
  <2>2. i \in Int /\ j \in Int /\ (j + c) % n = (i + c) % n
    OBVIOUS
  <2> QED
    BY <1>2, <1>3, <1>4, <2>1, <2>2
<1>6. i - j < n /\ i - j > -n
  OBVIOUS
<1>7. p - q = 0
  BY <1>5, <1>6, Multiple
<1> QED
  BY <1>5, <1>7

LEMMA RayType ==
    ASSUME DesktopInv, NEW w \in Window, NEW range \in Box
    PROVE  Ray(w, range) \in Plane
<1>1. box[w] \in Box
  BY DEF DesktopInv
<1>2. /\ Mid(box[w], "x") \in Int /\ Mid(box[w], "y") \in Int
      /\ Mid(range, "x") \in Int /\ Mid(range, "y") \in Int
  BY <1>1, Middle DEF Axis
<1> QED
  BY <1>2 DEF Ray, Plane

Angles(wheel, range) == {p \in wheel \X wheel : SmallerIn(range, p[1], p[2])}

\* The windows of a wheel are in the order of their angles.
LEMMA WheelOrdered ==
    ASSUME DesktopInv, NEW windows \in SUBSET Window, NEW range \in Box, NEW wheel \in Wheels(windows, range)
    PROVE  wheel \in SUBSET Window /\ Ordering(Angles(wheel, range), wheel)
<1> DEFINE R == Angles(wheel, range)
           alike(v, w) == ~SmallerIn(range, v, w) /\ ~SmallerIn(range, w, v)
<1>1. wheel \subseteq windows /\ \A v \in windows : Cardinality({w \in wheel : alike(v, w)}) = 1
  <2> DEFINE before == {p \in windows \X windows : SmallerIn(range, p[1], p[2])}
             like(v, w) == <<v, w>> \notin before /\ <<w, v>> \notin before
  <2>1. wheel \subseteq windows /\ \A v \in windows : Cardinality({w \in wheel : like(v, w)}) = 1
    BY DEF Wheels
  <2>2. ASSUME NEW v \in windows PROVE {w \in wheel : like(v, w)} = {w \in wheel : alike(v, w)}
    <3>1. ASSUME NEW w \in wheel PROVE like(v, w) <=> alike(v, w)
      <4>1. w \in windows
        BY <2>1
      <4>2. /\ <<v, w>> \in before <=> SmallerIn(range, v, w)
            /\ <<w, v>> \in before <=> SmallerIn(range, w, v)
        BY <4>1
      <4> QED
        BY <4>2
    <3> QED
      BY <3>1
  <2> QED
    BY <2>1, <2>2
<1>2. wheel \in SUBSET Window /\ IsFiniteSet(wheel)
  BY <1>1, FS_Subset, DesktopAssumption
<1>3. \A v, w \in wheel : <<v, w>> \in R <=> SmallerIn(range, v, w)
  BY DEF Angles
<1>4. \A v \in wheel : Ray(v, range) \in Plane
  BY <1>2, RayType
<1>5. \A u, v, w \in wheel : SmallerIn(range, u, v) /\ SmallerIn(range, v, w) => SmallerIn(range, u, w)
  BY <1>4, SmallerTransitive DEF SmallerIn
<1>6. \A v, w \in wheel : ~(SmallerIn(range, v, w) /\ SmallerIn(range, w, v))
  BY <1>4, SmallerAsymmetric DEF SmallerIn
<1>7. ASSUME NEW v \in wheel, NEW w \in wheel PROVE v = w \/ SmallerIn(range, v, w) \/ SmallerIn(range, w, v)
  <2> DEFINE same == {u \in wheel : alike(v, u)}
  <2>1. v \in same
    BY <1>6
  <2>2. Cardinality(same) = 1 /\ IsFiniteSet(same)
    <3>1. same \in SUBSET wheel
      OBVIOUS
    <3> QED
      BY <1>1, <1>2, <3>1, FS_Subset
  <2>3. alike(v, w) => w \in same
    OBVIOUS
  <2> HIDE DEF same
  <2>4. PICK x : same = {x}
    BY <2>2, FS_Singleton
  <2> QED
    BY <2>1, <2>3, <2>4
<1> HIDE DEF R
<1>8. Ordering(R, wheel)
  BY <1>3, <1>5, <1>6, <1>7 DEF Ordering
<1> QED
  BY <1>2, <1>8 DEF R

\* A wheel gives each of its windows the place of one of its windows, each place once.
LEMMA RotatePermutes ==
    ASSUME DesktopInv, NEW windows \in SUBSET Window, NEW range \in Box, NEW wheel \in Wheels(windows, range),
           NEW count \in Int
    PROVE  /\ Permutes(Rotated(box, wheel, range, count), box)
           /\ Rotated(box, wheel, range, count) \in [Window -> Box]
           /\ \A w \in Window : \/ Rotated(box, wheel, range, count)[w] = box[w]
                                \/ w \in wheel /\ \E v \in wheel : Rotated(box, wheel, range, count)[w] = box[v]
<1> DEFINE R == Angles(wheel, range)
           n == Cardinality(wheel)
           rank == [w \in wheel |-> Cardinality({v \in wheel : SmallerIn(range, v, w)})]
           next(w) == CHOOSE v \in wheel : rank[v] = (rank[w] + count) % n
           f == [w \in Window |-> IF w \in wheel THEN next(w) ELSE w]
           after == Rotated(box, wheel, range, count)
<1>1. wheel \in SUBSET Window /\ Ordering(R, wheel) /\ IsFiniteSet(wheel)
  <2>1. wheel \in SUBSET Window /\ Ordering(R, wheel)
    BY WheelOrdered
  <2> HIDE DEF R
  <2> QED
    BY <2>1, FS_Subset, DesktopAssumption
<1>2. rank = [w \in wheel |-> Cardinality(Preceding(R, wheel, w))]
  <2>1. \A w \in wheel : {v \in wheel : SmallerIn(range, v, w)} = Preceding(R, wheel, w)
    BY DEF Preceding, Angles
  <2> HIDE DEF R
  <2> QED
    BY <2>1, Zenon
<1>3. n \in Nat /\ rank \in Bijection(wheel, 0..n - 1)
  <2> HIDE DEF R
  <2> QED
    BY <1>1, <1>2, Ranks
<1>4. /\ rank \in [wheel -> 0..n - 1]
      /\ \A v, w \in wheel : rank[v] = rank[w] => v = w
      /\ \A i \in 0..n - 1 : \E w \in wheel : rank[w] = i
  <2> DEFINE T == 0..n - 1
  <2>1. rank \in Bijection(wheel, T)
    BY <1>3
  <2> HIDE DEF T, rank
  <2>2. /\ rank \in [wheel -> T]
        /\ \A v, w \in wheel : rank[v] = rank[w] => v = w
        /\ \A i \in T : \E w \in wheel : rank[w] = i
    BY <2>1, Fun_BijectionProperties
  <2> QED
    BY <2>2 DEF T
<1>5. after = [w \in Window |-> IF w \in wheel THEN box[next(w)] ELSE box[w]]
  BY DEF Rotated, DesktopInv
<1> HIDE DEF rank, n, R
<1>6. ASSUME NEW w \in wheel
      PROVE  /\ n \in Nat \ {0} /\ rank[w] \in 0..n - 1
             /\ next(w) \in wheel /\ rank[next(w)] = (rank[w] + count) % n
  <2>1. rank[w] \in 0..n - 1 /\ n \in Nat \ {0}
    BY <1>3, <1>4
  <2>2. rank[w] + count \in Int
    BY <2>1
  <2>3. (rank[w] + count) % n \in 0..n - 1
    BY <2>1, <2>2, Remainders
  <2>4. \E v \in wheel : rank[v] = (rank[w] + count) % n
    BY <1>4, <2>3
  <2> QED
    BY <2>1, <2>4
<1> HIDE DEF next
<1>7. f \in [Window -> Window]
  BY <1>1, <1>6
<1>8. ASSUME NEW v \in Window, NEW w \in Window, f[v] = f[w] PROVE v = w
  <2>1. CASE v \in wheel /\ w \in wheel
    <3>1. next(v) = next(w)
      BY <1>8, <2>1
    <3>2. (rank[v] + count) % n = (rank[w] + count) % n
      BY <1>6, <2>1, <3>1
    <3>3. n \in Nat \ {0} /\ rank[v] \in 0..n - 1 /\ rank[w] \in 0..n - 1
      BY <1>6, <2>1
    <3>4. rank[v] = rank[w]
      BY <3>2, <3>3, ShiftIsInjective
    <3> QED
      BY <1>4, <2>1, <3>4
  <2>2. CASE v \notin wheel /\ w \notin wheel
    BY <1>8, <2>2
  <2>3. CASE (v \in wheel) # (w \in wheel)
    BY <1>6, <1>8, <2>3
  <2> QED
    BY <2>1, <2>2, <2>3
<1>9. \A w \in Window : after[w] = box[f[w]]
  BY <1>5
<1>10. \A w \in Window : after[w] = box[w] \/ (w \in wheel /\ \E v \in wheel : after[w] = box[v])
  BY <1>5, <1>6
<1>11. after \in [Window -> Box]
  <2>1. \A w \in Window : after[w] \in Box
    BY <1>7, <1>9 DEF DesktopInv
  <2>2. after = [w \in Window |-> after[w]]
    BY <1>5
  <2> HIDE DEF after
  <2> QED
    BY <2>1, <2>2, Zenon
<1> HIDE DEF f, after
<1>12. Permutes(after, box)
  BY <1>7, <1>8, <1>9 DEF Permutes
<1> QED
  BY <1>10, <1>11, <1>12 DEF after

-----------------------------------------------------------------------------
(***************************************************************************)
(* The steps: each one keeps the invariant, and each one but a move keeps  *)
(* windows that are inside their work areas there.                         *)
(***************************************************************************)
Inside(b) == \E m \in Monitor : Within(b, Work[m])
AllInside == \A w \in shown : Inside(box[w]) /\ HasArea(box[w])
Stay == AllInside => \A w \in shown \cap shown' : Inside(box'[w])

LEMMA UnchangedStay ==
    ASSUME DesktopInv, box' = box, shown' \subseteq Window, fg' \in shown' \cup {None}
    PROVE  DesktopInv' /\ Stay
BY DEF DesktopInv, Stay, AllInside

LEMMA ResizeStay ==
    ASSUME DesktopInv, fg # None, NEW b \in Box, AllInside => Inside(b), Resize(b)
    PROVE  DesktopInv' /\ Stay
BY DEF DesktopInv, Stay, AllInside, Resize

LEMMA Foreground ==
    ASSUME DesktopInv, fg # None
    PROVE  /\ fg \in Window /\ box[fg] \in Box /\ MonitorOf(box[fg]) \in Monitor
           /\ Work[MonitorOf(box[fg])] \in Box
           /\ AllInside => Within(box[fg], Work[MonitorOf(box[fg])])
<1>1. fg \in shown /\ fg \in Window /\ box[fg] \in Box
  BY DEF DesktopInv
<1>2. MonitorOf(box[fg]) \in Monitor /\ Work[MonitorOf(box[fg])] \in Box
  BY <1>1, MonitorFound, WorkBox
<1>3. ASSUME AllInside PROVE Within(box[fg], Work[MonitorOf(box[fg])])
  <2>1. PICK m \in Monitor : Within(box[fg], Work[m])
    BY <1>1, <1>3 DEF AllInside, Inside
  <2>2. HasArea(box[fg])
    BY <1>1, <1>3 DEF AllInside
  <2>3. MonitorOf(box[fg]) = m
    BY <1>1, <2>1, <2>2, MonitorWithin
  <2> QED
    BY <2>1, <2>3
<1> QED
  BY <1>1, <1>2, <1>3

LEMMA NothingStay ==
    ASSUME DesktopInv, Nothing
    PROVE  DesktopInv' /\ Stay
BY UnchangedStay DEF Nothing, DesktopInv

LEMMA ResizeWindowStay ==
    ASSUME DesktopInv, NEW a \in Axis, NEW size, fg # None => size \in Nat, ResizeWindow(a, size)
    PROVE  DesktopInv' /\ Stay
<1>1. CASE fg = None
  BY <1>1, NothingStay DEF ResizeWindow, ForForeground
<1>2. CASE fg # None
  <2> DEFINE r == Work[MonitorOf(box[fg])]
             b == Resized(box[fg], a, size, r)
  <2>1. Resize(b)
    BY <1>2 DEF ResizeWindow, ForForeground
  <2>2. box[fg] \in Box /\ r \in Box /\ (AllInside => Within(box[fg], r)) /\ MonitorOf(box[fg]) \in Monitor
    BY <1>2, Foreground
  <2>3. b \in Box /\ (Within(box[fg], r) => Within(b, r))
    BY <1>2, <2>2, ResizedInside
  <2> HIDE DEF b
  <2>4. AllInside => Inside(b)
    BY <2>2, <2>3 DEF Inside
  <2> QED
    BY <1>2, <2>1, <2>3, <2>4, ResizeStay
<1> QED
  BY <1>1, <1>2

LEMMA IncreaseStay ==
    ASSUME DesktopInv, NEW a \in Axis, NEW n \in Nat, IncreaseWindow(a, n)
    PROVE  DesktopInv' /\ Stay
<1>1. n * Delta \in Nat
  BY DesktopAssumption
<1>2. fg # None => Size(box[fg], a) + n * Delta \in Nat
  BY <1>1, Foreground, Edges
<1> DEFINE size == Size(box[fg], a) + n * Delta
<1>3. ResizeWindow(a, size)
  BY DEF IncreaseWindow
<1>4. fg # None => size \in Nat
  BY <1>2
<1> HIDE DEF size
<1> QED
  BY <1>3, <1>4, ResizeWindowStay

LEMMA DecreaseStay ==
    ASSUME DesktopInv, NEW a \in Axis, NEW n \in Nat, DecreaseWindow(a, n)
    PROVE  DesktopInv' /\ Stay
<1>1. CASE fg = None
  BY <1>1, NothingStay DEF DecreaseWindow, ForForeground
<1>2. CASE fg # None
  <2> DEFINE r == Work[MonitorOf(box[fg])]
             b == Decreased(box[fg], a, n * Delta)
  <2>1. Resize(b)
    BY <1>2 DEF DecreaseWindow, ForForeground
  <2>2. box[fg] \in Box /\ r \in Box /\ (AllInside => Within(box[fg], r)) /\ MonitorOf(box[fg]) \in Monitor
    BY <1>2, Foreground
  <2>3. n * Delta \in Nat
    BY DesktopAssumption
  <2>4. b \in Box /\ (Within(box[fg], r) => Within(b, r))
    BY <2>2, <2>3, DecreasedInside
  <2> HIDE DEF b
  <2>5. AllInside => Inside(b)
    BY <2>2, <2>4 DEF Inside
  <2> QED
    BY <1>2, <2>1, <2>4, <2>5, ResizeStay
<1> QED
  BY <1>1, <1>2

LEMMA SnapStay ==
    ASSUME DesktopInv, NEW d \in Direction, SnapCurrentWindow(d)
    PROVE  DesktopInv' /\ Stay
<1>1. CASE fg = None
  BY <1>1, NothingStay DEF SnapCurrentWindow, ForForeground
<1>2. CASE fg # None
  <2> DEFINE b == Snapped(box[fg], d)
  <2>1. Resize(b)
    BY <1>2 DEF SnapCurrentWindow, ForForeground
  <2>2. b \in Box /\ Inside(b)
    BY <1>2, Foreground, SnappedInside DEF Inside
  <2> HIDE DEF b
  <2> QED
    BY <1>2, <2>1, <2>2, ResizeStay
<1> QED
  BY <1>1, <1>2

LEMMA SelectStay ==
    ASSUME DesktopInv, NEW d \in Direction, SelectWindow(d)
    PROVE  DesktopInv' /\ Stay
<1>1. CASE Nothing
  BY <1>1, NothingStay
<1>2. CASE ~Nothing
  <2>1. fg' \in Selectable(d) /\ box' = box /\ shown' = shown
    BY <1>2 DEF SelectWindow, NearestTo
  <2>2. Selectable(d) \subseteq shown
    BY DEF Selectable, Enumerated
  <2> QED
    BY <2>1, <2>2, UnchangedStay DEF DesktopInv
<1> QED
  BY <1>1, <1>2

LEMMA OpenNewStay ==
    ASSUME DesktopInv, NEW a \in Axis, OpenNewWindow(a)
    PROVE  DesktopInv' /\ Stay
<1>1. CASE fg = None
  BY <1>1, NothingStay DEF OpenNewWindow
<1>2. CASE fg # None
  <2> DEFINE b == box[fg]
             split == [box EXCEPT ![fg] = SplitFirst(@, a)]
  <2>1. PICK new \in (Window \ shown) \cup {None}, front \in Window \cup {None}, p \in Places :
            /\ shown' = shown \cup ({new} \ {None})
            /\ front \in shown' \cup {None}
            /\ fg' = front
            /\ box' = [w \in Window |-> IF w = front THEN SplitSecond(b, a)
                                        ELSE [u \in Window |-> IF u = new THEN p ELSE split[u]][w]]
    BY <1>2 DEF OpenNewWindow
  <2>2. fg \in Window /\ fg \in shown /\ b \in Box /\ box \in [Window -> Box]
    BY <1>2, Foreground DEF DesktopInv
  <2>3. /\ SplitFirst(b, a) \in Box /\ Within(SplitFirst(b, a), b)
        /\ SplitSecond(b, a) \in Box /\ Within(SplitSecond(b, a), b)
    BY <2>2, SplitInside
  <2>4. \A w \in Window : box'[w] = IF w = front THEN SplitSecond(b, a)
                                    ELSE IF w = new THEN p
                                    ELSE IF w = fg THEN SplitFirst(b, a) ELSE box[w]
    BY <2>1, <2>2
  <2>5. p \in Box
    BY DesktopAssumption
  <2> HIDE DEF b, split
  <2>6. box' \in [Window -> Box]
    <3>1. \A w \in Window : box'[w] \in Box
      BY <2>2, <2>3, <2>4, <2>5
    <3>2. box' = [w \in Window |-> box'[w]]
      BY <2>1
    <3> QED
      BY <3>1, <3>2, Zenon
  <2>7. DesktopInv'
    BY <2>1, <2>6 DEF DesktopInv
  <2>8. ASSUME AllInside, NEW w \in shown \cap shown' PROVE Inside(box'[w])
    <3>1. (w \in Window /\ w # new) \/ w = None
      BY <2>1 DEF DesktopInv
    <3>2. w \in Window /\ w # None
      BY DesktopAssumption DEF DesktopInv
    <3>3. PICK m \in Monitor : Within(b, Work[m])
      BY <2>2, <2>8 DEF AllInside, Inside, b
    <3>4. Work[m] \in Box
      BY WorkBox
    <3>5. Within(SplitFirst(b, a), Work[m]) /\ Within(SplitSecond(b, a), Work[m])
      BY <2>2, <2>3, <3>3, <3>4, WithinWithin
    <3>6. Inside(box[w])
      BY <2>8 DEF AllInside
    <3>7. box'[w] = SplitSecond(b, a) \/ box'[w] = SplitFirst(b, a) \/ box'[w] = box[w]
      BY <2>4, <3>1, <3>2
    <3> QED
      BY <3>5, <3>6, <3>7 DEF Inside
  <2> QED
    BY <2>7, <2>8 DEF Stay
<1> QED
  BY <1>1, <1>2

\* Exchanged or rotated, the windows that are shown have the places of windows that were.
LEMMA ExchangeStay ==
    ASSUME DesktopInv, ExchangeWindowWithNearest
    PROVE  DesktopInv' /\ Stay /\ (box' = box \/ Permutes(box', box))
<1>1. CASE Nothing
  BY <1>1, NothingStay DEF Nothing
<1>2. CASE ~Nothing
  <2>1. fg # None /\ shown' = shown /\ fg' = fg
    BY <1>2 DEF ExchangeWindowWithNearest
  <2>2. PICK w \in NearestTo(Centre(box[fg]), Enumerated \ {fg}) : box' = Exchanged(box, w)
    BY <1>2 DEF ExchangeWindowWithNearest
  <2>3. w \in Enumerated /\ w # fg
    BY DEF NearestTo
  <2>4. w \in shown /\ w \in Window /\ fg \in shown
    BY <2>1, <2>3 DEF Enumerated, DesktopInv
  <2>5. box' \in [Window -> Box] /\ Permutes(box', box)
    BY <2>1, <2>2, <2>3, <2>4, ExchangePermutes
  <2>6. \A v \in Window : box'[v] = box[v] \/ box'[v] = box[fg] \/ box'[v] = box[w]
    BY <2>2, <2>4 DEF Exchanged, DesktopInv
  <2>7. DesktopInv' /\ Stay
    BY <2>1, <2>4, <2>5, <2>6 DEF DesktopInv, Stay, AllInside
  <2> QED
    BY <2>5, <2>7
<1> QED
  BY <1>1, <1>2

LEMMA RotateStay ==
    ASSUME DesktopInv, NEW n \in Int, RotateWindows(n)
    PROVE  DesktopInv' /\ Stay /\ (box' = box \/ Permutes(box', box))
<1> DEFINE m == MonitorOf(box[fg])
           windows == {w \in Enumerated : MonitorOf(box[w]) = m}
<1>1. CASE Nothing
  BY <1>1, NothingStay DEF Nothing
<1>2. CASE ~Nothing
  <2>1. fg # None /\ shown' = shown /\ fg' = fg
    BY <1>2 DEF RotateWindows
  <2>2. PICK wheel \in Wheels(windows, Work[m]) : box' = Rotated(box, wheel, Work[m], n)
    BY <1>2 DEF RotateWindows
  <2>3. windows \in SUBSET Window /\ windows \subseteq shown /\ wheel \subseteq windows
    BY <2>2 DEF Enumerated, DesktopInv, Wheels
  <2>4. Work[m] \in Box
    BY <2>1, Foreground
  <2> HIDE DEF windows, m
  <2>5. /\ box' \in [Window -> Box] /\ Permutes(box', box)
        /\ \A w \in Window : box'[w] = box[w] \/ (w \in wheel /\ \E v \in wheel : box'[w] = box[v])
    BY <2>2, <2>3, <2>4, RotatePermutes
  <2>6. DesktopInv' /\ Stay
    BY <2>1, <2>3, <2>5 DEF DesktopInv, Stay, AllInside
  <2> QED
    BY <2>5, <2>6
<1> QED
  BY <1>1, <1>2

LEMMA ArrangeStay ==
    ASSUME DesktopInv, ArrangeWindows
    PROVE  DesktopInv' /\ Stay /\ (box' = box \/ \E at \in Orders : box' = Arranged(at))
<1>1. shown' = shown /\ fg' = fg /\ (box' = box \/ \E at \in Orders : box' = Arranged(at))
  BY DEF ArrangeWindows
<1>2. CASE box' = box
  BY <1>1, <1>2, UnchangedStay DEF DesktopInv
<1>3. CASE \E at \in Orders : box' = Arranged(at)
  <2>1. PICK at \in Orders : box' = Arranged(at)
    BY <1>3
  <2>2. DesktopInv'
    BY <1>1, <2>1, ArrangedType DEF DesktopInv
  <2>3. ASSUME AllInside, NEW w \in shown PROVE Inside(box'[w])
    <3>1. w \in Window /\ box[w] \in Box /\ MonitorOf(box[w]) \in Monitor
      BY MonitorFound DEF DesktopInv
    <3>2. CASE w \in Mine(MonitorOf(box[w]))
      BY <2>1, <3>1, <3>2, ArrangedInside DEF Inside
    <3>3. CASE w \notin Mine(MonitorOf(box[w]))
      <4>1. box'[w] = box[w]
        BY <2>1, <3>1, <3>3, ArrangedIs
      <4> QED
        BY <2>3, <4>1 DEF AllInside
    <3> QED
      BY <3>2, <3>3
  <2> QED
    BY <1>1, <1>3, <2>2, <2>3 DEF Stay
<1> QED
  BY <1>1, <1>2, <1>3

-----------------------------------------------------------------------------
(***************************************************************************)
(* The theorems.                                                           *)
(***************************************************************************)
\* Every step but one of "move" keeps windows inside.
LEMMA StepStay ==
    ASSUME DesktopInv, [Next]_vars
    PROVE  DesktopInv' /\ (did' # "move" => Stay)
<1>1. CASE UNCHANGED vars
  BY <1>1, UnchangedStay DEF vars, DesktopInv
<1>2. CASE Sizing
  <2>1. CASE \E a \in Axis : \E size \in Sizes : ResizeWindow(a, size)
    BY <2>1, ResizeWindowStay, DesktopAssumption
  <2>2. CASE \E a \in Axis, n \in Counts : IncreaseWindow(a, n) \/ DecreaseWindow(a, n)
    BY <2>2, IncreaseStay, DecreaseStay, DesktopAssumption
  <2>3. CASE \E a \in Axis : OpenNewWindow(a)
    BY <2>3, OpenNewStay
  <2>4. CASE \E d \in Direction : SnapCurrentWindow(d) \/ SelectWindow(d)
    BY <2>4, SnapStay, SelectStay
  <2> QED
    BY <1>2, <2>1, <2>2, <2>3, <2>4 DEF Sizing
<1>3. CASE Moving
  <2>1. PICK d \in Direction, n \in Counts : MoveWindow(d, n)
    BY <1>3 DEF Moving
  <2>2. CASE fg = None
    BY <2>1, <2>2, NothingStay DEF MoveWindow, ForForeground
  <2>3. CASE fg # None
    <3> DEFINE delta == n * Velocity
               first == IF d[2] = 1 THEN Greater(box[fg][d[1]][1] - delta, Combined[d[1]][1])
                        ELSE Less(box[fg][d[1]][1] + delta, Greater(Combined[d[1]][2] - Size(box[fg], d[1]), 0))
               b == Shifted(box[fg], d[1], first)
    <3>1. d[1] \in Axis /\ box[fg] \in Box /\ Combined \in Box /\ n \in Nat /\ Velocity \in Nat
      BY <2>3, Foreground, DesktopAssumption DEF Direction
    <3>2. /\ box[fg][d[1]][1] \in Int /\ Size(box[fg], d[1]) \in Nat
          /\ Combined[d[1]][1] \in Int /\ Combined[d[1]][2] \in Int /\ delta \in Int
      BY <3>1, Edges
    <3>3. first \in Int
      BY <3>2 DEF Less, Greater
    <3>4. Resize(b)
      BY <2>1, <2>3 DEF MoveWindow, ForForeground, Moved
    <3> HIDE DEF first
    <3>5. b \in Box
      BY <3>1, <3>3, ShiftedIsBox
    <3>6. did' = "move"
      BY <1>3 DEF Moving, Did
    <3> HIDE DEF b
    <3> QED
      BY <2>3, <3>4, <3>5, <3>6 DEF DesktopInv, Resize
  <2> QED
    BY <2>2, <2>3
<1>4. CASE Swapping
  <2>1. CASE ExchangeWindowWithNearest
    BY <2>1, ExchangeStay
  <2>2. CASE \E n \in Counts : RotateWindows(n) \/ RotateWindows(-n)
    BY <2>2, RotateStay, DesktopAssumption
  <2> QED
    BY <1>4, <2>1, <2>2 DEF Swapping
<1>5. CASE Arranging
  BY <1>5, ArrangeStay DEF Arranging
<1>6. CASE OpenResizer \/ ChangeMode \/ CloseResizer
  BY <1>6, UnchangedStay DEF OpenResizer, ChangeMode, CloseResizer, DesktopInv
<1>7. ASSUME NEW d \in Direction, CallOp(d) PROVE DesktopInv' /\ (did' # "move" => Stay)
  <2>1. d[1] \in Axis /\ 1 \in Nat
    BY DEF Direction
  <2>2. CASE DecreaseWindow(d[1], 1)
    BY <2>1, <2>2, DecreaseStay
  <2>3. CASE IncreaseWindow(d[1], 1)
    BY <2>1, <2>3, IncreaseStay
  <2>4. CASE SelectWindow(d)
    BY <2>4, SelectStay
  <2>5. CASE session = "move" /\ ForForeground(Slid(box[fg], d))
    <3>1. CASE fg = None
      BY <2>5, <3>1, NothingStay DEF ForForeground
    <3>2. CASE fg # None
      <4> DEFINE first == IF d[2] = 1 THEN Greater(box[fg][d[1]][1] - Velocity, Combined[d[1]][1])
                          ELSE Less(box[fg][d[1]][1] + Velocity, Combined[d[1]][2])
                 b == Shifted(box[fg], d[1], first)
      <4>1. box[fg] \in Box /\ Combined \in Box /\ Velocity \in Nat
        BY <3>2, Foreground, DesktopAssumption
      <4>2. box[fg][d[1]][1] \in Int /\ Combined[d[1]][1] \in Int /\ Combined[d[1]][2] \in Int
        BY <2>1, <4>1, Edges
      <4>3. first \in Int
        BY <4>1, <4>2 DEF Less, Greater
      <4>4. Resize(b)
        BY <2>5, <3>2 DEF ForForeground, Slid
      <4> HIDE DEF first
      <4>5. b \in Box
        BY <2>1, <4>1, <4>3, ShiftedIsBox
      <4>6. did' = "move"
        BY <1>7, <2>5 DEF CallOp, Did
      <4> HIDE DEF b
      <4> QED
        BY <3>2, <4>4, <4>5, <4>6 DEF DesktopInv, Resize
    <3> QED
      BY <3>1, <3>2
  <2> QED
    BY <1>7, <2>2, <2>3, <2>4, <2>5 DEF CallOp
<1>8. CASE User
  <2>1. CASE \E w \in Window : Open(w)
    <3>1. PICK w \in Window, p \in Places : Open(w) /\ box' = [box EXCEPT ![w] = p]
      BY <2>1 DEF Open
    <3>2. p \in Box
      BY DesktopAssumption
    <3>3. w \notin shown /\ shown' = shown \cup {w} /\ fg' = w
      BY <3>1 DEF Open
    <3>4. DesktopInv'
      BY <3>1, <3>2, <3>3 DEF DesktopInv
    <3>5. \A v \in shown : box'[v] = box[v]
      BY <3>1, <3>3 DEF DesktopInv
    <3> QED
      BY <3>4, <3>5 DEF Stay, AllInside
  <2>2. CASE Activate(None) \/ \E w \in Window : CloseWindow(w) \/ Activate(w)
    <3>1. box' = box /\ shown' \subseteq shown /\ fg' \in shown' \cup {None}
      BY <2>2 DEF Activate, CloseWindow, DesktopInv
    <3> QED
      BY <3>1, UnchangedStay DEF DesktopInv
  <2> QED
    BY <1>8, <2>1, <2>2 DEF User
<1> QED
  BY <1>1, <1>2, <1>3, <1>4, <1>5, <1>6, <1>7, <1>8 DEF Next, Function, Resizer

\* For any windows, monitors and limits: each window has a box with its edges in order,
\* and only a visible window is in the foreground.
THEOREM DesktopInvariant == Spec => []DesktopInv
<1>1. Init => DesktopInv
  <2> SUFFICES ASSUME Init PROVE DesktopInv
    OBVIOUS
  <2>1. Layouts \subseteq [Window -> Box]
    BY DesktopAssumption
  <2> QED
    BY <2>1 DEF Init, DesktopInv
<1>2. DesktopInv /\ [Next]_vars => DesktopInv'
  BY StepStay
<1> QED
  BY <1>1, <1>2, PTL DEF Spec

\* For any monitors and windows, and any number of functions in any order: windows that
\* lie in work areas, and have an area, stay in work areas unless one is moved
\* (resize_win.cpp, snap_win.cpp, split_win.cpp, rotate_win.cpp, arrange_win.cpp).
THEOREM OnlyMovingLeaves == Spec => StaysInside
<1>1. DesktopInv /\ [Next]_vars =>
        [(\A w \in shown : InAWorkArea(w) /\ IsWindowMode(w)) /\ did' # "move" =>
            \A w \in shown \cap shown' : InAWorkArea(w)']_vars
  <2> SUFFICES ASSUME DesktopInv, [Next]_vars, did' # "move",
                      \A w \in shown : InAWorkArea(w) /\ IsWindowMode(w)
               PROVE  \A w \in shown \cap shown' : InAWorkArea(w)'
    OBVIOUS
  <2>1. Stay
    BY StepStay
  <2>2. AllInside
    BY DEF AllInside, Inside, HasArea, InAWorkArea, IsWindowMode
  <2> QED
    BY <2>1, <2>2 DEF Stay, Inside, InAWorkArea
<1> QED
  BY <1>1, DesktopInvariant, PTL DEF Spec, StaysInside

\* For any windows, with any angles, distances and overlaps: rotating and exchanging lose
\* no place and give none to two windows (rotate_win.cpp, exchange_win.cpp).
THEOREM SwappingPermutes == Spec => PlacesKept
<1>1. DesktopInv /\ [Next]_vars =>
        [steps' # steps /\ did' = "swap" =>
            \A p \in Range(box) : Cardinality({w \in Window : box'[w] = p})
                                 = Cardinality({w \in Window : box[w] = p})]_vars
  <2> SUFFICES ASSUME DesktopInv, Next, steps' # steps, did' = "swap", NEW p
               PROVE  Cardinality({w \in Window : box'[w] = p}) = Cardinality({w \in Window : box[w] = p})
    BY DEF vars
  <2>1. Swapping
    BY DEF Next, Function, Resizer, Sizing, Moving, Arranging, OpenResizer, ChangeMode, CloseResizer, CallOp,
           User, Did
  <2>2. box' = box \/ Permutes(box', box)
    BY <2>1, ExchangeStay, RotateStay, DesktopAssumption DEF Swapping
  <2>3. CASE box' = box
    BY <2>3
  <2>4. CASE Permutes(box', box)
    <3>1. Cardinality(Having(Window, box', p)) = Cardinality(Having(Window, box, p))
      BY <2>4, PermutedKeeps
    <3> QED
      BY <3>1 DEF Having
  <2> QED
    BY <2>2, <2>3, <2>4
<1> QED
  BY <1>1, DesktopInvariant, PTL DEF Spec, PlacesKept

\* For any work areas and any order of the windows: arranged, the windows of a monitor
\* cover its work area and share at most lines, and ignored ones stay (arrange_win.cpp).
THEOREM ArrangingTiles == Spec => ArrangeTiles
<1>1. DesktopInv /\ [Next]_vars =>
        [steps' # steps /\ did' = "arrange" /\ box' # box =>
            /\ \A m \in Monitor : \E windows \in {Arrangeable(m) \ Ignored} : Tiles(windows, Work[m])'
            /\ \A w \in Ignored : box'[w] = box[w]]_vars
  <2> SUFFICES ASSUME DesktopInv, Next, steps' # steps, did' = "arrange", box' # box
               PROVE  /\ \A m \in Monitor : \E windows \in {Arrangeable(m) \ Ignored} : Tiles(windows, Work[m])'
                      /\ \A w \in Ignored : box'[w] = box[w]
    BY DEF vars
  <2>1. Arranging
    BY DEF Next, Function, Resizer, Sizing, Moving, Swapping, OpenResizer, ChangeMode, CloseResizer, CallOp,
           User, Did
  <2>2. PICK at \in Orders : box' = Arranged(at)
    BY <2>1, ArrangeStay DEF Arranging
  <2>3. ASSUME NEW m \in Monitor
        PROVE  \E windows \in {Arrangeable(m) \ Ignored} : Tiles(windows, Work[m])'
    <3>1. ASSUME NEW windows, windows = Mine(m) PROVE Tiles(windows, Work[m])'
      <4>1. windows # {} => Covered(windows, Work[m])'
        <5> SUFFICES ASSUME windows # {},
                            NEW x \in Work[m]["x"][1]..Work[m]["x"][2] - 1,
                            NEW y \in Work[m]["y"][1]..Work[m]["y"][2] - 1
                     PROVE  \E w \in windows : Within([x |-> <<x, x + 1>>, y |-> <<y, y + 1>>], box'[w])
          BY DEF Covered
        <5>1. Cell(x, y) = [x |-> <<x, x + 1>>, y |-> <<y, y + 1>>]
          BY WorkBox, CellsOfRange
        <5>2. \E w \in windows : Within(Cell(x, y), Arranged(at)[w])
          BY <3>1, ArrangedTiles
        <5> QED
          BY <2>2, <5>1, <5>2
      <4>2. \A w \in windows : Within(box'[w], Work[m])
        BY <2>2, <3>1, ArrangedTiles
      <4>3. \A v, w \in windows : v = w \/ \E a \in Axis : Common(box'[v], box'[w], a) <= 1
        BY <2>2, <3>1, ArrangedTiles DEF Apart
      <4> QED
        BY <4>1, <4>2, <4>3 DEF Tiles
    <3> QED
      BY <3>1 DEF Mine
  <2>4. ASSUME NEW w \in Ignored PROVE box'[w] = box[w]
    <3>1. w \in Window
      BY DesktopAssumption
    <3>2. w \notin Mine(MonitorOf(box[w]))
      BY DEF Mine
    <3> QED
      BY <2>2, <3>1, <3>2, ArrangedIs
  <2> QED
    BY <2>3, <2>4
<1> QED
  BY <1>1, DesktopInvariant, PTL DEF Spec, ArrangeTiles
===============================================================================
