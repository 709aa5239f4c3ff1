------------------------ MODULE MissionContextProofs ------------------------
(***************************************************************************)
(* What a scene may show, for every depth image, box, header and class     *)
(* filter, and what the telemetry of a prompt tells, for every history.    *)
(***************************************************************************)
EXTENDS MissionContext, EnumerationProofs, WellFoundedInduction, TLAPS

-----------------------------------------------------------------------------
(* The pixels of a box. *)

\* The slice of an axis is the pixels whose far corner the box reaches, also
\* when the box hangs over either edge, lies outside or has no extent.
LEMMA CoveredIsReached ==
    ASSUME NEW start \in Int, NEW extent \in Int, NEW size \in Nat \ {0}
    PROVE  Covered(start, extent, size) =
               {i \in 0..(size - 1) : start < 2 * i + 2 /\ 2 * i + 2 <= start + extent}
<1>1. ASSUME NEW a \in Int
      PROVE  /\ Whole(a) \in Int
             /\ a >= 0 => 2 * Whole(a) <= a /\ a < 2 * Whole(a) + 2
             /\ a < 0 => Whole(a) <= 0
  <2>1. CASE a >= 0
    BY <2>1 DEF Whole
  <2>2. CASE a < 0
    <3> DEFINE b == -a
    <3>1. b \in Nat /\ Whole(a) = -(b \div 2)
      BY <2>2 DEF Whole
    <3>2. b \div 2 \in Nat
      BY <3>1
    <3> QED
      BY <2>2, <3>1, <3>2
  <2> QED
    BY <2>1, <2>2
<1>2. start + extent \in Int
  OBVIOUS
<1>3. ASSUME NEW i \in 0..(size - 1)
      PROVE  /\ i >= Whole(start) <=> start < 2 * i + 2
             /\ i < Whole(start + extent) <=> 2 * i + 2 <= start + extent
  BY <1>1, <1>2
<1>4. \A i \in Int : i \in Covered(start, extent, size) <=>
         i \in 0..(size - 1) /\ i >= Whole(start) /\ i < Whole(start + extent)
  BY <1>1, <1>2 DEF Covered
<1>5. Covered(start, extent, size) \subseteq Int
  BY <1>1, <1>2 DEF Covered
<1> QED
  BY <1>3, <1>4, <1>5

Measured(image, box) == {p \in DOMAIN image : image[p] > 0 /\ Within(box, p)}

\* The pixels that enter the depth are the measured ones within the box, and
\* there are finitely many.
LEMMA PatchIsWithin ==
    ASSUME NEW image \in Images, NEW box \in [x : Int, w : Nat, y : Int, h : Nat]
    PROVE  /\ {p \in Patch(box) : image[p] > 0} = Measured(image, box)
           /\ IsFiniteSet(Measured(image, box))
           /\ \A p \in Measured(image, box) : image[p] \in Nat \ {0}
<1> DEFINE columns == 0..(Width - 1)
           rows == 0..(Height - 1)
<1>1. Width \in Nat \ {0} /\ Height \in Nat \ {0}
  BY DetectorAssumption
<1>2. image \in [columns \X rows -> Nat]
  BY DEF Images
<1>3. Covered(box.x, box.w, Width) =
         {i \in columns : box.x < 2 * i + 2 /\ 2 * i + 2 <= box.x + box.w}
  BY <1>1, CoveredIsReached
<1>4. Covered(box.y, box.h, Height) =
         {i \in rows : box.y < 2 * i + 2 /\ 2 * i + 2 <= box.y + box.h}
  BY <1>1, CoveredIsReached
<1>5. IsFiniteSet(columns \X rows)
  <2>1. IsFiniteSet(columns) /\ IsFiniteSet(rows)
    <3>1. 0 \in Int /\ Width - 1 \in Int /\ Height - 1 \in Int
      BY <1>1
    <3>2. \A a, b \in Int : IsFiniteSet(a..b)
      BY FS_Interval
    <3> QED
      BY <3>1, <3>2
  <2> HIDE DEF columns, rows
  <2> QED
    BY <2>1, FS_Product
<1> HIDE DEF columns, rows
<1>6. Patch(box) = {p \in columns \X rows : Within(box, p)}
  BY <1>3, <1>4 DEF Patch, Within
<1>7. Measured(image, box) \subseteq columns \X rows
  BY <1>2 DEF Measured
<1>8. IsFiniteSet(Measured(image, box))
  BY <1>5, <1>7, FS_Subset
<1> QED
  BY <1>2, <1>6, <1>8 DEF Measured

-----------------------------------------------------------------------------
(* The median. *)

\* A set of naturals has a least element.
LEMMA Least ==
    ASSUME NEW T, T \subseteq Nat, T # {}
    PROVE  \E x \in T : \A y \in T : x <= y
<1> DEFINE Less == {ss \in Nat \X Nat : ss[1] < ss[2]}
<1>1. IsWellFoundedOn(Less, Nat)
  BY NatLessThanWellFounded DEF OpToRel
<1>2. \A x, y \in Nat : y < x => <<y, x>> \in Less
  OBVIOUS
<1> HIDE DEF Less
<1>3. PICK x \in T : \A y \in T : ~ (<<y, x>> \in Less)
  BY <1>1, WFMin
<1>4. ASSUME NEW y \in T PROVE x <= y
  <2>1. x \in Nat /\ y \in Nat /\ ~ (y < x)
    BY <1>2, <1>3
  <2> QED
    BY <2>1
<1> QED
  BY <1>4

\* A finite set of pixels that is not empty has one of the largest value.
LEMMA Largest ==
    ASSUME NEW pixels, IsFiniteSet(pixels), pixels # {}, NEW image,
           \A p \in pixels : image[p] \in Nat
    PROVE  \E p \in pixels : \A q \in pixels : image[q] <= image[p]
<1> DEFINE n == Cardinality(pixels)
           under(p) == {q \in pixels : image[q] <= image[p]}
           rest == {n - Cardinality(under(p)) : p \in pixels}
<1>1. \A p \in pixels : /\ IsFiniteSet(under(p)) /\ Cardinality(under(p)) \in Nat
                        /\ Cardinality(under(p)) <= n
  BY FS_Subset, FS_CardinalityType
<1>2. n \in Nat
  BY FS_CardinalityType
<1>3. rest \subseteq Nat /\ rest # {}
  <2>1. \A p \in pixels : n - Cardinality(under(p)) \in Nat
    <3> HIDE DEF under, n
    <3> QED
      BY <1>1, <1>2
  <2> QED
    BY <2>1
<1>4. PICK x \in rest : \A y \in rest : x <= y
  BY <1>3, Least
<1>5. PICK p \in pixels : x = n - Cardinality(under(p))
  OBVIOUS
<1>6. \A q \in pixels : n - Cardinality(under(p)) <= n - Cardinality(under(q))
  BY <1>4, <1>5
<1>7. ASSUME NEW q \in pixels, image[q] > image[p] PROVE FALSE
  <2>1. under(p) \subseteq under(q) /\ q \in under(q) /\ q \notin under(p)
    BY <1>7
  <2>2. Cardinality(under(p)) <= Cardinality(under(q))
        /\ Cardinality(under(p)) # Cardinality(under(q))
    BY <1>1, <2>1, FS_Subset
  <2>3. n - Cardinality(under(p)) <= n - Cardinality(under(q))
    BY <1>6
  <2> HIDE DEF under, n
  <2>4. Cardinality(under(p)) \in Nat /\ Cardinality(under(q)) \in Nat
    BY <1>1
  <2> QED
    BY <1>2, <2>2, <2>3, <2>4
<1> QED
  BY <1>7

\* Each rank of a finite set of pixels has a value.
LEMMA RankedIsThere ==
    ASSUME NEW pixels, IsFiniteSet(pixels), NEW image, \A p \in pixels : image[p] \in Nat \ {0},
           NEW k \in 1 .. Cardinality(pixels)
    PROVE  LET z == Ranked(image, pixels, k)
           IN  /\ z \in Nat \ {0}
               /\ Below(image, pixels, z) < k /\ k <= UpTo(image, pixels, z)
<1> DEFINE under(z) == {p \in pixels : image[p] <= z}
           below(z) == {p \in pixels : image[p] < z}
           reach == {image[p] : p \in {p \in pixels : k <= Cardinality(under(image[p]))}}
<1>1. \A z : /\ IsFiniteSet(under(z)) /\ Cardinality(under(z)) \in Nat
             /\ IsFiniteSet(below(z)) /\ Cardinality(below(z)) \in Nat
  BY FS_Subset, FS_CardinalityType
<1>2. Cardinality(pixels) \in Nat /\ pixels # {}
  BY FS_CardinalityType, FS_EmptySet
<1>3. reach # {}
  <2>1. PICK p \in pixels : \A q \in pixels : image[q] <= image[p]
    BY <1>2, Largest
  <2>2. under(image[p]) = pixels
    BY <2>1
  <2> QED
    BY <2>2
<1>4. PICK z \in reach : \A y \in reach : z <= y
  <2>1. reach \subseteq Nat
    OBVIOUS
  <2> QED
    BY <1>3, <2>1, Least
<1>5. z \in {image[p] : p \in pixels} /\ z \in Nat \ {0} /\ k <= Cardinality(under(z))
  OBVIOUS
<1>6. ASSUME k <= Cardinality(below(z)) PROVE FALSE
  <2>1. below(z) # {}
    BY <1>6, FS_EmptySet
  <2>2. PICK p \in below(z) : \A q \in below(z) : image[q] <= image[p]
    BY <1>1, <2>1, Largest
  <2>3. below(z) \subseteq under(image[p])
    BY <2>2
  <2>4. Cardinality(below(z)) <= Cardinality(under(image[p]))
    BY <1>1, <2>3, FS_Subset
  <2>5. k <= Cardinality(under(image[p]))
    <3>1. Cardinality(below(z)) \in Nat /\ Cardinality(under(image[p])) \in Nat
      BY <1>1
    <3> HIDE DEF below, under
    <3> QED
      BY <1>6, <2>4, <3>1
  <2>6. image[p] \in reach /\ image[p] < z /\ image[p] \in Nat
    BY <2>5
  <2>7. z <= image[p]
    BY <1>4, <2>6
  <2> QED
    BY <1>5, <2>6, <2>7
<1>7. Cardinality(below(z)) < k
  <2>1. Cardinality(below(z)) \in Nat
    BY <1>1
  <2> HIDE DEF below
  <2> QED
    BY <1>6, <2>1
<1>8. Below(image, pixels, z) < k /\ k <= UpTo(image, pixels, z)
  BY <1>5, <1>7 DEF Below, UpTo
<1>9. LET v == Ranked(image, pixels, k)
      IN  /\ v \in {image[p] : p \in pixels}
          /\ Below(image, pixels, v) < k /\ k <= UpTo(image, pixels, v)
  BY <1>5, <1>8 DEF Ranked
<1> QED
  BY <1>9

\* d is twice a value with half of the pixels on either side.
Splits(d, image, pixels) ==
    /\ d \in Nat \ {0}
    /\ 2 * Cardinality({p \in pixels : 2 * image[p] <= d}) >= Cardinality(pixels)
    /\ 2 * Cardinality({p \in pixels : 2 * image[p] >= d}) >= Cardinality(pixels)

\* The median does so, whatever the pixels.
LEMMA MedianSplits ==
    ASSUME NEW pixels, IsFiniteSet(pixels), pixels # {}, NEW image,
           \A p \in pixels : image[p] \in Nat \ {0}
    PROVE  Splits(MedianTwice(image, pixels), image, pixels)
<1> DEFINE n == Cardinality(pixels)
           i == (n + 1) \div 2
           j == (n + 2) \div 2
           low == Ranked(image, pixels, i)
           high == Ranked(image, pixels, j)
           under(z) == {p \in pixels : image[p] <= z}
           below(z) == {p \in pixels : image[p] < z}
           d == low + high
           left == {p \in pixels : 2 * image[p] <= d}
           right == {p \in pixels : 2 * image[p] >= d}
<1>1. n \in Nat \ {0}
  BY FS_CardinalityType, FS_EmptySet
<1>2. i \in 1 .. n /\ j \in 1 .. n /\ i <= j /\ 2 * i >= n /\ 2 * j <= n + 2
  <2> HIDE DEF n
  <2> QED
    BY <1>1
<1>3. /\ low \in Nat \ {0} /\ Cardinality(below(low)) < i /\ i <= Cardinality(under(low))
      /\ high \in Nat \ {0} /\ Cardinality(below(high)) < j /\ j <= Cardinality(under(high))
  <2>1. \A k \in 1 .. n :
           LET z == Ranked(image, pixels, k)
           IN  z \in Nat \ {0} /\ Cardinality(below(z)) < k /\ k <= Cardinality(under(z))
    BY RankedIsThere DEF Below, UpTo
  <2> HIDE DEF n, i, j, under, below
  <2> QED
    BY <1>2, <2>1 DEF low, high
<1>4. \A z : /\ IsFiniteSet(under(z)) /\ Cardinality(under(z)) \in Nat
             /\ IsFiniteSet(below(z)) /\ Cardinality(below(z)) \in Nat
  BY FS_Subset, FS_CardinalityType
<1>5. /\ IsFiniteSet(left) /\ Cardinality(left) \in Nat
      /\ IsFiniteSet(right) /\ Cardinality(right) \in Nat
  BY FS_Subset, FS_CardinalityType
<1>6. d = MedianTwice(image, pixels)
  BY DEF MedianTwice
<1> HIDE DEF i, j, low, high, n
<1>7. low <= high
  <2> SUFFICES ASSUME high < low PROVE FALSE
    BY <1>3
  <2>1. under(high) \subseteq below(low)
    BY <1>3
  <2>2. Cardinality(under(high)) <= Cardinality(below(low))
    BY <1>4, <2>1, FS_Subset
  <2>3. Cardinality(under(high)) \in Nat /\ Cardinality(below(low)) \in Nat
    BY <1>4
  <2> HIDE DEF under, below
  <2> QED
    BY <1>1, <1>2, <1>3, <2>2, <2>3
<1>8. under(low) \subseteq left
  <2> SUFFICES ASSUME NEW p \in under(low) PROVE p \in left
    OBVIOUS
  <2>1. image[p] \in Nat /\ image[p] <= low
    OBVIOUS
  <2> QED
    BY <1>3, <1>7, <2>1
<1>9. 2 * Cardinality(left) >= n
  <2>1. Cardinality(under(low)) <= Cardinality(left)
    BY <1>5, <1>8, FS_Subset
  <2>2. Cardinality(under(low)) \in Nat
    BY <1>4
  <2> HIDE DEF left, under
  <2> QED
    BY <1>1, <1>2, <1>3, <1>5, <2>1, <2>2
<1>10. pixels \ below(high) \subseteq right
  <2> SUFFICES ASSUME NEW p \in pixels \ below(high) PROVE p \in right
    OBVIOUS
  <2>1. image[p] \in Nat /\ image[p] >= high
    BY <1>3
  <2> QED
    BY <1>3, <1>7, <2>1
<1>11. 2 * Cardinality(right) >= n
  <2>1. below(high) = pixels \cap below(high)
    OBVIOUS
  <2>2. Cardinality(pixels \ below(high)) = n - Cardinality(below(high))
    BY <2>1, FS_Difference DEF n
  <2>3. Cardinality(pixels \ below(high)) <= Cardinality(right)
    BY <1>5, <1>10, FS_Subset
  <2>4. Cardinality(below(high)) \in Nat
    BY <1>4
  <2> HIDE DEF right, below
  <2> QED
    BY <1>1, <1>2, <1>3, <1>5, <2>2, <2>3, <2>4
<1>12. d \in Nat \ {0}
  BY <1>3
<1> QED
  BY <1>6, <1>9, <1>11, <1>12 DEF n, Splits

-----------------------------------------------------------------------------
(* The scene. *)

\* A scene is a detection made from the image it was taken with.
SceneInv ==
    scene # NoScene =>
        /\ scene.image \in DepthImages /\ scene.box \in Boxes /\ scene.scaled \in BOOLEAN
        /\ ~Refused(classes)
        /\ \E k \in Asked(Wanted(classes)) : scene.label = Names[k]
        /\ \E calibrated \in BOOLEAN :
              scene.of = DepthAndRay(scene.image, scene.scaled, calibrated, scene.box)

\* A new scene is made of one image, and the filter stays.
LEMMA SceneStep == SceneInv /\ [Next]_vars => SceneInv'
<1> SUFFICES ASSUME SceneInv, [Next]_vars PROVE SceneInv'
  OBVIOUS
<1>1. CASE SceneArrives
  <2>1. PICK image \in DepthImages, hdr \in Headers, box \in Boxes, k \in Asked(Wanted(classes)) :
             scene' = Detection(image, hdr.scaled, hdr.calibrated, box, k)
    BY <1>1 DEF SceneArrives
  <2>2. /\ scene'.image = image /\ scene'.scaled = hdr.scaled /\ scene'.box = box
        /\ scene'.label = Names[k]
        /\ scene'.of = DepthAndRay(image, hdr.scaled, hdr.calibrated, box)
    BY <2>1 DEF Detection
  <2>3. /\ hdr.scaled \in BOOLEAN /\ hdr.calibrated \in BOOLEAN
        /\ classes' = classes /\ ~Refused(classes)
    BY <1>1, ContextAssumption DEF SceneArrives
  <2> QED
    BY <2>2, <2>3 DEF SceneInv
<1>2. CASE Tick \/ TelemetryArrives \/ FrameArrives \/ UNCHANGED vars
  BY <1>2 DEF Tick, TelemetryArrives, FrameArrives, vars, SceneInv
<1> QED
  BY <1>1, <1>2 DEF Next

\* The invariant of the scene holds in every reachable state.
LEMMA SceneInvHolds == Spec => []SceneInv
<1>1. Init => SceneInv
  BY DEF Init, SceneInv
<1> QED
  BY <1>1, SceneStep, PTL DEF Spec

\* No scene shows a class the operator did not ask for, whatever names the filter
\* holds: an empty set of ids would turn it off in detect(), but no detector is
\* built with one unless no name was asked for (detectors.py:113-124, 137-138).
THEOREM FilterIsKept == Spec => []FilterKept
<1>1. SceneInv => FilterKept
  <2> SUFFICES ASSUME SceneInv, scene # NoScene, classes # {} PROVE scene.label \in classes
    BY DEF FilterKept
  <2>1. PICK k \in Asked(Wanted(classes)) : scene.label = Names[k]
    BY DEF SceneInv
  <2>2. Wanted(classes) # {}
    BY DEF SceneInv, Refused
  <2>3. k \in Wanted(classes)
    BY <2>1, <2>2 DEF Asked
  <2> QED
    BY <2>1, <2>3 DEF Wanted
<1> QED
  BY <1>1, SceneInvHolds, PTL

\* For every image and every box, over whatever edge it hangs: a depth is the
\* median of the measured pixels within the box and of nothing else, it is given
\* exactly when there are some, and it is never 0 (detectors.py:42-59).
THEOREM DepthIsOfTheBox == Spec => []DepthIsMeasured
<1>1. SceneInv => DepthIsMeasured
  <2> SUFFICES ASSUME SceneInv, scene # NoScene
               PROVE  /\ IsDepthOf(scene.of.depth, scene.image, scene.scaled, scene.box)
                      /\ scene.of.ray \in {NoRay,
                             <<2 * scene.box.x + scene.box.w, 2 * scene.box.y + scene.box.h>>}
                      /\ scene.of.depth = Unmeasured => scene.of.ray = NoRay
    BY DEF DepthIsMeasured
  <2> DEFINE image == scene.image
             box == scene.box
             measured == {p \in Patch(box) : image[p] > 0}
  <2>1. PICK calibrated \in BOOLEAN : scene.of = DepthAndRay(image, scene.scaled, calibrated, box)
    BY DEF SceneInv
  <2>2. image \in Images /\ box \in [x : Int, w : Nat, y : Int, h : Nat]
    BY ContextAssumption DEF SceneInv
  <2>3. /\ measured = Measured(image, box) /\ IsFiniteSet(measured)
        /\ \A p \in measured : image[p] \in Nat \ {0}
    BY <2>2, PatchIsWithin
  <2> HIDE DEF measured
  <2>4. /\ scene.of.depth = IF scene.scaled /\ measured # {} THEN MedianTwice(image, measured)
                                                             ELSE Unmeasured
        /\ scene.of.ray = IF scene.scaled /\ measured # {} /\ calibrated
                          THEN <<2 * box.x + box.w, 2 * box.y + box.h>> ELSE NoRay
    BY <2>1 DEF DepthAndRay, measured
  <2>5. CASE ~ (scene.scaled /\ measured # {})
    BY <2>3, <2>4, <2>5 DEF IsDepthOf, Measured
  <2>6. CASE scene.scaled /\ measured # {}
    <3>1. Splits(scene.of.depth, image, measured)
      BY <2>3, <2>4, <2>6, MedianSplits
    <3>2. IsDepthOf(scene.of.depth, scene.image, scene.scaled, scene.box)
      BY <2>3, <2>6, <3>1 DEF IsDepthOf, Measured, Unmeasured, Splits
    <3> QED
      BY <2>4, <2>6, <3>1, <3>2 DEF Unmeasured, Splits
  <2> QED
    BY <2>5, <2>6
<1> QED
  BY <1>1, SceneInvHolds, PTL

-----------------------------------------------------------------------------
(* The history of the telemetry. *)

\* The samples of the history came one after the other, the last of them being
\* the latest, and the oldest is within the configured span of the latest.
Story(told, last) ==
    /\ told = <<>> => last = 0
    /\ \A i \in DOMAIN told : told[i].n = last - Len(told) + i
    /\ \A i, j \in DOMAIN told : i < j => told[i].at <= told[j].at
    /\ \A i, j \in DOMAIN told : told[j].at - told[i].at <= HistorySpan

Samples(last, time) == [n : 1 .. last, at : 0 .. time]

HistoryInv ==
    /\ now \in 0 .. MaxNow /\ classes \in ClassConfigs
    /\ samples \in 0 .. MaxSamples /\ latest = samples
    /\ history \in Seq(Samples(samples, now)) /\ Story(history, latest)
    /\ frameTime \in {Never} \cup 0 .. now

\* What is left of an ordered history when it is pruned is its end, and the
\* sample that came now is part of it.
LEMMA PrunedIsEnd ==
    ASSUME NEW T, T \subseteq [n : Nat, at : Nat], NEW kept \in Seq(T), now \in Nat,
           kept # <<>>, kept[Len(kept)].at = now,
           \A i, j \in DOMAIN kept : i < j => kept[i].at <= kept[j].at
    PROVE  \E a \in 1 .. Len(kept) :
              /\ Pruned(kept) = SubSeq(kept, a, Len(kept))
              /\ \A i \in a .. Len(kept) : kept[i].at >= now - HistorySpan
<1> DEFINE m == Len(kept)
           P == {i \in DOMAIN kept : kept[i].at >= now - HistorySpan}
<1>1. /\ m \in Nat \ {0} /\ DOMAIN kept = 1 .. m /\ HistorySpan \in Nat
      /\ \A i \in 1 .. m : kept[i].at \in Nat
  <2>1. m \in Nat /\ DOMAIN kept = 1 .. m /\ \A i \in 1 .. m : kept[i] \in T
    BY LenProperties, ElementOfSeq
  <2>2. m # 0
    BY EmptySeq
  <2> QED
    BY <2>1, <2>2, ContextAssumption
<1>2. m \in P
  BY <1>1
<1>3. P \subseteq Nat /\ P # {}
  BY <1>1, <1>2
<1>4. PICK a \in P : \A i \in P : a <= i
  BY <1>3, Least
<1>5. P = a .. m
  <2>1. P \subseteq a .. m
    BY <1>1, <1>4
  <2>2. ASSUME NEW i \in a .. m PROVE i \in P
    <3>1. i \in 1 .. m /\ a \in 1 .. m /\ kept[a].at >= now - HistorySpan
      BY <1>1, <1>4
    <3>2. i = a \/ a < i
      OBVIOUS
    <3>3. kept[a].at <= kept[i].at
      BY <1>1, <3>1, <3>2
    <3> QED
      BY <1>1, <3>1, <3>3
  <2> QED
    BY <2>1, <2>2
<1>6. Pruned(kept) = Only(kept, P)
  BY DEF Pruned
<1>7. a \in 1 .. m /\ a \in 1 .. (Len(kept) + 1)
  BY <1>1, <1>4
<1>8. \A i \in a .. m : kept[i].at >= now - HistorySpan
  BY <1>5
<1> HIDE DEF P
<1>9. Pruned(kept) = SubSeq(kept, a, Len(kept))
  BY <1>5, <1>6, <1>7, OnlySuffix
<1> QED
  BY <1>7, <1>8, <1>9

\* A sample that arrives continues the story.
LEMMA SampleContinues ==
    ASSUME HistoryInv, TelemetryArrives
    PROVE  HistoryInv'
<1> DEFINE x == [n |-> samples + 1, at |-> now]
           kept == Append(history, x)
           T == Samples(samples + 1, now)
           l == Len(history)
<1>1. /\ samples < MaxSamples /\ samples' = samples + 1 /\ latest' = samples + 1
      /\ history' = Pruned(kept) /\ UNCHANGED <<now, classes, frameTime>>
  BY DEF TelemetryArrives
<1>2. /\ samples \in Nat /\ now \in Nat /\ latest = samples /\ samples + 1 \in 0 .. MaxSamples
      /\ HistorySpan \in Nat /\ Story(history, samples)
  BY <1>1, ContextAssumption DEF HistoryInv
<1>3. T \subseteq [n : Nat, at : Nat] /\ x \in T /\ Samples(samples, now) \subseteq T
  BY <1>2 DEF Samples
<1> HIDE DEF T, x
<1>4. history \in Seq(T)
  BY <1>3, SeqMonotonic DEF HistoryInv
<1>5. /\ kept \in Seq(T) /\ Len(kept) = l + 1 /\ l \in Nat
      /\ DOMAIN kept = 1 .. (l + 1) /\ DOMAIN history = 1 .. l
      /\ \A i \in 1 .. l : kept[i] = history[i]
      /\ kept[l + 1] = x
  BY <1>3, <1>4, AppendProperties, LenProperties
<1> HIDE DEF kept, l
<1>6. x.n = samples + 1 /\ x.at = now
  BY DEF x
<1>7. \A i \in 1 .. l : history[i].at \in 0 .. now
  <2>1. \A i \in 1 .. l : history[i] \in Samples(samples, now)
    BY <1>5, ElementOfSeq DEF HistoryInv, l
  <2> QED
    BY <2>1 DEF Samples
<1>8. \A i \in 1 .. (l + 1) : kept[i].at \in 0 .. now /\ kept[i].n = samples - l + i
  <2> SUFFICES ASSUME NEW i \in 1 .. (l + 1)
               PROVE  kept[i].at \in 0 .. now /\ kept[i].n = samples - l + i
    OBVIOUS
  <2>1. CASE i = l + 1
    BY <1>2, <1>5, <1>6, <2>1
  <2>2. CASE i # l + 1
    <3>1. i \in 1 .. l
      BY <1>5, <2>2
    <3>2. history[i].n = samples - l + i
      BY <1>2, <1>5, <3>1 DEF Story, l
    <3> QED
      BY <1>5, <1>7, <3>1, <3>2
  <2> QED
    BY <2>1, <2>2
<1>9. \A i, j \in 1 .. (l + 1) : i < j => kept[i].at <= kept[j].at
  <2> SUFFICES ASSUME NEW i \in 1 .. (l + 1), NEW j \in 1 .. (l + 1), i < j
               PROVE  kept[i].at <= kept[j].at
    OBVIOUS
  <2>1. i \in 1 .. l
    BY <1>5
  <2>2. CASE j = l + 1
    BY <1>2, <1>5, <1>6, <1>8, <2>2
  <2>3. CASE j # l + 1
    <3>1. j \in 1 .. l
      BY <1>5, <2>3
    <3>2. history[i].at <= history[j].at
      BY <1>2, <1>5, <2>1, <3>1 DEF Story
    <3> QED
      BY <1>5, <2>1, <3>1, <3>2
  <2> QED
    BY <2>2, <2>3
<1>10. PICK a \in 1 .. (l + 1) :
          /\ Pruned(kept) = SubSeq(kept, a, l + 1)
          /\ \A i \in a .. (l + 1) : kept[i].at >= now - HistorySpan
  <2>1. kept # <<>> /\ kept[Len(kept)].at = now
    BY <1>5, <1>6, EmptySeq
  <2>2. \A i, j \in DOMAIN kept : i < j => kept[i].at <= kept[j].at
    BY <1>5, <1>9
  <2> QED
    BY <1>2, <1>3, <1>5, <2>1, <2>2, PrunedIsEnd
<1> DEFINE q == l + 1 - a + 1
<1>11. /\ history' \in Seq(T) /\ Len(history') = q /\ q \in Nat \ {0}
       /\ \A i \in 1 .. q : history'[i] = kept[a + i - 1]
  <2> DEFINE m == l + 1
  <2>1. a \in Int /\ m \in Int /\ a <= m /\ \A i \in a .. m : kept[i] \in T
    BY <1>5, ElementOfSeq
  <2>2. history' = SubSeq(kept, a, m) /\ q = m - a + 1
    BY <1>1, <1>5, <1>10
  <2> HIDE DEF m, q
  <2>3. /\ history' \in Seq(T) /\ Len(history') = m - a + 1
        /\ \A i \in 1 .. (m - a + 1) : history'[i] = kept[a + i - 1]
    BY <2>1, <2>2, SubSeqProperties
  <2>4. m - a + 1 \in Nat \ {0}
    BY <2>1
  <2> QED
    BY <2>2, <2>3, <2>4
<1>12. DOMAIN history' = 1 .. q
  BY <1>11, LenProperties
<1>13. \A i \in 1 .. q : a + i - 1 \in a .. (l + 1) /\ a + i - 1 \in 1 .. (l + 1)
  BY <1>5
<1> HIDE DEF q
<1>14. Story(history', samples + 1)
  <2>1. history' # <<>>
    BY <1>11, EmptySeq
  <2>2. \A i \in 1 .. q : history'[i].n = samples + 1 - q + i
    BY <1>2, <1>5, <1>8, <1>11, <1>13 DEF q
  <2>3. \A i, j \in 1 .. q : i < j => history'[i].at <= history'[j].at
    <3> SUFFICES ASSUME NEW i \in 1 .. q, NEW j \in 1 .. q, i < j
                 PROVE  history'[i].at <= history'[j].at
      OBVIOUS
    <3>1. a + i - 1 < a + j - 1
      BY <1>5, <1>11
    <3> QED
      BY <1>9, <1>11, <1>13, <3>1
  <2>4. \A i, j \in 1 .. q : history'[j].at - history'[i].at <= HistorySpan
    <3> SUFFICES ASSUME NEW i \in 1 .. q, NEW j \in 1 .. q
                 PROVE  history'[j].at - history'[i].at <= HistorySpan
      OBVIOUS
    <3>1. kept[a + j - 1].at \in 0 .. now /\ kept[a + i - 1].at \in 0 .. now
      BY <1>8, <1>13
    <3>2. kept[a + i - 1].at >= now - HistorySpan
      BY <1>10, <1>13
    <3>3. history'[i] = kept[a + i - 1] /\ history'[j] = kept[a + j - 1]
      BY <1>11
    <3> QED
      BY <1>2, <3>1, <3>2, <3>3
  <2>5. \A i \in DOMAIN history' : history'[i].n = (samples + 1) - Len(history') + i
    BY <1>2, <1>11, <1>12, <2>2
  <2>6. /\ \A i, j \in DOMAIN history' : i < j => history'[i].at <= history'[j].at
        /\ \A i, j \in DOMAIN history' : history'[j].at - history'[i].at <= HistorySpan
    BY <1>12, <2>3, <2>4
  <2>7. history' = <<>> => samples + 1 = 0
    BY <2>1
  <2> QED
    BY <2>5, <2>6, <2>7 DEF Story
<1>15. history' \in Seq(Samples(samples', now'))
  BY <1>1, <1>11 DEF T
<1> QED
  BY <1>1, <1>2, <1>14, <1>15 DEF HistoryInv

\* Every step keeps the story.
LEMMA HistoryStep == HistoryInv /\ [Next]_vars => HistoryInv'
<1> SUFFICES ASSUME HistoryInv, [Next]_vars PROVE HistoryInv'
  OBVIOUS
<1>1. CASE Tick
  <2>1. /\ now < MaxNow /\ now' = now + 1
        /\ UNCHANGED <<classes, samples, latest, history, frameTime>>
    BY <1>1 DEF Tick
  <2>2. now \in Nat /\ MaxNow \in Nat /\ samples \in Nat
    BY ContextAssumption DEF HistoryInv
  <2>3. Samples(samples, now) \subseteq Samples(samples, now')
    BY <2>1, <2>2 DEF Samples
  <2>4. history' \in Seq(Samples(samples', now'))
    BY <2>1, <2>3, SeqMonotonic DEF HistoryInv
  <2> QED
    BY <2>1, <2>2, <2>4 DEF HistoryInv
<1>2. CASE SceneArrives \/ UNCHANGED vars
  BY <1>2 DEF SceneArrives, vars, HistoryInv
<1>3. CASE FrameArrives
  <2>1. now \in 0 .. now
    BY ContextAssumption DEF HistoryInv
  <2> QED
    BY <1>3, <2>1 DEF FrameArrives, HistoryInv
<1> QED
  BY <1>1, <1>2, <1>3, SampleContinues DEF Next

\* The story holds in every reachable state.
LEMMA HistoryInvHolds == Spec => []HistoryInv
<1>1. Init => HistoryInv
  <2> SUFFICES ASSUME Init PROVE HistoryInv
    OBVIOUS
  <2>1. <<>> \in Seq(Samples(samples, now)) /\ DOMAIN <<>> = {}
    BY EmptySeq
  <2> QED
    BY <2>1, ContextAssumption DEF Init, HistoryInv, Story
<1> QED
  BY <1>1, HistoryStep, PTL DEF Spec

\* The types of the context (main.py:261-309, 516-540).
THEOREM ContextTypes == Spec => []TypeOK
<1>1. SceneInv /\ HistoryInv => TypeOK
  <2> SUFFICES ASSUME SceneInv, HistoryInv PROVE TypeOK
    OBVIOUS
  <2>1. samples \in Nat
    BY ContextAssumption DEF HistoryInv
  <2>2. Asked(Wanted(classes)) \subseteq DOMAIN Names
    BY DEF Asked, Wanted
  <2>3. latest \in 0 .. samples /\ history \in Seq([n : 1..samples, at : 0..now])
    BY <2>1 DEF HistoryInv, Samples
  <2>4. \A i \in DOMAIN history : Last(history).at - history[i].at <= HistorySpan
    <3> SUFFICES ASSUME NEW i \in DOMAIN history
                 PROVE  Last(history).at - history[i].at <= HistorySpan
      OBVIOUS
    <3>1. Len(history) \in DOMAIN history
      BY LenProperties DEF HistoryInv
    <3> QED
      BY <3>1 DEF HistoryInv, Story, Last
  <2> QED
    BY <2>2, <2>3, <2>4 DEF SceneInv, HistoryInv, TypeOK
<1> QED
  BY <1>1, SceneInvHolds, HistoryInvHolds, PTL

-----------------------------------------------------------------------------
(* The trend. *)

\* Of n samples the trend takes fewer than ten, the first, and the last or one
\* less than a step before it.
LEMMA TrendCounts ==
    ASSUME NEW n \in Nat
    PROVE  LET step == Step(n)
               count == (n + step - 1) \div step
           IN  /\ step \in Nat \ {0} /\ count \in 0 .. 9
               /\ n = 0 => count = 0
               /\ n > 0 => count > 0 /\ n - ((count - 1) * step + 1) \in 0 .. (step - 1)
<1> DEFINE step == Step(n)
           m == n + step - 1
           count == m \div step
<1>1. /\ step \in Nat \ {0}
      /\ n <= 5 => step = 1
      /\ n > 5 => 5 * step <= n /\ n <= 5 * step + 4
  BY DEF Step
<1>2. m \in Nat /\ m = n + step - 1
  BY <1>1
<1> HIDE DEF step, m
<1>3. count \in Nat /\ m = count * step + (m % step) /\ m % step \in 0 .. (step - 1)
  BY <1>1, <1>2, SMT
<1> HIDE DEF count
<1>4. count * step \in Nat /\ (count - 1) * step = count * step - step
  BY <1>1, <1>3, SMT
<1>5. count <= 9
  <2>1. CASE n <= 5
    <3>1. count * 1 <= 5
      BY <1>1, <1>2, <1>3, <2>1
    <3> QED
      BY <1>3, <3>1
  <2>2. CASE n > 5
    <3>1. count >= 10 => count * step >= 10 * step
      <4>1. (count - 10) \in Int /\ count * step = (count - 10) * step + 10 * step
        BY <1>1, <1>3, SMT
      <4>2. count >= 10 => (count - 10) * step >= 0
        BY <1>1, <1>3, SMT
      <4> QED
        BY <1>1, <1>3, <1>4, <4>1, <4>2
    <3>2. count * step <= 6 * step + 3
      BY <1>1, <1>2, <1>3, <1>4, <2>2
    <3> QED
      BY <1>1, <1>3, <1>4, <3>1, <3>2
  <2> QED
    BY <2>1, <2>2
<1>6. ASSUME n = 0 PROVE count = 0
  <2>1. count >= 1 => count * step >= step
    BY <1>1, <1>3, SMT
  <2>2. count * step < step
    BY <1>1, <1>2, <1>3, <1>4, <1>6
  <2> QED
    BY <1>1, <1>3, <1>4, <2>1, <2>2
<1>7. ASSUME n > 0
      PROVE  count > 0 /\ n - ((count - 1) * step + 1) \in 0 .. (step - 1)
  <2>1. count # 0
    <3>1. count = 0 => count * step = 0
      BY <1>1
    <3> QED
      BY <1>1, <1>2, <1>3, <1>4, <1>7, <3>1
  <2>2. count * step <= n + step - 1 /\ n + step - 1 <= count * step + step - 1
    BY <1>1, <1>2, <1>3, <1>4
  <2> QED
    BY <1>1, <1>3, <1>4, <2>1, <2>2
<1>8. /\ step \in Nat \ {0} /\ count \in 0 .. 9
      /\ n = 0 => count = 0
      /\ n > 0 => count > 0 /\ n - ((count - 1) * step + 1) \in 0 .. (step - 1)
  BY <1>1, <1>3, <1>5, <1>6, <1>7
<1>9. step = Step(n) /\ count = (n + step - 1) \div step
  BY DEF step, m, count
<1> QED
  BY <1>8, <1>9, Zenon

\* The entries of the trend go forward through the samples.
LEMMA TrendRises ==
    ASSUME NEW step \in Nat \ {0}, NEW i \in Nat, NEW j \in Nat, i < j
    PROVE  i * step + step <= j * step
<1>1. j - i >= 1 => (j - i) * step >= step
  BY SMT
<1>2. (j - i) * step = j * step - i * step
  BY SMT
<1>3. i * step \in Int /\ j * step \in Int
  BY SMT
<1> QED
  BY <1>1, <1>2, <1>3

\* The telemetry of a prompt is one story, however the samples came: the trend
\* goes forward, within the configured seconds, from the oldest sample kept to less
\* than an interval before the one shown as now
\* (main.py:276-297, vlm_gemini.py:135-143).
THEOREM PromptIsOneStory == Spec => []PromptConsistent
<1>1. HistoryInv => PromptConsistent
  <2> SUFFICES ASSUME HistoryInv PROVE PromptConsistent
    OBVIOUS
  <2> DEFINE n == Len(history)
             step == Step(n)
             count == (n + step - 1) \div step
             trend == Trend(history)
             at(i) == (i - 1) * step + 1
  <2>1. /\ history \in Seq(Samples(samples, now)) /\ Story(history, latest)
        /\ n \in Nat /\ DOMAIN history = 1 .. n /\ latest \in Nat /\ HistorySpan \in Nat
        /\ \A i \in 1 .. n : history[i].at \in Nat
    <3>1. history \in Seq(Samples(samples, now)) /\ n \in Nat /\ DOMAIN history = 1 .. n
      BY LenProperties DEF HistoryInv
    <3>2. \A i \in 1 .. n : history[i] \in Samples(samples, now)
      BY <3>1, ElementOfSeq
    <3> QED
      BY <3>1, <3>2, ContextAssumption DEF HistoryInv, Samples
  <2>2. /\ step \in Nat \ {0} /\ count \in 0 .. 9
        /\ n = 0 => count = 0
        /\ n > 0 => count > 0 /\ n - at(count) \in 0 .. (step - 1)
    <3> HIDE DEF n
    <3> QED
      BY <2>1, TrendCounts
  <2>3. trend = [i \in 1 .. count |-> history[at(i)]]
    BY DEF Trend
  <2>4. Prompt.trend = trend /\ Prompt.telemetry = latest
    BY DEF Prompt
  <2> HIDE DEF step, count, trend
  <2>5. ASSUME NEW i \in 1 .. count PROVE at(i) \in 1 .. n
    <3>1. count > 0 /\ n > 0 /\ at(count) \in Int /\ at(count) <= n
      BY <2>1, <2>2
    <3>2. at(i) <= at(count)
      <4>1. CASE i = count
        BY <3>1, <4>1
      <4>2. CASE i # count
        <5>1. i - 1 \in Nat /\ count - 1 \in Nat /\ i - 1 < count - 1
          BY <2>2, <4>2
        <5>2. (i - 1) * step + step <= (count - 1) * step
          BY <2>2, <5>1, TrendRises
        <5>3. (i - 1) * step \in Int /\ (count - 1) * step \in Int
          BY <2>2, <5>1, SMT
        <5> QED
          BY <2>2, <5>2, <5>3
      <4> QED
        BY <4>1, <4>2
    <3>3. (i - 1) * step \in Nat
      <4>1. i - 1 \in Nat
        BY <2>2
      <4> QED
        BY <2>2, <4>1, SMT
    <3> QED
      BY <2>1, <3>1, <3>2, <3>3
  <2>6. ASSUME NEW i \in 1 .. count, NEW j \in 1 .. count, i < j PROVE at(i) < at(j)
    <3>1. i - 1 \in Nat /\ j - 1 \in Nat /\ i - 1 < j - 1
      BY <2>2, <2>6
    <3>2. (i - 1) * step + step <= (j - 1) * step
      BY <2>2, <3>1, TrendRises
    <3>3. (i - 1) * step \in Int /\ (j - 1) * step \in Int
      BY <2>2, <3>1, SMT
    <3> QED
      BY <2>2, <3>2, <3>3
  <2> HIDE DEF at
  <2>7. DOMAIN trend = 1 .. count /\ Len(trend) = count
    BY <2>2, <2>3
  <2>8. latest = (IF history = <<>> THEN 0 ELSE Last(history).n)
    <3>1. CASE history = <<>>
      BY <2>1, <3>1 DEF Story
    <3>2. CASE history # <<>>
      <4>1. n \in 1 .. n
        BY <2>1, <3>2, EmptySeq
      <4>2. history[n].n = latest - n + n
        BY <2>1, <4>1 DEF Story
      <4> QED
        BY <2>1, <3>2, <4>2 DEF Last
    <3> QED
      BY <3>1, <3>2
  <2>9. history # <<>> => trend # <<>> /\ Head(trend) = Head(history)
    <3> SUFFICES ASSUME history # <<>> PROVE trend # <<>> /\ Head(trend) = Head(history)
      OBVIOUS
    <3>1. n > 0
      BY <2>1, EmptySeq
    <3>2. 1 \in 1 .. count /\ at(1) = 1
      <4>1. (1 - 1) * step = 0
        BY <2>2
      <4> QED
        BY <2>2, <3>1, <4>1 DEF at
    <3>3. trend[1] = history[1]
      BY <2>3, <3>2
    <3>4. trend # <<>>
      BY <2>7, <3>2, EmptySeq
    <3> QED
      BY <3>3, <3>4
  <2>10. Len(trend) < 10
    BY <2>2, <2>7
  <2>11. ASSUME NEW i \in DOMAIN trend, NEW j \in DOMAIN trend, i < j
         PROVE  /\ trend[i].n < trend[j].n
                /\ trend[j].at - trend[i].at \in 0 .. HistorySpan
    <3>1. i \in 1 .. count /\ j \in 1 .. count
      BY <2>7
    <3>2. at(i) \in 1 .. n /\ at(j) \in 1 .. n /\ at(i) < at(j)
      BY <2>5, <2>6, <2>11, <3>1
    <3>3. trend[i] = history[at(i)] /\ trend[j] = history[at(j)]
      BY <2>3, <3>1
    <3>4. /\ history[at(i)].n = latest - n + at(i) /\ history[at(j)].n = latest - n + at(j)
          /\ history[at(i)].at <= history[at(j)].at
          /\ history[at(j)].at - history[at(i)].at <= HistorySpan
      BY <2>1, <3>2 DEF Story
    <3> QED
      BY <2>1, <3>2, <3>3, <3>4
  <2>12. trend # <<>> => latest - Last(trend).n < step
    <3> SUFFICES ASSUME trend # <<>> PROVE latest - Last(trend).n < step
      OBVIOUS
    <3>1. count > 0
      <4>1. count = 0 => trend = <<>>
        BY <2>3
      <4> QED
        BY <2>2, <4>1
    <3>2. n > 0 /\ count \in 1 .. count /\ at(count) \in 1 .. n
      BY <2>1, <2>2, <2>5, <3>1
    <3>3. Last(trend) = history[at(count)]
      BY <2>3, <2>7, <3>2 DEF Last
    <3>4. history[at(count)].n = latest - n + at(count)
      BY <2>1, <3>2 DEF Story
    <3> QED
      BY <2>1, <2>2, <3>2, <3>3, <3>4
  <2> QED
    BY <2>4, <2>8, <2>9, <2>10, <2>11, <2>12 DEF PromptConsistent, step
<1> QED
  BY <1>1, HistoryInvHolds, PTL
=============================================================================
