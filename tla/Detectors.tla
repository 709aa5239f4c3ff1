----------------------------- MODULE Detectors -----------------------------
(***************************************************************************)
(* What a detection says: python/services/perception/detectors.py.         *)
(*                                                                         *)
(* A depth image is a function of column and row; 0 is no measurement.  A  *)
(* box is given in halves of a pixel, so that its edges fall on pixels and *)
(* between them.  The network itself is external: it returns boxes with    *)
(* the ids of their classes.                                               *)
(***************************************************************************)
EXTENDS Integers, FiniteSets

CONSTANTS
    Width, Height,  \* of the depth image
    Names           \* names of the model: the label of each class id

ASSUME DetectorAssumption ==
    /\ Width \in Nat \ {0} /\ Height \in Nat \ {0}
    /\ \A k, l \in DOMAIN Names : Names[k] = Names[l] => k = l

Images == [(0..(Width - 1)) \X (0..(Height - 1)) -> Nat]
Unmeasured == 0
NoRay == <<>>

----------------------------------------------------------------------------
\* int() of a number of halves.
Whole(halves) == IF halves >= 0 THEN halves \div 2 ELSE -((-halves) \div 2)

\* Mutant: a negative edge is left to the slice, which counts it from the end.
SliceOf(start, extent, size) ==
    LET low == Whole(start) % size
        high == Whole(start + extent)
    IN {i \in 0..(size - 1) : low <= i /\ i < high}

\* The pixels of one axis that a box covers, cut to the image.
Covered(start, extent, size) ==
    LET low == IF Whole(start) > 0 THEN Whole(start) ELSE 0
        high == IF Whole(start + extent) < size THEN Whole(start + extent) ELSE size
    IN low..(high - 1)

Patch(box) == Covered(box.x, box.w, Width) \X Covered(box.y, box.h, Height)

Below(image, pixels, z) == Cardinality({p \in pixels : image[p] < z})
UpTo(image, pixels, z) == Cardinality({p \in pixels : image[p] <= z})

\* The k-th of the pixels' values in ascending order.
Ranked(image, pixels, k) ==
    CHOOSE z \in {image[p] : p \in pixels} :
        Below(image, pixels, z) < k /\ k <= UpTo(image, pixels, z)

\* Twice the median of the pixels.
MedianTwice(image, pixels) ==
    LET n == Cardinality(pixels)
    IN Ranked(image, pixels, (n + 1) \div 2) + Ranked(image, pixels, (n + 2) \div 2)

\* _center_depth_and_xyz.  The ray of xyz goes through the centre of the whole
\* box, here in quarters of a pixel; it needs the focal lengths and the principal
\* point.
DepthAndRay(image, scaled, calibrated, box) ==
    LET measured == {p \in Patch(box) : image[p] > 0}
        known == scaled /\ measured # {}
    IN [depth |-> IF known THEN MedianTwice(image, measured) ELSE Unmeasured,
        ray |-> IF known /\ calibrated THEN <<2 * box.x + box.w, 2 * box.y + box.h>>
                                       ELSE NoRay]

----------------------------------------------------------------------------
\* The class filter: the ids of the names asked for; a name the model does not
\* know is ignored.
Wanted(classes) == {k \in DOMAIN Names : Names[k] \in classes}

\* Mutant: `wanted or None`, nothing left of the filter is no filter.
RefusedNever(classes) == FALSE

\* The detector is not built when names were asked for and none is left.
Refused(classes) == classes # {} /\ Wanted(classes) = {}

\* The ids the network is asked for: without a filter, and with an empty one,
\* which is as false as None, all of them.
Asked(filter) == IF filter = {} THEN DOMAIN Names ELSE filter

\* One box of what the network returns, as a detection, with what it was made of.
Detection(image, scaled, calibrated, box, k) ==
    [label |-> Names[k], box |-> box, of |-> DepthAndRay(image, scaled, calibrated, box),
     image |-> image, scaled |-> scaled]

----------------------------------------------------------------------------
\* What depth and ray should be, without truncation and clamping: a pixel belongs
\* to the box when its far corner does, and the median has half of the measured
\* pixels on either side.
Within(box, p) ==
    /\ box.x < 2 * p[1] + 2 /\ 2 * p[1] + 2 <= box.x + box.w
    /\ box.y < 2 * p[2] + 2 /\ 2 * p[2] + 2 <= box.y + box.h

IsDepthOf(depth, image, scaled, box) ==
    LET measured == {p \in DOMAIN image : image[p] > 0 /\ Within(box, p)}
        n == Cardinality(measured)
    IN IF ~scaled \/ measured = {} THEN depth = Unmeasured
       ELSE /\ depth # Unmeasured
            /\ 2 * Cardinality({p \in measured : 2 * image[p] <= depth}) >= n
            /\ 2 * Cardinality({p \in measured : 2 * image[p] >= depth}) >= n
=============================================================================
