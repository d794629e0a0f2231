------------------------------- MODULE Masks -------------------------------
(***************************************************************************)
(* What is computed on painted masks: growing and shrinking by running     *)
(* extrema (morphology.rs), means over boxes by prefix sums                *)
(* (guided_filter.rs), the feathering blur inside a bounding box           *)
(* (postprocess.rs), and the regions an erase runs on (inpaint_sd.rs).     *)
(* Each is held against what it stands for.  A pixel <<x, y>> is painted   *)
(* (1) or not (0); a mean is a number of Fine-ths, rounded down.  The      *)
(* blending of two whole shifts into a fractional one is left out.         *)
(***************************************************************************)
EXTENDS Integers, Sequences, FiniteSetsExt, Functions, Queues

CONSTANTS
    Shapes,   \* widths and heights of the masks
    Radii,    \* of the windows; 0 for a mask whose regions are looked for
    Fine,     \* how many units of a mean make up a painted pixel
    MaxFree   \* bound on the pixels that are painted in every way

ASSUME MasksAssumption ==
    /\ Shapes \subseteq (Nat \ {0}) \X (Nat \ {0}) /\ Radii \subseteq Nat
    /\ {Fine, MaxFree} \subseteq Nat

VARIABLES
    wide, tall, ink,   \* the mask
    radius,
    passes, whole, buf,   \* box_blur: passes made over the whole mask, and over its crop
    visited, frontier, \* mask_components: indices it has seen, its queue
    box, regions       \* the bounding box in the making, and those made

maskVars == <<wide, tall, ink, radius, passes, whole, buf, visited, frontier, box, regions>>

Area(w, h) == (0 .. w - 1) \X (0 .. h - 1)
Pixels     == Area(wide, tall)
Painted    == {p \in Pixels : ink[p] = 1}

\* All masks of a small shape; on a larger one those with two painted pixels at
\* most, enough for sums, which are linear.
Inks(w, h) == LET area == Area(w, h)
              IN  IF w * h <= MaxFree THEN [area -> {0, 1}]
                  ELSE {[p \in area |-> IF p \in dots THEN 1 ELSE 0] : dots \in kSubset(2, area) \cup kSubset(1, area)}

----------------------------------------------------------------------------
(* Running extrema: window_line, taps; shift_by, dilate_round              *)

Greatest(S) == Max(S)
Smallest(S) == Min(S)
Extreme(pick, S) == IF pick = "max" THEN Greatest(S) ELSE Smallest(S)

\* The extremum from the start of i's block of 2r + 1 to i, and from i to its end.
Prefix(f, n, r, pick, i) == LET k == 2 * r + 1 IN Extreme(pick, {f[j] : j \in (i - (i % k)) .. i})
Suffix(f, n, r, pick, i) == LET k == 2 * r + 1 IN Extreme(pick, {f[j] : j \in i .. Lesser(i - (i % k) + k - 1, n - 1)})

\* The suffix and the prefix that make up the window around i.
Taps(i, n, r) ==
    LET last == n - 1
        k    == 2 * r + 1
    IN  IF i < r THEN [suffix |-> {}, prefix |-> {Lesser(i + r, last)}]
        ELSE IF i + r <= last THEN [suffix |-> {i - r}, prefix |-> {i + r}]
        ELSE IF (i - r) \div k = last \div k THEN [suffix |-> {i - r}, prefix |-> {}]
        ELSE [suffix |-> {i - r}, prefix |-> {last}]

\* window_line, on the line f of n pixels.
WindowLine(f, n, r, pick) ==
    [i \in 0 .. n - 1 |->
        LET taps == Taps(i, n, r)
        IN  Extreme(pick, {Suffix(f, n, r, pick, j) : j \in taps.suffix} \cup {Prefix(f, n, r, pick, j) : j \in taps.prefix})]

RowOf(f, w, y) == [x \in 0 .. w - 1 |-> f[<<x, y>>]]
ColumnOf(f, h, x) == [y \in 0 .. h - 1 |-> f[<<x, y>>]]

\* shift_by: the rows' windows, then the columns' windows of those.
Shifted(pick) ==
    LET rows == [y \in 0 .. tall - 1 |-> WindowLine(RowOf(ink, wide, y), wide, radius, pick)]
        Column(x) == WindowLine([y \in 0 .. tall - 1 |-> rows[y][x]], tall, radius, pick)
    IN  [p \in Pixels |-> Column(p[1])[p[2]]]

\* dilate_round: the rows as far as the disc reaches up and down, each with the
\* window that the disc leaves there.
HalfWidth(dy) == Greatest({m \in 0 .. radius : m * m <= radius * radius + radius - dy * dy})
Rounded ==
    LET Rows(y, dy) == {y - dy, y + dy} \cap (0 .. tall - 1)
        Merged(y, dy) == [x \in 0 .. wide - 1 |-> Greatest({ink[<<x, v>>] : v \in Rows(y, dy)})]
        Reached(p) == {dy \in 0 .. radius : Rows(p[2], dy) # {}}
    IN  [p \in Pixels |->
            Greatest({WindowLine(Merged(p[2], dy), wide, HalfWidth(dy), "max")[p[1]] : dy \in Reached(p)})]

----------------------------------------------------------------------------
(* Means over boxes: box_filter_into                                       *)

Integral(f) ==
    LET across[p \in DOMAIN f] == f[p] + (IF p[1] = 0 THEN 0 ELSE across[<<p[1] - 1, p[2]>>])
        down[p \in DOMAIN f]   == across[p] + (IF p[2] = 0 THEN 0 ELSE down[<<p[1], p[2] - 1>>])
    IN  down

BoxFilter(f, w, h) ==
    LET r == radius
        sums == Integral(f)
        Get(x, y) == IF x < 0 \/ y < 0 THEN 0 ELSE sums[<<Lesser(x, w - 1), Lesser(y, h - 1)>>]
        Between(x1, y1, x2, y2) == Get(x2, y2) - Get(x1, y2) - Get(x2, y1) + Get(x1, y1)
        Unguarded(x1, y1, x2, y2) == sums[<<x2, y2>>] - sums[<<x1, y2>>] - sums[<<x2, y1>>] + sums[<<x1, y1>>]
        Before(v)   == IF v - r - 1 < -1 THEN -1 ELSE v - r - 1
        Until(v, n) == Lesser(v + r, n - 1)
        Interior(x, y) == y > r /\ y < h - r /\ x >= r + 1 /\ x < w - r
        Mean(x, y) ==
            IF Interior(x, y)
            THEN (Unguarded(x - r - 1, y - r - 1, x + r, y + r) * Fine) \div ((2 * r + 1) * (2 * r + 1))
            ELSE (Between(Before(x), Before(y), Until(x, w), Until(y, h)) * Fine)
                     \div ((Until(x, w) - Before(x)) * (Until(y, h) - Before(y)))
    IN  [p \in Area(w, h) |-> Mean(p[1], p[2])]

----------------------------------------------------------------------------
(* The blur inside a bounding box: mask_bbox, box_blur                     *)

\* mask_bbox: the painted pixels' box, `margin` larger on each side, inside the image.
Outline(margin) ==
    LET xs == {p[1] : p \in Painted}
        ys == {p[2] : p \in Painted}
        Low(v) == IF v < margin THEN 0 ELSE v - margin
    IN  [x1 |-> Low(Smallest(xs)), y1 |-> Low(Smallest(ys)),
         x2 |-> Lesser(Greatest(xs) + margin + 1, wide), y2 |-> Lesser(Greatest(ys) + margin + 1, tall)]

CropBox    == Outline(3 * radius)
CropW   == CropBox.x2 - CropBox.x1
CropH   == CropBox.y2 - CropBox.y1
Cropped == [p \in Area(CropW, CropH) |-> ink[<<CropBox.x1 + p[1], CropBox.y1 + p[2]>>]]

\* One of the three passes of box_blur; `whole` is the blur of the whole mask that
\* it says it equals.
Pass ==
    /\ radius > 0 /\ Painted # {} /\ passes < 3 /\ passes' = passes + 1
    /\ buf' = BoxFilter(IF passes = 0 THEN Cropped ELSE buf, CropW, CropH)
    /\ whole' = BoxFilter(IF passes = 0 THEN ink ELSE whole, wide, tall)
    /\ UNCHANGED <<wide, tall, ink, radius, visited, frontier, box, regions>>

----------------------------------------------------------------------------
(* The regions of an erase: mask_components                                *)

Outer == Outline(0)

\* The index of a pixel in `visited`, which is as large as the outer box.
LocalIdx(p) == (p[2] - Outer.y1) * (Outer.x2 - Outer.x1) + (p[1] - Outer.x1)
Unseen(p)   == ink[p] = 1 /\ LocalIdx(p) \notin visited

\* The scan comes to a painted pixel it has not seen.
Seed ==
    /\ radius = 0 /\ frontier = <<>>
    /\ \E p \in Painted :
        /\ Unseen(p)
        /\ \A q \in Painted : Unseen(q) => q[2] > p[2] \/ (q[2] = p[2] /\ q[1] >= p[1])
        /\ visited' = visited \cup {LocalIdx(p)} /\ frontier' = <<p>>
        /\ box' = [x1 |-> p[1], y1 |-> p[2], x2 |-> p[1], y2 |-> p[2]]
    /\ UNCHANGED <<wide, tall, ink, radius, passes, whole, buf, regions>>

\* push_if_unvisited, as far as the outer box goes.
PushIfUnvisited(q) ==
    IF q[1] \in Outer.x1 .. Outer.x2 - 1 /\ q[2] \in Outer.y1 .. Outer.y2 - 1 /\ Unseen(q) THEN <<q>> ELSE <<>>

\* Left, right, up and down.
Neighbours(p) ==
    PushIfUnvisited(<<p[1] - 1, p[2]>>) \o PushIfUnvisited(<<p[1] + 1, p[2]>>) \o PushIfUnvisited(<<p[1], p[2] - 1>>) \o PushIfUnvisited(<<p[1], p[2] + 1>>)

\* The head of the queue widens the box; its unseen neighbours are queued. With
\* the queue empty, the box is a region.
Visit ==
    /\ frontier # <<>>
    /\ LET p    == Head(frontier)
           more == Neighbours(p)
           wider == [x1 |-> Smallest({box.x1, p[1]}), y1 |-> Smallest({box.y1, p[2]}),
                     x2 |-> Greatest({box.x2, p[1]}), y2 |-> Greatest({box.y2, p[2]})]
       IN  /\ visited' = visited \cup {LocalIdx(q) : q \in Range(more)}
           /\ frontier' = Tail(frontier) \o more
           /\ box' = wider
           /\ regions' = IF frontier' = <<>> THEN Append(regions, wider) ELSE regions
    /\ UNCHANGED <<wide, tall, ink, radius, passes, whole, buf>>

MasksNext == Pass \/ Seed \/ Visit

MasksInit ==
    /\ \E shape \in Shapes : wide = shape[1] /\ tall = shape[2]
    /\ ink \in Inks(wide, tall) /\ radius \in Radii
    /\ passes = 0 /\ whole = <<>> /\ buf = <<>>
    /\ visited = {} /\ frontier = <<>> /\ regions = <<>>
    /\ box = [x1 |-> 0, y1 |-> 0, x2 |-> 0, y2 |-> 0]

----------------------------------------------------------------------------
(* Properties                                                              *)

Near(p, r)   == {q \in Pixels : q[1] \in p[1] - r .. p[1] + r /\ q[2] \in p[2] - r .. p[2] + r}
InDisc(p, r) == {q \in Pixels : LET dx == p[1] - q[1]  dy == p[2] - q[2]
                                IN  4 * (dx * dx + dy * dy) <= (2 * r + 1) * (2 * r + 1)}
Ink(S) == {ink[q] : q \in S}

\* Two passes of prefixes and suffixes give the extremum of the square around each
\* pixel (morphology.rs:8, "Output is bit-identical to the iterated form"), and the
\* windows of the rows that of the disc.
WindowsRight ==
    radius > 0 =>
        \A p \in Pixels :
            /\ Shifted("max")[p] = Greatest(Ink(Near(p, radius)))
            /\ Shifted("min")[p] = Smallest(Ink(Near(p, radius)))
            /\ Rounded[p] = Greatest(Ink(InDisc(p, radius)))

\* Prefix sums give the mean of the square around each pixel, on the fast path of
\* the interior as at the border.
MeansRight ==
    radius > 0 /\ passes = 0 =>
        LET means == BoxFilter(ink, wide, tall)
        IN  \A p \in Pixels :
                means[p] = (Cardinality(Near(p, radius) \cap Painted) * Fine) \div Cardinality(Near(p, radius))

\* The blur of the crop is that of the whole mask, and outside of it there is none
\* (postprocess.rs:638, "pixels outside [...] can't receive any weight"), except on
\* the last `radius` pixels before a side where the crop ends inside the image:
\* there the windows are cut short and the means come out too large, although the
\* comment goes on to say "Bit-exact output".
BlurRight ==
    passes = 3 =>
        \A p \in Pixels :
            LET x == p[1] - CropBox.x1
                y == p[2] - CropBox.y1
                Within(v, low, high, n, size) ==
                    (low = 0 \/ v >= radius) /\ (high = n \/ v < size - radius)
            IN  IF <<x, y>> \notin Area(CropW, CropH) THEN whole[p] = 0
                ELSE /\ buf[<<x, y>>] >= whole[p]
                     /\ Within(x, CropBox.x1, CropBox.x2, wide, CropW) /\ Within(y, CropBox.y1, CropBox.y2, tall, CropH)
                            => buf[<<x, y>>] = whole[p]

\* The painted pixels fall into the smallest sets that no step left, right, up or
\* down leads out of.
Closed(S) == \A p \in S, q \in Painted \ S : (p[1] - q[1]) * (p[1] - q[1]) + (p[2] - q[2]) * (p[2] - q[2]) # 1
Parted    == {S \in (SUBSET Painted) \ {{}} : Closed(S) /\ \A part \in (SUBSET S) \ {{}, S} : ~Closed(part)}
BoxOf(S)  == [x1 |-> Smallest({p[1] : p \in S}), y1 |-> Smallest({p[2] : p \in S}),
              x2 |-> Greatest({p[1] : p \in S}), y2 |-> Greatest({p[2] : p \in S})]

\* An erase runs once on the box of each of them, although `visited` only covers the
\* outer box and is indexed by its width.
RegionsRight ==
    radius = 0 /\ frontier = <<>> /\ (\A p \in Painted : ~Unseen(p)) =>
        LET parts == Parted
        IN  Len(regions) = Cardinality(parts) /\ Range(regions) = {BoxOf(S) : S \in parts}

MasksOK == WindowsRight /\ MeansRight /\ BlurRight /\ RegionsRight
=============================================================================
