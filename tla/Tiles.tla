------------------------------- MODULE Tiles -------------------------------
(***************************************************************************)
(* How an image, or a painted region of it, is cut into tiles and put      *)
(* together again: upscaling (upscale/tiling.rs), LaMa (inpaint.rs) and    *)
(* Stable Diffusion (inpaint_sd.rs).  Tiles are the product of one plan    *)
(* per axis, so one axis is enough; weights are kept as numerators over    *)
(* the width of the taper, and smoothstep, which is monotone and zero only *)
(* at zero, is left out.                                                   *)
(***************************************************************************)
EXTENDS Integers, Queues

CONSTANTS
    Side,      \* tile_size, TILE, SD_TILE
    Overlap,   \* of the upscaling and of the LaMa tiles
    Scale,     \* of the upscaling
    MaxSize    \* bound on the image

ASSUME TilesAssumption ==
    /\ {Side, Overlap, Scale, MaxSize} \subseteq Nat \ {0}
    /\ Side % 8 = 0 /\ Overlap \in 2 .. Side - 1

VARIABLES size, lo, hi   \* of the image, and of a painted region of it

tileVars == <<size, lo, hi>>

TilesInit == size \in 1 .. MaxSize /\ lo \in 0 .. size - 1 /\ hi \in lo .. size - 1

DivCeil(a, b) == (a + b - 1) \div b

\* The starts of a grid, and of the tile pulled back to the far end where the
\* grid does not reach it.
Reaching(grid) ==
    LET last == CHOOSE x \in grid : \A y \in grid : y <= x
    IN  grid \cup (IF last + Side < size THEN {size - Side} ELSE {})
Extent(x) == Lesser(Side, size - x)
Step == Side - Overlap

----------------------------------------------------------------------------
(* Upscaling: plan_upscale_tiles, blend_weight_sided                       *)

UpscaleStarts == Reaching({x \in 0 .. size - 1 : x % Step = 0})

Sided(q, edge, extent, low, high) ==
    Lesser(IF low /\ q < edge THEN q ELSE edge,
          IF high /\ q + edge >= extent THEN extent - q ELSE edge)

UpscaleWeight(x, q) ==
    Sided(q - x * Scale, Overlap * Scale, Extent(x) * Scale, x > 0, x + Extent(x) < size)

----------------------------------------------------------------------------
(* LaMa: plan_tiles, accumulate_tile, feather_weight                       *)

LamaStarts == Reaching({x \in 0 .. size - 1 : x % Step = 0 /\ (x = 0 \/ x + Side <= size)})
LamaWeight(x, p) == Lesser(Lesser(p - x, x + Extent(x) - 1 - p), Overlap)

----------------------------------------------------------------------------
(* Stable Diffusion: tile_count, tile_bbox, edge_alpha; crop_side,         *)
(* compute_sd_crop                                                         *)

SdOverlap == Side \div 4
Span == hi - lo + 1
WrongTileCount == IF Span <= Side THEN 1 ELSE (Span - Side) \div (Side - SdOverlap) + 1   \* rounded down
TileCount == IF Span <= Side THEN 1 ELSE DivCeil(Span - Side, Side - SdOverlap) + 1
SdStart(i) == Lesser(lo + i * (Side - SdOverlap), size - Lesser(Side, size))

\* The strength, out of SdOverlap, with which tile i replaces pixel p.
SdAlpha(i, p) ==
    LET at == p - SdStart(i)
    IN  Lesser(IF i > 0 THEN Lesser(at, SdOverlap) ELSE SdOverlap,
              IF i + 1 < TileCount THEN Lesser(Lesser(Side, size) - (at + 1), SdOverlap) ELSE SdOverlap)

\* One crop: the smallest side that covers the region, shrunk to the image,
\* around the region's middle, pulled inside the image.
CropSides == {s \in Side .. 2 * Side : s % (Side \div 2) = 0 /\ s >= Span}
Crop == Lesser(CHOOSE s \in CropSides : \A r \in CropSides : s <= r, size)
CropStart == LET middle == (lo + hi) \div 2
             IN  Lesser(middle - Lesser(middle, Crop \div 2), size - Crop)

----------------------------------------------------------------------------
(* Properties                                                              *)

UpscaleCovers ==
    \A q \in 0 .. size * Scale - 1 :
        \E x \in UpscaleStarts : q \in x * Scale .. (x + Extent(x)) * Scale - 1 /\ UpscaleWeight(x, q) > 0

LamaCovers ==
    \A p \in 1 .. size - 2 :
        \E x \in LamaStarts : p \in x .. x + Extent(x) - 1 /\ LamaWeight(x, p) > 0

SdCovers ==
    \A p \in lo .. hi :
        \E i \in 0 .. TileCount - 1 :
            /\ p \in SdStart(i) .. SdStart(i) + Lesser(Side, size) - 1
            /\ 2 * SdAlpha(i, p) >= SdOverlap

CropCovers ==
    CropSides # {} =>
        /\ CropStart + Crop <= size
        /\ CropStart <= lo
        /\ hi <= CropStart + Crop - (IF Span = Crop THEN 0 ELSE 1)

\* No pixel is left out, however small the last tile or wherever the region
\* lies: an upscaled pixel has some weight (tiling.rs:234, "zero pixels that
\* have no alternative contributor"); so has a pixel erased with LaMa, except on
\* the border of the image; one erased with Stable Diffusion is replaced by at
\* least half, or lies in the one crop, except the last one of a region that
\* fills its crop.
TilesCover == UpscaleCovers /\ LamaCovers /\ SdCovers /\ CropCovers
=============================================================================
