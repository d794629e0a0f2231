------------------------------- MODULE Canvas -------------------------------
(***************************************************************************)
(* What the canvas shows of one image (gui/app.rs, gui/item.rs,            *)
(* gui/batch_manager.rs): its decoded source, the texture of its result    *)
(* and the overlay of its selection.  Threads decode and make textures;    *)
(* each frame asks for what the selected image lacks, behind a pending     *)
(* flag, and what the threads made lands some frames later.                *)
(***************************************************************************)
EXTENDS Integers, FiniteSets

CONSTANTS
    MaxChanges,   \* bound on results and strokes
    Overtaking    \* whether a result may change while a thread is at work for the last one

ASSUME CanvasAssumption == MaxChanges \in Nat /\ Overtaking \in BOOLEAN

VARIABLES
    showing,     \* the image is the selected one
    decoded,     \* source_rgba is there
    pending,     \* decode_pending
    decodes,     \* decoding threads
    result,      \* the result of the shown state; 0 for none
    texture,     \* result_texture: the result it was made from, 0 for none
    awaited,     \* result_tex_pending
    preps,       \* result textures being made
    mark,        \* selection_hash; 0 for none
    overlay,     \* selection_texture: its key, 0 for none
    wanted,      \* selection_tex_pending, 0 for none
    overlays,    \* selection textures being made
    changes      \* bound, and the last result or stroke there was

sourceVars  == <<decoded, pending, decodes>>
resultVars  == <<result, texture, awaited, preps>>
overlayVars == <<mark, overlay, wanted, overlays>>
canvasVars  == <<showing, sourceVars, resultVars, overlayVars, changes>>

CanvasInit ==
    /\ showing = TRUE /\ decoded = FALSE /\ pending = FALSE /\ decodes = 0
    /\ result = 0 /\ texture = 0 /\ awaited = FALSE /\ preps = {}
    /\ mark = 0 /\ overlay = 0 /\ wanted = 0 /\ overlays = {}
    /\ changes = 0

Numbered(jobs, of, base) ==
    [of |-> of, base |-> base, n |-> CHOOSE n \in 0 .. Cardinality(jobs) : [of |-> of, base |-> base, n |-> n] \notin jobs]

NextChange == changes < MaxChanges /\ changes' = changes + 1
AtRest == Overtaking \/ (preps = {} /\ decodes = 0)

----------------------------------------------------------------------------
(* Results and selections change                                           *)

\* reset_result_caches.
WrongCachesReset == awaited' = FALSE /\ pending' = FALSE /\ UNCHANGED texture
CachesReset == texture' = 0 /\ awaited' = FALSE /\ pending' = FALSE

\* on_batch_item_done: apply_tier_result.
RunLands ==
    /\ NextChange /\ AtRest
    /\ result' = changes' /\ CachesReset
    /\ UNCHANGED <<showing, decoded, decodes, preps, overlayVars>>

\* publish_result, apply_completed_previews: the old texture stays on screen;
\* an erase takes the selection with it.
ResultLands(erase) ==
    /\ NextChange /\ AtRest
    /\ result' = changes' /\ awaited' = TRUE /\ preps' = preps \cup {Numbered(preps, changes', 0)}
    /\ IF erase THEN mark' = 0 /\ overlay' = 0 /\ wanted' = 0 /\ UNCHANGED overlays
       ELSE UNCHANGED overlayVars
    /\ UNCHANGED <<showing, sourceVars, texture>>

\* A filter without a model: drain_background_channels, filter_only_rx.
FilterLands ==
    /\ NextChange /\ AtRest
    /\ result' = changes' /\ texture' = 0
    /\ UNCHANGED <<showing, sourceVars, awaited, preps, overlayVars>>

\* restore: undo and redo bring an earlier result and selection back.
Restore(r, m) ==
    /\ NextChange /\ AtRest
    /\ m # 0 => decoded
    /\ result' = r /\ mark' = m /\ CachesReset
    /\ UNCHANGED <<showing, decoded, decodes, preps, overlay, wanted, overlays>>

Stroke ==
    /\ NextChange /\ showing /\ decoded /\ mark' = changes'
    /\ UNCHANGED <<showing, sourceVars, resultVars, overlay, wanted, overlays>>

\* invalidate_selection.
ClearSelection ==
    /\ NextChange /\ mark # 0 /\ mark' = 0 /\ overlay' = 0 /\ wanted' = 0
    /\ UNCHANGED <<showing, sourceVars, resultVars, overlays>>

\* Another image is selected, and this one parked; or this one again.
Select ==
    /\ NextChange /\ showing' = ~showing
    /\ IF showing /\ result # 0 THEN texture' = 0 /\ awaited' = FALSE ELSE UNCHANGED <<texture, awaited>>
    /\ UNCHANGED <<sourceVars, result, preps, overlayVars>>

----------------------------------------------------------------------------
(* Each frame: reconcile_selected                                          *)

AskSource ==
    IF decoded \/ pending THEN UNCHANGED sourceVars
    ELSE pending' = TRUE /\ decodes' = decodes + 1 /\ UNCHANGED decoded

AskResult ==
    IF texture # 0 \/ awaited \/ result = 0 THEN UNCHANGED resultVars
    ELSE awaited' = TRUE /\ preps' = preps \cup {Numbered(preps, result, 0)} /\ UNCHANGED <<result, texture>>

\* ensure_selection_texture: from scratch, or a patch of the texture that is there.
AskOverlay ==
    IF mark = 0 THEN overlay' = 0 /\ wanted' = 0 /\ UNCHANGED <<mark, overlays>>
    ELSE IF overlay = mark \/ wanted = mark THEN UNCHANGED overlayVars
    ELSE /\ wanted' = mark
         /\ \E base \in {0, overlay} : overlays' = overlays \cup {Numbered(overlays, mark, base)}
         /\ UNCHANGED <<mark, overlay>>

CanvasFrame ==
    /\ showing /\ AskSource /\ AskResult /\ AskOverlay
    /\ UNCHANGED <<showing, changes>>

----------------------------------------------------------------------------
(* What the threads made lands: drain_background_channels                  *)

\* A source drops what was made from the last one.
DecodeLands(ok) ==
    /\ decodes > 0 /\ decodes' = decodes - 1 /\ pending' = FALSE
    /\ decoded' = (decoded \/ ok)
    /\ IF ok THEN mark' = 0 /\ overlay' = 0 /\ wanted' = 0 /\ UNCHANGED overlays
       ELSE UNCHANGED overlayVars
    /\ UNCHANGED <<showing, resultVars, changes>>

\* The texture of a result, whichever it was.
TextureLands(p) ==
    /\ p \in preps /\ preps' = preps \ {p}
    /\ texture' = p.of /\ awaited' = FALSE
    /\ UNCHANGED <<showing, sourceVars, result, overlayVars, changes>>

\* An overlay whose selection has changed is dropped, and so is a patch whose
\* base texture has moved on.
Fitting(o) == o.of = mark /\ o.base \in {0, overlay}
StillWanted(o) == IF wanted = o.of THEN 0 ELSE wanted
OverlayLands(o) ==
    /\ o \in overlays /\ overlays' = overlays \ {o}
    /\ wanted' = StillWanted(o)
    /\ overlay' = IF Fitting(o) THEN o.of ELSE overlay
    /\ UNCHANGED <<showing, sourceVars, resultVars, mark, changes>>

CanvasNext ==
    \/ RunLands \/ FilterLands \/ Stroke \/ ClearSelection \/ Select \/ CanvasFrame
    \/ \E b \in BOOLEAN : ResultLands(b) \/ DecodeLands(b)
    \/ \E r, m \in 0 .. changes : Restore(r, m)
    \/ \E p \in preps : TextureLands(p)
    \/ \E o \in overlays : OverlayLands(o)

\* Frames are drawn, threads end, and the source of the image can be read.
CanvasFairness ==
    /\ WF_canvasVars(CanvasFrame) /\ SF_canvasVars(DecodeLands(TRUE))
    /\ WF_canvasVars(\E p \in preps : TextureLands(p)) /\ WF_canvasVars(\E o \in overlays : OverlayLands(o))

----------------------------------------------------------------------------
(* Properties                                                              *)

\* The overlay of an image on screen comes to show its selection, however fast
\* strokes, undos and clears follow each other (app.rs, "a result for a mask that
\* has since changed is dropped", "a patch whose base texture has moved on is
\* dropped; the per-frame check asks again against the new base").
OverlayCatchesUp == []<>(showing => overlay = mark)

\* The canvas comes to show the result of the state the image is in (item.rs,
\* reset_result_caches: "so the next paint rebuilds textures").
CanvasCatchesUp == []<>(showing => texture = result)
=============================================================================
