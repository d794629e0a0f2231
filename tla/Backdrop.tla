------------------------------ MODULE Backdrop ------------------------------
(***************************************************************************)
(* What is shown behind the result of the selected image: nothing, a       *)
(* background picture or an effect made from the photo (gui/app.rs,        *)
(* gui/batch_manager.rs, gui/item.rs).  The settings name a picture by its *)
(* hash, and undo, redo and presets bring hashes back; the picture itself  *)
(* is attached to the image and loaded by a thread, and another thread     *)
(* makes the texture, one at a time.                                       *)
(***************************************************************************)
EXTENDS Timeline, FiniteSets

CONSTANTS
    Backgrounds,   \* pictures; "none" and "effect" are other looks
    LookSteps,     \* of "pick", "kind", "preset", "undo": what the user does
    MaxLooks       \* bound on the steps of the user

ASSUME BackdropAssumption == MaxLooks \in Nat

VARIABLES
    story,      \* the item's timeline, of [kind, look]
    look,       \* of the working copy's settings: bg_image_hash and bg_effect
    attached,   \* item.bg_image
    loads,      \* pictures being loaded
    kept,       \* bg_image_paths: pictures that can be loaded again
    onGpu,      \* backdrop_texture: its key, and what it really shows
    build,      \* the texture being made, backdrop_tex_pending
    looks       \* bound

bdVars == <<story, look, attached, loads, kept, onGpu, build, looks>>

NoLook    == [pic |-> "none", fx |-> FALSE]
NoTexture == [key |-> "none", shows |-> "none"]

BdInit ==
    /\ look = NoLook /\ story = NewTimeline([kind |-> "Process", look |-> NoLook])
    /\ attached = "none" /\ loads = {} /\ kept = {}
    /\ onGpu = NoTexture /\ build = NoTexture /\ looks = 0

\* backdrop, picture_key: an effect is read before an image.
Key(l) == IF l.fx THEN "effect" ELSE l.pic

Loading(p, picked) ==
    loads \cup {[pic |-> p, picked |-> picked,
                 n |-> CHOOSE n \in 0 .. Cardinality(loads) : [pic |-> p, picked |-> picked, n |-> n] \notin loads]}

UserLooks(step) == step \in LookSteps /\ looks < MaxLooks /\ looks' = looks + 1

\* item.commit of the settings l.
Recorded(kind, l, soon) == story' = Pushed(story, [kind |-> kind, look |-> l], soon)

\* reconcile_bg_image_after_preset: the settings l have come without their
\* picture.
Reconciled(l) ==
    LET gone == l.pic # attached /\ l.pic \notin kept \cup {"none"}
    IN  /\ look' = IF gone THEN [l EXCEPT !.pic = "none"] ELSE l
        /\ attached' = IF l.pic # attached /\ l.pic \notin kept THEN "none" ELSE attached
        /\ loads' = IF l.pic # attached /\ l.pic \in kept THEN Loading(l.pic, FALSE) ELSE loads

----------------------------------------------------------------------------
(* What the user does                                                      *)

\* handle_pick_bg_image: nothing changes before the picture is loaded.
Pick(p) ==
    /\ UserLooks("pick") /\ loads' = Loading(p, TRUE)
    /\ UNCHANGED <<story, look, attached, kept, onGpu, build>>

\* Another kind of background: a picture that is there goes.
ChooseKind(fx, soon) ==
    /\ UserLooks("kind") /\ Key(look) # (IF fx THEN "effect" ELSE "none")
    /\ LET new == [pic |-> IF attached = "none" THEN look.pic ELSE "none", fx |-> fx]
       IN  /\ look' = new
           /\ IF new = look THEN UNCHANGED story ELSE Recorded("Adjust", new, soon)
    /\ attached' = "none"
    /\ UNCHANGED <<loads, kept, onGpu, build>>

ApplyPreset(p) ==
    /\ UserLooks("preset")
    /\ Recorded("Preset", [pic |-> p, fx |-> FALSE], FALSE) /\ Reconciled([pic |-> p, fx |-> FALSE])
    /\ UNCHANGED <<kept, onGpu, build>>

\* step_targets: undo_step or redo_step; the timeline holds no pictures.
Turn(t) ==
    /\ UserLooks("undo") /\ story' = t
    /\ IF Shown(t).look.pic # look.pic THEN Reconciled(Shown(t).look)
       ELSE look' = Shown(t).look /\ UNCHANGED <<attached, loads>>
    /\ UNCHANGED <<kept, onGpu, build>>
StepLook == (CanUndo(story) /\ Turn(Undone(story))) \/ (CanRedo(story) /\ Turn(Redone(story)))

----------------------------------------------------------------------------
(* What the threads bring: land_bg_image, drain_background_channels        *)

LandPick(l, soon) ==
    /\ l \in loads /\ l.picked /\ loads' = loads \ {l}
    /\ look' = [pic |-> l.pic, fx |-> FALSE] /\ attached' = l.pic
    /\ Recorded("Adjust", look', soon) /\ kept' = kept \cup {l.pic}
    /\ UNCHANGED <<onGpu, build, looks>>

LandPreset(l) ==
    /\ l \in loads /\ ~l.picked /\ loads' = loads \ {l}
    /\ attached' = IF look.pic = l.pic THEN l.pic ELSE attached
    /\ UNCHANGED <<story, look, kept, onGpu, build, looks>>

LoadFails(l) ==
    /\ l \in loads /\ loads' = loads \ {l}
    /\ IF l.picked THEN UNCHANGED <<look, attached>>
       ELSE look' = [look EXCEPT !.pic = "none"] /\ attached' = "none"
    /\ UNCHANGED <<story, kept, onGpu, build, looks>>

\* kick_backdrop_tex_prep, each frame: from the picture that is attached.
Source == IF look.fx THEN "effect" ELSE attached
Kick ==
    /\ IF Key(look) = "none" THEN onGpu # NoTexture /\ onGpu' = NoTexture /\ UNCHANGED build
       ELSE /\ build = NoTexture /\ onGpu.key # Key(look) /\ Source # "none"
            /\ build' = [key |-> Key(look), shows |-> Source] /\ UNCHANGED onGpu
    /\ UNCHANGED <<story, look, attached, loads, kept, looks>>

BuildLands ==
    /\ build # NoTexture
    /\ onGpu' = (IF Key(look) = build.key THEN build ELSE onGpu) /\ build' = NoTexture
    /\ UNCHANGED <<story, look, attached, loads, kept, looks>>

BdNext ==
    \/ Kick \/ BuildLands \/ StepLook
    \/ \E p \in Backgrounds : Pick(p) \/ ApplyPreset(p)
    \/ \E fx, soon \in BOOLEAN : ChooseKind(fx, soon)
    \/ \E l \in loads : LandPreset(l) \/ LoadFails(l) \/ \E soon \in BOOLEAN : LandPick(l, soon)

\* Frames are drawn and threads end.
BdFairness ==
    /\ WF_bdVars(Kick) /\ WF_bdVars(BuildLands)
    /\ WF_bdVars(\E l \in loads : LandPreset(l) \/ LoadFails(l) \/ LandPick(l, FALSE))

----------------------------------------------------------------------------
(* Properties                                                              *)

\* Whatever is picked, replaced and undone while pictures load and textures are
\* made, the look that stays is the one behind the result in the end (app.rs, "a
\* stale or empty build frees the slot"), unless its picture cannot be had.
BackdropCatchesUp == []<>(onGpu.key = Key(look))

\* A picture that is attached and wanted is what is painted in the end (app.rs, "so
\* the recipe diff invariant holds and the canvas paints the right image").
RightPictureInTheEnd == []<>(attached = Key(look) => onGpu.shows = attached)
=============================================================================
