------------------------------ MODULE Recipes ------------------------------
(***************************************************************************)
(* What Process and the live preview do to an image whose knobs have moved *)
(* (recipe.rs, gui/knob_catalog.rs, and their use in gui/app.rs,           *)
(* gui/item.rs, gui/live_preview.rs).  The recipe an image's result was    *)
(* made with is compared with the recipe of its knobs, and the difference  *)
(* says which of the kept tensors still serve: nothing is run, the mask is *)
(* redone, the lines are traced again, or everything is run.               *)
(*                                                                         *)
(* A picture is [cut, mask, lines, edge]: the model whose cut-out it       *)
(* shows, the mask knob applied to it, the trace its lines are drawn from, *)
(* and the line knob they are drawn with.  A trace is [over, filter]: the  *)
(* lines of the photo or of a model's cut-out, after a pre-filter.  Runs   *)
(* on top of another engine's result are left out.                         *)
(***************************************************************************)
EXTENDS Timeline

CONSTANTS
    Images,
    Cutters,      \* the background-removal models
    Styles,       \* of each knob; Plain is the default
    Plain,
    Presets,      \* the settings a preset may hold
    Slips,        \* what the recipes do not follow: the mask of a whole-photo "sketch" is
                  \* tuned, a "crowd" of differing knobs is run, a "slow" preview outlasts a run,
                  \* a "quick" hand moves before a preview that is due has left, an undo
                  \* goes "across" a change of the model
    MaxActs       \* bound on what the user does

Modes == {"off", "subject", "whole"}
Knobs == [lines : Modes, filter : Styles, mask : Styles, edge : Styles]

ASSUME RecipesAssumption ==
    /\ Plain \in Styles /\ Presets \subseteq Knobs /\ "none" \notin Cutters
    /\ Slips \subseteq {"sketch", "crowd", "slow", "quick", "across"} /\ MaxActs \in Nat

VARIABLES
    cutter,     \* settings.model
    viewing,    \* the selected image
    album,      \* of each image [knobs, recipe, seg, trace, picture, status, job]
    steps,      \* of each image the timeline
    previews,   \* of each image the preview asked for: "no", "mask", "edge"
    flights,    \* the preview being computed, or NoFlight
    inOrder,    \* last_drift_check
    acts

recipeVars == <<cutter, viewing, album, steps, previews, flights, inOrder, acts>>

None == "none"
NoLines == [over |-> None, filter |-> Plain]
Nothing == [cut |-> None, mask |-> Plain, lines |-> NoLines, edge |-> Plain]
Photo == [Nothing EXCEPT !.cut = "photo"]

PlainKnobs == [lines |-> "off", filter |-> Plain, mask |-> Plain, edge |-> Plain]

\* current_recipe: what the mode does not use is pinned to the default.
RecipeOf(k, m) ==
    [model |-> m, lines |-> k.lines, edge |-> k.edge,
     filter |-> IF k.lines = "off" THEN Plain ELSE k.filter,
     mask   |-> IF k.lines = "whole" THEN Plain ELSE k.mask]
NoRecipe == [model |-> None, lines |-> None]

Cutout(m, mask) == [Nothing EXCEPT !.cut = m, !.mask = mask]
Outlined(m, mask, trace, edge) == [cut |-> m, mask |-> mask, lines |-> trace, edge |-> edge]
Sketch(trace, edge) == [Nothing EXCEPT !.lines = trace, !.edge = edge]

\* The picture a full run makes by a recipe.
Trace(r) == [over |-> IF r.lines = "whole" THEN "photo" ELSE r.model, filter |-> r.filter]
PictureOf(r) ==
    CASE r.lines = "off"     -> Cutout(r.model, r.mask)
      [] r.lines = "subject" -> Outlined(r.model, r.mask, Trace(r), r.edge)
      [] r.lines = "whole"   -> Sketch(Trace(r), r.edge)

Whole(x) == x.lines = "whole"

\* resolve_tier, for what is not composited or upscaled.
RequiredTier(old, new) ==
    CASE old = new -> "skip"
      [] old # new /\ (old.model # new.model \/ Whole(old) # Whole(new)) -> "full"
      [] OTHER ->
           LET inferred == old.lines # new.lines \/ old.filter # new.filter
           IN  CASE inferred /\ new.lines = "off"     -> "mask"
                 [] inferred /\ new.lines = "subject" -> "addedge"
                 [] inferred /\ new.lines = "whole"   -> "full"
                 [] ~inferred /\ old.mask # new.mask  -> "mask"
                 [] OTHER                             -> "edge"

\* cache_impact_for_recipe_diff, apply_cache_impact.
Invalidated(i, old, new) ==
    [i EXCEPT !.seg   = IF old.model # new.model THEN None ELSE @,
              !.trace = IF old.filter # new.filter \/ Whole(old) # Whole(new) THEN NoLines ELSE @]

\* classify_candidates, for one image: the caches it leaves, and the work.
Classified(i, m) ==
    IF i.recipe = NoRecipe THEN [item |-> i, work |-> "full"]
    ELSE LET new  == RecipeOf(i.knobs, m)
             item == Invalidated(i, i.recipe, new)
             tier == RequiredTier(i.recipe, new)
         IN  [item |-> item,
              work |-> CASE tier = "skip" -> "skip"
                         [] tier = "mask" /\ item.seg # None ->
                                IF new.lines = "off" THEN "mask" ELSE "addedge"
                         [] tier = "addedge" /\ item.seg # None -> "addedge"
                         [] OTHER -> "full"]

\* What a run of `work` brings: from the image's own tensor and mask knob
\* (build_tier2_work, build_add_edge_work), and the shown image's settings
\* (dispatch_batch); one that needs the line detector fails where those draw none.
Outcome(i, work, config, m) ==
    LET r     == RecipeOf(config, m)
        trace == [over |-> i.seg, filter |-> config.filter]
    IN  CASE work = "full" ->
                 [picture |-> PictureOf(r), seg |-> IF Whole(r) THEN i.seg ELSE m,
                  trace |-> IF r.lines = "off" THEN i.trace ELSE Trace(r), recipe |-> r]
          [] work = "mask" ->
                 [picture |-> Cutout(i.seg, i.knobs.mask), seg |-> i.seg, trace |-> i.trace, recipe |-> r]
          [] work = "addedge" ->
                 [picture |-> IF config.lines = "off" THEN Nothing
                              ELSE Outlined(i.seg, i.knobs.mask, trace, config.edge),
                  seg |-> i.seg, trace |-> trace, recipe |-> r]

NoJob == [kind |-> "idle"]
NoFlight == [version |-> -1]

\* process_items: the images of S, each by its own difference; those that run
\* take the shown image's settings. `kind` is the step they record, if any.
Ran(items, n, kind) ==
    LET c == Classified(items[n], cutter)
        shown == items[viewing].knobs
    IN  IF c.work = "skip" THEN c.item
        ELSE [c.item EXCEPT !.knobs = shown, !.status = "processing",
                            !.job = [kind |-> kind, brings |-> Outcome(c.item, c.work, shown, cutter)]]
Processed(items, S, kind) == [n \in Images |-> IF n \in S THEN Ran(items, n, kind) ELSE items[n]]

\* Images as they are opened, or after a first run of all of them.
Opened == [knobs |-> PlainKnobs, recipe |-> NoRecipe, seg |-> None, trace |-> NoLines,
           picture |-> Nothing, status |-> "pending", job |-> NoJob]
AfterARun(m) ==
    LET r == RecipeOf(PlainKnobs, m)
    IN  [Opened EXCEPT !.recipe = r, !.seg = m, !.picture = PictureOf(r), !.status = "done"]

\* snapshot, for a step of `kind`.
Snapshot(item, kind) ==
    [kind |-> kind, knobs |-> item.knobs, recipe |-> item.recipe, picture |-> item.picture]

RecipesInit ==
    /\ cutter \in Cutters /\ viewing \in Images
    /\ \E item \in {Opened, AfterARun(cutter)} :
           /\ album = [n \in Images |-> item]
           /\ steps = [n \in Images |-> NewTimeline(Snapshot(item, "Process"))]
    /\ previews = [n \in Images |-> "no"] /\ flights = [n \in Images |-> NoFlight] 
    /\ inOrder = <<>> /\ acts = 0

Here == album[viewing]
NothingRuns == \A n \in Images : album[n].job = NoJob

\* build_preview_inputs, where it refuses: the request stays.
Refused(i, kind) ==
    \/ kind = "mask" /\ i.seg = None /\ i.picture # Nothing
    \/ kind = "edge" /\ i.trace = NoLines
Due(n) == previews[n] # "no" /\ ~Refused(album[n], previews[n])

----------------------------------------------------------------------------
(* The user, while nothing runs                                            *)

UserMoves ==
    /\ acts < MaxActs /\ acts' = acts + 1 /\ NothingRuns
    /\ "quick" \in Slips \/ \A n \in Images : ~Due(n)

\* line_mode_spec and input_transform_spec, the dispatch of each.
LinesDispatch(from, to, traced) ==
    CASE from = to                      -> "no"
      [] to = "whole" \/ from = "whole" -> "full"
      [] to = "off" \/ traced           -> "mask"
      [] OTHER                          -> "addedge"
FilterDispatch(cut) == IF cut THEN "addedge" ELSE "full"

Cost == [no |-> 0, edge |-> 1, mask |-> 2, addedge |-> 3, full |-> 4, skip |-> 0]
Stronger(a, b) == IF Cost[a] >= Cost[b] THEN a ELSE b

\* resolve_auto_dispatch, for the image as its caches are by now.
Dispatch(item, old, preset) ==
    LET new   == item.knobs
        lines == LinesDispatch(old.lines, new.lines, item.trace # NoLines)
        rest  == IF preset
                 THEN IF item.recipe = NoRecipe THEN "full" ELSE RequiredTier(item.recipe, RecipeOf(new, cutter))
                 ELSE CASE new.filter # old.filter -> FilterDispatch(item.seg # None)
                        [] new.mask # old.mask     -> "mask"
                        [] new.edge # old.edge     -> "edge"
                        [] OTHER                   -> "no"
    IN  Stronger(lines, rest)

\* apply_toolbar_change: what the knobs were traced with goes, a step is recorded,
\* and the difference is previewed or run.
Adjusted(k, preset) ==
    /\ UserMoves /\ k # Here.knobs
    /\ "sketch" \in Slips \/ ~((Whole(k) \/ Whole(Here.recipe)) /\ k.mask # Plain)
    /\ LET stale == Whole(k) # Whole(Here.knobs) \/ (~preset /\ k.filter # Here.knobs.filter)
           item  == [Here EXCEPT !.knobs = k, !.trace = IF stale THEN NoLines ELSE @]
           asked == Dispatch(item, Here.knobs, preset)
           items == [album EXCEPT ![viewing] = item]
           kind  == IF preset THEN "Preset" ELSE "Adjust"
       IN  /\ \E soon \in BOOLEAN :
                  /\ soon => "quick" \in Slips
                  /\ steps' = [steps EXCEPT ![viewing] = Pushed(@, Snapshot(item, kind), soon)]
           /\ album' = IF asked \in {"addedge", "full"} /\ item.status = "done"
                       THEN Processed(items, {viewing}, None) ELSE items
           /\ previews' = IF asked \in {"mask", "edge"} THEN [previews EXCEPT ![viewing] = asked] ELSE previews
    /\ UNCHANGED <<cutter, viewing, flights, inOrder>>

\* A knob that is shown in the mode (render).
TurnAKnob ==
    \/ \E l \in Modes : Adjusted([Here.knobs EXCEPT !.lines = l], FALSE)
    \/ \E v \in Styles :
          \/ Here.knobs.lines # "whole" /\ Adjusted([Here.knobs EXCEPT !.mask = v], FALSE)
          \/ Here.knobs.lines # "off"   /\ Adjusted([Here.knobs EXCEPT !.edge = v], FALSE)
          \/ Here.knobs.lines # "off"   /\ Adjusted([Here.knobs EXCEPT !.filter = v], FALSE)

TakePreset(k) == k \in Presets /\ Adjusted(k, TRUE)

\* The model: Process has to be pressed.
PickModel(m) ==
    /\ UserMoves /\ m # cutter /\ cutter' = m
    /\ album' = [album EXCEPT ![viewing].seg = None]
    /\ UNCHANGED <<viewing, steps, previews, flights, inOrder>>

\* handle_remove_bg: the shown image or all of them.
Process(S) ==
    /\ UserMoves /\ album' = Processed(album, S, "Process")
    /\ "crowd" \in Slips \/ \A n \in S : album[n].knobs = Here.knobs
    /\ UNCHANGED <<cutter, viewing, steps, previews, flights, inOrder>>

\* step_targets, BatchItem::restore.
Walk(t) ==
    LET to == Shown(t) IN
    /\ UserMoves /\ steps' = [steps EXCEPT ![viewing] = t]
    /\ "across" \in Slips \/ Here.seg = None \/ to.recipe.model \in {None, Here.seg}
    /\ album' = [album EXCEPT ![viewing].knobs = to.knobs, ![viewing].recipe = to.recipe,
                     ![viewing].picture = to.picture,
                     ![viewing].status = IF to.picture = Nothing THEN "pending" ELSE "done",
                     ![viewing].trace = IF to.knobs.lines # Here.knobs.lines THEN NoLines ELSE @]
    /\ previews' = [previews EXCEPT ![viewing] = "no"]
    /\ flights' = [flights EXCEPT ![viewing] = NoFlight]
    /\ UNCHANGED <<cutter, viewing, inOrder>>
UndoStep == CanUndo(steps[viewing]) /\ Walk(Undone(steps[viewing]))
RedoStep == CanRedo(steps[viewing]) /\ Walk(Redone(steps[viewing]))

Look(n) ==
    /\ UserMoves /\ n # viewing /\ viewing' = n
    /\ UNCHANGED <<cutter, album, steps, previews, flights, inOrder>>

----------------------------------------------------------------------------
(* Runs, previews and memory                                               *)

\* on_batch_item_done, apply_tier_result and finish_job, of a run that worked. A
\* preview that was asked for before has come and gone, unless it is "slow".
Land(n) ==
    LET i == album[n]
        b == i.job.brings
        done == [i EXCEPT !.recipe = b.recipe, !.picture = b.picture, !.seg = b.seg,
                          !.trace = b.trace, !.status = "done", !.job = NoJob]
    IN  /\ i.job # NoJob /\ b.picture # Nothing
        /\ \/ "slow" \in Slips
           \/ flights[n] = NoFlight /\ ~Due(n)
        /\ album' = [album EXCEPT ![n] = done]
        /\ steps' = [steps EXCEPT ![n] = IF i.job.kind = None THEN Amended(@, Snapshot(done, Shown(@).kind))
                                         ELSE Pushed(@, Snapshot(done, i.job.kind), FALSE)]
        /\ UNCHANGED <<cutter, viewing, previews, flights, inOrder, acts>>

\* The same, of one that failed: the next run is a whole one.
Fail(n) ==
    /\ album[n].job # NoJob
    /\ album' = [album EXCEPT ![n].recipe = NoRecipe, ![n].seg = None, ![n].trace = NoLines,
                              ![n].status = "error", ![n].job = NoJob]
    /\ UNCHANGED <<cutter, viewing, steps, previews, flights, inOrder, acts>>

\* abandon_job.
CancelRun(n) ==
    /\ album[n].job # NoJob
    /\ album' = [album EXCEPT ![n].job = NoJob, ![n].status = IF album[n].picture = Nothing THEN "pending" ELSE "done"]
    /\ UNCHANGED <<cutter, viewing, steps, previews, flights, inOrder, acts>>

\* run_preview: by the mode shown and the tensors that are there.
Previewed(i, kind) ==
    CASE i.knobs.lines = "subject" /\ i.seg # None /\ i.trace # NoLines ->
             Outlined(i.seg, i.knobs.mask, i.trace, i.knobs.edge)
      [] kind = "mask" /\ (i.knobs.lines # "subject" \/ i.seg = None \/ i.trace = NoLines) ->
             IF i.seg = None THEN Photo ELSE Cutout(i.seg, i.knobs.mask)
      [] OTHER -> Sketch(i.trace, i.knobs.edge)

\* tick: the request leaves with the image as it is.
PreviewStarts(n) ==
    /\ Due(n)
    /\ previews' = [previews EXCEPT ![n] = "no"]
    /\ flights' = [flights EXCEPT ![n] = [picture |-> Previewed(album[n], previews[n]),
                                          mask |-> album[n].knobs.mask, version |-> steps[n].version]]
    /\ UNCHANGED <<cutter, viewing, album, steps, inOrder, acts>>

\* A recipe once a preview made with `mask` has landed.
WrongNoted(recipe, mask) == recipe   \* it is not noted
Noted(recipe, mask) == IF recipe = NoRecipe THEN recipe ELSE [recipe EXCEPT !.mask = mask]

\* apply_completed_previews: one of a state that was left is dropped; the mask it
\* was made with, whatever the mode uses of it, is noted as applied.
PreviewArrives(n) ==
    LET i == album[n]
        f == flights[n]
        shown == [i EXCEPT !.picture = f.picture,
                           !.status = IF @ = "pending" THEN "done" ELSE @,
                           !.recipe = Noted(@, f.mask)]
    IN  /\ f # NoFlight
        /\ flights' = [flights EXCEPT ![n] = NoFlight]
        /\ IF f.version = steps[n].version
           THEN /\ album' = [album EXCEPT ![n] = shown]
                /\ steps' = [steps EXCEPT ![n] = Amended(@, Snapshot(shown, Shown(@).kind))]
           ELSE UNCHANGED <<album, steps>>
        /\ UNCHANGED <<cutter, viewing, previews, inOrder, acts>>

\* recipe_drift_tripwire.
Tripwire ==
    /\ \A n \in Images : flights[n] = NoFlight
    /\ Here.recipe # NoRecipe /\ inOrder # <<viewing, Here.knobs.mask>>
    /\ IF Here.recipe.mask = RecipeOf(Here.knobs, cutter).mask
       THEN inOrder' = <<viewing, Here.knobs.mask>> /\ UNCHANGED previews
       ELSE inOrder' = <<>> /\ previews' = [previews EXCEPT ![viewing] = "mask"]
    /\ UNCHANGED <<cutter, viewing, album, steps, flights, acts>>

\* enforce_tensor_budget, evict_all_tensors: never the selected image's.
EvictTensors(n) ==
    /\ n # viewing
    /\ album' = [album EXCEPT ![n].seg = None, ![n].trace = NoLines]
    /\ UNCHANGED <<cutter, viewing, steps, previews, flights, inOrder, acts>>

RecipesNext ==
    \/ TurnAKnob \/ UndoStep \/ RedoStep \/ Tripwire
    \/ \E k \in Presets : TakePreset(k)
    \/ \E m \in Cutters : PickModel(m)
    \/ \E S \in {{viewing}, Images} : Process(S)
    \/ \E n \in Images : Look(n) \/ Land(n) \/ Fail(n) \/ CancelRun(n) \/ PreviewStarts(n) \/ PreviewArrives(n) \/ EvictTensors(n)

----------------------------------------------------------------------------
(* Properties                                                              *)

\* What a run brings is what its recipe says, whatever tensors it was spared: none
\* of another model, another filter or another mask is reused under a recipe that
\* asks for more (classify_candidates, apply_cache_impact).
RunsFollowRecipes ==
    \A n \in Images : LET b == album[n].job.brings
                      IN  album[n].job # NoJob => b.picture = PictureOf(b.recipe)

\* Process would say "already up to date" of image n, and no preview is due.
UpToDate(n) ==
    /\ album[n].status = "done" /\ album[n].recipe # NoRecipe
    /\ previews[n] = "no" /\ flights[n] = NoFlight
    /\ Classified(album[n], cutter).work = "skip"
Asked(n) == PictureOf(RecipeOf(album[n].knobs, cutter))

\* A cut-out that is called up to date is the selected model's, with the mask its
\* knobs ask for: what a preview did to it meanwhile was noted, one of a state that
\* was left was not taken, and no tensor of another model was there to preview it from
\* (apply_completed_previews, apply_cache_impact). Over the recipe of a whole-photo
\* sketch a preview may have cut with any tensor there was.
UpToDateCut ==
    \A n \in Images :
        LET i == album[n] IN
        UpToDate(n) /\ i.picture.cut # None
            => i.picture.mask = i.knobs.mask /\ (i.picture.cut = cutter \/ Whole(i.recipe))

\* "Nothing changed -- skip entirely" (RequiredTier::Skip in recipe.rs): an image that
\* needs no run shows what its knobs ask for, lines and all.
UpToDateShowsKnobs == \A n \in Images : UpToDate(n) => album[n].picture = Asked(n)
=============================================================================
