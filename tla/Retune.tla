------------------------------- MODULE Retune -------------------------------
(***************************************************************************)
(* The selection Magic Brush makes of one image (gui/app.rs, gui/item.rs,  *)
(* gui/processor.rs): threads turn strokes into masks, which are merged    *)
(* onto the selection that is there when they land; and the last stroke is *)
(* read again at another Confidence as long as the selection is its own.   *)
(* A selection is the set of its strokes, each with the Confidence it was  *)
(* read at; all of them add.                                               *)
(***************************************************************************)
EXTENDS Timeline, FiniteSets

CONSTANTS
    Readings,     \* of the Confidence knob
    Careless,     \* of "knob", "stroke": whether the user turns a knob of the image while
                  \* the last stroke can be retuned, or goes on while one is decoded
    MaxEdits      \* bound on what the user does

ASSUME RetuneAssumption == MaxEdits \in Nat

VARIABLES
    line,        \* the item's timeline, of [kind, sel]
    last,        \* last_decode: [stroke, reading, owns] or NoDecode
    decoders,    \* the decoding threads: [stroke, reading]
    retunes,     \* re-thresholded selections on their way: [sel, reading]
    retuning,    \* rethreshold_in_flight
    confidence,  \* settings.brush
    here,        \* the image is the selected one
    edits

retuneVars == <<line, last, decoders, retunes, retuning, confidence, here, edits>>

NoDecode == [stroke |-> 0, reading |-> 0, owns |-> {}]

RetuneInit ==
    /\ line = NewTimeline([kind |-> "Process", sel |-> {}])
    /\ last = NoDecode /\ decoders = {} /\ retunes = {} /\ retuning = FALSE
    /\ confidence \in Readings /\ here = TRUE /\ edits = 0

\* The working copy's selection: every change is committed or amended at once.
Selected == Shown(line).sel

\* retunable_decode: the last stroke, while the selection is as it left it.
WrongLastOwner == last   \* whoever has changed it since
LastOwner == IF last.owns = Selected THEN last ELSE NoDecode

\* It was read at another Confidence than the knob shows.
Outdated == here /\ LastOwner # NoDecode /\ LastOwner.reading # confidence

UserEdits ==
    /\ edits < MaxEdits /\ edits' = edits + 1
    /\ "stroke" \in Careless \/ decoders = {}

\* commit_selection_mask: a selection that does not change is no step.
Selecting(sel, kind) ==
    line' = IF sel = Selected THEN line ELSE Pushed(line, [kind |-> kind, sel |-> sel], FALSE)

----------------------------------------------------------------------------
(* What the user does                                                      *)

\* handle_magic_brush_input, dispatch_sam_decoder.
StrokeMade ==
    /\ UserEdits /\ here
    /\ "stroke" \in Careless \/ ~(retuning \/ Outdated)
    /\ decoders' = decoders \cup {[stroke |-> edits', reading |-> confidence]}
    /\ UNCHANGED <<line, last, retunes, retuning, confidence, here>>

TurnConfidence(c) ==
    /\ UserEdits /\ c # confidence /\ confidence' = c
    /\ UNCHANGED <<line, last, decoders, retunes, retuning, here>>

\* apply_toolbar_change: a knob of the image is a step of its own.
TurnKnob(soon) ==
    /\ UserEdits /\ here
    /\ "knob" \in Careless \/ LastOwner = NoDecode
    /\ line' = Pushed(line, [kind |-> "Adjust", sel |-> Selected], soon)
    /\ UNCHANGED <<last, decoders, retunes, retuning, confidence, here>>

\* invalidate_selection.
Deselect ==
    /\ UserEdits /\ here /\ Selected # {} /\ last' = NoDecode /\ Selecting({}, "Selection")
    /\ UNCHANGED <<decoders, retunes, retuning, confidence, here>>

\* undo_step, redo_step.
Back ==
    /\ UserEdits /\ here
    /\ (CanUndo(line) /\ line' = Undone(line)) \/ (CanRedo(line) /\ line' = Redone(line))
    /\ UNCHANGED <<last, decoders, retunes, retuning, confidence, here>>

\* Another image is selected (drop_hot_tensors), or this one again.
Look ==
    /\ UserEdits /\ here' = ~here /\ last' = IF here THEN NoDecode ELSE last
    /\ UNCHANGED <<line, decoders, retunes, retuning, confidence>>

----------------------------------------------------------------------------
(* pump_sam_results                                                        *)

\* The stroke is merged onto whatever is selected by now.
FreshLands(d) ==
    /\ d \in decoders /\ decoders' = decoders \ {d}
    /\ LET sel == Selected \cup {<<d.stroke, d.reading>>}
       IN  Selecting(sel, "Stroke") /\ last' = [stroke |-> d.stroke, reading |-> d.reading, owns |-> sel]
    /\ UNCHANGED <<retunes, retuning, confidence, here, edits>>

DecodeFails(d) ==
    /\ d \in decoders /\ decoders' = decoders \ {d}
    /\ UNCHANGED <<line, last, retunes, retuning, confidence, here, edits>>

\* pre_stroke_selection: of the state before the shown one.
Base == IF CanUndo(line) THEN Shown(Undone(line)).sel ELSE {}

\* maybe_rethreshold_last_stroke, each frame.
Rethreshold ==
    /\ ~retuning /\ Outdated
    /\ retuning' = TRUE
    /\ retunes' = retunes \cup {[sel |-> Base \cup {<<last.stroke, confidence>>}, reading |-> confidence]}
    /\ UNCHANGED <<line, last, decoders, confidence, here, edits>>

\* apply_rethreshold: the shown step is amended.
RetuneLands(r) ==
    /\ r \in retunes /\ retunes' = retunes \ {r}
    /\ retuning' = FALSE
    /\ LET applied == LastOwner # NoDecode
       IN  /\ line' = IF applied THEN Amended(line, [Shown(line) EXCEPT !.sel = r.sel]) ELSE line
           /\ last' = IF applied THEN [last EXCEPT !.reading = r.reading, !.owns = r.sel] ELSE NoDecode
    /\ UNCHANGED <<decoders, confidence, here, edits>>

RetuneNext ==
    \/ StrokeMade \/ Deselect \/ Back \/ Look \/ Rethreshold
    \/ \E c \in Readings : TurnConfidence(c)
    \/ \E soon \in BOOLEAN : TurnKnob(soon)
    \/ \E d \in decoders : FreshLands(d) \/ DecodeFails(d)
    \/ \E r \in retunes : RetuneLands(r)

\* Frames are drawn and threads end.
RetuneFairness == WF_retuneVars(Rethreshold) /\ WF_retuneVars(\E r \in retunes : RetuneLands(r))

----------------------------------------------------------------------------
(* Properties                                                              *)

\* Reading a stroke again replaces what it selected, in every state that undo and
\* redo can bring back, and nothing else: no stroke is selected at two readings
\* (processor.rs, "The selection the stroke was merged onto").
OneReading ==
    \A n \in 1 .. Len(line.states) :
        \A s, t \in line.states[n].sel : s[1] = t[1] => s = t

\* The strokes of a selection.
StrokesIn(sel) == {s[1] : s \in sel}

\* A retune that lands takes no other stroke with it and brings none back, though
\* the image was undone, cleared or left while it was computed.
RetuneKeepsOthers ==
    [][(edits' = edits /\ retunes' # retunes /\ decoders' = decoders)
           => StrokesIn(Shown(line').sel) = StrokesIn(Selected)]_retuneVars

\* The stroke that owns the selection comes to be read at the Confidence shown.
ConfidenceCatchesUp == []<>~Outdated
=============================================================================
