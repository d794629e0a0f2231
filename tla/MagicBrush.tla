----------------------------- MODULE MagicBrush -----------------------------
(***************************************************************************)
(* What Magic Brush needs before it takes a click (gui/app.rs,             *)
(* gui/magic_brush_state.rs, gui/processor.rs): the sessions of its model, *)
(* shared and built by whoever first needs them, and an embedding of the   *)
(* shown image, encoded one at a time by a thread nobody can stop.         *)
(***************************************************************************)
EXTENDS Integers, FiniteSets

CONSTANTS
    Photos,
    BrushTroubles,   \* of "memory", "encode": what may fail
    MaxTurns         \* bound on what the user does

ASSUME BrushAssumption == MaxTurns \in Nat

VARIABLES
    viewed,           \* MagicBrushState.shown
    settled,          \* the shown image is past ENCODE_SETTLE
    brushes,          \* magic_brush_wanted: the model has brushes
    toolOn,           \* MagicBrushState.active
    encoding,         \* encoder_pending
    encoders,         \* the encoding threads: [of, at]
    encoded,          \* their results: [of, ok]
    embedded,         \* images with an embedding
    refused,          \* magic_preencode_refused
    warm,             \* sam_sessions
    warming,          \* a thread builds them ahead
    turns

brushVars == <<viewed, settled, brushes, toolOn, encoding, encoders, encoded,
               embedded, refused, warm, warming, turns>>

BrushInit ==
    /\ viewed \in Photos /\ settled = FALSE
    /\ brushes = TRUE /\ toolOn = FALSE
    /\ encoding = FALSE /\ encoders = {} /\ encoded = {}
    /\ embedded = {} /\ refused = {}
    /\ warm = FALSE /\ warming = TRUE /\ turns = 0

UserTurns == turns < MaxTurns /\ turns' = turns + 1

----------------------------------------------------------------------------
(* What the user does                                                      *)

\* evict_background_item_caches: with the tool on, the image shown before keeps
\* its embedding too.
View(p) ==
    /\ UserTurns /\ p # viewed
    /\ viewed' = p /\ settled' = FALSE
    /\ embedded' = embedded \cap ({p} \cup IF toolOn THEN {viewed} ELSE {})
    /\ UNCHANGED <<brushes, toolOn, encoding, encoders, encoded, refused, warm, warming>>

WrongEncodingAfterOff == FALSE   \* turning the tool off forgets the encode
EncodingAfterOff == encoding

Toggle ==
    /\ UserTurns /\ brushes /\ toolOn' = ~toolOn
    /\ encoding' = IF toolOn THEN EncodingAfterOff ELSE encoding
    /\ UNCHANGED <<viewed, settled, brushes, encoders, encoded, embedded, refused, warm, warming>>

\* fit_brush_models_to_model: a model without brushes, or one with them.
SwitchModel ==
    /\ UserTurns /\ brushes' = ~brushes
    /\ IF brushes
       THEN toolOn' = FALSE /\ encoding' = EncodingAfterOff /\ warm' = FALSE /\ embedded' = {} /\ UNCHANGED warming
       ELSE warming' = (warming \/ ~warm) /\ UNCHANGED <<toolOn, encoding, warm, embedded>>
    /\ UNCHANGED <<viewed, settled, encoders, encoded, refused>>

----------------------------------------------------------------------------
(* Each frame                                                              *)

Settle ==
    /\ ~settled /\ settled' = TRUE
    /\ UNCHANGED <<viewed, brushes, toolOn, encoding, encoders, encoded, embedded, refused, warm, warming, turns>>

\* on_encoder_failure: the tool goes off, or the refusal is remembered.
Refuse(p) ==
    IF toolOn THEN toolOn' = FALSE /\ UNCHANGED refused
    ELSE refused' = refused \cup {p} /\ UNCHANGED toolOn

\* ensure_magic_embedding_for_selected, with the source decoded.
MayEncode ==
    /\ brushes /\ ~encoding /\ settled /\ viewed \notin embedded
    /\ toolOn \/ (viewed \notin refused /\ warm)

Encode ==
    /\ MayEncode
    /\ \/ /\ encoding' = TRUE /\ encoders' = encoders \cup {[of |-> viewed, at |-> "start"]}
          /\ UNCHANGED <<toolOn, refused>>
       \/ "memory" \in BrushTroubles /\ Refuse(viewed) /\ UNCHANGED <<encoding, encoders>>
    /\ UNCHANGED <<viewed, settled, brushes, encoded, embedded, warm, warming, turns>>

\* pump_sam_results: the embedding is the image's, shown or not.
WrongEncodingAfter(r) == IF r.ok THEN FALSE ELSE encoding   \* a failure keeps the flag
EncodingAfter(r) == FALSE
EncodeLands(r) ==
    /\ r \in encoded /\ encoded' = encoded \ {r} /\ encoding' = EncodingAfter(r)
    /\ IF r.ok THEN embedded' = embedded \cup {r.of} /\ UNCHANGED <<toolOn, refused>>
       ELSE Refuse(r.of) /\ UNCHANGED embedded
    /\ UNCHANGED <<viewed, settled, brushes, encoders, warm, warming, turns>>

----------------------------------------------------------------------------
(* The threads                                                             *)

\* ensure_sam_sessions: those that are kept, or a pair of its own making, which
\* is kept when it is done.
EncoderStarts(e) ==
    /\ e \in encoders /\ e.at = "start"
    /\ encoders' = (encoders \ {e}) \cup {[e EXCEPT !.at = IF warm THEN "encode" ELSE "build"]}
    /\ UNCHANGED <<viewed, settled, brushes, toolOn, encoding, encoded, embedded, refused, warm, warming, turns>>

EncoderBuilds(e) ==
    /\ e \in encoders /\ e.at = "build"
    /\ encoders' = (encoders \ {e}) \cup {[e EXCEPT !.at = "encode"]} /\ warm' = TRUE
    /\ UNCHANGED <<viewed, settled, brushes, toolOn, encoding, encoded, embedded, refused, warming, turns>>

EncoderEnds(e, ok) ==
    /\ e \in encoders /\ (e.at = "encode" \/ ~ok) /\ (ok \/ "encode" \in BrushTroubles)
    /\ encoders' = encoders \ {e} /\ encoded' = encoded \cup {[of |-> e.of, ok |-> ok]}
    /\ UNCHANGED <<viewed, settled, brushes, toolOn, encoding, embedded, refused, warm, warming, turns>>

\* warm_sam_sessions.
Warm(ok) ==
    /\ warming /\ warming' = FALSE /\ (ok \/ "encode" \in BrushTroubles)
    /\ warm' = (warm \/ ok)
    /\ UNCHANGED <<viewed, settled, brushes, toolOn, encoding, encoders, encoded, embedded, refused, turns>>

Encoder == \E e \in encoders : EncoderStarts(e) \/ EncoderBuilds(e) \/ \E ok \in BOOLEAN : EncoderEnds(e, ok)

BrushNext ==
    \/ Toggle \/ SwitchModel \/ Settle \/ Encode \/ Encoder
    \/ \E p \in Photos : View(p)
    \/ \E r \in encoded : EncodeLands(r)
    \/ \E ok \in BOOLEAN : Warm(ok)

\* Frames are drawn and threads end.
BrushFairness ==
    /\ WF_brushVars(Settle) /\ WF_brushVars(toolOn /\ Encode) /\ WF_brushVars(Encoder)
    /\ WF_brushVars(\E r \in encoded : EncodeLands(r))

----------------------------------------------------------------------------
(* Properties                                                              *)

\* No second encode starts while one runs or waits to be read, whatever is
\* switched off and on meanwhile (magic_brush_state.rs, "An encode in flight keeps
\* its flag until its result lands"), and the tool is on only with a model that
\* has brushes.
OneEncode ==
    /\ Cardinality(encoders) + Cardinality(encoded) = IF encoding THEN 1 ELSE 0
    /\ toolOn => brushes

\* The tool that is on becomes ready on the image shown, or goes off: no failure
\* and no switch of images leaves it preparing for ever (app.rs, "admission or
\* encoder failure turns the tool off, so this cannot retry in a loop").
BrushGetsReady == []<>(toolOn => viewed \in embedded)

\* A model without brushes leaves nothing of Magic Brush in memory (app.rs, "frees
\* Magic Brush (its sessions and each image's 16 MB embedding), so nothing encodes
\* behind an upscale").
FreedWithTheModel == []<>(~brushes => ~warm /\ embedded = {})
=============================================================================
