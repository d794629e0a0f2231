------------------------------ MODULE MCParts ------------------------------
(***************************************************************************)
(* The parts that work by themselves, on small instances, one per          *)
(* behaviour: `part` says which, and the others stay as they began.        *)
(***************************************************************************)
EXTENDS WeightedSemaphore, Preview, Upscale, Downloads, Tiles, Canvas, Backdrop,
        MagicBrush, Retune, Masks

CONSTANT Parts   \* those a run looks at

\* Lines and small areas for what runs along rows and columns, and one with an
\* interior for the means; a single pixel where another part is looked at.
MaskShapes == {<<1, 1>>, <<8, 1>>, <<1, 6>>, <<3, 3>>, <<5, 4>>, <<10, 1>>}

VARIABLE part

partsVars == <<part, semVars, prevVars, upVars, dlVars, tileVars, canvasVars, bdVars,
              brushVars, retuneVars, maskVars>>

\* Each part from one of its initial states, and the others from a single one.
PartsInit ==
    /\ part \in Parts
    /\ MasksInit /\ (part # "masks" => wide * tall = 1 /\ ink[<<0, 0>>] = 0 /\ radius = 0)
    /\ TilesInit /\ (part # "tiles" => size = 1)
    /\ PrevInit /\ (part # "preview" => Knob = CHOOSE k \in Knobs : TRUE)
    /\ BrushInit /\ (part # "brush" => viewed = CHOOSE p \in Photos : TRUE)
    /\ RetuneInit /\ (part # "retune" => confidence = CHOOSE c \in Readings : TRUE)
    /\ SemInit /\ UpInit /\ DlInit /\ CanvasInit /\ BdInit

\* A step of part p, and of no other.
On(p, A, vars) == IF part = p THEN A ELSE UNCHANGED vars

PartsNext ==
    /\ part # "tiles" /\ UNCHANGED <<part, tileVars>>
    /\ On("semaphore", SemNext, semVars)
    /\ On("preview", PrevNext, prevVars)
    /\ On("upscale", UpNext, upVars)
    /\ On("downloads", DlNext, dlVars)
    /\ On("canvas", CanvasNext, canvasVars)
    /\ On("backdrop", BdNext, bdVars)
    /\ On("brush", BrushNext, brushVars)
    /\ On("retune", RetuneNext, retuneVars)
    /\ On("masks", MasksNext, maskVars)

Only(p, A) == part = p /\ A

\* The fairness of each part, where it runs.
PartsFairness ==
    /\ \A t \in Threads : WF_semVars(Only("semaphore", Recheck(t))) /\ WF_semVars(Only("semaphore", Release(t)))
    /\ WF_prevVars(Only("preview", Frame(TRUE))) /\ WF_prevVars(Only("preview", Debounced))
    /\ WF_prevVars(Only("preview", \E w \in workers : WorkerEnds(w)))
    /\ WF_dlVars(Only("downloads", StoreFrame)) /\ WF_dlVars(Only("downloads", Fetcher))
    /\ WF_canvasVars(Only("canvas", CanvasFrame)) /\ SF_canvasVars(Only("canvas", DecodeLands(TRUE)))
    /\ WF_canvasVars(Only("canvas", \E p \in preps : TextureLands(p)))
    /\ WF_canvasVars(Only("canvas", \E o \in overlays : OverlayLands(o)))
    /\ WF_bdVars(Only("backdrop", Kick)) /\ WF_bdVars(Only("backdrop", BuildLands))
    /\ WF_bdVars(Only("backdrop", \E l \in loads : LandPreset(l) \/ LoadFails(l) \/ LandPick(l, FALSE)))
    /\ WF_brushVars(Only("brush", Settle)) /\ WF_brushVars(Only("brush", toolOn /\ Encode))
    /\ WF_brushVars(Only("brush", Encoder)) /\ WF_brushVars(Only("brush", \E r \in encoded : EncodeLands(r)))
    /\ WF_retuneVars(Only("retune", Rethreshold))
    /\ WF_retuneVars(Only("retune", \E r \in retunes : RetuneLands(r)))

PartsSpec == PartsInit /\ [][PartsNext]_partsVars /\ PartsFairness

\* The parts agree with themselves: their types, with one download at a time and a
\* queue of exactly those that wait (DlTypeOK), one encode at a time (OneEncode), and
\* one reading of a stroke (OneReading).
PartsOK ==
    SemTypeOK /\ PrevTypeOK /\ UpTypeOK /\ DlTypeOK /\ OneEncode /\ OneReading

\* What is computed of pixels is right everywhere: the tile plans of every image, where
\* nothing moves (TilesCover), and the passes over masks (MasksOK).
PixelsRight == TilesCover /\ MasksOK

\* Whoever stands in a queue is served: a thread in the semaphore's, and a model in
\* that of the downloads (EveryWaiterServed, DownloadsServed).
QueuesServed == EveryWaiterServed /\ DownloadsServed

\* What is on screen comes to be what the image is: its result, its selection and
\* its background (CanvasCatchesUp, OverlayCatchesUp, BackdropCatchesUp), and what
\* the knobs say (KnobsCatchUp).
ScreenCatchesUp == CanvasCatchesUp /\ OverlayCatchesUp /\ BackdropCatchesUp /\ KnobsCatchUp

\* Magic Brush becomes ready or goes off, and the last stroke comes to be read at
\* the Confidence shown (BrushGetsReady, ConfidenceCatchesUp).
BrushCatchesUp == BrushGetsReady /\ ConfidenceCatchesUp
=============================================================================
