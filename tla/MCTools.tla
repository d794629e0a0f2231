------------------------------ MODULE MCTools ------------------------------
(***************************************************************************)
(* The eraser, the command line, the store behind the timelines, the       *)
(* making of engines, the cache of built inpaint models and the recipes of *)
(* cut-outs on small instances, one per behaviour: `part` says which, and  *)
(* the others stay as they began.                                          *)
(***************************************************************************)
EXTENDS Erase, CliBatch, Storage, Providers, Sessions, Recipes

CONSTANT Parts   \* those a run looks at

VARIABLE part

toolVars == <<part, eraseVars, cliVars, storeVars, provVars, sessVars, recipeVars>>

ToolsInit ==
    /\ part \in Parts
    /\ EraseInit /\ CliInit /\ StoreInit /\ ProvInit /\ SessInit /\ RecipesInit
    /\ part # "cli" => call = CHOOSE a \in Calls : TRUE
    /\ part # "storage" => using = [r \in Readers |-> 1]
    /\ part # "providers" => family = "seg" /\ able = CHOOSE machine \in Machines : TRUE
    /\ part # "sessions" => backend = "sd" /\ keep
    /\ cutter = (CHOOSE m \in Cutters : TRUE) /\ viewing = CHOOSE n \in Images : TRUE
    /\ part # "recipes" => album[viewing] = Opened

\* A step of part p, and of no other.
On(p, A, vars) == IF part = p THEN A ELSE UNCHANGED vars

ToolsNext ==
    /\ UNCHANGED part
    /\ On("erase", EraseNext, eraseVars)
    /\ On("cli", CliNext, cliVars)
    /\ On("storage", StoreNext, storeVars)
    /\ On("providers", ProvNext, provVars)
    /\ On("sessions", SessNext, sessVars)
    /\ On("recipes", RecipesNext, recipeVars)

Only(p, A) == part = p /\ A

\* The fairness of each part, where it runs.
ToolsFairness ==
    /\ WF_eraseVars(Only("erase", Pump)) /\ WF_eraseVars(Only("erase", Bridge))
    /\ WF_eraseVars(Only("erase", Child)) /\ WF_eraseVars(Only("erase", \E s \in helpers : Helper(s)))
    /\ WF_cliVars(Only("cli", Cli)) /\ WF_cliVars(Only("cli", ChildAnswers))
    /\ WF_storeVars(Only("storage", Sweep)) /\ WF_storeVars(Only("storage", \E ok \in BOOLEAN : Encoded(ok)))
    /\ SF_storeVars(Only("storage", Encoded(TRUE)))
    /\ \A p \in Procs : WF_provVars(Only("providers", Build(p)))
    /\ WF_sessVars(Only("sessions", TimePasses)) /\ WF_sessVars(Only("sessions", SweepIdle))
    /\ \A t \in Threads : WF_sessVars(Only("sessions", Paints(t)))

ToolsSpec == ToolsInit /\ [][ToolsNext]_toolVars /\ ToolsFairness

\* The tools agree with themselves: every stroke and its count (EraseOK), every
\* input of the command line (CliOK), the making of engines and the keeping of what
\* was made (ProvidersOK, SessionsOK).
ToolsOK == EraseOK /\ CliOK /\ ProvidersOK /\ SessionsOK

\* Runs, and the "up to date" that spares them, keep to the recipes
\* (RunsFollowRecipes, UpToDateCut).
RecipesOK == RunsFollowRecipes /\ UpToDateCut

----------------------------------------------------------------------------
(* Values for the constants                                                *)

\* Calls on three files, of which the second may be no image, with distinct
\* outputs or the first and the third of one name, and with an earlier output.
SomeCalls ==
    LET Call(valid, target, existing, force) ==
            [valid |-> valid, target |-> target, existing |-> existing, force |-> force, jobs |-> 2]
    IN  {Call({1, 2, 3}, <<"r", "s", "t">>, {}, FALSE),
         Call({1, 3}, <<"r", "s", "t">>, {"r"}, FALSE),
         Call({1, 3}, <<"r", "s", "t">>, {"r"}, TRUE)}
        \cup [valid : {{1, 2, 3}}, target : {<<"r", "s", "r">>}, existing : {{}}, force : BOOLEAN, jobs : {2}]

TwoGpus == <<"OpenVINO", "CUDA">>
SomeMachines ==
    {{<<"CPU", "full">>},
     {<<"CPU", "full">>, <<"CUDA", "optimized">>, <<"CUDA", "full">>},
     {<<"CPU", "full">>, <<"OpenVINO", "optimized">>}}

KnobsAt(l, f, k, e) == [lines |-> l, filter |-> f, mask |-> k, edge |-> e]
SomePresets == {KnobsAt("off", 0, 0, 0), KnobsAt("off", 1, 1, 0),
                KnobsAt("subject", 1, 0, 1), KnobsAt("whole", 0, 1, 0)}
=============================================================================
