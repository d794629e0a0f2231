----------------------------- MODULE Providers -----------------------------
(***************************************************************************)
(* How a child gets an engine for one model (engine.rs, inpaint.rs,        *)
(* inpaint_sd.rs, ep_compat.rs): it tries the GPU's execution providers    *)
(* one by one and then the CPU, skips those it has known to fail, and      *)
(* keeps the optimized graph in a file for the next start.  The children   *)
(* share the list of failures and the graphs, and may be killed at any     *)
(* step.                                                                   *)
(***************************************************************************)
EXTENDS Integers, Sequences, FiniteSets

CONSTANTS
    Procs,
    Gpus,       \* the providers that may be there, in the order they are tried
    Caching,    \* those with a graph on disk, the CPU among them
    Families,   \* "seg", "lama", "sd": how an engine is built
    Machines,   \* what may run where: sets of <<provider, variant>>
    MaxKills    \* bound on the children killed

ASSUME ProvidersAssumption ==
    /\ Gpus \in Seq(STRING) /\ {Gpus[n] : n \in DOMAIN Gpus} \cap {"CPU", "none", "failed"} = {}
    /\ "CPU" \in Caching
    /\ \A machine \in Machines : <<"CPU", "full">> \in machine
    /\ MaxKills \in Nat

VARIABLES
    family, able,   \* what is built; <<provider, variant>> pairs that work
    passes,     \* each child's passes still to come, with the current one first
    ladder,     \* the providers the current pass has still to try
    commit,     \* [ep, graph, writes]: the session being made, from a graph or the model
    engine,     \* the provider of the engine it has; "none", "failed"
    knows,      \* the failures each child has in memory
    listed,     \* ep_compat.json
    graphs,     \* provider -> "none", "partial", "whole"
    spoilt,     \* history: children whose CPU graph was partial when they read it
    kills

provVars == <<family, able, passes, ladder, commit, engine, knows, listed, graphs, spoilt, kills>>

AllProviders == {Gpus[n] : n \in DOMAIN Gpus} \cup {"CPU"}
NoCommit == [ep |-> "none", graph |-> "none", writes |-> FALSE]

\* The passes of a build: OrtEngine::new with the optimized variant and then the
\* full model, on the GPU and then on the CPU; LaMa and SD have one variant, and
\* SD no CPU.
Pass(place, variant) == [place |-> place, variant |-> variant]
Passes(kind) ==
    CASE kind = "seg" -> <<Pass("gpu", "optimized"), Pass("gpu", "full"), Pass("cpu", "optimized"), Pass("cpu", "full")>>
      [] kind = "sd"  -> <<Pass("gpu", "full")>>
      [] OTHER        -> <<Pass("gpu", "full"), Pass("cpu", "full")>>
Rungs(p) == IF p.place = "gpu" THEN Gpus ELSE <<"CPU">>

ProvInit ==
    /\ family \in Families
    /\ able \in Machines
    /\ passes = [p \in Procs |-> <<>>] /\ ladder = [p \in Procs |-> <<>>]
    /\ commit = [p \in Procs |-> NoCommit] /\ engine = [p \in Procs |-> "none"]
    /\ knows = [p \in Procs |-> {}] /\ listed = {}
    /\ graphs = [e \in Caching |-> "none"]
    /\ spoilt = {} /\ kills = 0

----------------------------------------------------------------------------

\* A child starts and builds an engine; it reads the list of failures once.
StartBuild(p) ==
    /\ engine[p] \in {"none", "failed"} /\ passes[p] = <<>>
    /\ passes' = [passes EXCEPT ![p] = Passes(family)]
    /\ ladder' = [ladder EXCEPT ![p] = Rungs(Passes(family)[1])]
    /\ engine' = [engine EXCEPT ![p] = "none"] /\ knows' = [knows EXCEPT ![p] = listed]
    /\ spoilt' = spoilt \ {p}
    /\ UNCHANGED <<family, able, commit, listed, graphs, kills>>

Climbs(p) == passes[p] # <<>> /\ commit[p] = NoCommit

SkipKnown(p) ==
    /\ Climbs(p) /\ ladder[p] # <<>> /\ Head(ladder[p]) \in knows[p]
    /\ ladder' = [ladder EXCEPT ![p] = Tail(@)]
    /\ UNCHANGED <<family, able, passes, commit, engine, knows, listed, graphs, spoilt, kills>>

\* A pass has nothing left to try: the next one, or the end of it.
NextPass(p) ==
    /\ Climbs(p) /\ ladder[p] = <<>>
    /\ passes' = [passes EXCEPT ![p] = Tail(@)]
    /\ IF Len(passes[p]) = 1
       THEN engine' = [engine EXCEPT ![p] = "failed"] /\ UNCHANGED ladder
       ELSE ladder' = [ladder EXCEPT ![p] = Rungs(passes[p][2])] /\ UNCHANGED engine
    /\ UNCHANGED <<family, able, commit, knows, listed, graphs, spoilt, kills>>

\* apply_ort_graph_cache: the graph on disk is used, whatever variant it was made
\* from; without one the runtime writes it when the session is made.
StartCommit(p) ==
    /\ Climbs(p) /\ ladder[p] # <<>> /\ Head(ladder[p]) \notin knows[p]
    /\ LET ep == Head(ladder[p])
           graph == IF ep \in Caching THEN graphs[ep] ELSE "none"
       IN  /\ commit' = [commit EXCEPT ![p] = [ep |-> ep, graph |-> graph, writes |-> FALSE]]
           /\ spoilt' = IF ep = "CPU" /\ graph = "partial" THEN spoilt \cup {p} ELSE spoilt
    /\ UNCHANGED <<family, able, passes, ladder, engine, knows, listed, graphs, kills>>

Variant(p) == passes[p][1].variant
WasCached(p) == commit[p].graph # "none"
Works(p) ==   \* a graph of OrtEngine is of a variant that worked; the others are tried out
    \/ commit[p].graph = "whole" /\ family = "seg"
    \/ commit[p].graph # "partial" /\ <<commit[p].ep, Variant(p)>> \in able

StartWrite(p) ==
    /\ commit[p] # NoCommit /\ ~WasCached(p) /\ ~commit[p].writes /\ commit[p].ep \in Caching
    /\ Works(p) \/ family # "seg"   \* the smoke test comes after it
    /\ commit' = [commit EXCEPT ![p].writes = TRUE]
    /\ graphs' = [graphs EXCEPT ![commit[p].ep] = "partial"]
    /\ UNCHANGED <<family, able, passes, ladder, engine, knows, listed, spoilt, kills>>

\* A graph that was deleted meanwhile stays so.
Written(p) == [e \in Caching |-> IF e = commit[p].ep /\ commit[p].writes /\ graphs[e] = "partial" THEN "whole"
                                 ELSE graphs[e]]

CommitSucceeds(p) ==
    /\ commit[p] # NoCommit /\ Works(p)
    /\ WasCached(p) \/ commit[p].writes \/ commit[p].ep \notin Caching
    /\ engine' = [engine EXCEPT ![p] = commit[p].ep]
    /\ passes' = [passes EXCEPT ![p] = <<>>] /\ ladder' = [ladder EXCEPT ![p] = <<>>]
    /\ commit' = [commit EXCEPT ![p] = NoCommit] /\ graphs' = Written(p)
    /\ UNCHANGED <<family, able, knows, listed, spoilt, kills>>

\* handle_commit_failure: a graph from disk is the suspect and goes; otherwise
\* the provider is, and every later pass and start skips it.  The CPU's failures
\* are not handled.
Suspects(p) == {e \in {commit[p].ep} \ {"CPU"} : WasCached(p)}
CommitFails(p) ==
    /\ commit[p] # NoCommit /\ ~Works(p)
    /\ LET recorded == {commit[p].ep} \ (Suspects(p) \cup {"CPU"})
       IN  /\ knows' = [knows EXCEPT ![p] = @ \cup recorded]
           /\ listed' = IF recorded \subseteq knows[p] THEN listed ELSE knows'[p]
    /\ graphs' = [e \in Caching |-> IF e \in Suspects(p) THEN "none" ELSE Written(p)[e]]
    /\ commit' = [commit EXCEPT ![p] = NoCommit] /\ ladder' = [ladder EXCEPT ![p] = Tail(@)]
    /\ UNCHANGED <<family, able, passes, engine, spoilt, kills>>

\* A cancel, a release or the end of the program kills the child.
KillBuilder(p) ==
    /\ passes[p] # <<>> \/ engine[p] # "none"
    /\ kills < MaxKills /\ kills' = kills + 1
    /\ passes' = [passes EXCEPT ![p] = <<>>] /\ ladder' = [ladder EXCEPT ![p] = <<>>]
    /\ commit' = [commit EXCEPT ![p] = NoCommit] /\ engine' = [engine EXCEPT ![p] = "none"]
    /\ UNCHANGED <<family, able, knows, listed, graphs, spoilt>>

\* The button "Clear compiled-model cache" of the settings.
ClearGraphs ==
    /\ graphs' = [e \in Caching |-> "none"]
    /\ UNCHANGED <<family, able, passes, ladder, commit, engine, knows, listed, spoilt, kills>>

Build(p) == StartBuild(p) \/ SkipKnown(p) \/ NextPass(p) \/ StartCommit(p) \/ StartWrite(p) \/ CommitSucceeds(p) \/ CommitFails(p)

ProvNext == ClearGraphs \/ \E p \in Procs : Build(p) \/ KillBuilder(p)

----------------------------------------------------------------------------
(* Properties                                                              *)

\* A provider is blamed only if it cannot run the model in some variant, and never
\* for a graph that a killed child left half written, or another is writing.
NoFalseBlame ==
    \A e \in listed \cup UNION {knows[p] : p \in Procs} : {e} \X {"optimized", "full"} \notin SUBSET able

\* Whoever may use the CPU fails only with a graph of the CPU's that is no whole one.
CpuIsLastResort == \A p \in Procs : family # "sd" /\ engine[p] = "failed" => p \in spoilt

ProvidersOK == NoFalseBlame /\ CpuIsLastResort
=============================================================================
