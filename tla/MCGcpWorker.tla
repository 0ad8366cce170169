---------------------------- MODULE MCGcpWorker ----------------------------
(* GcpWorker on small instances for TLC: repositories that differ in their *)
(* weights, or in the code that auto_map refers to.                        *)
EXTENDS GcpWorker, TLC

CONSTANTS x, y, z

Base ==
  [weights |-> Dirs \X {"safetensors"}, own |-> {}, code |-> {}, refs |-> {},
   imports |-> [m \in Modules |-> {}], odd |-> {}, pinned |-> FALSE,
   named |-> TRUE]

MCRepos ==
  {[Base EXCEPT !.named = FALSE]} \cup
  {[Base EXCEPT !.weights = w] : w \in SUBSET (Dirs \X Kinds)} \cup
  {[Base EXCEPT !.own = own, !.code = code, !.refs = refs, !.odd = odd,
                !.pinned = pinned, !.imports = x :> ix @@ y :> iy @@ z :> {}] :
     own \in {{}, {x}, {x, z}}, code \in SUBSET Modules,
     refs \in {{<< "own", x >>}, {<< "pinned", x >>}, {<< "other", x >>},
               {<< "own", x >>, << "pinned", y >>}, {<< "pinned", x >>, << "other", y >>}},
     odd \in {{}, {z}}, pinned \in BOOLEAN,
     ix \in SUBSET {y, z}, iy \in SUBSET {x, z}}
=============================================================================
