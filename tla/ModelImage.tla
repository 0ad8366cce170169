----------------------------- MODULE ModelImage -----------------------------
(***************************************************************************)
(* What app/gcp/download_model.py puts into the image of a GCP worker: the *)
(* weights that inference reads, and the Python modules that the auto_map  *)
(* of config.json refers to, from the model's repository and, if one is    *)
(* pinned, from a repository of custom code.                               *)
(*                                                                         *)
(* Files are modules and kinds of weights; the Hub is external.            *)
(***************************************************************************)
EXTENDS Naturals, FiniteSets

CONSTANTS
  Dirs,       (* Directories of a model repository.                        *)
  Modules     (* Python modules, by name.                                  *)

ASSUME ModulesAssumption == IsFiniteSet(Modules)

Kinds   == {"safetensors", "pickle"}
Origins == {"own", "pinned", "other"}

(* weights: the weight files; own, code: modules of the model's and of the *)
(* pinned repository; refs: what auto_map refers to, in which of them or in*)
(* another one; imports: the relative imports of each module; odd: modules *)
(* with an import that is relative to a package, or names no module; named:*)
(* whether the build is given a MODEL_NAME at all.                         *)
Repo ==
  [weights: SUBSET (Dirs \X Kinds), own: SUBSET Modules, code: SUBSET Modules,
   refs: SUBSET (Origins \X Modules), imports: [Modules -> SUBSET Modules],
   odd: SUBSET Modules, pinned: BOOLEAN, named: BOOLEAN]

Named(refs, origins) == {m \in Modules : \E o \in origins : << o, m >> \in refs}

-----------------------------------------------------------------------------
(* download_weights.                                                       *)

(* build_ignore_patterns: pickles stay out where a safetensors file sits in*)
(* the same directory.                                                     *)
Downloaded(weights) ==
  {w \in weights : w[2] = "pickle" => << w[1], "safetensors" >> \notin weights}

-----------------------------------------------------------------------------
(* localize_remote_code.                                                   *)

(* auto_map refers to the pinned repository, and to no other.              *)
Localizable(repo) ==
  /\ Named(repo.refs, {"pinned"}) # {}
  /\ Named(repo.refs, {"other"}) = {}

(* Mutant: only the imports of the modules in auto_map are looked at.      *)
Seen_Direct(files, imports, roots) ==
  roots \cup UNION {imports[m] : m \in roots \cap files}

(* _validate_local_modules: the worklist, a round at a time.               *)
Seen(files, imports, roots) ==
  LET After[n \in 0 .. Cardinality(Modules)] ==
        IF n = 0 THEN roots
        ELSE After[n - 1] \cup UNION {imports[m] : m \in After[n - 1] \cap files}
  IN  After[Cardinality(Modules)]

Validated(files, repo, roots) ==
  \A m \in Seen(files, repo.imports, roots) : m \in files /\ m \notin repo.odd

(* The code is copied over the model's own modules, and every reference is *)
(* local then.                                                             *)
Localized(repo) ==
  [weights |-> Downloaded(repo.weights), modules |-> repo.own \cup repo.code,
   local |-> Named(repo.refs, Origins), remote |-> {}]

(* warn_about_unpinned_remote_code: a warning, and the references stay.    *)
Unlocalized(repo) ==
  [weights |-> Downloaded(repo.weights), modules |-> repo.own,
   local |-> Named(repo.refs, {"own"}), remote |-> Named(repo.refs, {"pinned", "other"})]

(* "No MODEL_NAME set, skipping download".                                 *)
Empty == [weights |-> {}, modules |-> {}, local |-> {}, remote |-> {}]

(* The build ends in an image, or fails.                                   *)
Built(repo) ==
  IF ~repo.named THEN Empty
  ELSE IF repo.pinned THEN Localized(repo) ELSE Unlocalized(repo)

BuildFails(repo) ==
  /\ repo.named
  /\ \/ Downloaded(repo.weights) = {}
     \/ repo.pinned /\ ~( /\ Localizable(repo)
                          /\ Validated(repo.own \cup repo.code, repo, Named(repo.refs, Origins)))

-----------------------------------------------------------------------------
(* The worker, when it loads the image with sentence-transformers.         *)

(* A module needs what it imports: the smallest closed set.                *)
Needed(imports, roots) ==
  {m \in Modules : \A S \in SUBSET Modules :
     roots \subseteq S /\ (\A x \in S : imports[x] \subseteq S) => m \in S}

HasModules(modules, repo, roots) ==
  Needed(repo.imports, roots) \subseteq modules \ repo.odd

(* _resolve_model_source: where nothing was baked, the Hub has to have it  *)
(* all.  Each directory with weights is a part of the model; the references*)
(* to other repositories are fetched from the Hub.                         *)
Loads(image, repo, hub) ==
  \/ image = Empty /\ hub
  \/ /\ image # Empty
     /\ \A d \in Dirs : (\E k \in Kinds : << d, k >> \in repo.weights)
                        => \E k \in Kinds : << d, k >> \in image.weights
     /\ HasModules(image.modules, repo, image.local)
     /\ image.remote = {} \/ hub

=============================================================================
