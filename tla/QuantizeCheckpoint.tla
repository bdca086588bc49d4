-------------------------- MODULE QuantizeCheckpoint --------------------------
(***************************************************************************)
(* From a recipe to a saved checkpoint: quantize_nvfp4.py and              *)
(* awq_prescale.py, with the recipe validation, the checks of the loaded   *)
(* model and the expert coverage measurement of model_utils.py that stand  *)
(* before hours of calibration and before the save.                        *)
(*                                                                         *)
(* A recipe is the parts of quantize.json that are checked against each    *)
(* other or against the model; a domain's share is weight / whole.  A      *)
(* model is what its modules and its routers do.  The packed rows of a     *)
(* domain are given (PackDataset makes them).                              *)
(***************************************************************************)
EXTENDS Integers, Sequences, SequencesExt, FiniteSetsExt

CONSTANTS
    Recipes,    \* quantize.json files, good and bad
    Models,     \* [quantized, match, ignored, route] of source checkpoints
    Layer,      \* the layers with a router
    Expert, TopK,
    Rows,       \* Rows[d]: the packed rows of domain d: [tokens, real]
    None

\* Weights name domains that have records, thresholds are numbers, and only a
\* module that is in Layer may be taken for a router.
ASSUME QuantizeAssumption ==
    /\ TopK \in Nat /\ IsFiniteSet(Expert)
    /\ \A S \in SUBSET Layer : None \notin [S -> BOOLEAN]
    /\ \A d \in DOMAIN Rows : /\ Len(Rows[d]) \in Nat
                              /\ \A i \in 1..Len(Rows[d]) : Rows[d][i].real \in Nat
    /\ \A r \in Recipes :
          /\ r.weight.domains \in Seq(DOMAIN Rows)
          /\ r.coverage # None =>
                /\ r.coverage.minimum \in Int /\ r.coverage.uncovered \in Int
                /\ \A m \in Models, p \in r.coverage.routers : m.match[p] \subseteq Layer

Tools == {"nvfp4", "awq"}
Artifacts == {"scheme", "scales", "dtype", "status", "config"}

VARIABLES
    tool,       \* which of the two programs runs
    recipe, model,
    pc,
    at, row,    \* the domain measured and the next of its rows
    hooks,      \* routers that have a forward hook
    context,    \* state: the domain and the mask the hooks count with
    counts,     \* counts[l][d][e]: assignments counted by the hooks
    artifacts,  \* quantization state of the model in memory
    temp,       \* the report's temporary file is there
    report,     \* expert_coverage.json, or None
    saved       \* the output directory holds a checkpoint

inputs == <<tool, recipe, model>>
measure == <<at, row, hooks, context, counts>>
files == <<temp, report, saved>>
vars == <<inputs, pc, measure, artifacts, files>>

(***************************************************************************)
(* load_quantization_recipe                                                *)
(***************************************************************************)
Sum(f) == FoldFunction(+, 0, f)

ValidCalibration(c) ==
    /\ c.domains # <<>> /\ IsInjective(c.domains)
    /\ c.budget > 0 /\ c.length > 0
    /\ c.budget >= Len(c.domains)
    /\ DOMAIN c.weight = ToSet(c.domains)
    /\ \A d \in DOMAIN c.weight : c.weight[d] > 0
    /\ Sum(c.weight) = c.whole

ValidPositions(c) ==
    /\ c.offsets # <<>>
    /\ \A i, j \in DOMAIN c.offsets : i < j => c.offsets[i] < c.offsets[j]
    /\ c.offsets[1] >= 0
    /\ Last(c.offsets) + c.length <= c.maxPosition

ValidGroups(groups) ==
    /\ groups # <<>>
    /\ \A i \in DOMAIN groups : groups[i].targets # {} /\ groups[i].format \in {"nvfp4", "fp8"}
    /\ \A i, j \in DOMAIN groups : i # j =>
          groups[i].name # groups[j].name /\ groups[i].targets \cap groups[j].targets = {}

ValidCoverage(c) ==
    c # None => c.routers # {} /\ c.minimum >= 0 /\ c.uncovered >= 0 /\ c.budget > 0

ValidRecipe(r) ==
    /\ ValidCalibration(r.awq)
    /\ ValidCalibration(r.weight)
    /\ ValidGroups(r.groups)
    /\ IF r.kvCache = "fp8" THEN ValidCalibration(r.kv) /\ ValidPositions(r.kv)
       ELSE r.kvCache = None /\ r.kv = None
    /\ ValidCoverage(r.coverage)

\* _domain_token_quotas; int() rounds towards zero.
Truncated(n, m) == IF n < 0 THEN -((-n) \div m) ELSE n \div m
Quotas(c, budget) ==
    LET share(i) == 1 + Truncated((budget - Len(c.domains)) * c.weight[c.domains[i]], c.whole)
        others == MapThenSumSet(share, 1..(Len(c.domains) - 1))
    IN  [i \in DOMAIN c.domains |-> IF i = Len(c.domains) THEN budget - others ELSE share(i)]

(***************************************************************************)
(* The two programs up to the calibration                                  *)
(***************************************************************************)
NoCounts(r) == [l \in Layer |-> [d \in ToSet(r.weight.domains) |-> [e \in Expert |-> 0]]]

Init ==
    /\ tool \in Tools
    /\ recipe \in Recipes
    /\ model \in Models
    /\ pc = "recipe"
    /\ at = 1 /\ row = 1
    /\ hooks = {} /\ context = None /\ counts = NoCounts(recipe)
    /\ artifacts = {}
    /\ temp = FALSE /\ report = None /\ saved = FALSE

\* Most steps change nothing but the place in the program.
Step(from, ok, to) ==
    /\ pc = from
    /\ pc' = IF ok THEN to ELSE "failed"
    /\ UNCHANGED <<inputs, measure, artifacts, files>>

LoadRecipe == Step("recipe", ValidRecipe(recipe), "data")

\* Loading and packing the records fails when they are short or malformed.
PackData == \E ok \in BOOLEAN : Step("data", ok, "model")

\* inspect_source_config refuses a source that is quantized already.
LoadModel == Step("model", ~model.quantized, "mappings")

Matched(pattern) == model.match[pattern]

CheckMappings ==
    Step("mappings", \A p \in recipe.mappings : Matched(p) # {}, "targets")

\* The groups of the program that runs: awq_prescale has a single one.
Groups == IF tool = "awq" THEN <<[name |-> "awq_prescale", format |-> None,
                                  targets |-> recipe.targets]>>
          ELSE recipe.groups
GroupModules(g) == UNION {Matched(p) : p \in g.targets} \ model.ignored

CheckTargets ==
    Step("targets",
         /\ \A i \in DOMAIN Groups : \A p \in Groups[i].targets :
               Matched(p) \ model.ignored # {}
         /\ \A i, j \in DOMAIN Groups : i # j =>
               GroupModules(Groups[i]) \cap GroupModules(Groups[j]) = {},
         IF tool = "nvfp4" /\ recipe.coverage # None THEN "routers" ELSE "calibrate")

(***************************************************************************)
(* measure_expert_coverage                                                 *)
(***************************************************************************)
Routers == UNION {Matched(p) : p \in recipe.coverage.routers}

\* The hooks are registered before the try whose finally removes them: what
\* lies between (the embeddings' device, the quotas) may raise, and ends the
\* program with every hook in place.
RegisterHooks ==
    /\ pc = "routers"
    /\ \/ Routers = {} /\ pc' = "failed" /\ UNCHANGED hooks
       \/ Routers # {} /\ pc' \in {"domain", "hooked"} /\ hooks' = Routers
    /\ UNCHANGED <<inputs, at, row, context, counts, artifacts, files>>

CoverageDomains == recipe.weight.domains

\* Fault: the handles are removed only where no exception was raised.
UnhookedOnSuccess(to) ==
    /\ pc' = to
    /\ hooks' = IF to = "failed" THEN hooks ELSE {}
    /\ context' = None

\* The finally block: no context and no hooks are left behind.
Unhooked(to) == pc' = to /\ hooks' = {} /\ context' = None

\* The data set of the next domain: its quota may be no number of tokens at
\* all, or more than its records hold.
StartDomain ==
    /\ pc = "domain" /\ at <= Len(CoverageDomains)
    /\ \/ /\ Quotas(recipe.weight, recipe.coverage.budget)[at] > 0
          /\ pc' = "rows" /\ row' = 1
          /\ context' = [domain |-> CoverageDomains[at], real |-> 0]
          /\ UNCHANGED hooks
       \/ /\ Unhooked("failed")
          /\ UNCHANGED row
    /\ UNCHANGED <<inputs, at, counts, artifacts, files>>

DomainRows == Rows[CoverageDomains[at]]

\* Fault: padding is counted too.
PicksPadding(l, tokens, n, e) ==
    Cardinality({p \in (1..Len(tokens)) \X (1..TopK) : model.route[l][tokens[p[1]]][p[2]] = e})

\* How often a router picks expert e among the first n tokens: the pairs of a
\* token and a place among its TopK experts that hold e.
Picks(l, tokens, n, e) ==
    Cardinality({p \in (1..n) \X (1..TopK) : model.route[l][tokens[p[1]]][p[2]] = e})

\* A router returns TopK experts of every token; the masked ones must exist.
Regular(l, r) ==
    /\ \A i \in DOMAIN r.tokens : Len(model.route[l][r.tokens[i]]) = TopK
    /\ \A i \in 1..r.real : ToSet(model.route[l][r.tokens[i]]) \subseteq Expert

\* One forward pass over a row, with the hook of every router.
Forward ==
    /\ pc = "rows" /\ row <= Len(DomainRows)
    /\ LET r == DomainRows[row]
           d == context.domain
       IN  IF \A l \in hooks : Regular(l, r)
           THEN /\ counts' = [l \in Layer |-> IF l \notin hooks THEN counts[l] ELSE
                       [counts[l] EXCEPT ![d] =
                          [e \in Expert |-> @[e] + Picks(l, r.tokens, r.real, e)]]]
                /\ row' = row + 1
                /\ UNCHANGED <<pc, hooks, context>>
           ELSE Unhooked("failed") /\ UNCHANGED <<counts, row>>
    /\ UNCHANGED <<inputs, at, artifacts, files>>

EndDomain ==
    /\ pc = "rows" /\ row > Len(DomainRows)
    /\ pc' = "domain" /\ at' = at + 1
    /\ context' = None
    /\ UNCHANGED <<inputs, row, hooks, counts, artifacts, files>>

EndMeasurement ==
    /\ pc = "domain" /\ at > Len(CoverageDomains)
    /\ Unhooked("temp")
    /\ UNCHANGED <<inputs, at, row, counts, artifacts, files>>

Total(l, e) == Sum([d \in DOMAIN counts[l] |-> counts[l][d][e]])

\* Fault: only experts that nothing reached are reported.
LayerFailsUncovered(l) ==
    Cardinality({e \in Expert : Total(l, e) = 0}) > recipe.coverage.uncovered

LayerFails(l) ==
    \/ Cardinality({e \in Expert : Total(l, e) = 0}) > recipe.coverage.uncovered
    \/ \E e \in Expert : Total(l, e) < recipe.coverage.minimum

Verdict == [l \in Routers |-> LayerFails(l)]

WriteTemp ==
    /\ pc = "temp"
    /\ temp' = TRUE
    /\ pc' = "replace"
    /\ UNCHANGED <<inputs, measure, artifacts, report, saved>>

\* The write fails before the code has noted the file's name: it stays.
WriteFails ==
    /\ pc = "temp"
    /\ temp' = TRUE
    /\ pc' = "leaked"
    /\ UNCHANGED <<inputs, measure, artifacts, report, saved>>

\* The report is in place before the gate raises.
ReplaceReport ==
    /\ pc = "replace"
    /\ temp' = FALSE
    /\ report' = Verdict
    /\ pc' = IF \E l \in Routers : LayerFails(l) THEN "failed" ELSE "calibrate"
    /\ UNCHANGED <<inputs, measure, artifacts, saved>>

\* Fault: only a report that was renamed is cleaned up after.
ReplaceFailsWithTemp ==
    /\ pc = "replace"
    /\ pc' = "failed"
    /\ UNCHANGED <<inputs, measure, artifacts, files>>

\* The rename fails: the temporary file is unlinked on the way out.
ReplaceFails ==
    /\ pc = "replace"
    /\ temp' = FALSE
    /\ pc' = "failed"
    /\ UNCHANGED <<inputs, measure, artifacts, report, saved>>

(***************************************************************************)
(* The calibration passes and the save                                     *)
(***************************************************************************)
\* A hook left on a router would stop the first forward pass.
Calibrate ==
    /\ pc = "calibrate"
    /\ IF hooks # {} THEN pc' = "failed" /\ UNCHANGED artifacts
       ELSE /\ pc' = IF tool = "awq" THEN "strip"
                     ELSE IF recipe.kvCache = "fp8" THEN "kv data" ELSE "save"
            /\ artifacts' = Artifacts
    /\ UNCHANGED <<inputs, measure, files>>

\* The KV-cache pass has its own data, packed only now.
PackKvData == \E ok \in BOOLEAN : Step("kv data", ok, "save")

\* strip_quantization: what clear_quantization leaves behind is not known.
Strip ==
    /\ pc = "strip"
    /\ artifacts' \in SUBSET {"scheme", "scales", "dtype"}
    /\ pc' = "verify"
    /\ UNCHANGED <<inputs, measure, files>>

VerifyClean == Step("verify", artifacts \cap {"scheme", "scales", "dtype"} = {}, "save")

Save ==
    /\ pc = "save"
    /\ saved' = TRUE
    /\ pc' = "done"
    /\ UNCHANGED <<inputs, measure, artifacts, temp, report>>

Kill ==
    /\ pc \notin {"done", "failed", "hooked", "leaked", "killed"}
    /\ pc' = "killed"
    /\ hooks' = {} /\ context' = None
    /\ UNCHANGED <<inputs, at, row, counts, artifacts, files>>

Next ==
    \/ LoadRecipe \/ PackData \/ LoadModel \/ CheckMappings \/ CheckTargets
    \/ RegisterHooks \/ StartDomain \/ Forward \/ EndDomain \/ EndMeasurement
    \/ WriteTemp \/ WriteFails \/ ReplaceReport \/ ReplaceFails
    \/ Calibrate \/ PackKvData \/ Strip \/ VerifyClean \/ Save
    \/ Kill

Spec == Init /\ [][Next]_vars

-----------------------------------------------------------------------------
(***************************************************************************)
(* Properties                                                              *)
(***************************************************************************)
\* Assignments of expert e by the router of layer l over the real tokens of
\* all rows of a domain, by definition.
RowSum(l, d, e, n) ==
    Sum([i \in 1..n |-> Cardinality({p \in (1..Rows[d][i].real) \X (1..TopK) :
                            model.route[l][Rows[d][i].tokens[p[1]]][p[2]] = e})])
Routed(l, e) ==
    Sum([i \in DOMAIN CoverageDomains |->
            RowSum(l, CoverageDomains[i], e, Len(Rows[CoverageDomains[i]]))])

\* A checkpoint is saved only by a program whose source was not quantized,
\* whose groups share no module and, where the recipe asks for coverage, whose
\* routers really sent the tokens it demands to their experts; what AWQ
\* pre-scaling saves holds nothing of the temporary quantizer.
SavedPassedItsGates ==
    saved =>
        /\ ValidRecipe(recipe) /\ ~model.quantized
        /\ \A i, j \in DOMAIN Groups : i # j =>
              GroupModules(Groups[i]) \cap GroupModules(Groups[j]) = {}
        /\ tool = "nvfp4" /\ recipe.coverage # None =>
              \A l \in Routers :
                 /\ \A e \in Expert : Routed(l, e) >= recipe.coverage.minimum
                 /\ Cardinality({e \in Expert : Routed(l, e) = 0}) <= recipe.coverage.uncovered
        /\ tool = "awq" => artifacts = {}

\* A measurement that began leaves no hook and no context on the model, on
\* whichever way it is left (where it raises before it begins, "hooked", the
\* hooks stay: that is the end of the program, so nothing runs with them), and
\* what it counted so far is what the routers did with the real tokens of the
\* rows fed: padding is never counted, none twice.
MeasurementIsExact ==
    /\ pc \notin {"domain", "rows"} => context = None
    /\ pc \notin {"domain", "rows", "hooked"} => hooks = {}
    /\ pc \in {"domain", "rows", "temp", "replace"} =>
          \A l \in Routers, i \in DOMAIN CoverageDomains, e \in Expert :
              counts[l][CoverageDomains[i]][e] =
                  RowSum(l, CoverageDomains[i], e,
                         IF i < at THEN Len(Rows[CoverageDomains[i]])
                         ELSE IF i = at /\ pc = "rows" THEN row - 1 ELSE 0)

\* Every end but a kill, or a write that fails half way, leaves no temporary
\* file; a report says of every layer what its routers did, also when the gate
\* then fails, and no checkpoint is finished without the report it asked for.
ReportExplains ==
    /\ pc \in {"failed", "done"} => ~temp
    /\ report # None =>
          \A l \in Routers : report[l] =
             (\/ \E e \in Expert : Routed(l, e) < recipe.coverage.minimum
              \/ Cardinality({e \in Expert : Routed(l, e) = 0}) > recipe.coverage.uncovered)
    /\ pc = "done" /\ tool = "nvfp4" /\ recipe.coverage # None => report # None

===============================================================================
