------------------------ MODULE MCQuantizeCheckpoint ------------------------
(* Recipes and models for QuantizeCheckpoint: a sound pair, and pairs that   *)
(* differ from it in one place each.                                         *)
EXTENDS QuantizeCheckpoint, TLC

CONSTANTS l1, l2, m1, m2, e1, e2, e3, e9, t1, t2, pad, code, chat

Calibration == [domains |-> <<code, chat>>, budget |-> 8, length |-> 4,
                weight |-> (code :> 3) @@ (chat :> 1), whole |-> 4]
KvCalibration == Calibration @@ [offsets |-> <<0, 4>>, maxPosition |-> 8]
Group(name, format, targets) == [name |-> name, format |-> format, targets |-> targets]
Coverage(budget, minimum, uncovered) ==
    [routers |-> {"routers"}, budget |-> budget, minimum |-> minimum, uncovered |-> uncovered]

Sound ==
    [awq |-> Calibration, weight |-> Calibration, kvCache |-> None, kv |-> None,
     mappings |-> {}, targets |-> {"both"},
     groups |-> <<Group("a", "nvfp4", {"first"}), Group("b", "fp8", {"second"})>>,
     coverage |-> Coverage(4, 1, 0)]

MCRecipes ==
    {Sound,
     [Sound EXCEPT !.coverage = None, !.kvCache = "fp8", !.kv = KvCalibration],
     [Sound EXCEPT !.coverage = Coverage(4, 0, 1), !.mappings = {"first", "second"}],
     [Sound EXCEPT !.coverage = Coverage(1, 0, 0)],
     [Sound EXCEPT !.coverage = Coverage(4, 4, 0)],
     [Sound EXCEPT !.coverage.routers = {"nothing"}],
     [Sound EXCEPT !.mappings = {"nothing"}],
     [Sound EXCEPT !.groups[2].targets = {"both"}],
     [Sound EXCEPT !.groups[2].targets = {"first"}],
     [Sound EXCEPT !.groups[2].targets = {"nothing"}, !.targets = {"nothing"}],
     [Sound EXCEPT !.weight.budget = 1],
     [Sound EXCEPT !.weight.whole = 5],
     [Sound EXCEPT !.kvCache = "fp8", !.kv = [KvCalibration EXCEPT !.maxPosition = 7]],
     [Sound EXCEPT !.kvCache = "fp8", !.kv = [KvCalibration EXCEPT !.offsets = <<4, 0>>]]}

MCMatch == [first |-> {m1}, second |-> {m2}, both |-> {m1, m2},
            routers |-> {l1, l2}, nothing |-> {}]

\* Every expert is picked; l2 never picks e3 but for padding.
Route == (t1 :> <<e1, e2>>) @@ (t2 :> <<e2, e3>>) @@ (pad :> <<e3, e1>>)
Skewed == [Route EXCEPT ![t2] = <<e2, e1>>]
Model(quantized, second) ==
    [quantized |-> quantized, match |-> MCMatch, ignored |-> {},
     route |-> (l1 :> Route) @@ (l2 :> second)]

MCModels ==
    {Model(FALSE, Route), Model(TRUE, Route), Model(FALSE, Skewed),
     Model(FALSE, [Route EXCEPT ![t2] = <<e2>>]),
     Model(FALSE, [Route EXCEPT ![t2] = <<e2, e9>>]),
     Model(FALSE, [Route EXCEPT ![pad] = <<e9, e1>>]),
     [Model(FALSE, Route) EXCEPT !.ignored = {m2}]}

Row(tokens, real) == [tokens |-> tokens, real |-> real]
MCRows == (code :> <<Row(<<t1, t2, t1, t1>>, 4), Row(<<t2, pad, pad, pad>>, 1)>>)
            @@ (chat :> <<Row(<<t1, t2, pad, pad>>, 2)>>)
=============================================================================
