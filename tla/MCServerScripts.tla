--------------------------- MODULE MCServerScripts ---------------------------
(* Small instances of ServerScripts for TLC. *)
EXTENDS ServerScripts, TLC

CONSTANTS a, b, p1, p2

\* configs/Qwen3.8-Flash-Next/model.env: all engines on one port.
MCPort == [e \in Engine |-> 8000]

\* sglang is served like vllm (no look at the port) and stopped like infernix
\* (no look at the process), so two engines take every path of the scripts.
MCJob == [verb : {"serve", "stop"}, engine : {"vllm", "infernix"}]

SglangJob == [verb : {"serve", "stop"}, engine : {"sglang", "vllm"}]

Symmetry == Permutations(Shell) \union Permutations(Pid)

=============================================================================
