-------------------------- MODULE MCImatrixPipeline --------------------------
(* Two domains and their combined text, three builds; an expert that only one  *)
(* of the domains reaches, and two modules of one tensor name.               *)
EXTENDS ImatrixPipeline, TLC

MCDomains == <<"code", "chat">>
MCWeights == <<2, 1>>
MCText ==
    <<[code |-> <<"x", "y", "x", "y", "x">>, chat |-> <<"x", "x", "x">>,
       combined |-> <<"y", "x", "x">>],
      [code |-> <<"y">>, chat |-> <<"x", "z", "y", "x">>, combined |-> <<"z", "y">>],
      [code |-> <<"x", "z", "z", "y">>, chat |-> <<"y", "x">>, combined |-> <<"x">>]>>
MCModules ==
    <<[tensor |-> "attn", sees |-> [x |-> 9, y |-> 9, z |-> 9]],
      [tensor |-> "expert", sees |-> [x |-> Absent, y |-> 2, z |-> 4]],
      [tensor |-> "attn", sees |-> [x |-> 1, y |-> 4, z |-> 5]]>>
=============================================================================
