---------------------------- MODULE MCHiCacheProbe ----------------------------
(* Three markers; digests of a new page, of an old page and of both, one     *)
(* defect at a time.                                                         *)
EXTENDS HiCacheProbe

MCExpected == <<"a", "b", "c">>
MCResponses == {<<"a", "b", "c">>, <<"a", "c">>, <<"a", "a", "b", "c">>,
                <<"a", "c", "b">>, <<"x", "a", "c">>, <<"c", "a">>}

Line(direction, key, digest) == [direction |-> direction, key |-> key, digest |-> digest]
Copy(component, host, device, exact) ==
    [component |-> component, host |-> host, device |-> device, exact |-> exact]
Log(storage, transfers) == [storage |-> storage, transfers |-> transfers]

Write == Line("write", "new", 1)
K == Copy("k", 1, 1, TRUE)
V == Copy("v", 2, 2, TRUE)
MCColdLogs == {Log({Write}, {K}), Log({Write, Line("write", "new", 2)}, {K, V}), Log({}, {K, V})}

Read == Line("read", "new", 1)
Old == Line("read", "old", 3)
MCWarmLogs == {Log({Read, Old}, {V}), Log({Read}, {}), Log({Line("read", "new", 2)}, {V}),
               Log({Read, Line("read", "new", 2)}, {V}), Log({Old}, {V}),
               Log({Read}, {Copy("v", 2, 3, FALSE)}), Log({Read}, {V, Copy("k", 1, 2, TRUE)})}
===============================================================================
