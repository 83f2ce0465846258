------------------------------ MODULE MCMessagePath ------------------------------
(* Instances of MessagePath for TLC.                                       *)
EXTENDS MessagePath

PatternsDef ==
    {<<"a">>, <<"a", "*">>, <<"a", "*", "b">>, <<"*">>,
     <<"*", "a", "*">>, <<"b", "*", "*", "a">>}
NamesDef == UNION {[1..n -> {"a", "b", "x"}] : n \in 1..4}
================================================================================
