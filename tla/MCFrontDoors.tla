---------------------------- MODULE MCFrontDoors ----------------------------
(* Constants for TLC.                                                         *)
EXTENDS FrontDoors
CONSTANTS a1, a2, d1, s1, s2, w1, w2, b1, b2

MCPaths == {<<"a">>, <<"b">>, <<"a", "b">>}
=============================================================================
