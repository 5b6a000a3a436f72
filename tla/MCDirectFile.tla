---------------------------- MODULE MCDirectFile ----------------------------
(* Records of none to two bytes.                                           *)
EXTENDS DirectFile

MCContents == {<<>>, <<"a">>, <<"b", "b">>}
=============================================================================
