----------------------------- MODULE MCStatCache -----------------------------
(* A shared folder with a directory and one file in it whose name has two  *)
(* spellings, "f" (the one on disk) and "F".                               *)
EXTENDS StatCache

Tree == {Root, <<"d">>, <<"d", "f">>, <<"d", "F">>}
Form == [s \in {"d", "f", "F"} |-> IF s = "F" THEN "f" ELSE s]
Requested == {<<"d">>, <<"d", "F">>}
=============================================================================
