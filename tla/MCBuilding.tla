------------------------------ MODULE MCBuilding ------------------------------
(* Programs of up to MaxElements instructions and labels.  The pool has an     *)
(* instruction of each length, one without a reference and one with two.       *)
EXTENDS Building

MCNames == {"loop", "end"}
MCPool ==
    {I("HALT", <<>>),
     I("MOVE", <<imm(-1), ind_areg_disp(6, -4)>>),
     I("JE", <<Ref("loop")>>),
     I("CMP", <<Ref("end"), Ref("loop")>>)}
MCVectorTables == {<<>>, <<Ref("end")>>, <<[value |-> 7], Ref("loop")>>}
AtZero == {0}
\* an entry point from which the labels are counted wrongly (assembly.py:48)
AtTen == {10}
=============================================================================
