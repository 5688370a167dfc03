---------------------------- MODULE MCWordProgram ----------------------------
EXTENDS WordProgram

MCOrigSecret(sh) == sh
MCShareNum(sh) == 0

(* ZeroExt(1, k) and ZeroExt(1, m).                                        *)
MCWords == {<<Symb("k"), Const(FALSE)>>, <<Symb("m"), Const(FALSE)>>}
=============================================================================
