-------------------------------- MODULE Values --------------------------------
(***************************************************************************)
(* The values an instruction of the IR works on (ir::Value of              *)
(* src/src/ir/ir.hpp): a constant, the result of an instruction or a       *)
(* parameter, or the address of a global (a constant whose name begins     *)
(* with '@').                                                              *)
(***************************************************************************)
Const(n) == <<"const", n>>
Var(id) == <<"var", id>>
GlobalPtr(g) == <<"global", g>>
IsConst(v) == v[1] = "const"
IsVar(v) == v[1] = "var"
IsGlobal(v) == v[1] = "global"

==============================================================================
