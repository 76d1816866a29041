---------------------------- MODULE MCLambda ----------------------------
(***************************************************************************)
(* Programs for Lambda.  The function "f" has a value and a reference      *)
(* parameter, a local variable and a result variable, "g" has a reference  *)
(* parameter and returns an expression, and "h" is a proc with a value     *)
(* parameter.                                                              *)
(***************************************************************************)
EXTENDS Lambda, TLC

CONSTANT MaxOid

MCOid == 1..MaxOid
MCGlobals == {1, 2}
MCEmpty == 1
MCExc == 2

FG == {"f", "g"}
FGH == {"f", "g", "h"}

ParamsOf == ("f" :> <<"f_value", "f_ref">>) @@ ("g" :> <<"g_ref">>) @@ ("h" :> <<"h_value">>)
LocalsOf == ("f" :> <<"f_local">>) @@ ("g" :> <<>>) @@ ("h" :> <<>>)
ResultVarOf == ("f" :> "f_result") @@ ("g" :> Null) @@ ("h" :> Null)

MCParams == [fn \in Fun |-> ParamsOf[fn]]
MCLocals == [fn \in Fun |-> LocalsOf[fn]]
MCResultOf == [fn \in Fun |-> ResultVarOf[fn]]
MCInitValue == [s \in Slot |-> IF s = "f_local" THEN MCEmpty ELSE Null]
MCProcs == Fun \cap {"h"}
MCRefParams == {"f_ref", "g_ref"}

Ok == {"ok"}
AnyOutcome == {"ok", "raised", "no_object"}
AnyDecision == {"continue", "raise", "trace"}
ContinueOrRaise == {"continue", "raise"}
=============================================================================
