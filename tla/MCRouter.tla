------------------------------- MODULE MCRouter -------------------------------
(***************************************************************************)
(* Three function codes, one of them above MB_FUNC_CODE_MAX (0x7F) and one *)
(* with a builtin handler, and ranges over three registers: enough for     *)
(* overlapping, nested and adjacent ranges, for a table that an allocation *)
(* failure has filled, and for an invalid code, in every order.            *)
(***************************************************************************)
EXTENDS MbRouter

CONSTANTS c1, c2, cInvalid

MCFuncCodes == {c1, c2, cInvalid}
MCValidCodes == {c1, c2}
MCBuiltinCodes == {c1}
MCRangeCodes == {c1, c2, cInvalid}
MCStarts == 0..1
MCLengths == 0..2
===============================================================================
