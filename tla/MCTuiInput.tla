----------------------------- MODULE MCTuiInput ------------------------------
(* TuiInput with a grammar of three words, one of which is a builtin exit, and *)
(* terminals down to one visible menu row.                                   *)
EXTENDS TuiInput

MCWords    == <<<<"a", "b">>, <<"b">>, <<"c">>>>
MCBuiltins == {<<"b">>}
=============================================================================
