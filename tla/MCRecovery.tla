----------------------------- MODULE MCRecovery -----------------------------
(***************************************************************************)
(* Small instances of Recovery.                                            *)
(***************************************************************************)
EXTENDS Recovery

k == <<"k">>
MCCommands == {<<SET, k, <<CR, LF>>>>, <<SET, k, <<"*", "1", CR, LF>>>>,
               <<EXPIRE, k, <<"9">>>>, <<DEL, k>>, <<DEL, k, k>>}
=============================================================================
