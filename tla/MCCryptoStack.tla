---------------------------- MODULE MCCryptoStack -----------------------------
(***************************************************************************)
(* The crypto stack under two PDUs that start with keys of their own and   *)
(* may be given each other's, and two hash contexts.                       *)
(***************************************************************************)
EXTENDS CryptoStack, TLC

MCProfileKey == ("brake" :> "key_brake") @@ ("steer" :> "key_steer")

MCChunk == {<< >>, <<"x">>}
=============================================================================
