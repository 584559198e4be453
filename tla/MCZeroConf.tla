----------------------------- MODULE MCZeroConf -----------------------------
(***************************************************************************)
(* pay spends a coin of the wallet and a coin of others, child spends pay  *)
(* and the second coin of the wallet, and swap replaces pay.               *)
(***************************************************************************)
EXTENDS ZeroConf

CONSTANTS mine, other, pay, child, swap, addrA, addrB, addrU

MCTxIns ==
  pay :> {<<mine, 1>>, <<other, 1>>} @@ child :> {<<pay, 1>>, <<mine, 2>>} @@ swap :> {<<mine, 1>>}

MCTxOuts ==
  mine :> <<addrA, addrB>> @@ other :> <<addrU>> @@
  pay :> <<addrB, addrU>> @@ child :> <<addrA>> @@ swap :> <<addrA>>

MCFee == pay :> 1 @@ child :> 1 @@ swap :> 2
=============================================================================
