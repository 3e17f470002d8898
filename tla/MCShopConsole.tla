--------------------------- MODULE MCShopConsole ---------------------------
(***************************************************************************)
(* ShopConsole for TLC.  All its parameters are numbers.                   *)
(***************************************************************************)
EXTENDS ShopConsole
=============================================================================
