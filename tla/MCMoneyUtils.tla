--------------------------- MODULE MCMoneyUtils ----------------------------
(* Small instances of MoneyUtils for TLC.                                  *)
EXTENDS MoneyUtils
=============================================================================
