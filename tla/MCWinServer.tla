----------------------------- MODULE MCWinServer -----------------------------
(* Instances of WinServer for TLC. *)
EXTENDS WinServer

AllRules == AppRules
===============================================================================
