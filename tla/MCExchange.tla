----------------------------- MODULE MCExchange -----------------------------
(***************************************************************************)
(* An exchange about four keys.                                           *)
(***************************************************************************)
EXTENDS Exchange

MCAsked == 0..3
=============================================================================
