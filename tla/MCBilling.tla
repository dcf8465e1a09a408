----------------------------- MODULE MCBilling -----------------------------
(* Small instances of Billing: a clock of a few units, of which the short   *)
(* grace is one and the long grace two.                                     *)
EXTENDS Billing

AllModes == {"arc", "hosted", "cluster"}
=============================================================================
