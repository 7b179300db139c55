----------------------------- MODULE MCBodyModes -----------------------------
(***************************************************************************)
(* Instances of BodyModes for TLC.                                         *)
(***************************************************************************)
EXTENDS BodyModes

\* One metre (or radian) each way, which hits every limit, and walks of
\* less than one, of exactly one and of two and three steps.
Amounts == {-100, 100, 250}

\* The same, with walks backwards.
Backwards == {-250, -100, 100}
=============================================================================
