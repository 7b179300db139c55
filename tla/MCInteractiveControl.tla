------------------------ MODULE MCInteractiveControl ------------------------
(***************************************************************************)
(* Instances of InteractiveControl for TLC.                                *)
(***************************************************************************)
EXTENDS InteractiveControl

\* NONE, two modes that share the trajectory publisher of which one drives
\* the wheels, and a camera mode of the other family.
TwoFamilies == {"NONE", "FULL", "DRIVE", "CAMERAS_FRONT_LEFT"}

\* The smallest instance in which markers come and go.
OneBody == {"NONE", "HUG"}
=============================================================================
