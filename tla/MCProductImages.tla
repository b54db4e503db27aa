-------------------------- MODULE MCProductImages --------------------------
(* Instances of ProductImages for TLC.                                     *)
EXTENDS ProductImages, TLC

CONSTANTS g1, g2, v1, v2, red

\* Two images of the gallery, or two of the options.
TwoOfOne == {{g1, g2, v1}, {g1, v1, v2}}

\* A variant of the option, and one of none.
TwoSnapshots == {{red}, {}}
=============================================================================
