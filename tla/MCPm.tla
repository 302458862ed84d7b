-------------------------------- MODULE MCPm --------------------------------
(* Model-checking instances of the power management: the configurations give *)
(* every constant its value.                                                 *)
EXTENDS T7xxPm
=============================================================================
