-------------------------- MODULE MCControlHistory --------------------------
(* ControlHistory with nine event ids: three system rows and six commands, *)
(* enough for three rounds of hold and release of either kind.             *)
EXTENDS ControlHistory
=============================================================================
