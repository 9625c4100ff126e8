---------------------------- MODULE MCUpdateWatch ----------------------------
(* UpdateWatch with the values its model checking runs need.               *)
EXTENDS UpdateWatch

CONSTANTS tray, cli

OneTray == {tray}
OneInstaller == {cli}
=============================================================================
