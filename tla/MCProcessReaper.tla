--------------------------- MODULE MCProcessReaper ---------------------------
(* Two commands and an orphan on two pids: few enough pids that one passes *)
(* to a new process while the Run of its previous owner has not returned.  *)
EXTENDS ProcessReaper

commands == {"c1", "c2"}
orphans == {"orphan"}
pids == {"pid1", "pid2"}
=============================================================================
