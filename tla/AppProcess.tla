----------------------------- MODULE AppProcess -----------------------------
(***************************************************************************)
(* The program that DevLoop's OnRestart builds and runs, as `gastro dev'   *)
(* (DevApp) and `gastro watch' (WatchApp) both keep it: what it was built  *)
(* from, its processes, and the one the command would stop.                *)
(***************************************************************************)
EXTENDS DevLoop, FiniteSets

VARIABLES bin,    \* the version the last successful build was made from
          app,    \* the variable appCmd or app
          procs   \* the program's processes

Process == [up : BOOLEAN, ver : Version]

NoLoop == UNCHANGED <<src, seen, poll, pending, armed, tree, shown, done, risky>>
=============================================================================
