------------------------------ MODULE Commands ------------------------------
(***************************************************************************)
(* The two commands that run DevLoop: `gastro watch', which is WatchApp,   *)
(* and `gastro dev', which is DevApp with the same program, and appMu.     *)
(***************************************************************************)
EXTENDS WatchApp

VARIABLES appMu,    \* gastro dev's lock
          command   \* the command that was given

Dev == INSTANCE DevApp

commandVars == <<vars, appMu, command>>

CommandInit == command \in {"watch", "dev"} /\ Init /\ appMu = None

Watches  == command = "watch" /\ Next /\ UNCHANGED <<appMu, command>>
Develops == command = "dev" /\ Dev!Next /\ UNCHANGED <<builder, booted, held, crossed, lost, command>>

CommandSpec == CommandInit /\ [][Watches \/ Develops]_commandVars

\* gastro dev: however cycles overlap, one server is up at most, and it is appCmd.
OneServer == command = "dev" => Dev!OneServer

\* gastro dev: whatever a cycle is doing when Run returns, no server outlives the
\* command.  gastro watch promises less (OneApp).
NothingLeftBehind == command = "dev" => Dev!NothingLeftBehind
=============================================================================
