------------------------------- MODULE DevApp -------------------------------
(***************************************************************************)
(* gastro dev: runDev's startApp as the OnRestart of DevLoop.  It holds    *)
(* appMu from the stop of the old server to the start of the new one, and  *)
(* builds in between: a failed build leaves no server.                     *)
(***************************************************************************)
EXTENDS AppProcess

VARIABLE appMu  \* the goroutine inside startApp or the cleanup

appVars == <<appMu, bin, app, procs>>
vars    == <<loop, appVars>>

TypeOK ==
  /\ LoopTypeOK
  /\ appMu \in Procs \cup {None} /\ bin \in Version
  /\ app \in Apps \cup {None}
  /\ procs \in [Apps -> Process]

Init ==
  /\ LoopInit
  /\ appMu = None /\ bin = Unedited /\ app = None
  /\ procs = [a \in Apps |-> [up |-> FALSE, ver |-> Unedited]]

\* Mutant: startApp does not take appMu.
LockForgotten(p) ==
  /\ job[p].pc = "restart"
  /\ Goto(p, IF app = None THEN "build" ELSE "stopOld")
  /\ NoLoop /\ UNCHANGED appVars

Lock(p) ==
  /\ job[p].pc = "restart" /\ appMu = None
  /\ appMu' = p
  /\ Goto(p, IF app = None THEN "build" ELSE "stopOld")
  /\ NoLoop /\ UNCHANGED <<bin, app, procs>>

\* SIGTERM and Wait: the server is assumed to obey.
StopOld(p) ==
  /\ job[p].pc = "stopOld"
  /\ procs' = [a \in Apps |-> IF a = app THEN [procs[a] EXCEPT !.up = FALSE] ELSE procs[a]]
  /\ app' = None
  /\ Goto(p, "build")
  /\ NoLoop /\ UNCHANGED <<appMu, bin>>

BuildReads(p) ==
  /\ job[p].pc = "build"
  /\ job' = [job EXCEPT ![p] = [@ EXCEPT !.pc = "building",
               !.snap = [ver |-> [tree EXCEPT !["go"] = src.ver["go"]], bad |-> src.bad]]]
  /\ NoLoop /\ UNCHANGED appVars

BuildFails(p) ==
  /\ job[p].pc = "building" /\ job[p].snap.bad = "build"
  /\ appMu' = None
  /\ Forget(p, Restarted(p))
  /\ NoLoop /\ UNCHANGED <<bin, app, procs>>

BuildWorks(p) ==
  /\ job[p].pc = "building" /\ job[p].snap.bad # "build"
  /\ bin' = job[p].snap.ver
  /\ Forget(p, "start")
  /\ NoLoop /\ UNCHANGED <<appMu, app, procs>>

\* Mutant: the server is not bound to the loop's context.
StartNewUnbound(p) ==
  /\ job[p].pc = "start"
  /\ \E a \in {x \in Apps : ~procs[x].up} :
       /\ procs' = [procs EXCEPT ![a] = [up |-> TRUE, ver |-> bin]]
       /\ app' = a
       /\ shown' = tree
  /\ appMu' = None
  /\ Goto(p, Restarted(p))
  /\ UNCHANGED <<src, seen, poll, pending, armed, tree, done, risky, bin>>

\* exec.CommandContext refuses to start once ctx is cancelled.  A new server
\* makes the browsers reconnect and load their page again.
StartNew(p) ==
  /\ job[p].pc = "start"
  /\ IF done
     THEN UNCHANGED <<procs, app, shown>>
     ELSE \E a \in {x \in Apps : ~procs[x].up} :
            /\ procs' = [procs EXCEPT ![a] = [up |-> TRUE, ver |-> bin]]
            /\ app' = a
            /\ shown' = tree
  /\ appMu' = None
  /\ Goto(p, Restarted(p))
  /\ UNCHANGED <<src, seen, poll, pending, armed, tree, done, risky, bin>>

StartApp(p) ==
  /\ ~Exited
  /\ \/ Lock(p) \/ StopOld(p) \/ BuildReads(p) \/ BuildFails(p) \/ BuildWorks(p)
     \/ StartNew(p)

\* After devloop.Run, under appMu: stop the server.
Cleanup ==
  /\ job[Main].pc = "cleanup" /\ appMu = None
  /\ procs' = [a \in Apps |-> IF a = app THEN [procs[a] EXCEPT !.up = FALSE] ELSE procs[a]]
  /\ Goto(Main, "exiting")
  /\ NoLoop /\ UNCHANGED <<appMu, bin, app>>

\* The process exits and takes every goroutine with it.
Exit ==
  /\ job[Main].pc = "exiting"
  /\ Goto(Main, "exited")
  /\ NoLoop /\ UNCHANGED appVars

\* exec.CommandContext kills the server when ctx is cancelled.
KilledByContext(a) ==
  /\ done /\ ~Exited /\ procs[a].up
  /\ procs' = [procs EXCEPT ![a].up = FALSE]
  /\ UNCHANGED <<loop, appMu, bin, app>>

Next ==
  \/ LoopNext /\ UNCHANGED appVars
  \/ \E p \in Procs : StartApp(p)
  \/ Cleanup \/ Exit
  \/ \E a \in Apps : KilledByContext(a)

Spec == Init /\ [][Next]_vars

-----------------------------------------------------------------------------
(* Properties                                                              *)

\* One server is up at most, and it is appCmd, the one the command would stop.
OneServer == \A a \in Apps : procs[a].up => a = app

\* No server outlives the command, whatever a cycle is doing when the loop ends.
NothingLeftBehind == Exited => \A a \in Apps : ~procs[a].up
=============================================================================
