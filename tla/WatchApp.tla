------------------------------ MODULE WatchApp ------------------------------
(***************************************************************************)
(* gastro watch: runWatchLoop's startApp as the OnRestart of DevLoop.      *)
(* startApp cancels the build under way, runs the asset and build chains,  *)
(* and only when they succeed replaces the running application.            *)
(***************************************************************************)
EXTENDS AppProcess

VARIABLES builder,  \* whose build context buildCancel cancels
          booted,   \* history: a start has worked and none has failed since
          held,     \* history: the processes that a startApp held at the cleanup
          crossed,  \* history: two startApps have been past their builds at once
          lost      \* history: processes that another was published over

appVars == <<builder, bin, app, procs, booted, held, crossed, lost>>
vars    == <<loop, appVars>>

TypeOK ==
  /\ LoopTypeOK
  /\ builder \in Procs \cup {None} /\ bin \in Version
  /\ app \in Apps \cup {None}
  /\ procs \in [Apps -> Process]
  /\ booted \in BOOLEAN /\ crossed \in BOOLEAN
  /\ held \subseteq Apps /\ lost \subseteq Apps

Init ==
  /\ LoopInit
  /\ builder = None /\ bin = Unedited /\ app = None /\ booted = FALSE
  /\ held = {} /\ crossed = FALSE /\ lost = {}
  /\ procs = [a \in Apps |-> [up |-> FALSE, ver |-> Unedited]]

\* A build context is cancelled by the next restart and at the end.
Cancelled(p) == done \/ builder # p

-----------------------------------------------------------------------------
(* startApp                                                                *)

CancelBuild(p) ==
  /\ job[p].pc = "restart"
  /\ builder' = p
  /\ Goto(p, "startAssets")
  /\ NoLoop /\ UNCHANGED <<bin, app, procs, booted, held, crossed, lost>>

AssetChain(p) ==
  /\ job[p].pc = "startAssets"
  /\ Goto(p, IF AssetsFail(Cancelled(p)) THEN Restarted(p) ELSE "build")
  /\ NoLoop /\ UNCHANGED appVars

\* Mutant: the application is stopped before the build, as gastro dev does.
BuildReadsStopped(p) ==
  /\ job[p].pc = "build"
  /\ job' = IF Cancelled(p)
            THEN [job EXCEPT ![p].pc = Restarted(p)]
            ELSE [job EXCEPT ![p] = [@ EXCEPT !.pc = "building",
                    !.snap = [ver |-> [tree EXCEPT !["go"] = src.ver["go"]],
                              bad |-> src.bad]]]
  /\ app' = None
  /\ procs' = [a \in Apps |-> IF a = app THEN [procs[a] EXCEPT !.up = FALSE] ELSE procs[a]]
  /\ NoLoop /\ UNCHANGED <<builder, bin, booted, held, crossed, lost>>

\* The build reads the Go sources and the handlers generated into .gastro/.
BuildReads(p) ==
  /\ job[p].pc = "build"
  /\ job' = IF Cancelled(p)
            THEN [job EXCEPT ![p].pc = Restarted(p)]
            ELSE [job EXCEPT ![p] = [@ EXCEPT !.pc = "building",
                    !.snap = [ver |-> [tree EXCEPT !["go"] = src.ver["go"]],
                              bad |-> src.bad]]]
  /\ NoLoop /\ UNCHANGED appVars

PastBuild == {"swap", "stopOld", "start", "publish"}

BuildEnds(p) ==
  /\ job[p].pc = "building"
  /\ IF Cancelled(p) \/ job[p].snap.bad = "build"
     THEN Forget(p, Restarted(p)) /\ UNCHANGED bin
     ELSE Forget(p, "swap") /\ bin' = job[p].snap.ver
  /\ crossed' = (crossed \/ (job'[p].pc = "swap" /\ \E q \in Procs \ {p} : job[q].pc \in PastBuild))
  /\ NoLoop /\ UNCHANGED <<builder, app, procs, booted, held, lost>>

\* Mutant: the old process is forgotten without being stopped.
SwapForgets(p) ==
  /\ job[p].pc = "swap"
  /\ job' = [job EXCEPT ![p] = [@ EXCEPT !.pc = "start"]]
  /\ app' = None
  /\ NoLoop /\ UNCHANGED <<builder, bin, procs, booted, held, crossed, lost>>

Swap(p) ==
  /\ job[p].pc = "swap"
  /\ job' = [job EXCEPT ![p] = [@ EXCEPT !.old = app,
                                 !.pc = IF app = None THEN "start" ELSE "stopOld"]]
  /\ app' = None
  /\ NoLoop /\ UNCHANGED <<builder, bin, procs, booted, held, crossed, lost>>

\* App.Stop: SIGTERM to the group, SIGKILL after the grace period.
StopOld(p) ==
  /\ job[p].pc = "stopOld"
  /\ procs' = [procs EXCEPT ![job[p].old].up = FALSE]
  /\ job' = [job EXCEPT ![p] = [@ EXCEPT !.old = None, !.pc = "start"]]
  /\ NoLoop /\ UNCHANGED <<builder, bin, app, booted, held, crossed, lost>>

Free(a) == ~procs[a].up /\ a # app /\ \A p \in Procs : a \notin {job[p].old, job[p].new}

\* Start fails once ctx is cancelled.  A new application makes the browsers
\* reconnect and load their page again.
StartNew(p) ==
  /\ job[p].pc = "start"
  /\ IF done \/ src.bad = "run"
     THEN Goto(p, Restarted(p)) /\ booted' = FALSE /\ UNCHANGED <<procs, shown, lost>>
     ELSE \E a \in {x \in Apps : Free(x)} :
            /\ procs' = [procs EXCEPT ![a] = [up |-> TRUE, ver |-> bin]]
            /\ job' = [job EXCEPT ![p] = [@ EXCEPT !.new = a, !.pc = "publish"]]
            /\ shown' = tree /\ lost' = lost \ {a} /\ UNCHANGED booted
  /\ UNCHANGED <<src, seen, poll, pending, armed, tree, done, risky, builder, bin, app, held,
                 crossed>>

Publish(p) ==
  /\ job[p].pc = "publish"
  /\ app' = job[p].new
  /\ booted' = TRUE /\ lost' = lost \cup ({app} \ {None})
  /\ job' = [job EXCEPT ![p] = [@ EXCEPT !.new = None, !.pc = Restarted(p)]]
  /\ NoLoop /\ UNCHANGED <<builder, bin, procs, held, crossed>>

StartApp(p) ==
  /\ ~Exited
  /\ \/ CancelBuild(p) \/ AssetChain(p) \/ BuildReads(p) \/ BuildEnds(p)
     \/ Swap(p) \/ StopOld(p) \/ StartNew(p) \/ Publish(p)

-----------------------------------------------------------------------------
(* The end.                                                                *)

Held == {a \in Apps : \E p \in Procs : a \in {job[p].old, job[p].new}}

\* Mutant: the cleanup only cancels the build.
CleanupForgets ==
  /\ job[Main].pc = "cleanup"
  /\ builder' = None /\ held' = Held
  /\ Goto(Main, "exiting")
  /\ NoLoop /\ UNCHANGED <<bin, app, procs, booted, crossed, lost>>

\* After devloop.Run: cancel the build and stop the application in `app'.
Cleanup ==
  /\ job[Main].pc = "cleanup"
  /\ builder' = None /\ held' = Held
  /\ procs' = [a \in Apps |-> IF a = app THEN [procs[a] EXCEPT !.up = FALSE] ELSE procs[a]]
  /\ Goto(Main, "exiting")
  /\ NoLoop /\ UNCHANGED <<bin, app, booted, crossed, lost>>

\* The process exits and takes every goroutine with it.
Exit ==
  /\ job[Main].pc = "exiting"
  /\ Goto(Main, "exited")
  /\ NoLoop /\ UNCHANGED appVars

\* exec.CommandContext kills the process it started, if the program lives long
\* enough; it does not kill that one's children, as a `go run' has.
KilledByContext(a) ==
  /\ done /\ ~Exited /\ procs[a].up
  /\ procs' = [procs EXCEPT ![a].up = FALSE]
  /\ UNCHANGED <<loop, builder, bin, app, booted, held, crossed, lost>>

Next ==
  \/ LoopNext /\ UNCHANGED appVars
  \/ \E p \in Procs : StartApp(p)
  \/ Cleanup \/ Exit
  \/ \E a \in Apps : KilledByContext(a)

Spec == Init /\ [][Next]_vars

(* Goroutines and timers run, commands end, App.Stop ends within its grace *)
(* period.  The developer may stop editing at any time.                    *)
FairSpec ==
  /\ Spec /\ LoopFairness
  /\ \A p \in Procs : WF_vars(StartApp(p))
  /\ WF_vars(Cleanup \/ Exit)

-----------------------------------------------------------------------------
(* Properties                                                              *)

Serving   == app # None /\ procs[app].up
Replacing == \E p \in Procs : job[p].pc \in {"stopOld", "start", "publish"}

\* R4: once an application runs, only a replacement that has been built takes
\* its place; no failed or cancelled asset chain, build or Generate stops it.
KeepsServing == booted /\ ~done => Serving \/ Replacing

Up == {a \in Apps : procs[a].up}

\* The restart cancels the build under way, and no mutex holds the swap: two
\* processes of the application are up only once two startApps have been past
\* their builds at once.  Even then each is `app', in the hands of a startApp,
\* or was `app' when another was published over it; and what is left behind is
\* one of these, or was in a startApp's hands when the cleanup looked at `app'.
OneApp ==
  /\ crossed \/ Cardinality(Up) <= 1
  /\ Up \subseteq {app} \cup Held \cup lost
  /\ Exited => Up \subseteq held \cup lost

\* A change of the template or the frontmatter ends up in .gastro/.
EventuallyGenerated ==
  []<>(done \/ src.bad = "generate" \/ \A c \in {"page", "template"} : tree[c] = src.ver[c])

\* R3: "the system must reach the latest code": the Go code and frontmatter in
\* the running application, the templates in the browsers.
Latest ==
  \/ done \/ src.bad # "none"
  \/ Serving /\ \A c \in Classes :
       (IF c = "template" THEN shown ELSE procs[app].ver)[c] = src.ver[c]

EventuallyLatest == []<>Latest

\* A developer who waits for each cycle to end gets the latest code, whatever
\* failed to generate or to build before; one who does not, the code generated.
PatientGetsLatest == EventuallyGenerated /\ []<>(risky \/ Latest)
=============================================================================
