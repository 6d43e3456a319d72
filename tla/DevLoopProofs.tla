---------------------------- MODULE DevLoopProofs ----------------------------
(***************************************************************************)
(* gastro watch and gastro dev, for any number of debounced cycles that    *)
(* overlap as they like.                                                   *)
(*                                                                         *)
(* gastro watch keeps serving: R4 of the watch loop does not rest on       *)
(* cycles that wait for each other.  The inductive invariant, IInv, says   *)
(* what the startApps hold between them: no process is in two hands, none  *)
(* that is `app' is about to be stopped, and before the first start or     *)
(* after a first Generate that failed there is nothing to keep.  One       *)
(* application is up at most until two startApps are past their builds at  *)
(* once, and what is up is `app', in the hands of one, or was published    *)
(* over (CrossInv).                                                        *)
(*                                                                         *)
(* gastro dev keeps one server at a time and leaves none behind.  Its      *)
(* invariant, DevIInv, says what appMu protects and that a cycle still     *)
(* under way when Run has returned knows that the loop's context is        *)
(* cancelled.  The two theorems are about Commands, where a run is of      *)
(* either command: DevIInv holds of the runs of gastro dev.                *)
(*                                                                         *)
(* What the browsers are told by the files that either command writes is   *)
(* DevReload's: no browser is shown a failure after the reload that        *)
(* overtook it, whatever is written between two of watchSignal's file      *)
(* operations, unless the application is replaced between two of them.     *)
(***************************************************************************)
EXTENDS Commands, DevReload, FiniteSetTheorems, TLAPS

NoCycles == poll = "waiting" /\ ~armed /\ \A c \in Cycles : job[c].pc = "idle"

\* No cycle begins before Run watches, and nothing has been started by then;
\* Run ends once ctx is cancelled, or without ever having watched.
RunInv ==
  /\ job[Main].pc \in {"generate", "compile", "seed", "restart"} \cup AppPlaces => NoCycles /\ ~booted
  /\ job[Main].pc \in {"cleanup", "exiting", "exited"} => done \/ (NoCycles /\ ~booted)

\* What a startApp holds is neither `app' nor in another's hands; a new process
\* is up until it is published.
HandInv ==
  \A p \in Procs :
    /\ job[p].pc = "stopOld" <=> job[p].old # None
    /\ job[p].pc = "publish" <=> job[p].new # None
    /\ job[p].old # None => job[p].old # app
    /\ job[p].new # None => job[p].new # app /\ (done \/ procs[job[p].new].up)
    /\ \A q \in Procs : /\ job[p].new # None => job[p].new # job[q].old
                        /\ job[p].new # None /\ p # q => job[p].new # job[q].new

\* KeepsServing, and that a replacement is under way whenever `app' is empty.
ServeInv == booted /\ ~done => IF app = None THEN Replacing ELSE procs[app].up

IInv == TypeOK /\ RunInv /\ HandInv /\ ServeInv

Places == LoopPlaces \cup AppPlaces

-----------------------------------------------------------------------------
(* Where a step leaves the goroutines.                                     *)

LEMMA Constant ==
  /\ Main \in Procs /\ Cycles \subseteq Procs /\ Main \notin Cycles
  /\ None \notin Procs /\ None \notin Apps
  /\ \A p \in Procs : p = Main \/ p \in Cycles
  /\ "none" \in Faults /\ MaxEdits \in Nat
BY DevLoopAssumption DEF DevLoopAssumption, Procs

LEMMA Blank == Unedited \in Version /\ NoSource \in Source
BY Constant DEF Unedited, Version, NoSource, Source

\* Goroutine p went to place, and holds what it held; the others stay.
Went(p, place) ==
  /\ job' \in [Procs -> Job]
  /\ \A q \in Procs : /\ job'[q].pc = IF q = p THEN place ELSE job[q].pc
                      /\ job'[q].old = job[q].old
                      /\ job'[q].new = job[q].new

LEMMA Goes ==
  ASSUME job \in [Procs -> Job], NEW p \in Procs, NEW place \in Places, Goto(p, place)
  PROVE  Went(p, place)
BY DEF Goto, Job, Places, Went

LEMMA Forgets ==
  ASSUME job \in [Procs -> Job], NEW p \in Procs, NEW place \in Places, Forget(p, place)
  PROVE  Went(p, place)
BY Blank DEF Forget, Job, Places, Went

LEMMA Reads ==
  ASSUME job \in [Procs -> Job], NEW p \in Procs, NEW place \in Places, NEW s \in Source,
         job' = [job EXCEPT ![p] = [@ EXCEPT !.pc = place, !.snap = s]]
  PROVE  Went(p, place)
BY DEF Job, Places, Went

LEMMA Sets ==
  ASSUME job \in [Procs -> Job], NEW p \in Procs, NEW j \in Job, job' = [job EXCEPT ![p] = j]
  PROVE  /\ job' \in [Procs -> Job]
         /\ \A q \in Procs : job'[q] = IF q = p THEN j ELSE job[q]
OBVIOUS

LEMMA Snapshot ==
  ASSUME tree \in Version, src \in Source
  PROVE  [ver |-> [tree EXCEPT !["go"] = src.ver["go"]], bad |-> src.bad] \in Source
BY DEF Version, Source, Classes

LEMMA Typed ==
  ASSUME TypeOK
  PROVE  /\ job \in [Procs -> Job] /\ tree \in Version /\ src \in Source
         /\ src.ver \in Version /\ src.bad \in Faults
         /\ procs \in [Apps -> Process] /\ app \in Apps \cup {None} /\ bin \in Version
         /\ \A p \in Procs : /\ job[p].pc \in Places /\ job[p].snap \in Source
                             /\ job[p].snap.ver \in Version
                             /\ job[p].old \in Apps \cup {None} /\ job[p].new \in Apps \cup {None}
BY DEF TypeOK, LoopTypeOK, Job, Source, Places

\* A step that moves one goroutine between places that hold nothing, and touches no
\* process, leaves the hands as they are.
Handless == Places \ {"stopOld", "publish"}

LEMMA HandsKept ==
  ASSUME IInv, NEW p \in Procs, NEW place \in Handless, Went(p, place),
         job[p].pc \in Handless, app' = app, procs' = procs, done' = done
  PROVE  HandInv'
BY DEF IInv, HandInv, Went, Handless

LEMMA HandsStay ==
  ASSUME IInv, job' = job, app' = app, procs' = procs, done => done'
  PROVE  HandInv'
BY DEF IInv, HandInv

\* Such a step outside of a replacement leaves what serves as it is.
Apart == Places \ {"stopOld", "start", "publish"}

LEMMA ServingKept ==
  ASSUME IInv, NEW p \in Procs, NEW place \in Apart, Went(p, place),
         job[p].pc \in Apart, app' = app, procs' = procs, done' = done, booted' = booted
  PROVE  ServeInv'
<1>1. Replacing => Replacing'
  BY DEF Replacing, Went, Apart
<1> QED
  BY <1>1 DEF IInv, ServeInv

LEMMA ServingStays ==
  ASSUME IInv, job' = job, app' = app, procs' = procs, done => done', booted' = booted
  PROVE  ServeInv'
BY DEF IInv, ServeInv, Replacing

\* A cycle that is under way says that Run watches, or that ctx is cancelled.
LEMMA CycleRuns ==
  ASSUME IInv, NEW c \in Cycles, NEW place \in Places, Went(c, place), job[c].pc # "idle",
         booted' = booted, done => done'
  PROVE  RunInv'
<1>1. job'[Main].pc = job[Main].pc
  BY Constant DEF Went
<1> QED
  BY <1>1 DEF IInv, RunInv, NoCycles

\* Run goes from its beginning on, to the watch, or to its end.
Beginning == {"generate", "compile", "seed", "restart"} \cup AppPlaces
Ending    == {"cleanup", "exiting", "exited"}

LEMMA MainRuns ==
  ASSUME IInv, NEW place \in Places, Went(Main, place), booted' = booted, done => done',
         poll' = poll, armed' = armed,
         \/ place = "watch"
         \/ place \in Beginning /\ job[Main].pc \in Beginning
         \/ place \in Ending /\ (done \/ job[Main].pc \in Beginning \cup Ending)
  PROVE  RunInv'
<1>1. job'[Main].pc = place /\ \A c \in Cycles : job'[c].pc = job[c].pc
  BY Constant DEF Went
<1>2. NoCycles => NoCycles'
  BY <1>1 DEF NoCycles
<1>3. Beginning \cap Ending = {} /\ "watch" \notin Beginning \cup Ending
  BY DEF Beginning, Ending, AppPlaces
<1> QED
  BY <1>1, <1>2, <1>3 DEF IInv, RunInv, Beginning, Ending

-----------------------------------------------------------------------------
(* A step of the loop preserves the invariant.                             *)

LEMMA Loops == IInv /\ LoopNext /\ UNCHANGED appVars => IInv'
<1> SUFFICES ASSUME IInv, LoopNext, UNCHANGED appVars PROVE IInv'
  OBVIOUS
<1> USE Constant
<1>0. TypeOK
  BY DEF IInv
<1>1. ASSUME NEW c \in Classes, Edit(c) PROVE IInv'
  <2>1. job' = job /\ app' = app /\ procs' = procs /\ booted' = booted /\ (done => done')
    BY <1>1 DEF Edit, appVars
  <2>2. TypeOK'
    <3>1. src' \in Source
      BY <1>1, <1>0, Typed DEF Edit, Source, Version
    <3>2. risky' \in BOOLEAN
      BY <1>1, Zenon DEF Edit
    <3> QED
      BY <1>1, <2>1, <3>1, <3>2, <1>0 DEF TypeOK, LoopTypeOK, Edit, appVars
  <2>3. RunInv'
    BY <1>1, <2>1, <1>0 DEF IInv, TypeOK, LoopTypeOK, RunInv, NoCycles, Edit
  <2> QED
    BY <1>1, <2>1, <2>2, <2>3, HandsStay, ServingStays DEF IInv
<1>2. ASSUME Interrupt PROVE IInv'
  <2>1. job' = job /\ app' = app /\ procs' = procs /\ booted' = booted /\ (done => done')
    BY <1>2 DEF Interrupt, appVars
  <2>2. TypeOK'
    BY <1>2, <2>1, <1>0, Typed DEF TypeOK, LoopTypeOK, Interrupt, appVars
  <2>3. RunInv'
    BY <1>2, <2>1, <1>0 DEF IInv, TypeOK, LoopTypeOK, RunInv, NoCycles, Interrupt
  <2> QED
    BY <1>2, <2>1, <2>2, <2>3, HandsStay, ServingStays DEF IInv
<1>3. ASSUME PollFiles PROVE IInv'
  <2>1. job' = job /\ app' = app /\ procs' = procs /\ booted' = booted /\ (done => done')
    BY <1>3 DEF PollFiles, appVars
  <2>2. TypeOK'
    BY <1>3, <2>1, <1>0, Typed DEF TypeOK, LoopTypeOK, PollFiles, appVars, Escalate, ClassifyChange
  <2>3. RunInv'
    BY <1>3, <2>1 DEF RunInv, AppPlaces, PollFiles
  <2> QED
    BY <1>3, <2>1, <2>2, <2>3, HandsStay, ServingStays DEF IInv
<1>4. ASSUME Debounced PROVE IInv'
  <2>1. job' = job /\ app' = app /\ procs' = procs /\ booted' = booted /\ (done => done')
    BY <1>4 DEF Debounced, appVars
  <2>2. TypeOK'
    BY <1>4, <2>1, <1>0, Typed DEF TypeOK, LoopTypeOK, Debounced, appVars
  <2>3. RunInv'
    BY <1>4, <2>1, <1>0 DEF IInv, TypeOK, LoopTypeOK, RunInv, NoCycles, Debounced
  <2> QED
    BY <1>4, <2>1, <2>2, <2>3, HandsStay, ServingStays DEF IInv
<1>5. ASSUME NEW c \in Cycles, TimerFires(c) PROVE IInv'
  <2> DEFINE place == "generate"
  <2>1. place \in Apart /\ place \in Handless /\ place \in Places /\ job[c].pc = "idle"
    BY <1>5 DEF TimerFires, Apart, Handless, Places, LoopPlaces, AppPlaces
  <2>2. Went(c, place)
    BY <1>5, <2>1, <1>0, Typed, Goes DEF TimerFires
  <2>3. job[c].pc \in Apart /\ job[c].pc \in Handless
    BY <2>1 DEF Apart, Handless, Places, LoopPlaces
  <2>4. app' = app /\ procs' = procs /\ booted' = booted /\ done' = done
    BY <1>5 DEF TimerFires, appVars
  <2>5. TypeOK'
    BY <1>5, <2>2, <1>0, Typed DEF TypeOK, LoopTypeOK, Went, TimerFires, appVars
  <2>6. RunInv'
    BY <1>5, <2>2, <1>0 DEF IInv, TypeOK, LoopTypeOK, RunInv, NoCycles, AppPlaces, Went, TimerFires
  <2> HIDE DEF place
  <2> QED
    BY <2>1, <2>2, <2>3, <2>4, <2>5, <2>6, HandsKept, ServingKept DEF IInv
<1>6. ASSUME NEW p \in Procs, GenerateReads(p) PROVE IInv'
  <2> DEFINE place == "compile"
  <2>1. place \in Apart /\ place \in Handless /\ place \in Places /\ job[p].pc = "generate"
    BY <1>6 DEF GenerateReads, Apart, Handless, Places, LoopPlaces, AppPlaces
  <2>2. Went(p, place)
    BY <1>6, <2>1, <1>0, Typed, Reads DEF GenerateReads
  <2>3. job[p].pc \in Apart /\ job[p].pc \in Handless
    BY <2>1 DEF Apart, Handless, Places, LoopPlaces
  <2>4. app' = app /\ procs' = procs /\ booted' = booted /\ done' = done
    BY <1>6 DEF GenerateReads, appVars
  <2>5. TypeOK'
    BY <1>6, <2>2, <1>0, Typed DEF TypeOK, LoopTypeOK, Went, GenerateReads, appVars
  <2>6. RunInv'
    <3>1. CASE p = Main
      BY <1>6, <2>1, <2>2, <2>4, <3>1, MainRuns DEF Beginning, Ending, GenerateReads
    <3>2. CASE p \in Cycles
      BY <2>1, <2>2, <2>4, <3>2, CycleRuns
    <3> QED
      BY <3>1, <3>2
  <2> HIDE DEF place
  <2> QED
    BY <2>1, <2>2, <2>3, <2>4, <2>5, <2>6, HandsKept, ServingKept DEF IInv
<1>7. ASSUME NEW p \in Procs, GenerateWrites(p) PROVE IInv'
  <2> DEFINE place == IF p = Main THEN "seed" ELSE "consume"
  <2>1. place \in Apart /\ place \in Handless /\ place \in Places /\ job[p].pc = "compile"
    BY <1>7 DEF GenerateWrites, Apart, Handless, Places, LoopPlaces, AppPlaces
  <2>2. Went(p, place)
    BY <1>7, <2>1, <1>0, Typed, Forgets DEF GenerateWrites
  <2>3. job[p].pc \in Apart /\ job[p].pc \in Handless
    BY <2>1 DEF Apart, Handless, Places, LoopPlaces
  <2>4. app' = app /\ procs' = procs /\ booted' = booted /\ done' = done
    BY <1>7 DEF GenerateWrites, appVars
  <2>5. TypeOK'
    BY <1>7, <2>2, <1>0, Typed DEF TypeOK, LoopTypeOK, Went, GenerateWrites, appVars
  <2>6. RunInv'
    <3>1. CASE p = Main
      BY <1>7, <2>1, <2>2, <2>4, <3>1, MainRuns DEF Beginning, Ending, GenerateWrites
    <3>2. CASE p \in Cycles
      BY <2>1, <2>2, <2>4, <3>2, CycleRuns
    <3> QED
      BY <3>1, <3>2
  <2> HIDE DEF place
  <2> QED
    BY <2>1, <2>2, <2>3, <2>4, <2>5, <2>6, HandsKept, ServingKept DEF IInv
<1>8. ASSUME NEW p \in Procs, GenerateFails(p) PROVE IInv'
  <2> DEFINE place == IF p = Main THEN "cleanup" ELSE "idle"
  <2>1. place \in Apart /\ place \in Handless /\ place \in Places /\ job[p].pc = "compile"
    BY <1>8 DEF GenerateFails, Apart, Handless, Places, LoopPlaces, AppPlaces
  <2>2. Went(p, place)
    BY <1>8, <2>1, <1>0, Typed, Forgets DEF GenerateFails
  <2>3. job[p].pc \in Apart /\ job[p].pc \in Handless
    BY <2>1 DEF Apart, Handless, Places, LoopPlaces
  <2>4. app' = app /\ procs' = procs /\ booted' = booted /\ done' = done
    BY <1>8 DEF GenerateFails, appVars
  <2>5. TypeOK'
    BY <1>8, <2>2, <1>0, Typed DEF TypeOK, LoopTypeOK, Went, GenerateFails, appVars
  <2>6. RunInv'
    <3>1. CASE p = Main
      BY <1>8, <2>1, <2>2, <2>4, <3>1, MainRuns DEF Beginning, Ending, GenerateFails
    <3>2. CASE p \in Cycles
      BY <2>1, <2>2, <2>4, <3>2, CycleRuns
    <3> QED
      BY <3>1, <3>2
  <2> HIDE DEF place
  <2> QED
    BY <2>1, <2>2, <2>3, <2>4, <2>5, <2>6, HandsKept, ServingKept DEF IInv
<1>9. ASSUME NEW c \in Cycles, ConsumePending(c) PROVE IInv'
  <2> DEFINE place == IF pending = "restart" THEN "restart" ELSE "assets"
  <2>1. place \in Apart /\ place \in Handless /\ place \in Places /\ job[c].pc = "consume"
    BY <1>9 DEF ConsumePending, Apart, Handless, Places, LoopPlaces, AppPlaces
  <2>2. Went(c, place)
    BY <1>9, <2>1, <1>0, Typed, Goes DEF ConsumePending
  <2>3. job[c].pc \in Apart /\ job[c].pc \in Handless
    BY <2>1 DEF Apart, Handless, Places, LoopPlaces
  <2>4. app' = app /\ procs' = procs /\ booted' = booted /\ done' = done
    BY <1>9 DEF ConsumePending, appVars
  <2>5. TypeOK'
    BY <1>9, <2>2, <1>0, Typed DEF TypeOK, LoopTypeOK, Went, ConsumePending, appVars
  <2>6. RunInv'
    BY <1>9, <2>2, <1>0
       DEF IInv, TypeOK, LoopTypeOK, RunInv, NoCycles, AppPlaces, Went, ConsumePending
  <2> HIDE DEF place
  <2> QED
    BY <2>1, <2>2, <2>3, <2>4, <2>5, <2>6, HandsKept, ServingKept DEF IInv
<1>10. ASSUME NEW c \in Cycles, PreReload(c) PROVE IInv'
  <2> DEFINE place == IF AssetsFail(done) THEN "idle" ELSE "reload"
  <2>1. place \in Apart /\ place \in Handless /\ place \in Places /\ job[c].pc = "assets"
    BY <1>10 DEF PreReload, Apart, Handless, Places, LoopPlaces, AppPlaces
  <2>2. Went(c, place)
    BY <1>10, <2>1, <1>0, Typed, Goes DEF PreReload
  <2>3. job[c].pc \in Apart /\ job[c].pc \in Handless
    BY <2>1 DEF Apart, Handless, Places, LoopPlaces
  <2>4. app' = app /\ procs' = procs /\ booted' = booted /\ done' = done
    BY <1>10 DEF PreReload, appVars
  <2>5. TypeOK'
    BY <1>10, <2>2, <1>0, Typed DEF TypeOK, LoopTypeOK, Went, PreReload, appVars
  <2>6. RunInv'
    BY <1>10, <2>2, <1>0 DEF IInv, TypeOK, LoopTypeOK, RunInv, NoCycles, AppPlaces, Went, PreReload
  <2> HIDE DEF place
  <2> QED
    BY <2>1, <2>2, <2>3, <2>4, <2>5, <2>6, HandsKept, ServingKept DEF IInv
<1>11. ASSUME NEW c \in Cycles, OnReload(c) PROVE IInv'
  <2> DEFINE place == "idle"
  <2>1. place \in Apart /\ place \in Handless /\ place \in Places /\ job[c].pc = "reload"
    BY <1>11 DEF OnReload, Apart, Handless, Places, LoopPlaces, AppPlaces
  <2>2. Went(c, place)
    BY <1>11, <2>1, <1>0, Typed, Goes DEF OnReload
  <2>3. job[c].pc \in Apart /\ job[c].pc \in Handless
    BY <2>1 DEF Apart, Handless, Places, LoopPlaces
  <2>4. app' = app /\ procs' = procs /\ booted' = booted /\ done' = done
    BY <1>11 DEF OnReload, appVars
  <2>5. TypeOK'
    BY <1>11, <2>2, <1>0, Typed DEF TypeOK, LoopTypeOK, Went, OnReload, appVars
  <2>6. RunInv'
    BY <1>11, <2>2, <1>0 DEF IInv, TypeOK, LoopTypeOK, RunInv, NoCycles, AppPlaces, Went, OnReload
  <2> HIDE DEF place
  <2> QED
    BY <2>1, <2>2, <2>3, <2>4, <2>5, <2>6, HandsKept, ServingKept DEF IInv
<1>12. ASSUME Seed PROVE IInv'
  <2> DEFINE place == "restart"
  <2>1. place \in Apart /\ place \in Handless /\ place \in Places /\ job[Main].pc = "seed"
    BY <1>12 DEF Seed, Apart, Handless, Places, LoopPlaces, AppPlaces
  <2>2. Went(Main, place)
    BY <1>12, <2>1, <1>0, Typed, Goes DEF Seed
  <2>3. job[Main].pc \in Apart /\ job[Main].pc \in Handless
    BY <2>1 DEF Apart, Handless, Places, LoopPlaces
  <2>4. app' = app /\ procs' = procs /\ booted' = booted /\ done' = done
    BY <1>12 DEF Seed, appVars
  <2>5. TypeOK'
    BY <1>12, <2>2, <1>0, Typed DEF TypeOK, LoopTypeOK, Went, Seed, appVars
  <2>6. RunInv'
    BY <1>12, <2>1, <2>2, <2>4, MainRuns DEF Beginning, Seed
  <2> HIDE DEF place
  <2> QED
    BY <2>1, <2>2, <2>3, <2>4, <2>5, <2>6, HandsKept, ServingKept DEF IInv
<1>13. ASSUME RunReturns PROVE IInv'
  <2> DEFINE place == "cleanup"
  <2>1. place \in Apart /\ place \in Handless /\ place \in Places /\ job[Main].pc = "watch"
    BY <1>13 DEF RunReturns, Apart, Handless, Places, LoopPlaces, AppPlaces
  <2>2. Went(Main, place)
    BY <1>13, <2>1, <1>0, Typed, Goes DEF RunReturns
  <2>3. job[Main].pc \in Apart /\ job[Main].pc \in Handless
    BY <2>1 DEF Apart, Handless, Places, LoopPlaces
  <2>4. app' = app /\ procs' = procs /\ booted' = booted /\ done' = done
    BY <1>13 DEF RunReturns, appVars
  <2>5. TypeOK'
    BY <1>13, <2>2, <1>0, Typed DEF TypeOK, LoopTypeOK, Went, RunReturns, appVars
  <2>6. RunInv'
    BY <1>13, <2>2, <1>0 DEF IInv, TypeOK, LoopTypeOK, RunInv, NoCycles, AppPlaces, Went, RunReturns
  <2> HIDE DEF place
  <2> QED
    BY <2>1, <2>2, <2>3, <2>4, <2>5, <2>6, HandsKept, ServingKept DEF IInv
<1> QED
  BY <1>1, <1>2, <1>3, <1>4, <1>5, <1>6, <1>7, <1>8, <1>9, <1>10, <1>11, <1>12, <1>13
     DEF LoopNext, Poller, Cycle

-----------------------------------------------------------------------------
(* A step of startApp preserves it.                                        *)

LEMMA BuildsAreCancelled == ASSUME IInv, NEW p \in Procs, CancelBuild(p) PROVE IInv'
<1> USE Constant
<1>0. TypeOK
  BY DEF IInv
<1> DEFINE place == "startAssets"
<1>1. place \in Apart /\ place \in Handless /\ place \in Places /\ job[p].pc = "restart"
  BY DEF CancelBuild, Apart, Handless, Places, LoopPlaces, AppPlaces
<1>2. Went(p, place)
  BY <1>1, <1>0, Typed, Goes DEF CancelBuild
<1>3. job[p].pc \in Apart /\ job[p].pc \in Handless
  BY <1>1 DEF Apart, Handless, Places, LoopPlaces, AppPlaces
<1>4. app' = app /\ procs' = procs /\ booted' = booted /\ done' = done
  BY DEF CancelBuild, NoLoop, appVars
<1>5. TypeOK'
  BY <1>2, <1>0, Typed DEF TypeOK, LoopTypeOK, Went, CancelBuild, NoLoop, appVars
<1>6. RunInv'
  BY <1>2, <1>0
     DEF IInv, TypeOK, LoopTypeOK, RunInv, NoCycles, AppPlaces, Went, CancelBuild, NoLoop, appVars
<1> HIDE DEF place
<1> QED
  BY <1>1, <1>2, <1>3, <1>4, <1>5, <1>6, HandsKept, ServingKept DEF IInv

LEMMA AssetsRun == ASSUME IInv, NEW p \in Procs, AssetChain(p) PROVE IInv'
<1> USE Constant
<1>0. TypeOK
  BY DEF IInv
<1> DEFINE place == IF AssetsFail(Cancelled(p)) THEN Restarted(p) ELSE "build"
<1>1. place \in Apart /\ place \in Handless /\ place \in Places /\ job[p].pc = "startAssets"
  BY DEF AssetChain, Apart, Handless, Places, LoopPlaces, AppPlaces, Restarted
<1>2. Went(p, place)
  BY <1>1, <1>0, Typed, Goes DEF AssetChain
<1>3. job[p].pc \in Apart /\ job[p].pc \in Handless
  BY <1>1 DEF Apart, Handless, Places, LoopPlaces, AppPlaces
<1>4. app' = app /\ procs' = procs /\ booted' = booted /\ done' = done
  BY DEF AssetChain, NoLoop, appVars
<1>5. TypeOK'
  BY <1>2, <1>0, Typed DEF TypeOK, LoopTypeOK, Went, AssetChain, NoLoop, appVars
<1>6. RunInv'
  BY <1>2, <1>0
     DEF IInv, TypeOK, LoopTypeOK, RunInv, NoCycles, AppPlaces, Went, AssetChain, NoLoop, appVars,
         Restarted
<1> HIDE DEF place
<1> QED
  BY <1>1, <1>2, <1>3, <1>4, <1>5, <1>6, HandsKept, ServingKept DEF IInv

LEMMA BuildsRead == ASSUME IInv, NEW p \in Procs, BuildReads(p) PROVE IInv'
<1> USE Constant
<1>0. TypeOK
  BY DEF IInv
<1> DEFINE place == IF Cancelled(p) THEN Restarted(p) ELSE "building"
<1>1. place \in Apart /\ place \in Handless /\ place \in Places /\ job[p].pc = "build"
  BY DEF BuildReads, Apart, Handless, Places, LoopPlaces, AppPlaces, Restarted
<1>2. Went(p, place)
  <2>1. CASE Cancelled(p)
    <3>1. Goto(p, place)
      BY <2>1 DEF BuildReads, Goto
    <3> QED
      BY <3>1, <1>1, <1>0, Typed, Goes
  <2>2. CASE ~Cancelled(p)
    <3> DEFINE s == [ver |-> [tree EXCEPT !["go"] = src.ver["go"]], bad |-> src.bad]
    <3>1. s \in Source
      BY <1>0, Typed, Snapshot
    <3>2. job' = [job EXCEPT ![p] = [@ EXCEPT !.pc = place, !.snap = s]]
      BY <2>2 DEF BuildReads
    <3> HIDE DEF s
    <3> QED
      BY <3>1, <3>2, <1>1, <1>0, Typed, Reads
  <2> QED
    BY <2>1, <2>2
<1>3. job[p].pc \in Apart /\ job[p].pc \in Handless
  BY <1>1 DEF Apart, Handless, Places, LoopPlaces, AppPlaces
<1>4. app' = app /\ procs' = procs /\ booted' = booted /\ done' = done
  BY DEF BuildReads, NoLoop, appVars
<1>5. TypeOK'
  BY <1>2, <1>0, Typed DEF TypeOK, LoopTypeOK, Went, BuildReads, NoLoop, appVars
<1>6. RunInv'
  BY <1>2, <1>0
     DEF IInv, TypeOK, LoopTypeOK, RunInv, NoCycles, AppPlaces, Went, BuildReads, NoLoop, appVars,
         Restarted
<1> HIDE DEF place
<1> QED
  BY <1>1, <1>2, <1>3, <1>4, <1>5, <1>6, HandsKept, ServingKept DEF IInv

LEMMA BuildsEnd == ASSUME IInv, NEW p \in Procs, BuildEnds(p) PROVE IInv'
<1> USE Constant
<1>0. TypeOK
  BY DEF IInv
<1> DEFINE place == IF Cancelled(p) \/ job[p].snap.bad = "build" THEN Restarted(p) ELSE "swap"
<1>1. place \in Apart /\ place \in Handless /\ place \in Places /\ job[p].pc = "building"
  BY DEF BuildEnds, Apart, Handless, Places, LoopPlaces, AppPlaces, Restarted
<1>2. Went(p, place)
  BY <1>1, <1>0, Typed, Forgets DEF BuildEnds
<1>3. job[p].pc \in Apart /\ job[p].pc \in Handless
  BY <1>1 DEF Apart, Handless, Places, LoopPlaces, AppPlaces
<1>4. app' = app /\ procs' = procs /\ booted' = booted /\ done' = done
  BY DEF BuildEnds, NoLoop, appVars
<1>5. TypeOK'
  BY <1>2, <1>0, Typed DEF TypeOK, LoopTypeOK, Went, BuildEnds, NoLoop, appVars
<1>6. RunInv'
  BY <1>2, <1>0
     DEF IInv, TypeOK, LoopTypeOK, RunInv, NoCycles, AppPlaces, Went, BuildEnds, NoLoop, appVars,
         Restarted
<1> HIDE DEF place
<1> QED
  BY <1>1, <1>2, <1>3, <1>4, <1>5, <1>6, HandsKept, ServingKept DEF IInv

\* Goroutine p went to place, and holds the processes o and n.
Moved(p, place, o, n) ==
  /\ job' \in [Procs -> Job]
  /\ \A q \in Procs : /\ job'[q].pc = IF q = p THEN place ELSE job[q].pc
                      /\ job'[q].old = IF q = p THEN o ELSE job[q].old
                      /\ job'[q].new = IF q = p THEN n ELSE job[q].new

LEMMA Moves ==
  ASSUME TypeOK, NEW p \in Procs, NEW j,
         \/ \E place \in Places, o \in Apps \cup {None} : j = [job[p] EXCEPT !.old = o, !.pc = place]
         \/ \E place \in Places, n \in Apps \cup {None} : j = [job[p] EXCEPT !.new = n, !.pc = place],
         job' = [job EXCEPT ![p] = j]
  PROVE  Moved(p, j.pc, j.old, j.new)
<1>1. job[p] \in Job
  BY Typed
<1>2. j \in Job
  BY <1>1 DEF Job, Places
<1>3. job' \in [Procs -> Job] /\ \A q \in Procs : job'[q] = IF q = p THEN j ELSE job[q]
  BY <1>2, Typed, Sets
<1> QED
  BY <1>3 DEF Moved

LEMMA SwapMoves ==
  ASSUME TypeOK, NEW p \in Procs, Swap(p)
  PROVE  Moved(p, IF app = None THEN "start" ELSE "stopOld", app, job[p].new)
<1> DEFINE place == IF app = None THEN "start" ELSE "stopOld"
           j == [job[p] EXCEPT !.old = app, !.pc = place]
<1>1. place \in Places /\ app \in Apps \cup {None} /\ job[p] \in Job
  BY Typed DEF Places, AppPlaces
<1>2. job' = [job EXCEPT ![p] = j]
  BY DEF Swap
<1>3. Moved(p, j.pc, j.old, j.new)
  <2> HIDE DEF place
  <2>1. \E x \in Places, o \in Apps \cup {None} : j = [job[p] EXCEPT !.old = o, !.pc = x]
    BY <1>1
  <2> HIDE DEF j
  <2> QED
    BY <1>2, <2>1, Moves
<1>4. j.pc = place /\ j.old = app /\ j.new = job[p].new
  BY <1>1 DEF Job
<1> QED
  BY <1>3, <1>4

LEMMA StopMoves ==
  ASSUME TypeOK, NEW p \in Procs, StopOld(p)
  PROVE  Moved(p, "start", None, job[p].new)
<1> DEFINE j == [job[p] EXCEPT !.old = None, !.pc = "start"]
<1>1. "start" \in Places /\ job[p] \in Job
  BY Typed DEF Places, AppPlaces
<1>2. job' = [job EXCEPT ![p] = j]
  BY DEF StopOld
<1>3. Moved(p, j.pc, j.old, j.new)
  <2>1. \E x \in Places, o \in Apps \cup {None} : j = [job[p] EXCEPT !.old = o, !.pc = x]
    BY <1>1
  <2> HIDE DEF j
  <2> QED
    BY <1>2, <2>1, Moves
<1>4. j.pc = "start" /\ j.old = None /\ j.new = job[p].new
  BY <1>1 DEF Job
<1> QED
  BY <1>3, <1>4

LEMMA StartMoves ==
  ASSUME TypeOK, NEW p \in Procs, NEW a \in Apps,
         job' = [job EXCEPT ![p] = [@ EXCEPT !.new = a, !.pc = "publish"]]
  PROVE  Moved(p, "publish", job[p].old, a)
<1> DEFINE j == [job[p] EXCEPT !.new = a, !.pc = "publish"]
<1>1. "publish" \in Places /\ job[p] \in Job
  BY Typed DEF Places, AppPlaces
<1>2. job' = [job EXCEPT ![p] = j]
  OBVIOUS
<1>3. Moved(p, j.pc, j.old, j.new)
  <2>1. \E x \in Places, n \in Apps \cup {None} : j = [job[p] EXCEPT !.new = n, !.pc = x]
    BY <1>1
  <2> HIDE DEF j
  <2> QED
    BY <1>2, <2>1, Moves
<1>4. j.pc = "publish" /\ j.old = job[p].old /\ j.new = a
  BY <1>1 DEF Job
<1> QED
  BY <1>3, <1>4

LEMMA PublishMoves ==
  ASSUME TypeOK, NEW p \in Procs, Publish(p)
  PROVE  Moved(p, Restarted(p), job[p].old, None)
<1> DEFINE j == [job[p] EXCEPT !.new = None, !.pc = Restarted(p)]
<1>1. Restarted(p) \in Places /\ job[p] \in Job
  BY Typed DEF Places, LoopPlaces, Restarted
<1>2. job' = [job EXCEPT ![p] = j]
  BY DEF Publish
<1>3. Moved(p, j.pc, j.old, j.new)
  <2>1. \E x \in Places, n \in Apps \cup {None} : j = [job[p] EXCEPT !.new = n, !.pc = x]
    BY <1>1
  <2> HIDE DEF j
  <2> QED
    BY <1>2, <2>1, Moves
<1>4. j.pc = Restarted(p) /\ j.old = job[p].old /\ j.new = None
  BY <1>1 DEF Job
<1> QED
  BY <1>3, <1>4

LEMMA Swaps == ASSUME IInv, NEW p \in Procs, Swap(p) PROVE IInv'
<1> USE Constant
<1>0. TypeOK
  BY DEF IInv
<1> DEFINE place == IF app = None THEN "start" ELSE "stopOld"
<1>1. /\ job' \in [Procs -> Job]
      /\ \A q \in Procs : /\ job'[q].pc = IF q = p THEN place ELSE job[q].pc
                          /\ job'[q].old = IF q = p THEN app ELSE job[q].old
                          /\ job'[q].new = job[q].new
  BY <1>0, SwapMoves DEF Moved
<1>2. /\ job[p].pc = "swap" /\ app' = None /\ procs' = procs
      /\ booted' = booted /\ done' = done
  BY DEF Swap, NoLoop
<1>3. TypeOK'
  BY <1>1, <1>0 DEF TypeOK, LoopTypeOK, Swap, NoLoop
<1>4. RunInv'
  BY <1>1, <1>2 DEF IInv, RunInv, NoCycles, AppPlaces, Swap, NoLoop
<1>5. HandInv'
  BY <1>0, <1>1, <1>2, Typed DEF IInv, HandInv
<1>6. Replacing'
  BY <1>1 DEF Replacing
<1> QED
  BY <1>2, <1>3, <1>4, <1>5, <1>6 DEF IInv, ServeInv

LEMMA StopsOld == ASSUME IInv, NEW p \in Procs, StopOld(p) PROVE IInv'
<1> USE Constant
<1>0. TypeOK
  BY DEF IInv
<1>1. /\ job' \in [Procs -> Job]
      /\ \A q \in Procs : /\ job'[q].pc = IF q = p THEN "start" ELSE job[q].pc
                          /\ job'[q].old = IF q = p THEN None ELSE job[q].old
                          /\ job'[q].new = job[q].new
  BY <1>0, StopMoves DEF Moved
<1>2. /\ job[p].pc = "stopOld" /\ app' = app
      /\ booted' = booted /\ done' = done
  BY DEF StopOld, NoLoop
<1>3. /\ job[p].old \in Apps /\ procs' \in [Apps -> Process]
      /\ \A a \in Apps : a # job[p].old => procs'[a] = procs[a]
  BY <1>0, <1>2, Typed, ZenonT(30) DEF IInv, HandInv, StopOld, Process
<1>4. TypeOK'
  BY <1>1, <1>3, <1>0 DEF TypeOK, LoopTypeOK, StopOld, NoLoop
<1>5. RunInv'
  BY <1>1, <1>2 DEF IInv, RunInv, NoCycles, AppPlaces, StopOld, NoLoop
<1>6. HandInv'
  BY <1>0, <1>1, <1>2, <1>3, Typed DEF IInv, HandInv
<1>7. Replacing'
  BY <1>1 DEF Replacing
<1>8. app # None => app # job[p].old /\ app \in Apps
  BY <1>0, <1>3, Typed DEF IInv, HandInv
<1> QED
  BY <1>2, <1>3, <1>4, <1>5, <1>6, <1>7, <1>8 DEF IInv, ServeInv

\* A start that fails ends what there was to keep.
LEMMA StartFails ==
  ASSUME IInv, NEW p \in Procs, StartNew(p), done \/ src.bad = "run"
  PROVE  IInv'
<1> USE Constant
<1>0. TypeOK
  BY DEF IInv
<1>1. /\ Restarted(p) \in Handless /\ Restarted(p) \in Places
      /\ job[p].pc = "start" /\ job[p].pc \in Handless
  BY DEF StartNew, Restarted, Handless, Places, LoopPlaces, AppPlaces
<1>2. Went(p, Restarted(p))
  BY <1>0, <1>1, Typed, Goes DEF StartNew
<1>3. app' = app /\ procs' = procs /\ booted' = FALSE /\ done' = done
  BY DEF StartNew
<1>4. TypeOK'
  BY <1>0, <1>2, <1>3 DEF TypeOK, LoopTypeOK, Went, StartNew
<1>5. RunInv'
  <2>1. CASE p = Main
    BY <1>0, <1>2, <1>3, <2>1 DEF Went, RunInv, Restarted, AppPlaces
  <2>2. CASE p \in Cycles
    <3>1. job'[Main].pc = job[Main].pc /\ job[p].pc # "idle"
      BY <1>1, <1>2, <2>2 DEF Went
    <3> QED
      BY <1>3, <2>2, <3>1 DEF IInv, RunInv, NoCycles
  <2> QED
    BY <2>1, <2>2
<1>6. HandInv'
  BY <1>1, <1>2, <1>3, HandsKept
<1> QED
  BY <1>3, <1>4, <1>5, <1>6 DEF IInv, ServeInv

LEMMA Starts ==
  ASSUME IInv, NEW p \in Procs, StartNew(p), ~(done \/ src.bad = "run")
  PROVE  IInv'
<1> USE Constant
<1>0. TypeOK
  BY DEF IInv
<1>1. PICK a \in Apps : /\ Free(a)
                        /\ procs' = [procs EXCEPT ![a] = [up |-> TRUE, ver |-> bin]]
                        /\ job' = [job EXCEPT ![p] = [@ EXCEPT !.new = a, !.pc = "publish"]]
                        /\ shown' = tree /\ UNCHANGED booted
  BY DEF StartNew
<1>2. /\ job' \in [Procs -> Job]
      /\ \A q \in Procs : /\ job'[q].pc = IF q = p THEN "publish" ELSE job[q].pc
                          /\ job'[q].old = job[q].old
                          /\ job'[q].new = IF q = p THEN a ELSE job[q].new
  <2>1. Moved(p, "publish", job[p].old, a)
    BY <1>0, <1>1, StartMoves
  <2> QED
    BY <2>1 DEF Moved
<1>3. /\ job[p].pc = "start" /\ app' = app /\ booted' = booted /\ done' = done
  BY <1>1 DEF StartNew
<1>4. /\ procs' \in [Apps -> Process] /\ procs'[a].up
      /\ \A b \in Apps : b # a => procs'[b] = procs[b]
  BY <1>0, <1>1, Typed DEF Process
<1>5. a # app /\ \A q \in Procs : a # job[q].old /\ a # job[q].new
  BY <1>1 DEF Free
<1>6. TypeOK'
  <2>1. lost' \subseteq Apps /\ held' \subseteq Apps /\ crossed' \in BOOLEAN
    BY <1>0 DEF TypeOK, StartNew
  <2> QED
    BY <1>0, <1>1, <1>2, <1>3, <1>4, <2>1 DEF TypeOK, LoopTypeOK, StartNew
<1>7. RunInv'
  BY <1>2, <1>3 DEF IInv, RunInv, NoCycles, AppPlaces, StartNew
<1>8. HandInv'
  BY <1>0, <1>2, <1>3, <1>4, <1>5, Typed DEF IInv, HandInv
<1>9. Replacing'
  BY <1>2 DEF Replacing
<1> QED
  BY <1>0, <1>3, <1>4, <1>5, <1>6, <1>7, <1>8, <1>9, Typed DEF IInv, ServeInv

LEMMA Publishes == ASSUME IInv, NEW p \in Procs, Publish(p), ~Exited PROVE IInv'
<1> USE Constant
<1>0. TypeOK
  BY DEF IInv
<1>1. /\ job' \in [Procs -> Job]
      /\ \A q \in Procs : /\ job'[q].pc = IF q = p THEN Restarted(p) ELSE job[q].pc
                          /\ job'[q].old = job[q].old
                          /\ job'[q].new = IF q = p THEN None ELSE job[q].new
  BY <1>0, PublishMoves DEF Moved
<1>2. /\ job[p].pc = "publish" /\ app' = job[p].new /\ procs' = procs
      /\ booted' = TRUE /\ done' = done
  BY DEF Publish, NoLoop
<1>3. job[p].new \in Apps /\ (done \/ procs[job[p].new].up) /\ job[p].old = None
  BY <1>0, <1>2, Typed DEF IInv, HandInv
<1>4. TypeOK'
  BY <1>0, <1>1, <1>2, <1>3 DEF TypeOK, LoopTypeOK, Publish, NoLoop
<1>5. RunInv'
  BY <1>1, <1>2 DEF IInv, RunInv, NoCycles, AppPlaces, Publish, NoLoop, Restarted
<1>6. HandInv'
  BY <1>0, <1>1, <1>2, <1>3, Typed DEF IInv, HandInv, Restarted
<1> QED
  BY <1>2, <1>3, <1>4, <1>5, <1>6 DEF IInv, ServeInv

LEMMA StartsApps == ASSUME IInv, NEW p \in Procs, StartApp(p) PROVE IInv'
BY BuildsAreCancelled, AssetsRun, BuildsRead, BuildsEnd, Swaps, StopsOld, StartFails, Starts,
   Publishes
   DEF StartApp

-----------------------------------------------------------------------------
(* The end.                                                                *)

\* The cleanup finds nothing to keep: ctx is cancelled, or nothing was started.
LEMMA CleansUp == ASSUME IInv, Cleanup PROVE IInv'
<1> USE Constant
<1>0. TypeOK
  BY DEF IInv
<1>1. Went(Main, "exiting")
  BY <1>0, Typed, Goes DEF Cleanup, Places, LoopPlaces
<1>2. job[Main].pc = "cleanup" /\ app' = app /\ booted' = booted /\ done' = done /\ held' = Held
  BY DEF Cleanup, NoLoop
<1>3. /\ procs' \in [Apps -> Process]
      /\ \A a \in Apps : a # app => procs'[a] = procs[a]
  BY <1>0, Typed DEF Cleanup, Process
<1>4. TypeOK'
  BY <1>0, <1>1, <1>2, <1>3 DEF TypeOK, LoopTypeOK, Went, Cleanup, NoLoop, Held
<1>5. RunInv'
  BY <1>1, <1>2 DEF IInv, RunInv, NoCycles, AppPlaces, Went, Cleanup, NoLoop
<1>6. HandInv'
  BY <1>0, <1>1, <1>2, <1>3, Typed DEF IInv, HandInv, Went
<1>7. booted => done
  BY <1>2 DEF IInv, RunInv
<1> QED
  BY <1>2, <1>4, <1>5, <1>6, <1>7 DEF IInv, ServeInv

LEMMA Exits == ASSUME IInv, Exit PROVE IInv'
<1> USE Constant
<1>0. TypeOK
  BY DEF IInv
<1>1. /\ "exited" \in Apart /\ "exited" \in Handless /\ "exited" \in Places /\ job[Main].pc = "exiting"
      /\ "exiting" \in Apart /\ "exiting" \in Handless
  BY DEF Exit, Apart, Handless, Places, LoopPlaces
<1>2. Went(Main, "exited")
  BY <1>0, <1>1, Typed, Goes DEF Exit
<1>3. app' = app /\ procs' = procs /\ booted' = booted /\ done' = done
  BY DEF Exit, NoLoop, appVars
<1>4. TypeOK'
  BY <1>0, <1>2 DEF TypeOK, LoopTypeOK, Went, Exit, NoLoop, appVars
<1>5. RunInv'
  BY <1>1, <1>2 DEF IInv, RunInv, NoCycles, AppPlaces, Went, Exit, NoLoop, appVars
<1> QED
  BY <1>1, <1>2, <1>3, <1>4, <1>5, HandsKept, ServingKept DEF IInv

LEMMA Kills == ASSUME IInv, NEW a \in Apps, KilledByContext(a) PROVE IInv'
<1> USE Constant
<1>0. TypeOK
  BY DEF IInv
<1>1. job' = job /\ app' = app /\ booted' = booted /\ done /\ done'
  BY DEF KilledByContext, loop
<1>2. procs' \in [Apps -> Process]
  BY <1>0, Typed DEF KilledByContext, Process
<1>3. TypeOK'
  BY <1>0, <1>1, <1>2 DEF TypeOK, LoopTypeOK, KilledByContext, loop
<1>4. RunInv'
  BY <1>1 DEF IInv, RunInv, NoCycles, KilledByContext, loop
<1>5. HandInv'
  BY <1>1 DEF IInv, HandInv
<1> QED
  BY <1>1, <1>3, <1>4, <1>5 DEF IInv, ServeInv

LEMMA Preserved == IInv /\ [Next]_vars => IInv'
<1> SUFFICES ASSUME IInv, [Next]_vars PROVE IInv'
  OBVIOUS
<1>1. CASE UNCHANGED vars
  BY <1>1
     DEF vars, loop, appVars, IInv, TypeOK, LoopTypeOK, RunInv, NoCycles, HandInv, ServeInv,
         Replacing
<1> QED
  BY <1>1, Loops, StartsApps, CleansUp, Exits, Kills DEF Next

LEMMA Initial == Init => IInv
<1> SUFFICES ASSUME Init PROVE IInv
  OBVIOUS
<1> USE Constant, Blank
<1>1. TypeOK
  <2>1. src \in Source
    BY DEF Init, LoopInit, Source
  <2>2. job \in [Procs -> Job]
    BY DEF Init, LoopInit, Job, LoopPlaces
  <2>3. risky \in BOOLEAN
    <3>1. risky = (src.bad \in {"asset", "run"})
      BY DEF Init, LoopInit
    <3>2. (src.bad \in {"asset", "run"}) = TRUE \/ (src.bad \in {"asset", "run"}) = FALSE
      OBVIOUS
    <3> QED
      BY ONLY <3>1, <3>2, Zenon
  <2>4. procs \in [Apps -> Process]
    BY DEF Init, Process
  <2> QED
    BY <2>1, <2>2, <2>3, <2>4 DEF Init, LoopInit, TypeOK, LoopTypeOK
<1>2. RunInv /\ HandInv /\ ServeInv
  BY DEF Init, LoopInit, RunInv, NoCycles, HandInv, ServeInv
<1> QED
  BY <1>1, <1>2 DEF IInv

LEMMA Inductive == Spec => []IInv
BY Initial, Preserved, PTL DEF Spec

-----------------------------------------------------------------------------
(* The theorems.                                                           *)

\* Every variable of the loop and of startApp keeps its type (watch.go,
\* runWatchLoop).
THEOREM TypeCorrect == Spec => []TypeOK
<1>1. IInv => TypeOK
  BY DEF IInv
<1> QED
  BY Inductive, <1>1, PTL

\* Once an application runs, no cycle that fails takes it away, even when
\* another replaces it meanwhile (watch.go, startApp).
THEOREM KeepsServingHolds == Spec => []KeepsServing
<1>1. IInv => KeepsServing
  BY DEF IInv, ServeInv, KeepsServing, Serving
<1> QED
  BY Inductive, <1>1, PTL

-----------------------------------------------------------------------------
(***************************************************************************)
(* One application.  Every process that is up is `app', in a startApp's    *)
(* hands, or was published over; until two startApps have been past their  *)
(* builds at once, `app' is empty while one replaces the application, so   *)
(* that nothing is published over and one process is up at most.  What is  *)
(* up once Run has cleaned up was in a hand that the cleanup does not look *)
(* at, or had been published over.                                         *)
(***************************************************************************)

Swapping == {"stopOld", "start", "publish"}
Leaving  == {"exiting", "exited"}

CrossInv ==
  /\ ~crossed =>
       /\ \A p, q \in Procs : job[p].pc \in PastBuild /\ job[q].pc \in PastBuild => p = q
       /\ \A p \in Procs : job[p].pc \in Swapping => app = None
       /\ lost = {}
  /\ \A a \in Apps : procs[a].up => a = app \/ a \in Held \/ a \in lost
  /\ job[Main].pc \in Leaving => \A a \in Apps : procs[a].up => a \in held \/ a \in lost

\* Until two cross, one goroutine at a time is past its build, and the others
\* hold nothing.
LEMMA Alone ==
  ASSUME IInv, CrossInv, ~crossed, NEW p \in Procs, NEW q \in Procs, p # q,
         job[p].pc \in PastBuild
  PROVE  job[q].pc \notin PastBuild /\ job[q].old = None /\ job[q].new = None
<1>1. job[q].pc \notin PastBuild
  BY DEF CrossInv
<1> QED
  BY <1>1 DEF IInv, HandInv, PastBuild

\* What a goroutine does outside of a swap.
LEMMA CrossGoes ==
  ASSUME IInv, CrossInv, NEW p \in Procs, NEW place \in Places \ (PastBuild \cup Leaving),
         Went(p, place), app' = app, procs' = procs, held' = held, lost' = lost,
         crossed' = crossed
  PROVE  CrossInv'
<1>1. Held' = Held
  BY DEF Held, Went
<1>2. \A q \in Procs : /\ job'[q].pc \in PastBuild => job[q].pc \in PastBuild
                       /\ job'[q].pc \in Swapping => job[q].pc \in Swapping
  BY DEF Went, Swapping, PastBuild
<1>3. job'[Main].pc \in Leaving => job[Main].pc \in Leaving
  BY Constant DEF Went
<1> QED
  BY <1>1, <1>2, <1>3 DEF CrossInv

LEMMA CrossStays ==
  ASSUME CrossInv, job' = job, app' = app, held' = held, lost' = lost, crossed' = crossed,
         \A a \in Apps : procs'[a].up => procs[a].up
  PROVE  CrossInv'
<1>1. Held' = Held
  BY DEF Held
<1> QED
  BY <1>1 DEF CrossInv

\* Where a step of the loop leads.
LEMMA CrossLoop ==
  ASSUME IInv, CrossInv, LoopNext, UNCHANGED appVars
  PROVE  CrossInv'
<1> USE Constant
<1>1. /\ TypeOK /\ app' = app /\ procs' = procs /\ held' = held
      /\ lost' = lost /\ crossed' = crossed
  BY DEF IInv, appVars
<1>2. CASE job' = job
  BY <1>1, <1>2, CrossStays
<1>3. ASSUME NEW c \in Cycles, TimerFires(c) PROVE CrossInv'
  <2>1. "generate" \in Places \ (PastBuild \cup Leaving)
    BY DEF Places, LoopPlaces, PastBuild, Leaving
  <2>2. Went(c, "generate")
    BY <1>1, <1>3, <2>1, Typed, Goes DEF TimerFires
  <2> QED
    BY <1>1, <2>1, <2>2, CrossGoes
<1>4. ASSUME NEW p \in Procs, Cycle(p) PROVE CrossInv'
  <2>1. PICK place \in {"compile", "seed", "consume", "cleanup", "idle", "restart", "assets", "reload"} :
          \/ Goto(p, place) \/ Forget(p, place)
          \/ job' = [job EXCEPT ![p] = [@ EXCEPT !.pc = place, !.snap = src]]
    BY <1>4 DEF Cycle, GenerateReads, GenerateWrites, GenerateFails, ConsumePending, PreReload,
                OnReload, Seed, RunReturns
  <2>2. place \in Places \ (PastBuild \cup Leaving)
    BY DEF Places, LoopPlaces, PastBuild, Leaving
  <2>3. Went(p, place)
    BY <1>1, <2>1, <2>2, Typed, Goes, Forgets, Reads
  <2> QED
    BY <1>1, <2>2, <2>3, CrossGoes
<1>5. (\E c \in Classes : Edit(c)) \/ Interrupt \/ Poller => job' = job
  BY DEF Edit, Interrupt, Poller, PollFiles, Debounced
<1> QED
  BY <1>2, <1>3, <1>4, <1>5 DEF LoopNext

\* The one step that leads past a build: it notes whether another is there.
LEMMA CrossBuilt == ASSUME IInv, CrossInv, NEW p \in Procs, BuildEnds(p) PROVE CrossInv'
<1> USE Constant
<1>1. /\ TypeOK /\ app' = app /\ procs' = procs /\ held' = held /\ lost' = lost
      /\ job[p].pc = "building"
      /\ crossed' = (crossed \/ (job'[p].pc = "swap" /\ \E q \in Procs \ {p} : job[q].pc \in PastBuild))
  BY DEF IInv, BuildEnds, NoLoop
<1>2. PICK place \in {"idle", "watch", "swap"} : Forget(p, place)
  BY DEF BuildEnds, Restarted
<1>3. Went(p, place) /\ place \in Places
  BY <1>1, <1>2, Typed, Forgets DEF Places, LoopPlaces, AppPlaces
<1>4. CASE place # "swap"
  <2>1. job'[p].pc = place /\ place \in Places \ (PastBuild \cup Leaving)
    BY <1>3, <1>4 DEF Went, PastBuild, Leaving
  <2>2. crossed' = crossed
    BY <1>1, <1>4, <2>1, Zenon DEF IInv, TypeOK
  <2> QED
    BY <1>1, <1>3, <2>1, <2>2, CrossGoes
<1>5. CASE place = "swap"
  <2>1. /\ \A q \in Procs : job'[q].pc \in Swapping => job[q].pc \in Swapping
        /\ \A q \in Procs : q # p /\ job'[q].pc \in PastBuild => job[q].pc \in PastBuild
        /\ job'[p].pc = "swap" /\ Held' = Held
        /\ job'[Main].pc \in Leaving => job[Main].pc \in Leaving
    BY <1>3, <1>5 DEF Went, Swapping, Leaving, Held
  <2>2. ~crossed' => ~crossed /\ \A q \in Procs \ {p} : job'[q].pc \notin PastBuild
    BY <1>1, <2>1
  <2> QED
    BY <1>1, <2>1, <2>2 DEF CrossInv
<1> QED
  BY <1>4, <1>5

LEMMA CrossSwap == ASSUME IInv, CrossInv, NEW p \in Procs, Swap(p) PROVE CrossInv'
<1> USE Constant
<1>1. /\ Moved(p, IF app = None THEN "start" ELSE "stopOld", app, job[p].new)
      /\ job[p].pc = "swap" /\ app' = None /\ procs' = procs /\ held' = held
      /\ lost' = lost /\ crossed' = crossed
  BY SwapMoves DEF IInv, Swap, NoLoop
<1>2. job[p].old = None /\ job[p].new = None
  BY <1>1 DEF IInv, HandInv
<1>3. \A a \in Apps : a \in Held \/ a = app => a \in Held'
  BY <1>1, <1>2 DEF Held, Moved
<1>4. \A q \in Procs : job'[q].pc \in PastBuild => job[q].pc \in PastBuild
  BY <1>1 DEF Moved, PastBuild
<1>5. job'[Main].pc \in Leaving => job[Main].pc \in Leaving
  BY <1>1 DEF Moved, Leaving
<1> QED
  BY <1>1, <1>3, <1>4, <1>5 DEF CrossInv

LEMMA CrossStop == ASSUME IInv, CrossInv, NEW p \in Procs, StopOld(p) PROVE CrossInv'
<1> USE Constant
<1>1. /\ Moved(p, "start", None, job[p].new)
      /\ job[p].pc = "stopOld" /\ app' = app /\ held' = held
      /\ lost' = lost /\ crossed' = crossed
      /\ procs' = [procs EXCEPT ![job[p].old].up = FALSE]
  BY StopMoves DEF IInv, StopOld, NoLoop
<1>2. job[p].old \in Apps /\ procs \in [Apps -> Process]
  BY <1>1, Typed, ZenonT(30) DEF IInv, HandInv
<1>3. ~procs'[job[p].old].up /\ \A a \in Apps : a # job[p].old => procs'[a] = procs[a]
  BY <1>1, <1>2 DEF Process
<1>4. \A a \in Held : a # job[p].old => a \in Held'
  BY <1>1 DEF Held, Moved
<1>5. \A q \in Procs : /\ job'[q].pc \in PastBuild => job[q].pc \in PastBuild
                       /\ job'[q].pc \in Swapping => job[q].pc \in Swapping
  BY <1>1 DEF Moved, PastBuild, Swapping
<1>6. job'[Main].pc \in Leaving => job[Main].pc \in Leaving
  BY <1>1 DEF Moved, Leaving
<1> QED
  BY <1>1, <1>2, <1>3, <1>4, <1>5, <1>6 DEF CrossInv

\* Nothing is started once Run has cleaned up: then ctx is cancelled.
LEMMA CrossStart ==
  ASSUME IInv, CrossInv, NEW p \in Procs, StartNew(p), ~(done \/ src.bad = "run")
  PROVE  CrossInv'
<1> USE Constant
<1>1. PICK a \in Apps : /\ procs' = [procs EXCEPT ![a] = [up |-> TRUE, ver |-> bin]]
                        /\ job' = [job EXCEPT ![p] = [@ EXCEPT !.new = a, !.pc = "publish"]]
                        /\ lost' = lost \ {a}
  BY DEF StartNew
<1>2. /\ Moved(p, "publish", job[p].old, a)
      /\ job[p].pc = "start" /\ app' = app /\ held' = held /\ crossed' = crossed
  BY <1>1, StartMoves DEF IInv, StartNew
<1>3. \A b \in Apps : b # a => procs'[b] = procs[b]
  BY <1>1, Typed DEF IInv
<1>4. job[p].new = None
  BY <1>2 DEF IInv, HandInv
<1>5. a \in Held' /\ \A b \in Held : b \in Apps => b \in Held'
  BY <1>2, <1>4 DEF Held, Moved
<1>6. \A q \in Procs : /\ job'[q].pc \in PastBuild => job[q].pc \in PastBuild
                       /\ job'[q].pc \in Swapping => job[q].pc \in Swapping
  BY <1>2 DEF Moved, PastBuild, Swapping
<1>7. job'[Main].pc \notin Leaving
  BY <1>2 DEF IInv, RunInv, NoCycles, Moved, Leaving
<1> QED
  BY <1>1, <1>2, <1>3, <1>5, <1>6, <1>7 DEF CrossInv

\* The new application takes a place that is empty, or one that another startApp
\* has filled meanwhile: then that process is lost.
LEMMA CrossPublish == ASSUME IInv, CrossInv, NEW p \in Procs, Publish(p) PROVE CrossInv'
<1> USE Constant
<1>1. /\ Moved(p, Restarted(p), job[p].old, None)
      /\ job[p].pc = "publish" /\ app' = job[p].new /\ procs' = procs /\ held' = held
      /\ crossed' = crossed /\ lost' = lost \cup ({app} \ {None})
  BY PublishMoves DEF IInv, Publish, NoLoop
<1>2. ~crossed => app = None
  BY <1>1 DEF CrossInv, Swapping
<1>3. \A a \in Held : a # job[p].new => a \in Held'
  BY <1>1 DEF Held, Moved
<1>4. ~crossed => \A q \in Procs : job'[q].pc \notin PastBuild
  <2>1. ~crossed => \A q \in Procs : q # p => job[q].pc \notin PastBuild
    BY <1>1, Alone DEF PastBuild
  <2> QED
    BY <1>1, <2>1 DEF Moved, Restarted, PastBuild
<1>5. Swapping \subseteq PastBuild
  BY DEF Swapping, PastBuild
<1>6. job'[Main].pc \in Leaving => job[Main].pc \in Leaving
  BY <1>1 DEF Moved, Leaving, Restarted
<1> QED
  BY <1>1, <1>2, <1>3, <1>4, <1>5, <1>6 DEF CrossInv

LEMMA CrossStartApp == ASSUME IInv, CrossInv, NEW p \in Procs, StartApp(p) PROVE CrossInv'
<1> USE Constant
<1>1. CASE CancelBuild(p) \/ AssetChain(p) \/ BuildReads(p)
           \/ (StartNew(p) /\ (done \/ src.bad = "run"))
  <2>1. /\ TypeOK /\ app' = app /\ procs' = procs /\ held' = held
        /\ lost' = lost /\ crossed' = crossed
    BY <1>1 DEF IInv, CancelBuild, AssetChain, BuildReads, StartNew, NoLoop, appVars
  <2>2. PICK place \in {"startAssets", "build", "building", "idle", "watch"} :
          \/ Goto(p, place)
          \/ \E s \in Source : job' = [job EXCEPT ![p] = [@ EXCEPT !.pc = place, !.snap = s]]
    BY <1>1, <2>1, Typed, Snapshot
       DEF CancelBuild, AssetChain, BuildReads, StartNew, Goto, Restarted
  <2>3. place \in Places \ (PastBuild \cup Leaving)
    BY DEF Places, LoopPlaces, AppPlaces, PastBuild, Leaving
  <2>4. Went(p, place)
    BY <2>1, <2>2, <2>3, Typed, Goes, Reads
  <2> QED
    BY <2>1, <2>3, <2>4, CrossGoes
<1> QED
  BY <1>1, CrossBuilt, CrossSwap, CrossStop, CrossStart, CrossPublish DEF StartApp

\* What the cleanup does not stop is held, or lost.
LEMMA CrossCleanup == ASSUME IInv, CrossInv, Cleanup PROVE CrossInv'
<1> USE Constant
<1>1. /\ Went(Main, "exiting") /\ app' = app /\ held' = Held /\ lost' = lost /\ crossed' = crossed
      /\ procs' = [a \in Apps |-> IF a = app THEN [procs[a] EXCEPT !.up = FALSE] ELSE procs[a]]
  BY Typed, Goes DEF IInv, Cleanup, Places, LoopPlaces, NoLoop
<1>2. \A a \in Apps : procs'[a].up => a # app /\ procs[a].up
  BY <1>1, Typed DEF IInv, Process
<1>3. Held' = Held
  BY <1>1 DEF Held, Went
<1>4. \A q \in Procs : /\ job'[q].pc \in PastBuild => job[q].pc \in PastBuild
                       /\ job'[q].pc \in Swapping => job[q].pc \in Swapping
  BY <1>1 DEF Went, Swapping, PastBuild
<1> QED
  BY <1>1, <1>2, <1>3, <1>4 DEF CrossInv

LEMMA CrossExit == ASSUME IInv, CrossInv, Exit PROVE CrossInv'
<1> USE Constant
<1>1. /\ Went(Main, "exited") /\ app' = app /\ procs' = procs /\ held' = held
      /\ lost' = lost /\ crossed' = crossed /\ job[Main].pc = "exiting"
  BY Typed, Goes DEF IInv, Exit, Places, LoopPlaces, NoLoop, appVars
<1>2. Held' = Held
  BY <1>1 DEF Held, Went
<1>3. \A q \in Procs : /\ job'[q].pc \in PastBuild => job[q].pc \in PastBuild
                       /\ job'[q].pc \in Swapping => job[q].pc \in Swapping
  BY <1>1 DEF Went, Swapping, PastBuild
<1> QED
  BY <1>1, <1>2, <1>3 DEF CrossInv, Leaving

LEMMA CrossPreserved == IInv /\ CrossInv /\ [Next]_vars => CrossInv'
<1> SUFFICES ASSUME IInv, CrossInv, [Next]_vars PROVE CrossInv'
  OBVIOUS
<1>1. CASE UNCHANGED vars
  BY <1>1, CrossStays DEF vars, loop, appVars
<1>2. ASSUME NEW a \in Apps, KilledByContext(a) PROVE CrossInv'
  <2>1. job' = job /\ app' = app /\ held' = held /\ lost' = lost /\ crossed' = crossed
    BY <1>2 DEF KilledByContext, loop
  <2>2. \A b \in Apps : procs'[b].up => procs[b].up
    BY <1>2, Typed DEF IInv, KilledByContext, Process
  <2> QED
    BY <2>1, <2>2, CrossStays
<1> QED
  BY <1>1, <1>2, CrossLoop, CrossStartApp, CrossCleanup, CrossExit DEF Next

LEMMA CrossInitial == Init => CrossInv
<1> SUFFICES ASSUME Init PROVE CrossInv
  OBVIOUS
<1>1. \A p \in Procs : job[p].pc = IF p = Main THEN "generate" ELSE "idle"
  BY DEF Init, LoopInit
<1>2. \A a \in Apps : ~procs[a].up
  BY DEF Init
<1>3. lost = {}
  BY DEF Init
<1> QED
  BY <1>1, <1>2, <1>3, Constant DEF CrossInv, Swapping, PastBuild, Leaving

\* Of two processes that are up, one is in no hand, and `app' is empty while one
\* is in a hand.
LEMMA UpAlone ==
  ASSUME IInv, CrossInv, ~crossed, NEW a \in Apps, NEW b \in Apps, procs[a].up, procs[b].up
  PROVE  a = b
<1>1. ASSUME NEW p \in Procs, job[p].old # None \/ job[p].new # None
      PROVE  app = None /\ \A q \in Procs \ {p} : job[q].old = None /\ job[q].new = None
  BY <1>1, Alone DEF IInv, HandInv, CrossInv, Swapping, PastBuild
<1>2. \A p \in Procs : job[p].old = None \/ job[p].new = None
  BY DEF IInv, HandInv
<1>3. \A x \in Apps : procs[x].up => x = app \/ \E p \in Procs : x \in {job[p].old, job[p].new}
  BY DEF CrossInv, Held
<1> QED
  BY <1>1, <1>2, <1>3, Constant

\* However cycles overlap: until two startApps are past their builds at once, at most
\* one process of the application is up; what is up is `app', held by a startApp or
\* published over; and what is left behind at the end is one of these (watch.go,
\* startApp and the cleanup), for any number of cycles, faults and edits.
THEOREM OneAppHolds == Spec => []OneApp
<1>1. IInv /\ CrossInv => OneApp
  <2> SUFFICES ASSUME IInv, CrossInv PROVE OneApp
    OBVIOUS
  <2>1. crossed \/ Cardinality(Up) <= 1
    <3>1. ~crossed => Up = {} \/ \E a \in Apps : Up = {a}
      BY UpAlone DEF Up
    <3>2. CASE Up = {}
      BY <3>2, FS_EmptySet
    <3>3. ASSUME NEW a \in Apps, Up = {a} PROVE Cardinality(Up) = 1
      BY <3>3, FS_Singleton
    <3> QED
      BY <3>1, <3>2, <3>3
  <2>2. Up \subseteq {app} \cup Held \cup lost
    BY DEF CrossInv, Up
  <2>3. Exited => Up \subseteq held \cup lost
    BY DEF CrossInv, Up, Exited, Leaving
  <2> QED
    BY <2>1, <2>2, <2>3 DEF OneApp
<1> QED
  BY Inductive, CrossInitial, CrossPreserved, <1>1, PTL DEF Spec

-----------------------------------------------------------------------------
(* gastro dev.                                                             *)

DevInside == {"stopOld", "build", "building", "start"}

\* appMu is held from the stop of the old server to the start of the new one.
DevMuInv == \A p \in Dev!Procs : job[p].pc \in DevInside <=> appMu = p

DevNoCycles == poll = "waiting" /\ ~armed /\ \A c \in Cycles : job[c].pc = "idle"

\* No cycle begins before Run watches; Run ends once ctx is cancelled, or
\* without ever having watched.
DevRunInv ==
  /\ job[Main].pc \in {"generate", "compile", "seed", "restart"} \cup DevInside => DevNoCycles
  /\ job[Main].pc \in {"cleanup", "exiting", "exited"} => done \/ DevNoCycles

\* A server that is up is appCmd, there is none between stop and start, and
\* none once the cleanup is over.
DevServerInv ==
  /\ \A a \in Apps : procs[a].up => a = app
  /\ \A p \in Dev!Procs : job[p].pc \in DevInside \ {"stopOld"} => app = None
  /\ job[Main].pc \in {"exiting", "exited"} => \A a \in Apps : ~procs[a].up

DevIInv == Dev!TypeOK /\ DevMuInv /\ DevRunInv /\ DevServerInv

DevPlaces == Dev!LoopPlaces \cup Dev!AppPlaces

-----------------------------------------------------------------------------
(* Where a step of gastro dev leaves the goroutines.                       *)

LEMMA DevConstant ==
  /\ Main \in Dev!Procs /\ Cycles \subseteq Dev!Procs /\ Main \notin Cycles
  /\ None \notin Dev!Procs /\ None \notin Apps
  /\ \A p \in Dev!Procs : p = Main \/ p \in Cycles
  /\ "none" \in Faults /\ MaxEdits \in Nat
BY DevLoopAssumption DEF DevLoopAssumption, Procs, Dev!Procs

\* Goto moves one goroutine.
LEMMA DevGoes ==
  ASSUME job \in [Dev!Procs -> Dev!Job], NEW p \in Dev!Procs,
         NEW place \in DevPlaces, Dev!Goto(p, place)
  PROVE  /\ job' \in [Dev!Procs -> Dev!Job]
         /\ \A q \in Dev!Procs : job'[q].pc = IF q = p THEN place ELSE job[q].pc
BY DEF Dev!Goto, Dev!Job, DevPlaces

LEMMA DevBlank == Dev!Unedited \in Dev!Version /\ Dev!NoSource \in Dev!Source
BY DevConstant DEF Dev!Unedited, Dev!Version, Dev!NoSource, Dev!Source

\* So does Forget, and it drops what the goroutine has read.
LEMMA DevForgets ==
  ASSUME job \in [Dev!Procs -> Dev!Job], NEW p \in Dev!Procs,
         NEW place \in DevPlaces, Dev!Forget(p, place)
  PROVE  /\ job' \in [Dev!Procs -> Dev!Job]
         /\ \A q \in Dev!Procs : job'[q].pc = IF q = p THEN place ELSE job[q].pc
BY DevBlank DEF Dev!Forget, Dev!Job, DevPlaces

\* And so does a step that reads the sources.
LEMMA DevReads ==
  ASSUME job \in [Dev!Procs -> Dev!Job], NEW p \in Dev!Procs,
         NEW place \in DevPlaces, NEW s \in Dev!Source,
         job' = [job EXCEPT ![p] = [@ EXCEPT !.pc = place, !.snap = s]]
  PROVE  /\ job' \in [Dev!Procs -> Dev!Job]
         /\ \A q \in Dev!Procs : job'[q].pc = IF q = p THEN place ELSE job[q].pc
BY DEF Dev!Job, DevPlaces

LEMMA DevSnapshot ==
  ASSUME tree \in Dev!Version, src \in Dev!Source
  PROVE  [ver |-> [tree EXCEPT !["go"] = src.ver["go"]], bad |-> src.bad] \in Dev!Source
BY DEF Dev!Version, Dev!Source, Dev!Classes

-----------------------------------------------------------------------------
(* A step of gastro dev preserves its invariant.                           *)

LEMMA DevPreserved == DevIInv /\ [Dev!Next]_Dev!vars => DevIInv'
<1> SUFFICES ASSUME DevIInv, [Dev!Next]_Dev!vars PROVE DevIInv'
  OBVIOUS
<1> USE DevConstant
<1>0. /\ job \in [Dev!Procs -> Dev!Job] /\ tree \in Dev!Version /\ src \in Dev!Source
      /\ src.ver \in Dev!Version /\ src.bad \in Faults
      /\ \A p \in Dev!Procs : job[p].snap.ver \in Dev!Version
  BY DEF DevIInv, Dev!TypeOK, Dev!LoopTypeOK, Dev!Job, Dev!Source
<1>1. ASSUME NEW c \in Dev!Classes, Dev!Edit(c), UNCHANGED Dev!appVars PROVE DevIInv'
  <2>1. job' = job
    BY <1>1 DEF Dev!Edit, Dev!loop
  <2>2. Dev!TypeOK'
    <3>1. src' \in Dev!Source
      BY <1>1, <1>0 DEF Dev!Edit, Dev!Source, Dev!Version
    <3>2. risky' \in BOOLEAN
      BY <1>1, Zenon DEF Dev!Edit
    <3> QED
      BY <1>1, <2>1, <3>1, <3>2 DEF DevIInv, Dev!TypeOK, Dev!LoopTypeOK, Dev!Edit, Dev!appVars
  <2>3. DevMuInv'
    BY <1>1, <2>1
       DEF DevIInv, Dev!TypeOK, Dev!LoopTypeOK, DevMuInv, DevInside, Dev!Edit, Dev!appVars
  <2>4. DevRunInv'
    BY <1>1, <2>1
       DEF DevIInv, Dev!TypeOK, Dev!LoopTypeOK, DevRunInv, DevNoCycles, DevInside, Dev!Edit,
           Dev!appVars
  <2>5. DevServerInv'
    BY <1>1, <2>1
       DEF DevIInv, Dev!TypeOK, Dev!LoopTypeOK, DevMuInv, DevRunInv, DevNoCycles, DevServerInv,
           DevInside, Dev!Exited, Dev!Edit, Dev!appVars
  <2> QED
    BY <2>2, <2>3, <2>4, <2>5 DEF DevIInv
<1>2. ASSUME Dev!Interrupt, UNCHANGED Dev!appVars PROVE DevIInv'
  <2>1. job' = job
    BY <1>2 DEF Dev!Interrupt, Dev!loop
  <2>2. Dev!TypeOK'
    BY <1>2, <2>1, <1>0 DEF DevIInv, Dev!TypeOK, Dev!LoopTypeOK, Dev!Interrupt, Dev!appVars
  <2>3. DevMuInv'
    BY <1>2, <2>1
       DEF DevIInv, Dev!TypeOK, Dev!LoopTypeOK, DevMuInv, DevInside, Dev!Interrupt, Dev!appVars
  <2>4. DevRunInv'
    BY <1>2, <2>1
       DEF DevIInv, Dev!TypeOK, Dev!LoopTypeOK, DevRunInv, DevNoCycles, DevInside, Dev!Interrupt,
           Dev!appVars
  <2>5. DevServerInv'
    BY <1>2, <2>1
       DEF DevIInv, Dev!TypeOK, Dev!LoopTypeOK, DevMuInv, DevRunInv, DevNoCycles, DevServerInv,
           DevInside, Dev!Exited, Dev!Interrupt, Dev!appVars
  <2> QED
    BY <2>2, <2>3, <2>4, <2>5 DEF DevIInv
<1>3. ASSUME Dev!PollFiles, UNCHANGED Dev!appVars PROVE DevIInv'
  <2>1. job' = job
    BY <1>3 DEF Dev!PollFiles, Dev!loop
  <2>2. Dev!TypeOK'
    BY <1>3, <2>1, <1>0
       DEF DevIInv, Dev!TypeOK, Dev!LoopTypeOK, Dev!PollFiles, Dev!appVars, Dev!Escalate,
           Dev!ClassifyChange
  <2>3. DevMuInv'
    BY <1>3, <2>1
       DEF DevIInv, Dev!TypeOK, Dev!LoopTypeOK, DevMuInv, DevInside, Dev!PollFiles, Dev!appVars,
           Dev!Escalate, Dev!ClassifyChange
  <2>4. DevRunInv'
    BY <1>3, <2>1
       DEF DevIInv, Dev!TypeOK, Dev!LoopTypeOK, DevRunInv, DevNoCycles, DevInside, Dev!PollFiles,
           Dev!appVars, Dev!Escalate, Dev!ClassifyChange
  <2>5. DevServerInv'
    BY <1>3, <2>1
       DEF DevIInv, Dev!TypeOK, Dev!LoopTypeOK, DevMuInv, DevRunInv, DevNoCycles, DevServerInv,
           DevInside, Dev!Exited, Dev!PollFiles, Dev!appVars, Dev!Escalate, Dev!ClassifyChange
  <2> QED
    BY <2>2, <2>3, <2>4, <2>5 DEF DevIInv
<1>4. ASSUME Dev!Debounced, UNCHANGED Dev!appVars PROVE DevIInv'
  <2>1. job' = job
    BY <1>4 DEF Dev!Debounced, Dev!loop
  <2>2. Dev!TypeOK'
    BY <1>4, <2>1, <1>0 DEF DevIInv, Dev!TypeOK, Dev!LoopTypeOK, Dev!Debounced, Dev!appVars
  <2>3. DevMuInv'
    BY <1>4, <2>1
       DEF DevIInv, Dev!TypeOK, Dev!LoopTypeOK, DevMuInv, DevInside, Dev!Debounced, Dev!appVars
  <2>4. DevRunInv'
    BY <1>4, <2>1
       DEF DevIInv, Dev!TypeOK, Dev!LoopTypeOK, DevRunInv, DevNoCycles, DevInside, Dev!Debounced,
           Dev!appVars
  <2>5. DevServerInv'
    BY <1>4, <2>1
       DEF DevIInv, Dev!TypeOK, Dev!LoopTypeOK, DevMuInv, DevRunInv, DevNoCycles, DevServerInv,
           DevInside, Dev!Exited, Dev!Debounced, Dev!appVars
  <2> QED
    BY <2>2, <2>3, <2>4, <2>5 DEF DevIInv
<1>5. ASSUME NEW c \in Cycles, Dev!TimerFires(c), UNCHANGED Dev!appVars PROVE DevIInv'
  <2>1. /\ job' \in [Dev!Procs -> Dev!Job]
        /\ \A q \in Dev!Procs : job'[q].pc = IF q = c THEN "generate" ELSE job[q].pc
    BY <1>5, <1>0, DevGoes DEF Dev!TimerFires, DevPlaces, Dev!LoopPlaces, Dev!AppPlaces
  <2>2. Dev!TypeOK'
    BY <1>5, <2>1, <1>0 DEF DevIInv, Dev!TypeOK, Dev!LoopTypeOK, Dev!TimerFires, Dev!appVars
  <2>3. DevMuInv'
    BY <1>5, <2>1
       DEF DevIInv, Dev!TypeOK, Dev!LoopTypeOK, DevMuInv, DevInside, Dev!TimerFires, Dev!appVars
  <2>4. DevRunInv'
    BY <1>5, <2>1
       DEF DevIInv, Dev!TypeOK, Dev!LoopTypeOK, DevRunInv, DevNoCycles, DevInside, Dev!TimerFires,
           Dev!appVars
  <2>5. DevServerInv'
    BY <1>5, <2>1
       DEF DevIInv, Dev!TypeOK, Dev!LoopTypeOK, DevMuInv, DevRunInv, DevNoCycles, DevServerInv,
           DevInside, Dev!Exited, Dev!TimerFires, Dev!appVars
  <2> QED
    BY <2>2, <2>3, <2>4, <2>5 DEF DevIInv
<1>6. ASSUME NEW p \in Dev!Procs, Dev!GenerateReads(p), ~Dev!Exited, UNCHANGED Dev!appVars
      PROVE  DevIInv'
  <2>1. /\ job' \in [Dev!Procs -> Dev!Job]
        /\ \A q \in Dev!Procs : job'[q].pc = IF q = p THEN "compile" ELSE job[q].pc
    BY <1>6, <1>0, DevReads DEF Dev!GenerateReads, DevPlaces, Dev!LoopPlaces, Dev!AppPlaces
  <2>2. Dev!TypeOK'
    BY <1>6, <2>1, <1>0 DEF DevIInv, Dev!TypeOK, Dev!LoopTypeOK, Dev!GenerateReads, Dev!appVars
  <2>3. DevMuInv'
    BY <1>6, <2>1
       DEF DevIInv, Dev!TypeOK, Dev!LoopTypeOK, DevMuInv, DevInside, Dev!GenerateReads,
           Dev!appVars
  <2>4. DevRunInv'
    BY <1>6, <2>1
       DEF DevIInv, Dev!TypeOK, Dev!LoopTypeOK, DevRunInv, DevNoCycles, DevInside,
           Dev!GenerateReads, Dev!appVars
  <2>5. DevServerInv'
    BY <1>6, <2>1
       DEF DevIInv, Dev!TypeOK, Dev!LoopTypeOK, DevMuInv, DevRunInv, DevNoCycles, DevServerInv,
           DevInside, Dev!Exited, Dev!GenerateReads, Dev!appVars
  <2> QED
    BY <2>2, <2>3, <2>4, <2>5 DEF DevIInv
<1>7. ASSUME NEW p \in Dev!Procs, Dev!GenerateWrites(p), ~Dev!Exited, UNCHANGED Dev!appVars
      PROVE  DevIInv'
  <2>1. /\ job' \in [Dev!Procs -> Dev!Job]
        /\ \A q \in Dev!Procs : job'[q].pc =
             IF q = p THEN (IF p = Main THEN "seed" ELSE "consume") ELSE job[q].pc
    BY <1>7, <1>0, DevForgets DEF Dev!GenerateWrites, DevPlaces, Dev!LoopPlaces, Dev!AppPlaces
  <2>2. Dev!TypeOK'
    BY <1>7, <2>1, <1>0 DEF DevIInv, Dev!TypeOK, Dev!LoopTypeOK, Dev!GenerateWrites, Dev!appVars
  <2>3. DevMuInv'
    BY <1>7, <2>1
       DEF DevIInv, Dev!TypeOK, Dev!LoopTypeOK, DevMuInv, DevInside, Dev!GenerateWrites,
           Dev!appVars
  <2>4. DevRunInv'
    BY <1>7, <2>1
       DEF DevIInv, Dev!TypeOK, Dev!LoopTypeOK, DevRunInv, DevNoCycles, DevInside,
           Dev!GenerateWrites, Dev!appVars
  <2>5. DevServerInv'
    BY <1>7, <2>1
       DEF DevIInv, Dev!TypeOK, Dev!LoopTypeOK, DevMuInv, DevRunInv, DevNoCycles, DevServerInv,
           DevInside, Dev!Exited, Dev!GenerateWrites, Dev!appVars
  <2> QED
    BY <2>2, <2>3, <2>4, <2>5 DEF DevIInv
<1>8. ASSUME NEW p \in Dev!Procs, Dev!GenerateFails(p), ~Dev!Exited, UNCHANGED Dev!appVars
      PROVE  DevIInv'
  <2>1. /\ job' \in [Dev!Procs -> Dev!Job]
        /\ \A q \in Dev!Procs : job'[q].pc =
             IF q = p THEN (IF p = Main THEN "cleanup" ELSE "idle") ELSE job[q].pc
    BY <1>8, <1>0, DevForgets DEF Dev!GenerateFails, DevPlaces, Dev!LoopPlaces, Dev!AppPlaces
  <2>2. Dev!TypeOK'
    BY <1>8, <2>1, <1>0 DEF DevIInv, Dev!TypeOK, Dev!LoopTypeOK, Dev!GenerateFails, Dev!appVars
  <2>3. DevMuInv'
    BY <1>8, <2>1
       DEF DevIInv, Dev!TypeOK, Dev!LoopTypeOK, DevMuInv, DevInside, Dev!GenerateFails,
           Dev!appVars
  <2>4. DevRunInv'
    BY <1>8, <2>1
       DEF DevIInv, Dev!TypeOK, Dev!LoopTypeOK, DevRunInv, DevNoCycles, DevInside,
           Dev!GenerateFails, Dev!appVars
  <2>5. DevServerInv'
    BY <1>8, <2>1
       DEF DevIInv, Dev!TypeOK, Dev!LoopTypeOK, DevMuInv, DevRunInv, DevNoCycles, DevServerInv,
           DevInside, Dev!Exited, Dev!GenerateFails, Dev!appVars
  <2> QED
    BY <2>2, <2>3, <2>4, <2>5 DEF DevIInv
<1>9. ASSUME NEW c \in Cycles, Dev!ConsumePending(c), ~Dev!Exited, UNCHANGED Dev!appVars
      PROVE  DevIInv'
  <2>1. /\ job' \in [Dev!Procs -> Dev!Job]
        /\ \A q \in Dev!Procs : job'[q].pc =
             IF q = c THEN (IF pending = "restart" THEN "restart" ELSE "assets") ELSE job[q].pc
    BY <1>9, <1>0, DevGoes DEF Dev!ConsumePending, DevPlaces, Dev!LoopPlaces, Dev!AppPlaces
  <2>2. Dev!TypeOK'
    BY <1>9, <2>1, <1>0 DEF DevIInv, Dev!TypeOK, Dev!LoopTypeOK, Dev!ConsumePending, Dev!appVars
  <2>3. DevMuInv'
    BY <1>9, <2>1
       DEF DevIInv, Dev!TypeOK, Dev!LoopTypeOK, DevMuInv, DevInside, Dev!ConsumePending,
           Dev!appVars
  <2>4. DevRunInv'
    BY <1>9, <2>1
       DEF DevIInv, Dev!TypeOK, Dev!LoopTypeOK, DevRunInv, DevNoCycles, DevInside,
           Dev!ConsumePending, Dev!appVars
  <2>5. DevServerInv'
    BY <1>9, <2>1
       DEF DevIInv, Dev!TypeOK, Dev!LoopTypeOK, DevMuInv, DevRunInv, DevNoCycles, DevServerInv,
           DevInside, Dev!Exited, Dev!ConsumePending, Dev!appVars
  <2> QED
    BY <2>2, <2>3, <2>4, <2>5 DEF DevIInv
<1>10. ASSUME NEW c \in Cycles, Dev!PreReload(c), ~Dev!Exited, UNCHANGED Dev!appVars PROVE DevIInv'
  <2>1. /\ job' \in [Dev!Procs -> Dev!Job]
        /\ \A q \in Dev!Procs : job'[q].pc =
             IF q = c THEN (IF Dev!AssetsFail(done) THEN "idle" ELSE "reload") ELSE job[q].pc
    BY <1>10, <1>0, DevGoes DEF Dev!PreReload, DevPlaces, Dev!LoopPlaces, Dev!AppPlaces
  <2>2. Dev!TypeOK'
    BY <1>10, <2>1, <1>0 DEF DevIInv, Dev!TypeOK, Dev!LoopTypeOK, Dev!PreReload, Dev!appVars
  <2>3. DevMuInv'
    BY <1>10, <2>1
       DEF DevIInv, Dev!TypeOK, Dev!LoopTypeOK, DevMuInv, DevInside, Dev!PreReload, Dev!appVars
  <2>4. DevRunInv'
    BY <1>10, <2>1
       DEF DevIInv, Dev!TypeOK, Dev!LoopTypeOK, DevRunInv, DevNoCycles, DevInside, Dev!PreReload,
           Dev!appVars
  <2>5. DevServerInv'
    BY <1>10, <2>1
       DEF DevIInv, Dev!TypeOK, Dev!LoopTypeOK, DevMuInv, DevRunInv, DevNoCycles, DevServerInv,
           DevInside, Dev!Exited, Dev!PreReload, Dev!appVars
  <2> QED
    BY <2>2, <2>3, <2>4, <2>5 DEF DevIInv
<1>11. ASSUME NEW c \in Cycles, Dev!OnReload(c), ~Dev!Exited, UNCHANGED Dev!appVars PROVE DevIInv'
  <2>1. /\ job' \in [Dev!Procs -> Dev!Job]
        /\ \A q \in Dev!Procs : job'[q].pc = IF q = c THEN "idle" ELSE job[q].pc
    BY <1>11, <1>0, DevGoes DEF Dev!OnReload, DevPlaces, Dev!LoopPlaces, Dev!AppPlaces
  <2>2. Dev!TypeOK'
    BY <1>11, <2>1, <1>0 DEF DevIInv, Dev!TypeOK, Dev!LoopTypeOK, Dev!OnReload, Dev!appVars
  <2>3. DevMuInv'
    BY <1>11, <2>1
       DEF DevIInv, Dev!TypeOK, Dev!LoopTypeOK, DevMuInv, DevInside, Dev!OnReload, Dev!appVars
  <2>4. DevRunInv'
    BY <1>11, <2>1
       DEF DevIInv, Dev!TypeOK, Dev!LoopTypeOK, DevRunInv, DevNoCycles, DevInside, Dev!OnReload,
           Dev!appVars
  <2>5. DevServerInv'
    BY <1>11, <2>1
       DEF DevIInv, Dev!TypeOK, Dev!LoopTypeOK, DevMuInv, DevRunInv, DevNoCycles, DevServerInv,
           DevInside, Dev!Exited, Dev!OnReload, Dev!appVars
  <2> QED
    BY <2>2, <2>3, <2>4, <2>5 DEF DevIInv
<1>12. ASSUME Dev!Seed, UNCHANGED Dev!appVars PROVE DevIInv'
  <2>1. /\ job' \in [Dev!Procs -> Dev!Job]
        /\ \A q \in Dev!Procs : job'[q].pc = IF q = Main THEN "restart" ELSE job[q].pc
    BY <1>12, <1>0, DevGoes DEF Dev!Seed, DevPlaces, Dev!LoopPlaces, Dev!AppPlaces
  <2>2. Dev!TypeOK'
    BY <1>12, <2>1, <1>0 DEF DevIInv, Dev!TypeOK, Dev!LoopTypeOK, Dev!Seed, Dev!appVars
  <2>3. DevMuInv'
    BY <1>12, <2>1
       DEF DevIInv, Dev!TypeOK, Dev!LoopTypeOK, DevMuInv, DevInside, Dev!Seed, Dev!appVars
  <2>4. DevRunInv'
    BY <1>12, <2>1
       DEF DevIInv, Dev!TypeOK, Dev!LoopTypeOK, DevRunInv, DevNoCycles, DevInside, Dev!Seed,
           Dev!appVars
  <2>5. DevServerInv'
    BY <1>12, <2>1
       DEF DevIInv, Dev!TypeOK, Dev!LoopTypeOK, DevMuInv, DevRunInv, DevNoCycles, DevServerInv,
           DevInside, Dev!Exited, Dev!Seed, Dev!appVars
  <2> QED
    BY <2>2, <2>3, <2>4, <2>5 DEF DevIInv
<1>13. ASSUME Dev!RunReturns, UNCHANGED Dev!appVars PROVE DevIInv'
  <2>1. /\ job' \in [Dev!Procs -> Dev!Job]
        /\ \A q \in Dev!Procs : job'[q].pc = IF q = Main THEN "cleanup" ELSE job[q].pc
    BY <1>13, <1>0, DevGoes DEF Dev!RunReturns, DevPlaces, Dev!LoopPlaces, Dev!AppPlaces
  <2>2. Dev!TypeOK'
    BY <1>13, <2>1, <1>0 DEF DevIInv, Dev!TypeOK, Dev!LoopTypeOK, Dev!RunReturns, Dev!appVars
  <2>3. DevMuInv'
    BY <1>13, <2>1
       DEF DevIInv, Dev!TypeOK, Dev!LoopTypeOK, DevMuInv, DevInside, Dev!RunReturns, Dev!appVars
  <2>4. DevRunInv'
    BY <1>13, <2>1
       DEF DevIInv, Dev!TypeOK, Dev!LoopTypeOK, DevRunInv, DevNoCycles, DevInside, Dev!RunReturns,
           Dev!appVars
  <2>5. DevServerInv'
    BY <1>13, <2>1
       DEF DevIInv, Dev!TypeOK, Dev!LoopTypeOK, DevMuInv, DevRunInv, DevNoCycles, DevServerInv,
           DevInside, Dev!Exited, Dev!RunReturns, Dev!appVars
  <2> QED
    BY <2>2, <2>3, <2>4, <2>5 DEF DevIInv
<1>14. ASSUME NEW p \in Dev!Procs, Dev!Lock(p), ~Dev!Exited PROVE DevIInv'
  <2>1. /\ job' \in [Dev!Procs -> Dev!Job]
        /\ \A q \in Dev!Procs : job'[q].pc =
             IF q = p THEN (IF app = None THEN "build" ELSE "stopOld") ELSE job[q].pc
    BY <1>14, <1>0, DevGoes DEF Dev!Lock, DevPlaces, Dev!LoopPlaces, Dev!AppPlaces
  <2>2. Dev!TypeOK'
    BY <1>14, <2>1, <1>0 DEF DevIInv, Dev!TypeOK, Dev!LoopTypeOK, Dev!Lock, Dev!NoLoop
  <2>3. DevMuInv'
    BY <1>14, <2>1
       DEF DevIInv, Dev!TypeOK, Dev!LoopTypeOK, DevMuInv, DevInside, Dev!Lock, Dev!NoLoop
  <2>4. DevRunInv'
    BY <1>14, <2>1
       DEF DevIInv, Dev!TypeOK, Dev!LoopTypeOK, DevRunInv, DevNoCycles, DevInside, Dev!Lock,
           Dev!NoLoop
  <2>5. DevServerInv'
    BY <1>14, <2>1
       DEF DevIInv, Dev!TypeOK, Dev!LoopTypeOK, DevMuInv, DevRunInv, DevNoCycles, DevServerInv,
           DevInside, Dev!Exited, Dev!Lock, Dev!NoLoop
  <2> QED
    BY <2>2, <2>3, <2>4, <2>5 DEF DevIInv
<1>15. ASSUME NEW p \in Dev!Procs, Dev!StopOld(p), ~Dev!Exited PROVE DevIInv'
  <2>1. /\ job' \in [Dev!Procs -> Dev!Job]
        /\ \A q \in Dev!Procs : job'[q].pc = IF q = p THEN "build" ELSE job[q].pc
    BY <1>15, <1>0, DevGoes DEF Dev!StopOld, DevPlaces, Dev!LoopPlaces, Dev!AppPlaces
  <2>2. Dev!TypeOK'
    BY <1>15, <2>1, <1>0
       DEF DevIInv, Dev!TypeOK, Dev!Process, Dev!LoopTypeOK, Dev!StopOld, Dev!NoLoop
  <2>3. DevMuInv'
    BY <1>15, <2>1
       DEF DevIInv, Dev!TypeOK, Dev!LoopTypeOK, DevMuInv, DevInside, Dev!StopOld, Dev!NoLoop
  <2>4. DevRunInv'
    BY <1>15, <2>1
       DEF DevIInv, Dev!TypeOK, Dev!LoopTypeOK, DevRunInv, DevNoCycles, DevInside, Dev!StopOld,
           Dev!NoLoop
  <2>5. DevServerInv'
    BY <1>15, <2>1
       DEF DevIInv, Dev!TypeOK, Dev!LoopTypeOK, DevMuInv, DevRunInv, DevNoCycles, DevServerInv,
           DevInside, Dev!Exited, Dev!StopOld, Dev!NoLoop
  <2> QED
    BY <2>2, <2>3, <2>4, <2>5 DEF DevIInv
<1>16. ASSUME NEW p \in Dev!Procs, Dev!BuildReads(p), ~Dev!Exited PROVE DevIInv'
  <2>1. /\ job' \in [Dev!Procs -> Dev!Job]
        /\ \A q \in Dev!Procs : job'[q].pc = IF q = p THEN "building" ELSE job[q].pc
    <3> DEFINE s == [ver |-> [tree EXCEPT !["go"] = src.ver["go"]], bad |-> src.bad]
    <3>1. s \in Dev!Source
      BY <1>0, DevSnapshot
    <3>2. job' = [job EXCEPT ![p] = [@ EXCEPT !.pc = "building", !.snap = s]]
      BY <1>16 DEF Dev!BuildReads
    <3>3. "building" \in DevPlaces
      BY DEF DevPlaces, Dev!AppPlaces
    <3> HIDE DEF s
    <3> QED
      BY <1>0, <3>1, <3>2, <3>3, DevReads
  <2>2. Dev!TypeOK'
    BY <1>16, <2>1, <1>0
       DEF DevIInv, Dev!TypeOK, Dev!LoopTypeOK, Dev!BuildReads, Dev!NoLoop, Dev!appVars
  <2>3. DevMuInv'
    BY <1>16, <2>1
       DEF DevIInv, Dev!TypeOK, Dev!LoopTypeOK, DevMuInv, DevInside, Dev!BuildReads, Dev!NoLoop,
           Dev!appVars
  <2>4. DevRunInv'
    BY <1>16, <2>1
       DEF DevIInv, Dev!TypeOK, Dev!LoopTypeOK, DevRunInv, DevNoCycles, DevInside, Dev!BuildReads,
           Dev!NoLoop, Dev!appVars
  <2>5. DevServerInv'
    BY <1>16, <2>1
       DEF DevIInv, Dev!TypeOK, Dev!LoopTypeOK, DevMuInv, DevRunInv, DevNoCycles, DevServerInv,
           DevInside, Dev!Exited, Dev!BuildReads, Dev!NoLoop, Dev!appVars
  <2> QED
    BY <2>2, <2>3, <2>4, <2>5 DEF DevIInv
<1>17. ASSUME NEW p \in Dev!Procs, Dev!BuildFails(p), ~Dev!Exited PROVE DevIInv'
  <2>1. /\ job' \in [Dev!Procs -> Dev!Job]
        /\ \A q \in Dev!Procs : job'[q].pc = IF q = p THEN Dev!Restarted(p) ELSE job[q].pc
    BY <1>17, <1>0, DevForgets
       DEF Dev!BuildFails, DevPlaces, Dev!LoopPlaces, Dev!AppPlaces, Dev!Restarted
  <2>2. Dev!TypeOK'
    BY <1>17, <2>1, <1>0
       DEF DevIInv, Dev!TypeOK, Dev!LoopTypeOK, Dev!BuildFails, Dev!NoLoop, Dev!Restarted
  <2>3. DevMuInv'
    BY <1>17, <2>1
       DEF DevIInv, Dev!TypeOK, Dev!LoopTypeOK, DevMuInv, DevInside, Dev!BuildFails, Dev!NoLoop,
           Dev!Restarted
  <2>4. DevRunInv'
    BY <1>17, <2>1
       DEF DevIInv, Dev!TypeOK, Dev!LoopTypeOK, DevRunInv, DevNoCycles, DevInside, Dev!BuildFails,
           Dev!NoLoop, Dev!Restarted
  <2>5. DevServerInv'
    BY <1>17, <2>1
       DEF DevIInv, Dev!TypeOK, Dev!LoopTypeOK, DevMuInv, DevRunInv, DevNoCycles, DevServerInv,
           DevInside, Dev!Exited, Dev!BuildFails, Dev!NoLoop, Dev!Restarted
  <2> QED
    BY <2>2, <2>3, <2>4, <2>5 DEF DevIInv
<1>18. ASSUME NEW p \in Dev!Procs, Dev!BuildWorks(p), ~Dev!Exited PROVE DevIInv'
  <2>1. /\ job' \in [Dev!Procs -> Dev!Job]
        /\ \A q \in Dev!Procs : job'[q].pc = IF q = p THEN "start" ELSE job[q].pc
    BY <1>18, <1>0, DevForgets DEF Dev!BuildWorks, DevPlaces, Dev!LoopPlaces, Dev!AppPlaces
  <2>2. Dev!TypeOK'
    BY <1>18, <2>1, <1>0 DEF DevIInv, Dev!TypeOK, Dev!LoopTypeOK, Dev!BuildWorks, Dev!NoLoop
  <2>3. DevMuInv'
    BY <1>18, <2>1
       DEF DevIInv, Dev!TypeOK, Dev!LoopTypeOK, DevMuInv, DevInside, Dev!BuildWorks, Dev!NoLoop
  <2>4. DevRunInv'
    BY <1>18, <2>1
       DEF DevIInv, Dev!TypeOK, Dev!LoopTypeOK, DevRunInv, DevNoCycles, DevInside, Dev!BuildWorks,
           Dev!NoLoop
  <2>5. DevServerInv'
    BY <1>18, <2>1
       DEF DevIInv, Dev!TypeOK, Dev!LoopTypeOK, DevMuInv, DevRunInv, DevNoCycles, DevServerInv,
           DevInside, Dev!Exited, Dev!BuildWorks, Dev!NoLoop
  <2> QED
    BY <2>2, <2>3, <2>4, <2>5 DEF DevIInv
<1>19. ASSUME NEW p \in Dev!Procs, Dev!StartNew(p), ~Dev!Exited PROVE DevIInv'
  <2>1. /\ job' \in [Dev!Procs -> Dev!Job]
        /\ \A q \in Dev!Procs : job'[q].pc = IF q = p THEN Dev!Restarted(p) ELSE job[q].pc
    BY <1>19, <1>0, DevGoes
       DEF Dev!StartNew, DevPlaces, Dev!LoopPlaces, Dev!AppPlaces, Dev!Restarted
  <2>2. Dev!TypeOK'
    <3>1. procs' \in [Apps -> [up : BOOLEAN, ver : Dev!Version]] /\ app' \in Apps \cup {None}
      <4>1. CASE done
        BY <1>19, <4>1 DEF DevIInv, Dev!TypeOK, Dev!Process, Dev!StartNew
      <4>2. CASE ~done
        <5>1. PICK a \in Apps : procs' = [procs EXCEPT ![a] = [up |-> TRUE, ver |-> bin]] /\ app' = a
          BY <1>19, <4>2 DEF Dev!StartNew
        <5>2. procs \in [Apps -> [up : BOOLEAN, ver : Dev!Version]] /\ bin \in Dev!Version
          BY DEF DevIInv, Dev!TypeOK, Dev!Process
        <5>3. [up |-> TRUE, ver |-> bin] \in [up : BOOLEAN, ver : Dev!Version]
          BY <5>2
        <5> QED
          BY <5>1, <5>2, <5>3
      <4> QED
        BY <4>1, <4>2
    <3>2. shown' \in Dev!Version
      BY <1>19, <1>0 DEF DevIInv, Dev!TypeOK, Dev!LoopTypeOK, Dev!StartNew
    <3> QED
      BY <1>19, <2>1, <3>1, <3>2
         DEF DevIInv, Dev!TypeOK, Dev!Process, Dev!LoopTypeOK, Dev!StartNew
  <2>3. DevMuInv'
    BY <1>19, <2>1
       DEF DevIInv, Dev!TypeOK, Dev!LoopTypeOK, DevMuInv, DevInside, Dev!StartNew, Dev!Restarted
  <2>4. DevRunInv'
    BY <1>19, <2>1
       DEF DevIInv, Dev!TypeOK, Dev!LoopTypeOK, DevRunInv, DevNoCycles, DevInside, Dev!StartNew,
           Dev!Restarted
  <2>5. DevServerInv'
    BY <1>19, <2>1
       DEF DevIInv, Dev!TypeOK, Dev!LoopTypeOK, DevMuInv, DevRunInv, DevNoCycles, DevServerInv,
           DevInside, Dev!Exited, Dev!StartNew, Dev!Restarted
  <2> QED
    BY <2>2, <2>3, <2>4, <2>5 DEF DevIInv
<1>20. ASSUME Dev!Cleanup PROVE DevIInv'
  <2>1. /\ job' \in [Dev!Procs -> Dev!Job]
        /\ \A q \in Dev!Procs : job'[q].pc = IF q = Main THEN "exiting" ELSE job[q].pc
    BY <1>20, <1>0, DevGoes DEF Dev!Cleanup, DevPlaces, Dev!LoopPlaces, Dev!AppPlaces
  <2>2. Dev!TypeOK'
    BY <1>20, <2>1, <1>0
       DEF DevIInv, Dev!TypeOK, Dev!Process, Dev!LoopTypeOK, Dev!Cleanup, Dev!NoLoop
  <2>3. DevMuInv'
    BY <1>20, <2>1
       DEF DevIInv, Dev!TypeOK, Dev!LoopTypeOK, DevMuInv, DevInside, Dev!Cleanup, Dev!NoLoop
  <2>4. DevRunInv'
    BY <1>20, <2>1
       DEF DevIInv, Dev!TypeOK, Dev!LoopTypeOK, DevRunInv, DevNoCycles, DevInside, Dev!Cleanup,
           Dev!NoLoop
  <2>5. DevServerInv'
    BY <1>20, <2>1
       DEF DevIInv, Dev!TypeOK, Dev!LoopTypeOK, DevMuInv, DevRunInv, DevNoCycles, DevServerInv,
           DevInside, Dev!Exited, Dev!Cleanup, Dev!NoLoop
  <2> QED
    BY <2>2, <2>3, <2>4, <2>5 DEF DevIInv
<1>21. ASSUME Dev!Exit PROVE DevIInv'
  <2>1. /\ job' \in [Dev!Procs -> Dev!Job]
        /\ \A q \in Dev!Procs : job'[q].pc = IF q = Main THEN "exited" ELSE job[q].pc
    BY <1>21, <1>0, DevGoes DEF Dev!Exit, DevPlaces, Dev!LoopPlaces, Dev!AppPlaces
  <2>2. Dev!TypeOK'
    BY <1>21, <2>1, <1>0 DEF DevIInv, Dev!TypeOK, Dev!LoopTypeOK, Dev!Exit, Dev!NoLoop, Dev!appVars
  <2>3. DevMuInv'
    BY <1>21, <2>1
       DEF DevIInv, Dev!TypeOK, Dev!LoopTypeOK, DevMuInv, DevInside, Dev!Exit, Dev!NoLoop,
           Dev!appVars
  <2>4. DevRunInv'
    BY <1>21, <2>1
       DEF DevIInv, Dev!TypeOK, Dev!LoopTypeOK, DevRunInv, DevNoCycles, DevInside, Dev!Exit,
           Dev!NoLoop, Dev!appVars
  <2>5. DevServerInv'
    BY <1>21, <2>1
       DEF DevIInv, Dev!TypeOK, Dev!LoopTypeOK, DevMuInv, DevRunInv, DevNoCycles, DevServerInv,
           DevInside, Dev!Exited, Dev!Exit, Dev!NoLoop, Dev!appVars
  <2> QED
    BY <2>2, <2>3, <2>4, <2>5 DEF DevIInv
<1>22. ASSUME NEW a \in Apps, Dev!KilledByContext(a) PROVE DevIInv'
  <2>1. job' = job
    BY <1>22 DEF Dev!KilledByContext, Dev!loop
  <2>2. Dev!TypeOK'
    BY <1>22, <2>1, <1>0
       DEF DevIInv, Dev!TypeOK, Dev!Process, Dev!LoopTypeOK, Dev!KilledByContext, Dev!loop
  <2>3. DevMuInv'
    BY <1>22, <2>1
       DEF DevIInv, Dev!TypeOK, Dev!LoopTypeOK, DevMuInv, DevInside, Dev!KilledByContext, Dev!loop
  <2>4. DevRunInv'
    BY <1>22, <2>1
       DEF DevIInv, Dev!TypeOK, Dev!LoopTypeOK, DevRunInv, DevNoCycles, DevInside,
           Dev!KilledByContext, Dev!loop
  <2>5. DevServerInv'
    BY <1>22, <2>1
       DEF DevIInv, Dev!TypeOK, Dev!LoopTypeOK, DevMuInv, DevRunInv, DevNoCycles, DevServerInv,
           DevInside, Dev!Exited, Dev!KilledByContext, Dev!loop
  <2> QED
    BY <2>2, <2>3, <2>4, <2>5 DEF DevIInv
<1>23. CASE UNCHANGED Dev!vars
  BY <1>23
     DEF Dev!vars, Dev!loop, Dev!appVars, DevIInv, Dev!TypeOK, Dev!LoopTypeOK, DevMuInv,
         DevRunInv, DevNoCycles, DevServerInv, Dev!Exited
<1> QED
  BY <1>1, <1>2, <1>3, <1>4, <1>5, <1>6, <1>7, <1>8, <1>9, <1>10, <1>11, <1>12, <1>13, <1>14,
     <1>15, <1>16, <1>17, <1>18, <1>19, <1>20, <1>21, <1>22, <1>23
     DEF Dev!Next, Dev!LoopNext, Dev!Poller, Dev!Cycle, Dev!StartApp

\* The initial state satisfies the invariant.
LEMMA DevInitial == Dev!Init => DevIInv
<1> SUFFICES ASSUME Dev!Init PROVE DevIInv
  OBVIOUS
<1> USE DevConstant, DevBlank
<1>1. Dev!TypeOK
  <2>1. src \in Dev!Source
    BY DEF Dev!Init, Dev!LoopInit, Dev!Source
  <2>2. job \in [Dev!Procs -> Dev!Job]
    BY DEF Dev!Init, Dev!LoopInit, Dev!Job, Dev!LoopPlaces
  <2>3. risky \in BOOLEAN
    <3>1. risky = (src.bad \in {"asset", "run"})
      BY DEF Dev!Init, Dev!LoopInit
    <3>2. (src.bad \in {"asset", "run"}) = TRUE \/ (src.bad \in {"asset", "run"}) = FALSE
      OBVIOUS
    <3> QED
      BY ONLY <3>1, <3>2, Zenon
  <2> QED
    BY <2>1, <2>2, <2>3 DEF Dev!Init, Dev!LoopInit, Dev!TypeOK, Dev!Process, Dev!LoopTypeOK
<1>2. DevMuInv /\ DevRunInv /\ DevServerInv
  BY DEF Dev!Init, Dev!LoopInit, DevMuInv, DevRunInv, DevNoCycles, DevServerInv, DevInside
<1> QED
  BY <1>1, <1>2 DEF DevIInv

\* IInv holds in every state of gastro dev.
LEMMA DevInductive == Dev!Spec => []DevIInv
BY DevInitial, DevPreserved, PTL DEF Dev!Spec

-----------------------------------------------------------------------------
(* What holds of gastro dev.                                               *)

\* Every variable of the loop and of startApp keeps its type.
THEOREM DevTypeCorrect == Dev!Spec => []Dev!TypeOK
<1>1. DevIInv => Dev!TypeOK
  BY DEF DevIInv
<1> QED
  BY DevInductive, <1>1, PTL

DevCommand == command = "dev" => DevIInv

\* A command is one or the other to its end, and DevIInv holds of gastro dev.
LEMMA CommandInductive == CommandSpec => []DevCommand
<1>1. CommandInit => DevCommand
  <2>1. Init /\ appMu = None => Dev!Init
    BY Zenon DEF Init, LoopInit, Dev!Init, Dev!LoopInit, Procs, Dev!Procs, Unedited, Dev!Unedited,
                 Classes, Dev!Classes, NoSource, Dev!NoSource
  <2> QED
    BY <2>1, DevInitial DEF CommandInit, DevCommand
<1>2. DevCommand /\ [Watches \/ Develops]_commandVars => DevCommand'
  <2> SUFFICES ASSUME DevCommand, [Watches \/ Develops]_commandVars, command' = "dev"
               PROVE  DevIInv'
    BY DEF DevCommand
  <2>1. CASE Watches
    BY <2>1 DEF Watches
  <2>2. CASE Develops
    BY <2>2, DevPreserved DEF Develops, DevCommand
  <2>3. CASE UNCHANGED commandVars
    <3>1. command = "dev" /\ UNCHANGED Dev!vars
      BY <2>3 DEF commandVars, vars, appVars, loop, Dev!vars, Dev!appVars, Dev!loop
    <3> QED
      BY <3>1, DevPreserved DEF DevCommand
  <2> QED
    BY <2>1, <2>2, <2>3
<1> QED
  BY <1>1, <1>2, PTL DEF CommandSpec

\* However many cycles overlap, one server is up at most, and it is appCmd.
THEOREM OneServerHolds == CommandSpec => []OneServer
<1>1. DevCommand => OneServer
  BY DEF DevCommand, DevIInv, DevServerInv, OneServer, Dev!OneServer
<1> QED
  BY CommandInductive, <1>1, PTL

\* Whatever the cycles are doing when Run returns, and whether or not it ever
\* watched, no server outlives gastro dev.
THEOREM NothingLeftBehindHolds == CommandSpec => []NothingLeftBehind
<1>1. DevCommand => NothingLeftBehind
  BY DEF DevCommand, DevIInv, DevServerInv, NothingLeftBehind, Dev!NothingLeftBehind, Dev!Exited
<1> QED
  BY CommandInductive, <1>1, PTL

-----------------------------------------------------------------------------
(* The reloads.  ReloadIInv says what watchSignal may have in its hand,    *)
(* and what may lie in the failure file, at each of its places.            *)

Ordered(q) ==
  \A i, j \in 1 .. Len(q) :
    i < j /\ q[i].kind = "reload" /\ q[j].kind = "build-error" => q[j].at > q[i].at

\* The reloads in a channel were written before x.
Below(q, x) == \A i \in 1 .. Len(q) : q[i].kind = "reload" => q[i].at < x

Known(q, now) == \A i \in 1 .. Len(q) : q[i].at <= now

\* A failure that is still to be told is newer than any reload that was.
QueueInv(q) ==
  /\ Ordered(q) /\ Known(q, clock)
  /\ watch \in {"tick", "readFailure", "tellFailure"} => failure = 0 \/ Below(q, failure)
  /\ watch \in {"removeFailure", "tellFailure"} => Below(q, hand.at)

SignalInv ==
  /\ reload <= clock /\ failure <= clock /\ hand.at <= clock
  /\ watch = "tellReload" => hand.kind = "reload"
  /\ watch \in {"removeFailure", "tellFailure"} => hand.kind = "build-error"

ReloadIInv == ReloadTypeOK /\ SignalInv /\ \A b \in Browsers : QueueInv(queue[b])

-----------------------------------------------------------------------------
(* Channels.                                                               *)

LEMMA ReloadBounds ==
  /\ Cap \in Nat \ {0} /\ MaxWrites \in Nat /\ 0 \in Writes
  /\ \A w \in Writes : w \in Nat
  /\ \A e \in Event : e.at \in Writes /\ e.kind \in {"reload", "build-error"}
BY DevReloadAssumption DEF DevReloadAssumption, Writes, Event

LEMMA Emptied == <<>> \in Seq(Event) /\ QueueInv(<<>>)
BY DEF QueueInv, Ordered, Below, Known

\* Taking the first event from a channel keeps what was true of it.
LEMMA Taken ==
  ASSUME NEW q \in Seq(Event), q # <<>>
  PROVE  /\ Tail(q) \in Seq(Event)
         /\ Ordered(q) => Ordered(Tail(q))
         /\ \A x : Below(q, x) => Below(Tail(q), x)
         /\ \A x : Known(q, x) => Known(Tail(q), x)
<1>1. /\ Tail(q) \in Seq(Event) /\ Len(q) \in Nat /\ Len(Tail(q)) = Len(q) - 1
      /\ \A i \in 1 .. Len(Tail(q)) : i + 1 \in 1 .. Len(q) /\ Tail(q)[i] = q[i + 1]
  OBVIOUS
<1> QED
  BY <1>1 DEF Ordered, Below, Known

\* So does sending one, if it is not a failure older than a reload in there.
LEMMA Sent ==
  ASSUME NEW q \in Seq(Event), NEW e \in Event,
         e.kind = "build-error" => Below(q, e.at)
  PROVE  /\ Append(q, e) \in Seq(Event)
         /\ Ordered(q) => Ordered(Append(q, e))
         /\ \A x \in Nat : Below(q, x) /\ (e.kind = "reload" => e.at < x) => Below(Append(q, e), x)
         /\ \A x \in Nat : Known(q, x) /\ e.at <= x => Known(Append(q, e), x)
<1> DEFINE r == Append(q, e)
<1>1. /\ r \in Seq(Event) /\ Len(q) \in Nat /\ Len(r) = Len(q) + 1
      /\ \A i \in 1 .. Len(q) : r[i] = q[i]
      /\ r[Len(q) + 1] = e
      /\ \A i \in 1 .. Len(r) : i \in 1 .. Len(q) \/ i = Len(q) + 1
  OBVIOUS
<1> HIDE DEF r
<1>2. Ordered(q) => Ordered(r)
  <2> SUFFICES ASSUME Ordered(q), NEW i \in 1 .. Len(r), NEW j \in 1 .. Len(r), i < j,
                      r[i].kind = "reload", r[j].kind = "build-error"
               PROVE  r[j].at > r[i].at
    BY DEF Ordered
  <2>1. i \in 1 .. Len(q) /\ r[i] = q[i]
    BY <1>1
  <2>2. CASE j \in 1 .. Len(q)
    BY <2>1, <2>2, <1>1 DEF Ordered
  <2>3. CASE j = Len(q) + 1
    BY <2>1, <2>3, <1>1, ReloadBounds DEF Below
  <2> QED
    BY <1>1, <2>2, <2>3
<1>3. \A x \in Nat : Below(q, x) /\ (e.kind = "reload" => e.at < x) => Below(r, x)
  BY <1>1 DEF Below
<1>4. \A x \in Nat : Known(q, x) /\ e.at <= x => Known(r, x)
  BY <1>1 DEF Known
<1> QED
  BY <1>1, <1>2, <1>3, <1>4 DEF r

\* What a broadcast does to each channel.
LEMMA Told ==
  ASSUME NEW e \in Event, queue \in [Browsers -> Seq(Event)], dropped \in [Browsers -> BOOLEAN],
         Broadcast(e)
  PROVE  /\ \A b \in Browsers : queue'[b] = queue[b] \/ queue'[b] = Append(queue[b], e)
         /\ queue' \in [Browsers -> Seq(Event)]
         /\ dropped' \in [Browsers -> BOOLEAN]
<1>1. \A b \in Browsers : queue'[b] = queue[b] \/ queue'[b] = Append(queue[b], e)
  BY DEF Broadcast, Send
<1>2. queue' \in [Browsers -> Seq(Event)]
  <2>1. \A b \in Browsers : Append(queue[b], e) \in Seq(Event)
    OBVIOUS
  <2>2. \A b \in Browsers : queue'[b] \in Seq(Event)
    BY <1>1, <2>1
  <2>3. queue' = [b \in Browsers |-> IF conn[b] = "open" THEN Send(queue[b], e) ELSE queue[b]]
    BY DEF Broadcast
  <2> QED
    BY <2>2, <2>3
<1>3. dropped' \in [Browsers -> BOOLEAN]
  BY Zenon DEF Broadcast
<1> QED
  BY <1>1, <1>2, <1>3

-----------------------------------------------------------------------------
(* A step preserves the invariant.                                         *)

LEMMA Files ==
  ASSUME ReloadIInv, WriteReloadSignal \/ WriteBuildErrorSignal
  PROVE  ReloadIInv'
<1>1. clients' = clients /\ watcher' = watcher /\ clock' = clock + 1 /\ clock' \in Writes
  BY ReloadBounds DEF ReloadIInv, ReloadTypeOK, WriteReloadSignal, WriteBuildErrorSignal, Writes
<1>2. failure' \in {failure, clock + 1} /\ reload' \in {reload, clock + 1}
  BY DEF WriteReloadSignal, WriteBuildErrorSignal
<1>3. ReloadTypeOK'
  BY <1>1 DEF ReloadIInv, ReloadTypeOK, WriteReloadSignal, WriteBuildErrorSignal, watcher, clients
<1>4. SignalInv'
  BY <1>1, <1>2, ReloadBounds DEF ReloadIInv, ReloadTypeOK, SignalInv, watcher
<1>5. ASSUME NEW b \in Browsers PROVE QueueInv(queue[b])'
  <2> DEFINE q == queue[b]
  <2>1. q \in Seq(Event) /\ QueueInv(q) /\ queue' = queue
    BY <1>1 DEF ReloadIInv, ReloadTypeOK, clients
  <2>2. \A i \in 1 .. Len(q) : q[i] \in Event
    BY <2>1
  <2>3. Known(q, clock + 1) /\ Below(q, clock + 1)
    BY <2>1, <2>2, ReloadBounds, SMTT(30) DEF QueueInv, Known, Below, ReloadIInv, ReloadTypeOK
  <2> HIDE DEF q
  <2>4. QueueInv(q)'
    BY <2>1, <2>3, <1>1, <1>2 DEF QueueInv, watcher, q
  <2> QED
    BY <2>4 DEF q
<1> QED
  BY <1>3, <1>4, <1>5 DEF ReloadIInv

\* watchSignal looks for a file, or removes one.
LEMMA Looks ==
  ASSUME ReloadIInv, RemoveReload \/ DropFailure \/ ReadFailure \/ RemoveFailure
  PROVE  ReloadIInv'
<1>1. clients' = clients /\ clock' = clock /\ lastReload' = lastReload /\ spared' = spared
      /\ overtook' \in {overtook, reload}
  BY DEF RemoveReload, DropFailure, ReadFailure, RemoveFailure, files, clients
<1>2. reload' \in {reload, 0} /\ failure' \in {failure, 0} /\ hand' \in Event
  BY ReloadBounds DEF ReloadIInv, ReloadTypeOK, RemoveReload, DropFailure, ReadFailure, RemoveFailure, files, Event
<1>3. ReloadTypeOK'
  BY <1>1, <1>2, ReloadBounds
     DEF ReloadIInv, ReloadTypeOK, Go, RemoveReload, DropFailure, ReadFailure, RemoveFailure, clients
<1>4. SignalInv'
  <2>1. clock \in Nat /\ failure <= clock
    BY ReloadBounds DEF ReloadIInv, ReloadTypeOK, SignalInv
  <2>2. clock' = clock /\ reload' \in {reload, 0} /\ failure' \in {failure, 0}
    BY <1>1, <1>2
  <2>3. hand' = hand \/ hand'.at \in {reload, failure}
    BY DEF RemoveReload, DropFailure, ReadFailure, RemoveFailure, files
  <2>4. reload' <= clock' /\ failure' <= clock' /\ hand'.at <= clock'
    BY <2>1, <2>2, <2>3 DEF ReloadIInv, SignalInv
  <2> QED
    BY <2>4 DEF ReloadIInv, SignalInv, Go, RemoveReload, DropFailure, ReadFailure, RemoveFailure
<1>5. ASSUME NEW b \in Browsers PROVE QueueInv(queue[b])'
  <2>1. queue' = queue /\ QueueInv(queue[b])
    BY <1>1 DEF ReloadIInv, clients
  <2> QED
    BY <2>1, <1>1 DEF QueueInv, Go, RemoveReload, DropFailure, ReadFailure, RemoveFailure, files
<1> QED
  BY <1>3, <1>4, <1>5 DEF ReloadIInv

LEMMA Tells ==
  ASSUME ReloadIInv, TellReload \/ TellFailure
  PROVE  ReloadIInv'
<1>1. /\ files' = files /\ hand' = hand /\ hand \in Event /\ Broadcast(hand)
      /\ UNCHANGED <<conn, page, since, saw>>
  BY DEF ReloadIInv, ReloadTypeOK, TellReload, TellFailure, Broadcast
<1>2. \/ watch = "tellReload" /\ watch' = "dropFailure" /\ hand.kind = "reload"
      \/ watch = "tellFailure" /\ watch' = "tick" /\ hand.kind = "build-error"
  BY DEF ReloadIInv, SignalInv, Go, TellReload, TellFailure
<1>3. /\ \A b \in Browsers : queue'[b] = queue[b] \/ queue'[b] = Append(queue[b], hand)
      /\ queue' \in [Browsers -> Seq(Event)]
      /\ dropped' \in [Browsers -> BOOLEAN]
  BY <1>1, Told DEF ReloadIInv, ReloadTypeOK
<1>4. ReloadTypeOK'
  <2>1. overtook' = overtook /\ spared' = spared
    BY DEF TellReload, TellFailure
  <2> QED
    BY <1>1, <1>2, <1>3, <2>1 DEF ReloadIInv, ReloadTypeOK, files
<1>5. SignalInv'
  BY <1>1, <1>2 DEF ReloadIInv, SignalInv, files
<1>6. ASSUME NEW b \in Browsers PROVE QueueInv(queue[b])'
  <2> DEFINE q == queue[b]
             r == Append(q, hand)
  <2>1. q \in Seq(Event) /\ QueueInv(q)
    BY DEF ReloadIInv, ReloadTypeOK
  <2>2. hand.kind = "build-error" => Below(q, hand.at)
    BY <1>2, <2>1 DEF QueueInv
  <2>3. clock \in Nat /\ failure \in Nat /\ hand.at <= clock
    BY ReloadBounds DEF ReloadIInv, ReloadTypeOK, SignalInv
  <2> HIDE DEF q
  <2>4. /\ Ordered(q) => Ordered(r)
        /\ \A x \in Nat : Below(q, x) /\ (hand.kind = "reload" => hand.at < x) => Below(r, x)
        /\ \A x \in Nat : Known(q, x) /\ hand.at <= x => Known(r, x)
    BY <1>1, <2>1, <2>2, Sent
  <2> HIDE DEF r
  <2>5. queue'[b] = q \/ queue'[b] = r
    BY <1>3 DEF q, r
  <2>6. /\ Ordered(queue'[b]) /\ Known(queue'[b], clock)
        /\ watch = "tellFailure" => failure = 0 \/ Below(queue'[b], failure)
    BY <1>2, <2>1, <2>3, <2>4, <2>5 DEF QueueInv
  <2> QED
    BY <1>1, <1>2, <2>6 DEF QueueInv, files
<1> QED
  BY <1>4, <1>5, <1>6 DEF ReloadIInv

LEMMA ReloadRestarted ==
  ASSUME ReloadIInv, Restart
  PROVE  ReloadIInv'
<1>1. files' = files /\ hand' = hand /\ watch' = "tick" /\ queue' = [b \in Browsers |-> <<>>]
  BY DEF Restart
<1>2. ReloadTypeOK'
  <2>1. conn' \in [Browsers -> {"closed", "loaded", "open", "lost"}]
    BY DEF ReloadIInv, ReloadTypeOK, Restart
  <2>2. queue' \in [Browsers -> Seq(Event)]
    BY <1>1, Emptied
  <2>3. spared' \subseteq Writes
    BY DEF ReloadIInv, ReloadTypeOK, Restart
  <2> QED
    BY <1>1, <2>1, <2>2, <2>3 DEF ReloadIInv, ReloadTypeOK, Restart, files
<1>3. SignalInv'
  BY <1>1 DEF ReloadIInv, SignalInv, files
<1>4. ASSUME NEW b \in Browsers PROVE QueueInv(queue[b])'
  BY <1>1 DEF QueueInv, Ordered, Known, Below
<1> QED
  BY <1>2, <1>3, <1>4 DEF ReloadIInv

\* A browser only ever takes from its channel.
LEMMA Browses ==
  ASSUME ReloadIInv, NEW b \in Browsers, Browser(b) \/ Visit(b) \/ Lose(b) \/ Close(b)
  PROVE  ReloadIInv'
<1>1. files' = files /\ watcher' = watcher
  BY DEF Browser, Subscribe, Receive, Reconnect, Visit, Lose, Close
<1>2. /\ queue \in [Browsers -> Seq(Event)] /\ clock \in Writes
      /\ conn \in [Browsers -> {"closed", "loaded", "open", "lost"}]
      /\ page \in [Browsers -> Writes] /\ since \in [Browsers -> Writes]
      /\ dropped \in [Browsers -> BOOLEAN]
      /\ saw \in [Browsers -> Writes] /\ overtook \in Writes
  BY DEF ReloadIInv, ReloadTypeOK
<1>3. \/ queue' = queue
      \/ queue' = [queue EXCEPT ![b] = <<>>]
      \/ queue[b] # <<>> /\ queue' = [queue EXCEPT ![b] = Tail(queue[b])]
  BY DEF Browser, Subscribe, Receive, Reconnect, Visit, Lose, Close, Load
<1>4. /\ conn' \in [Browsers -> {"closed", "loaded", "open", "lost"}]
      /\ page' \in [Browsers -> Writes] /\ since' \in [Browsers -> Writes]
      /\ saw' \in [Browsers -> Writes]
  BY <1>2, ZenonT(90) DEF Browser, Subscribe, Receive, Reconnect, Visit, Lose, Close, Load
<1>5. dropped' \in [Browsers -> BOOLEAN]
  BY <1>2, Zenon DEF Browser, Subscribe, Receive, Reconnect, Visit, Lose, Close, Load
<1>6. queue[b] # <<>> => Tail(queue[b]) \in Seq(Event)
  BY <1>2, Taken
<1>7. queue' \in [Browsers -> Seq(Event)]
  BY <1>2, <1>3, <1>6, Emptied
<1>8. ReloadTypeOK'
  BY <1>1, <1>4, <1>5, <1>7 DEF ReloadIInv, ReloadTypeOK, files, watcher
<1>9. SignalInv'
  BY <1>1 DEF ReloadIInv, SignalInv, files, watcher
<1>10. ASSUME NEW a \in Browsers PROVE QueueInv(queue[a])'
  <2>1. QueueInv(queue[a]) /\ queue[a] \in Seq(Event)
    BY <1>2 DEF ReloadIInv
  <2>2. \/ queue'[a] = queue[a]
        \/ queue'[a] = <<>>
        \/ queue[a] # <<>> /\ queue'[a] = Tail(queue[a])
    BY <1>2, <1>3
  <2>3. QueueInv(queue'[a])
    BY <2>1, <2>2, Emptied, Taken DEF QueueInv
  <2> QED
    BY <1>1, <2>3 DEF QueueInv, files, watcher
<1> QED
  BY <1>8, <1>9, <1>10 DEF ReloadIInv

-----------------------------------------------------------------------------
(* The theorems.                                                           *)

LEMMA ReloadStart == ReloadInit => ReloadIInv
<1> SUFFICES ASSUME ReloadInit PROVE ReloadIInv
  OBVIOUS
<1>1. ReloadTypeOK
  BY ReloadBounds, Emptied DEF ReloadInit, ReloadTypeOK, Event
<1>2. SignalInv
  BY DEF ReloadInit, SignalInv
<1>3. ASSUME NEW b \in Browsers PROVE QueueInv(queue[b])
  BY Emptied DEF ReloadInit
<1> QED
  BY <1>1, <1>2, <1>3 DEF ReloadIInv

LEMMA ReloadPreserved == ReloadIInv /\ [ReloadNext]_reloadVars => ReloadIInv'
<1> SUFFICES ASSUME ReloadIInv, [ReloadNext]_reloadVars PROVE ReloadIInv'
  OBVIOUS
<1>1. CASE WriteReloadSignal \/ WriteBuildErrorSignal
  BY <1>1, Files
<1>2. CASE WatchSignal
  BY <1>2, Looks, Tells DEF WatchSignal
<1>3. CASE Restart
  BY <1>3, ReloadRestarted
<1>4. ASSUME NEW b \in Browsers, Browser(b) \/ Visit(b) \/ Lose(b) \/ Close(b) PROVE ReloadIInv'
  BY <1>4, Browses
<1>5. CASE UNCHANGED reloadVars
  <2>1. UNCHANGED <<files, watcher, clients>>
    BY <1>5 DEF reloadVars
  <2> QED
    BY <2>1 DEF ReloadIInv, ReloadTypeOK, SignalInv, QueueInv, files, watcher, clients
<1> QED
  BY <1>1, <1>2, <1>3, <1>4, <1>5 DEF ReloadNext

LEMMA ReloadInductive == ReloadSpec => []ReloadIInv
BY ReloadStart, ReloadPreserved, PTL DEF ReloadSpec

-----------------------------------------------------------------------------
(* What a page is told after it was loaded.                                *)

\* No reload has overtaken failure f, or a restart has spared it.
Standing(f) == f > overtook \/ f \in spared

\* What lies in the failure file while watchSignal may read it, and what it
\* has read, still stands.
StandInv ==
  /\ overtook <= clock /\ (reload = 0 \/ reload > overtook)
  /\ watch \notin {"tellReload", "dropFailure"} => failure = 0 \/ Standing(failure)
  /\ watch \in {"removeFailure", "tellFailure"} => Standing(hand.at)

\* The failures in a channel are newer than x, or were spared.
Newer(q, x) ==
  \A i \in 1 .. Len(q) : q[i].kind = "build-error" => q[i].at > x \/ q[i].at \in spared

PageInv(b) == saw[b] <= overtook /\ Newer(queue[b], saw[b])

StaleInv == StandInv /\ \A b \in Browsers : PageInv(b)

LEMMA StaleWritten ==
  ASSUME ReloadIInv, StaleInv, WriteReloadSignal \/ WriteBuildErrorSignal
  PROVE  StaleInv'
<1>1. clients' = clients /\ watcher' = watcher /\ clock' = clock + 1
  BY DEF WriteReloadSignal, WriteBuildErrorSignal
<1>2. \/ failure' = failure /\ reload' = clock + 1
      \/ failure' = clock + 1 /\ reload' = reload
  BY DEF WriteReloadSignal, WriteBuildErrorSignal
<1>3. clock \in Nat /\ overtook \in Nat
  BY ReloadBounds DEF ReloadIInv, ReloadTypeOK
<1>4. StandInv'
  BY <1>1, <1>2, <1>3 DEF StaleInv, StandInv, Standing, watcher
<1>5. \A b \in Browsers : PageInv(b)'
  BY <1>1 DEF StaleInv, PageInv, Newer, watcher, clients
<1> QED
  BY <1>4, <1>5 DEF StaleInv

LEMMA StaleLooked ==
  ASSUME ReloadIInv, StaleInv, RemoveReload \/ DropFailure \/ ReadFailure \/ RemoveFailure
  PROVE  StaleInv'
<1>1. clients' = clients /\ clock' = clock /\ spared' = spared
  BY DEF RemoveReload, DropFailure, ReadFailure, RemoveFailure, files
<1>2. \/ overtook' = overtook
      \/ reload # 0 /\ overtook' = reload
  BY DEF RemoveReload, DropFailure, ReadFailure, RemoveFailure
<1>3. /\ {clock, overtook, reload} \subseteq Nat /\ reload <= clock
      /\ saw \in [Browsers -> Writes]
  BY ReloadBounds DEF ReloadIInv, ReloadTypeOK, SignalInv
<1>4. StandInv'
  <2>1. CASE RemoveReload
    BY <2>1, <1>1, <1>3 DEF RemoveReload, Go, StaleInv, StandInv, Standing
  <2>2. CASE DropFailure
    BY <2>2, <1>1, <1>3 DEF DropFailure, Go, StaleInv, StandInv, Standing
  <2>3. CASE ReadFailure
    BY <2>3, <1>1, <1>3 DEF ReadFailure, Go, StaleInv, StandInv, Standing, files
  <2>4. CASE RemoveFailure
    BY <2>4, <1>1, <1>3 DEF RemoveFailure, Go, StaleInv, StandInv, Standing
  <2> QED
    BY <2>1, <2>2, <2>3, <2>4
<1>5. ASSUME NEW b \in Browsers PROVE PageInv(b)'
  <2>1. saw[b] \in Nat /\ PageInv(b) /\ saw' = saw /\ queue' = queue
    BY <1>1, <1>3, ReloadBounds DEF StaleInv, clients
  <2> QED
    BY <2>1, <1>1, <1>2, <1>3 DEF StaleInv, StandInv, PageInv, Newer
<1> QED
  BY <1>4, <1>5 DEF StaleInv

LEMMA StaleTold ==
  ASSUME ReloadIInv, StaleInv, TellReload \/ TellFailure
  PROVE  StaleInv'
<1>1. /\ files' = files /\ hand' = hand /\ hand \in Event /\ Broadcast(hand)
      /\ overtook' = overtook /\ spared' = spared /\ saw' = saw
  BY DEF ReloadIInv, ReloadTypeOK, TellReload, TellFailure, Broadcast
<1>2. \/ watch = "tellReload" /\ watch' = "dropFailure" /\ hand.kind = "reload"
      \/ watch = "tellFailure" /\ watch' = "tick"
  BY DEF ReloadIInv, SignalInv, Go, TellReload, TellFailure
<1>3. StandInv'
  BY <1>1, <1>2 DEF StaleInv, StandInv, Standing, files
<1>4. ASSUME NEW b \in Browsers PROVE PageInv(b)'
  <2> DEFINE q == queue[b]
             r == Append(q, hand)
  <2>1. /\ q \in Seq(Event) /\ Newer(q, saw[b]) /\ saw[b] <= overtook
        /\ saw[b] \in Nat /\ overtook \in Nat /\ hand.at \in Nat
    BY ReloadBounds DEF ReloadIInv, ReloadTypeOK, StaleInv, PageInv
  <2>2. hand.kind = "build-error" => hand.at > saw[b] \/ hand.at \in spared
    BY <1>2, <2>1 DEF StaleInv, StandInv, Standing
  <2> HIDE DEF q
  <2>3. /\ Len(q) \in Nat /\ Len(r) = Len(q) + 1 /\ r[Len(q) + 1] = hand
        /\ \A i \in 1 .. Len(q) : r[i] = q[i]
    BY <1>1, <2>1
  <2> HIDE DEF r
  <2>4. \A i \in 1 .. Len(r) : i \in 1 .. Len(q) \/ i = Len(q) + 1
    BY <2>3
  <2>5. Newer(r, saw[b])
    BY <2>1, <2>2, <2>3, <2>4 DEF Newer
  <2>6. queue'[b] = q \/ queue'[b] = r
    BY <1>1, Told DEF ReloadIInv, ReloadTypeOK, q, r
  <2> QED
    BY <1>1, <2>1, <2>5, <2>6 DEF PageInv, Newer
<1> QED
  BY <1>3, <1>4 DEF StaleInv

\* The new process starts to poll: the failure file it may find holds a failure
\* that still stands, or one the old process had yet to drop.
LEMMA StaleRestarted ==
  ASSUME ReloadIInv, StaleInv, Restart
  PROVE  StaleInv'
<1>1. /\ files' = files /\ hand' = hand /\ overtook' = overtook /\ saw' = saw
      /\ watch' = "tick" /\ queue' = [b \in Browsers |-> <<>>]
  BY DEF Restart
<1>2. spared \subseteq spared'
  BY DEF Restart
<1>3. failure = 0 \/ failure > overtook \/ failure \in spared'
  BY DEF StaleInv, StandInv, Standing, Restart
<1>4. StandInv'
  BY <1>1, <1>2, <1>3 DEF StaleInv, StandInv, Standing, files
<1>5. ASSUME NEW b \in Browsers PROVE PageInv(b)'
  BY <1>1 DEF StaleInv, PageInv, Newer
<1> QED
  BY <1>4, <1>5 DEF StaleInv

LEMMA StaleBrowsed ==
  ASSUME ReloadIInv, StaleInv, NEW b \in Browsers, Browser(b) \/ Visit(b) \/ Lose(b) \/ Close(b)
  PROVE  StaleInv'
<1>1. files' = files /\ watcher' = watcher
  BY DEF Browser, Subscribe, Receive, Reconnect, Visit, Lose, Close
<1>2. /\ queue \in [Browsers -> Seq(Event)] /\ saw \in [Browsers -> Writes] /\ overtook \in Nat
  BY ReloadBounds DEF ReloadIInv, ReloadTypeOK
<1>3. \/ saw' = saw /\ queue' = queue
      \/ saw' = saw /\ queue' = [queue EXCEPT ![b] = <<>>]
      \/ saw' = [saw EXCEPT ![b] = overtook] /\ queue' = [queue EXCEPT ![b] = <<>>]
      \/ /\ queue[b] # <<>> /\ saw' = saw
         /\ queue' = [queue EXCEPT ![b] = Tail(queue[b])]
  BY DEF Browser, Subscribe, Receive, Reconnect, Visit, Lose, Close, Load
<1>4. StandInv'
  BY <1>1 DEF StaleInv, StandInv, Standing, files, watcher
<1>5. ASSUME NEW a \in Browsers PROVE PageInv(a)'
  <2>1. PageInv(a) /\ queue[a] \in Seq(Event)
    BY <1>2 DEF StaleInv
  <2>2. \/ saw'[a] = saw[a] /\ queue'[a] = queue[a]
        \/ saw'[a] = saw[a] /\ queue'[a] = <<>>
        \/ saw'[a] = overtook /\ queue'[a] = <<>>
        \/ queue[a] # <<>> /\ saw'[a] = saw[a] /\ queue'[a] = Tail(queue[a])
    BY <1>2, <1>3
  <2>3. overtook' = overtook /\ spared' = spared
    BY <1>1 DEF watcher
  <2>4. CASE saw'[a] = saw[a] /\ queue'[a] = queue[a]
    BY <2>1, <2>3, <2>4 DEF PageInv, Newer
  <2>5. CASE saw'[a] \in {saw[a], overtook} /\ queue'[a] = <<>>
    BY <2>1, <2>3, <2>5, <1>2 DEF PageInv, Newer
  <2>6. CASE queue[a] # <<>> /\ saw'[a] = saw[a] /\ queue'[a] = Tail(queue[a])
    <3> DEFINE q == queue[a]
               t == Tail(q)
    <3>1. /\ q \in Seq(Event) /\ q # <<>> /\ Newer(q, saw[a])
      BY <2>1, <2>6 DEF PageInv
    <3> HIDE DEF q
    <3>2. /\ Len(q) \in Nat /\ Len(t) = Len(q) - 1
          /\ \A i \in 1 .. Len(t) : i + 1 \in 1 .. Len(q) /\ t[i] = q[i + 1]
      BY <3>1
    <3> HIDE DEF t
    <3>3. Newer(t, saw[a])
      BY <3>1, <3>2 DEF Newer
    <3> QED
      BY <2>1, <2>3, <2>6, <3>3 DEF PageInv, Newer, t, q
  <2> QED
    BY <2>2, <2>4, <2>5, <2>6
<1> QED
  BY <1>4, <1>5 DEF StaleInv

LEMMA StalePreserved == ReloadIInv /\ StaleInv /\ [ReloadNext]_reloadVars => StaleInv'
<1> SUFFICES ASSUME ReloadIInv, StaleInv, [ReloadNext]_reloadVars PROVE StaleInv'
  OBVIOUS
<1>1. CASE WriteReloadSignal \/ WriteBuildErrorSignal
  BY <1>1, StaleWritten
<1>2. CASE WatchSignal
  BY <1>2, StaleLooked, StaleTold DEF WatchSignal
<1>3. CASE Restart
  BY <1>3, StaleRestarted
<1>4. ASSUME NEW b \in Browsers, Browser(b) \/ Visit(b) \/ Lose(b) \/ Close(b) PROVE StaleInv'
  BY <1>4, StaleBrowsed
<1>5. CASE UNCHANGED reloadVars
  <2>1. UNCHANGED <<files, watcher, clients>>
    BY <1>5 DEF reloadVars
  <2> QED
    BY <2>1 DEF StaleInv, StandInv, Standing, PageInv, Newer, files, watcher, clients
<1> QED
  BY <1>1, <1>2, <1>3, <1>4, <1>5 DEF ReloadNext

LEMMA StaleStart == ReloadInit => StaleInv
BY DEF ReloadInit, StaleInv, StandInv, PageInv, Newer

\* Every event in a channel is one the CLI has written, and watchSignal is in
\* one of its places (devreload.go, watchSignal and broadcastEvent).
THEOREM ReloadTypeCorrect == ReloadSpec => []ReloadTypeOK
<1>1. ReloadIInv => ReloadTypeOK
  BY DEF ReloadIInv
<1> QED
  BY <1>1, ReloadInductive, PTL

\* A failure that a reload has overtaken is never shown after that reload, not
\* behind it in a channel and not to a page loaded since, for any number of
\* browsers, signals and restarts (devreload.go, watchSignal); a failure whose
\* file outlived the process that had yet to remove it is the exception.
THEOREM NoStaleFailureHolds == ReloadSpec => []NoStaleFailure
<1>1. ReloadIInv /\ StaleInv => NoStaleFailure
  <2> SUFFICES ASSUME ReloadIInv, StaleInv, NEW b \in Browsers, NEW j \in 1 .. Len(queue[b]),
                      queue[b][j].kind = "build-error"
               PROVE  /\ queue[b][j].at > saw[b] \/ queue[b][j].at \in spared
                      /\ \A i \in 1 .. j - 1 :
                           queue[b][i].kind = "reload" => queue[b][j].at > queue[b][i].at
    BY DEF NoStaleFailure
  <2>1. Len(queue[b]) \in Nat
    BY DEF ReloadIInv, ReloadTypeOK
  <2>2. \A i \in 1 .. j - 1 : i \in 1 .. Len(queue[b]) /\ i < j
    BY <2>1
  <2> QED
    BY <2>2 DEF ReloadIInv, QueueInv, Ordered, StaleInv, PageInv, Newer
<1> QED
  BY <1>1, ReloadInductive, StaleStart, StalePreserved, PTL DEF ReloadSpec
=============================================================================
