------------------------------ MODULE DevLoop -------------------------------
(***************************************************************************)
(* devloop.Run: the loop of `gastro dev' and `gastro watch'.  A poller     *)
(* notices edits, remembers the strongest class of change and arms the     *)
(* debounce timer; the timer's function regenerates .gastro/ and then      *)
(* restarts the application or reloads the browsers.                       *)
(*                                                                         *)
(* The timer is a time.AfterFunc, which runs its function on a goroutine   *)
(* of its own: nothing waits for an earlier cycle to end.  What OnRestart  *)
(* does is the business of the modules that extend this one: WatchApp for  *)
(* `gastro watch', DevApp for `gastro dev'.                                *)
(***************************************************************************)
EXTENDS Naturals

CONSTANTS Main,      \* the goroutine that called Run
          Cycles,    \* goroutines of the debounce timer alive at one time
          Apps,      \* processes of the application alive at one time
          MaxEdits,  \* bound on the edits of one class of files
          Faults,    \* what may be wrong with the sources: see Breaks;
                     \* without "asset" there is no asset chain
          Early,     \* the developer may edit before the loop watches
          Overlap,   \* a cycle may outlast the next debounce window
          None

Classes == {"go", "page", "template"}    \* *.go, frontmatter, template body
Version == [Classes -> 0 .. MaxEdits]
Source  == [ver : Version, bad : Faults]
Procs   == Cycles \cup {Main}

ASSUME DevLoopAssumption ==
  /\ MaxEdits \in Nat
  /\ "none" \in Faults /\ Faults \subseteq {"none", "generate", "asset", "build", "run"}
  /\ Early \in BOOLEAN /\ Overlap \in BOOLEAN
  /\ Main \notin Cycles /\ None \notin Procs \cup Apps

VARIABLES src,      \* the project on disk
          seen,     \* watcherState: the files as the last poll saw them
          poll,     \* runLoop between escalate and debounced()
          pending,  \* pendingChange
          armed,    \* the debounce timer runs
          job,      \* each goroutine: its place, what it read, its processes
          tree,     \* the version of the sources .gastro/ was made from
          shown,    \* the version the browsers were last told to load
          done,     \* ctx is cancelled
          risky     \* history: an edit was made while a cycle was under way,
                    \* or one broke the asset chain or --run

loop == <<src, seen, poll, pending, armed, job, tree, shown, done, risky>>

LoopPlaces ==
  {"idle", "generate", "compile", "consume", "assets", "reload",
   "seed", "restart", "watch", "cleanup", "exiting", "exited"}
AppPlaces ==
  {"startAssets", "build", "building", "swap", "stopOld", "start", "publish"}

Job == [pc : LoopPlaces \cup AppPlaces, snap : Source,
        old : Apps \cup {None}, new : Apps \cup {None}]

LoopTypeOK ==
  /\ src \in Source /\ seen \in Version
  /\ poll \in {"waiting", "changed"}
  /\ pending \in {"reload", "restart"}
  /\ job \in [Procs -> Job]
  /\ tree \in Version /\ shown \in Version
  /\ armed \in BOOLEAN /\ done \in BOOLEAN /\ risky \in BOOLEAN

Unedited == [c \in Classes |-> 0]

NoSource == [ver |-> Unedited, bad |-> "none"]

LoopInit ==
  /\ src \in [ver : {Unedited}, bad : Faults]
  /\ seen = Unedited /\ tree = Unedited /\ shown = Unedited
  /\ poll = "waiting" /\ pending = "reload"
  /\ armed = FALSE /\ done = FALSE
  /\ risky = (src.bad \in {"asset", "run"})
  /\ job = [p \in Procs |-> [pc |-> IF p = Main THEN "generate" ELSE "idle",
                             snap |-> NoSource, old |-> None, new |-> None]]

Goto(p, place) == job' = [job EXCEPT ![p].pc = place]

\* Done with what it read.
Forget(p, place) == job' = [job EXCEPT ![p] = [@ EXCEPT !.pc = place, !.snap = NoSource]]

\* What returns from OnRestart returns to Run or ends its cycle.
Restarted(p) == IF p = Main THEN "watch" ELSE "idle"

Exited == job[Main].pc = "exited"

-----------------------------------------------------------------------------
(* The developer.                                                          *)

\* The classes of files in which a fault can be made and mended.
Breaks(fault) ==
  CASE fault = "generate" -> {"page", "template"}
    [] fault = "asset"    -> {"template"}
    [] fault = "build"    -> {"go", "page"}
    [] OTHER              -> Classes

Quiet ==
  /\ job[Main].pc = "watch" /\ poll = "waiting" /\ ~armed
  /\ \A c \in Cycles : job[c].pc = "idle"

Edit(c) ==
  /\ ~done /\ src.ver[c] < MaxEdits
  /\ Early \/ job[Main].pc = "watch"
  /\ \E f \in Faults :
       /\ f = src.bad \/ c \in Breaks(f) \cap Breaks(src.bad)
       /\ src' = [ver |-> [src.ver EXCEPT ![c] = @ + 1], bad |-> f]
       /\ risky' = (risky \/ ~Quiet \/ f \in {"asset", "run"})
  /\ UNCHANGED <<seen, poll, pending, armed, job, tree, shown, done>>

Interrupt ==
  /\ ~done /\ done' = TRUE
  /\ UNCHANGED <<src, seen, poll, pending, armed, job, tree, shown, risky>>

-----------------------------------------------------------------------------
(* The poller.                                                             *)

ClassifyChange(c) == IF c = "template" THEN "reload" ELSE "restart"

Escalate(pend, changes) ==
  IF \E c \in changes : ClassifyChange(c) = "restart" THEN "restart" ELSE pend

\* One round over the files: the changes found are escalated and remembered.
PollFiles ==
  /\ poll = "waiting" /\ job[Main].pc = "watch" /\ ~done
  /\ seen # src.ver
  /\ pending' = Escalate(pending, {c \in Classes : seen[c] # src.ver[c]})
  /\ seen' = src.ver
  /\ poll' = "changed"
  /\ UNCHANGED <<src, armed, job, tree, shown, done, risky>>

\* Mutant: a call made while a cycle is under way is taken for part of it.
DebouncedIgnored ==
  /\ poll = "changed" /\ ~Exited
  /\ poll' = "waiting"
  /\ armed' = (armed \/ \A c \in Cycles : job[c].pc = "idle")
  /\ UNCHANGED <<src, seen, pending, job, tree, shown, done, risky>>

\* debounced(): stop the timer if it runs, and start it anew.
Debounced ==
  /\ poll = "changed" /\ ~Exited
  /\ poll' = "waiting" /\ armed' = TRUE
  /\ UNCHANGED <<src, seen, pending, job, tree, shown, done, risky>>

-----------------------------------------------------------------------------
(* The debounced function, and Run's own first Generate.                   *)

TimerFires(c) ==
  /\ armed /\ ~Exited /\ job[c].pc = "idle"
  /\ Overlap \/ \A d \in Cycles : job[d].pc = "idle"
  /\ armed' = FALSE
  /\ Goto(c, "generate")
  /\ UNCHANGED <<src, seen, poll, pending, tree, shown, done, risky>>

\* Compile reads the sources, and later writes what it made of them.
GenerateReads(p) ==
  /\ job[p].pc = "generate"
  /\ job' = [job EXCEPT ![p] = [@ EXCEPT !.pc = "compile", !.snap = src]]
  /\ UNCHANGED <<src, seen, poll, pending, armed, tree, shown, done, risky>>

GenerateWrites(p) ==
  /\ job[p].pc = "compile" /\ job[p].snap.bad # "generate"
  /\ tree' = job[p].snap.ver
  /\ Forget(p, IF p = Main THEN "seed" ELSE "consume")
  /\ UNCHANGED <<src, seen, poll, pending, armed, shown, done, risky>>

\* Mutant: a failed cycle forgets the change it was started for.
GenerateFailsForgets(p) ==
  /\ job[p].pc = "compile" /\ job[p].snap.bad = "generate"
  /\ pending' = "reload"
  /\ Forget(p, IF p = Main THEN "cleanup" ELSE "idle")
  /\ UNCHANGED <<src, seen, poll, armed, tree, shown, done, risky>>

\* Run returns its first error; a later one leaves everything as it was, the
\* pending change included.
GenerateFails(p) ==
  /\ job[p].pc = "compile" /\ job[p].snap.bad = "generate"
  /\ Forget(p, IF p = Main THEN "cleanup" ELSE "idle")
  /\ UNCHANGED <<src, seen, poll, pending, armed, tree, shown, done, risky>>

\* newWatcherState, before the first OnRestart.
Seed ==
  /\ job[Main].pc = "seed"
  /\ seen' = src.ver
  /\ Goto(Main, "restart")
  /\ UNCHANGED <<src, poll, pending, armed, tree, shown, done, risky>>

ConsumePending(c) ==
  /\ job[c].pc = "consume"
  /\ pending' = "reload"
  /\ Goto(c, IF pending = "restart" THEN "restart" ELSE "assets")
  /\ UNCHANGED <<src, seen, poll, armed, tree, shown, done, risky>>

\* An asset chain (only `gastro watch --asset' has one) fails, or is cancelled.
AssetsFail(cancelled) == "asset" \in Faults /\ (cancelled \/ src.bad = "asset")

\* PreReload runs it; its failure suppresses the reload.
PreReload(c) ==
  /\ job[c].pc = "assets"
  /\ Goto(c, IF AssetsFail(done) THEN "idle" ELSE "reload")
  /\ UNCHANGED <<src, seen, poll, pending, armed, tree, shown, done, risky>>

\* writeReloadSignal: the browsers load the page again, from .gastro/.
OnReload(c) ==
  /\ job[c].pc = "reload"
  /\ shown' = tree
  /\ Goto(c, "idle")
  /\ UNCHANGED <<src, seen, poll, pending, armed, tree, done, risky>>

RunReturns ==
  /\ job[Main].pc = "watch" /\ done
  /\ Goto(Main, "cleanup")
  /\ UNCHANGED <<src, seen, poll, pending, armed, tree, shown, done, risky>>

Poller == PollFiles \/ Debounced

Cycle(p) ==
  /\ ~Exited
  /\ \/ GenerateReads(p) \/ GenerateWrites(p) \/ GenerateFails(p)
     \/ p # Main /\ (ConsumePending(p) \/ PreReload(p) \/ OnReload(p))
     \/ p = Main /\ (Seed \/ RunReturns)

LoopNext ==
  \/ \E c \in Classes : Edit(c)
  \/ Interrupt \/ Poller
  \/ \E c \in Cycles : TimerFires(c)
  \/ \E p \in Procs : Cycle(p)

LoopFairness ==
  /\ WF_loop(Poller) /\ WF_loop(\E c \in Cycles : TimerFires(c))
  /\ \A p \in Procs : WF_loop(Cycle(p))
=============================================================================
