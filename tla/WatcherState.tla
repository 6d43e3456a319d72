---------------------------- MODULE WatcherState -----------------------------
(***************************************************************************)
(* The poller of devloop, file by file: DevLoop takes a round for one step *)
(* over versions that only grow; here a round is the walks, stats and      *)
(* reads it is made of, the developer edits between any two of them, and a *)
(* file may be touched, put back as it was, deleted and made again.        *)
(*                                                                         *)
(* A page's frontmatter is the set of files it embeds.  A cycle generates, *)
(* consumes the pending change, and restarts or reloads, and the poller    *)
(* goes on in between; a cycle ends before the next one begins (DevLoop    *)
(* lets them overlap).                                                     *)
(***************************************************************************)
EXTENDS Naturals, FiniteSets

CONSTANTS Pages,     \* pages/ and components/
          Embeds,    \* files named by //gastro:embed
          Static,    \* static/
          Go,        \* *.go, and the files of --watch
          MaxEdits,  \* bound on the edits
          Absent

Files    == Pages \cup Embeds \cup Static \cup Go
Text     == [fm : SUBSET Embeds, body : {0, 1}]
Texts(f) == IF f \in Pages THEN Text ELSE [fm : {{}}, body : {0, 1}]

ASSUME WatcherStateAssumption ==
  /\ MaxEdits \in Nat
  /\ Pages \cap (Embeds \cup Static \cup Go) = {}
  /\ Embeds \cap (Static \cup Go) = {}
  /\ Static \cap Go = {}
  /\ Absent \notin Text /\ \A A \in SUBSET Embeds : Absent # A

VARIABLES disk,      \* the files; mtime 0 where there is none
          edits,     \* the edits so far; an edit's mtime is later than any before
          modTimes,  \* 0 where the file is not known
          fileContents,
          extDeps, embedCache,
          pending,   \* pendingChange
          due,       \* the timer of the debounced function is running
          cycle,     \* the place of the debounced function
          pc, todo,  \* the round: its stage, the files it has yet to look at
          currentFiles, changed,
          info,      \* the page that is being read, and what Stat said of it
          tree,      \* the texts .gastro/ was made from
          app,       \* the texts the running application was built from
          edited,    \* history: there was an edit since the last round began
          hasty,     \* history: a file was edited that the poller had not seen as it was
          failed,    \* history: the last Generate failed
          late,      \* history: a page's restart was consumed by a cycle that had generated
          unbuilt,   \* history: the last restart failed
          reloaded   \* history: embedded files found edited since the code of the last restart

round   == <<pc, todo, currentFiles, changed, info>>
watched == <<modTimes, fileContents, extDeps, embedCache>>
built   == <<tree, app>>
history == <<edited, hasty, failed, late, unbuilt, reloaded>>
vars    == <<disk, edits, watched, pending, due, cycle, round, built, history>>

TypeOK ==
  /\ disk \in [Files -> [text : Text, mtime : Nat]] /\ edits \in Nat
  /\ modTimes \in [Files -> Nat] /\ fileContents \in [Pages -> Text]
  /\ extDeps \subseteq Embeds /\ embedCache \subseteq Embeds
  /\ pending \in {"reload", "restart"} /\ due \in BOOLEAN
  /\ cycle \in {"idle", "generated", "restart"}
  /\ pc \in {"sleep", "pages", "read", "embeds", "others"}
  /\ todo \subseteq Files /\ currentFiles \subseteq Files /\ changed \in BOOLEAN
  /\ info \in [file : Files \cup {Absent}, mtime : Nat]
  /\ tree \in [Files -> Text \cup {Absent}] /\ app \in [Files -> Text \cup {Absent}]
  /\ edited \in BOOLEAN /\ hasty \in BOOLEAN /\ failed \in BOOLEAN
  /\ late \in BOOLEAN /\ unbuilt \in BOOLEAN /\ reloaded \subseteq Embeds

NoText == [fm |-> {}, body |-> 0]
NoFile == [text |-> NoText, mtime |-> 0]
NoInfo == [file |-> Absent, mtime |-> 0]

Exists(f) == disk[f].mtime # 0

\* What a reader of the file finds.
Look(f) == IF Exists(f) THEN disk[f].text ELSE Absent

Snapshot == [f \in Files |-> Look(f)]

\* The files that the pages embed.
EmbedDeps == UNION {disk[f].text.fm : f \in {g \in Pages : Exists(g)}}

\* newWatcherState, after a first Generate, and a first start that worked: all
\* there is is known.
Init ==
  /\ \E fm \in SUBSET Embeds :
       disk = [f \in Files |-> [text |-> [NoText EXCEPT !.fm = IF f \in Pages THEN fm ELSE {}],
                               mtime |-> 1]]
  /\ edits = 0
  /\ extDeps = EmbedDeps /\ embedCache = EmbedDeps
  /\ modTimes = [f \in Files |-> IF f \in Embeds \ EmbedDeps THEN 0 ELSE 1]
  /\ fileContents = [f \in Pages |-> disk[f].text]
  /\ pending = "reload" /\ due = FALSE /\ cycle = "idle"
  /\ pc = "sleep" /\ todo = {} /\ currentFiles = {} /\ changed = FALSE /\ info = NoInfo
  /\ tree = Snapshot /\ app = Snapshot
  /\ edited = FALSE /\ hasty = FALSE /\ failed = FALSE
  /\ late = FALSE /\ unbuilt = FALSE /\ reloaded = {}

-----------------------------------------------------------------------------
(* The developer.                                                          *)

\* The file is written, with a new text or the same, or deleted.
Edit(f) ==
  /\ edits < MaxEdits /\ edits' = edits + 1
  /\ \E new \in [text : Texts(f), mtime : {edits + 2}] \cup {NoFile} :
       /\ new # disk[f]
       /\ disk' = [disk EXCEPT ![f] = new]
  /\ edited' = TRUE
  /\ hasty' = (hasty \/ (f \notin Embeds \ extDeps /\ modTimes[f] # disk[f].mtime))
  /\ UNCHANGED <<watched, pending, due, cycle, round, built, failed, late, unbuilt, reloaded>>

-----------------------------------------------------------------------------
(* One round of runLoop.                                                   *)

Escalate(class) == pending' = IF class = "restart" THEN "restart" ELSE pending

Found(f, mtime, class) ==
  /\ modTimes' = [modTimes EXCEPT ![f] = mtime]
  /\ Escalate(class) /\ changed' = TRUE

\* The cycle under way will consume the change, and its code is without it.
Late(class) == late' = (late \/ (class = "restart" /\ cycle = "generated"))

\* Stat: the file is gone or as old as it was, and passed over.
Unchanged(f) == ~Exists(f) \/ (modTimes[f] # 0 /\ disk[f].mtime <= modTimes[f])

\* A file that vanishes under the walk of its directory makes it fail, and then
\* all of them are passed over.  That edit is one of this round.
WalkFails(dir) == edited' = TRUE /\ \E f \in dir : ~Exists(f) /\ modTimes[f] # 0

\* CollectGastroFiles.
WalkPages ==
  /\ pc = "sleep" /\ pc' = "pages"
  /\ \/ todo' = {f \in Pages : Exists(f)} /\ edited' = FALSE
     \/ todo' = {} /\ WalkFails(Pages)
  /\ currentFiles' = todo'
  /\ UNCHANGED <<disk, edits, watched, pending, due, cycle, changed, info, built, hasty, failed, late, unbuilt, reloaded>>

StatPage(f) ==
  /\ pc = "pages" /\ f \in todo
  /\ todo' = todo \ {f}
  /\ IF Unchanged(f)
     THEN UNCHANGED <<pc, info>>
     ELSE pc' = "read" /\ info' = [file |-> f, mtime |-> disk[f].mtime]
  /\ UNCHANGED <<disk, edits, watched, pending, due, cycle, currentFiles, changed, built, history>>

Read == pc = "read" /\ pc' = "pages" /\ info' = NoInfo

\* A new page; if it cannot be read its contents are taken to be empty.
NewPage ==
  LET f == info.file IN
  /\ Read /\ modTimes[f] = 0
  /\ fileContents' = [fileContents EXCEPT ![f] = IF Exists(f) THEN Look(f) ELSE NoText]
  /\ Found(f, info.mtime, "restart") /\ Late("restart")
  /\ UNCHANGED <<disk, edits, extDeps, embedCache, due, cycle, todo, currentFiles, built,
                 edited, hasty, failed, unbuilt, reloaded>>

\* A page that cannot be read is left for the next round.
PageUnread ==
  /\ Read /\ modTimes[info.file] # 0 /\ ~Exists(info.file)
  /\ UNCHANGED <<disk, edits, watched, pending, due, cycle, todo, currentFiles, changed, built, history>>

\* DetectChangedSection: SectionUnknown.
PageTouched ==
  LET f == info.file IN
  /\ Read /\ modTimes[f] # 0 /\ Look(f) = fileContents[f]
  /\ modTimes' = [modTimes EXCEPT ![f] = info.mtime]
  /\ UNCHANGED <<disk, edits, fileContents, extDeps, embedCache, pending, due, cycle, todo,
                 currentFiles, changed, built, history>>

\* Mutant: SectionTemplate has priority over SectionFrontmatter.
PageChangedBodyFirst ==
  LET f == info.file IN
  /\ Read /\ modTimes[f] # 0 /\ Exists(f) /\ Look(f) # fileContents[f]
  /\ fileContents' = [fileContents EXCEPT ![f] = Look(f)]
  /\ LET class == IF Look(f).body # fileContents[f].body THEN "reload" ELSE "restart"
     IN  Found(f, info.mtime, class) /\ Late(class)
  /\ UNCHANGED <<disk, edits, extDeps, embedCache, due, cycle, todo, currentFiles, built,
                 edited, hasty, failed, unbuilt, reloaded>>

\* SectionFrontmatter has priority over SectionTemplate.
PageChanged ==
  LET f == info.file IN
  /\ Read /\ modTimes[f] # 0 /\ Exists(f) /\ Look(f) # fileContents[f]
  /\ fileContents' = [fileContents EXCEPT ![f] = Look(f)]
  /\ LET class == IF Look(f).fm # fileContents[f].fm THEN "restart" ELSE "reload"
     IN  Found(f, info.mtime, class) /\ Late(class)
  /\ UNCHANGED <<disk, edits, extDeps, embedCache, due, cycle, todo, currentFiles, built,
                 edited, hasty, failed, unbuilt, reloaded>>

SyncEmbedCache ==
  /\ pc = "pages" /\ todo = {} /\ pc' = "embeds"
  /\ modTimes' = [f \in Files |-> IF f \in embedCache \ extDeps THEN 0 ELSE modTimes[f]]
  /\ embedCache' = extDeps
  /\ todo' = extDeps /\ currentFiles' = currentFiles \cup extDeps
  /\ UNCHANGED <<disk, edits, fileContents, extDeps, pending, due, cycle, changed, info, built, history>>

\* Mutant: a file met for the first time is not remembered.
StatEmbedForgets(f) ==
  /\ pc = "embeds" /\ f \in todo
  /\ todo' = todo \ {f}
  /\ currentFiles' = IF Exists(f) THEN currentFiles ELSE currentFiles \ {f}
  /\ IF Unchanged(f) THEN UNCHANGED <<modTimes, pending, changed>>
     ELSE /\ modTimes' = [modTimes EXCEPT ![f] = IF @ = 0 THEN 0 ELSE disk[f].mtime]
          /\ Escalate("reload") /\ changed' = TRUE
  /\ UNCHANGED <<disk, edits, fileContents, extDeps, embedCache, due, cycle, pc, info, built, history>>

StatEmbed(f) ==
  /\ pc = "embeds" /\ f \in todo
  /\ todo' = todo \ {f}
  /\ currentFiles' = IF Exists(f) THEN currentFiles ELSE currentFiles \ {f}
  /\ IF Unchanged(f) THEN UNCHANGED <<modTimes, pending, changed>>
     ELSE Found(f, disk[f].mtime, "reload")
  /\ reloaded' = IF modTimes[f] \notin {0, modTimes'[f]} THEN reloaded \cup {f} ELSE reloaded
  /\ UNCHANGED <<disk, edits, fileContents, extDeps, embedCache, due, cycle, pc, info, built,
                 edited, hasty, failed, late, unbuilt>>

\* CollectAllFiles of static/, collectGoFiles and collectExtraWatchFiles.
WalkOthers ==
  /\ pc = "embeds" /\ todo = {} /\ pc' = "others"
  /\ \/ todo' = {f \in Static \cup Go : Exists(f)} /\ UNCHANGED edited
     \/ todo' = {f \in Go : Exists(f)} /\ WalkFails(Static)
  /\ currentFiles' = currentFiles \cup todo'
  /\ UNCHANGED <<disk, edits, watched, pending, due, cycle, changed, info, built, hasty, failed, late, unbuilt, reloaded>>

StatOther(f) ==
  /\ pc = "others" /\ f \in todo
  /\ todo' = todo \ {f}
  /\ IF Unchanged(f) THEN UNCHANGED <<modTimes, pending, changed>>
     ELSE Found(f, disk[f].mtime, IF f \in Static THEN "reload" ELSE "restart")
  /\ UNCHANGED <<disk, edits, fileContents, extDeps, embedCache, due, cycle, pc, currentFiles, info, built, history>>

Deleted == {f \in Files : modTimes[f] # 0 /\ f \notin currentFiles}

\* Mutant: a deletion is reported and not recorded.
EndRoundKeeps ==
  /\ pc = "others" /\ todo = {} /\ pc' = "sleep"
  /\ Escalate(IF Deleted # {} THEN "restart" ELSE "reload")
  /\ due' = (due \/ changed \/ Deleted # {})
  /\ currentFiles' = {} /\ changed' = FALSE
  /\ UNCHANGED <<disk, edits, watched, cycle, todo, info, built, history>>

\* What is known and was not met is deleted; then debounced() if anything was
\* found in this round.
EndRound ==
  /\ pc = "others" /\ todo = {} /\ pc' = "sleep"
  /\ modTimes' = [f \in Files |-> IF f \in Deleted THEN 0 ELSE modTimes[f]]
  /\ fileContents' = [f \in Pages |-> IF f \in Deleted THEN NoText ELSE fileContents[f]]
  /\ Escalate(IF Deleted # {} THEN "restart" ELSE "reload")
  /\ due' = (due \/ changed \/ Deleted # {})
  /\ Late(IF Deleted \ Go # {} THEN "restart" ELSE "reload")
  /\ currentFiles' = {} /\ changed' = FALSE
  /\ UNCHANGED <<disk, edits, extDeps, embedCache, cycle, todo, info, built,
                 edited, hasty, failed, unbuilt, reloaded>>

RunLoop ==
  \/ WalkPages \/ SyncEmbedCache \/ WalkOthers \/ EndRound
  \/ NewPage \/ PageUnread \/ PageTouched \/ PageChanged
  \/ \E f \in todo : StatPage(f) \/ StatEmbed(f) \/ StatOther(f)

-----------------------------------------------------------------------------
(* The debounced cycle.                                                    *)

\* The pages are read, compiled and written into .gastro/; extDeps.Set.
Generate ==
  /\ due /\ cycle = "idle"
  /\ \A e \in EmbedDeps : Exists(e)
  /\ due' = FALSE /\ cycle' = "generated" /\ failed' = FALSE
  /\ tree' = Snapshot /\ extDeps' = EmbedDeps
  /\ IF pending = "restart" THEN late' = FALSE /\ reloaded' = {} ELSE UNCHANGED <<late, reloaded>>
  /\ UNCHANGED <<disk, edits, modTimes, fileContents, embedCache, pending, round, app,
                 edited, hasty, unbuilt>>

\* Mutant: a failed Generate consumes the pending change.
GenerateFailsConsumes ==
  /\ due /\ cycle = "idle"
  /\ \E e \in EmbedDeps : ~Exists(e)
  /\ due' = FALSE /\ failed' = TRUE /\ pending' = "reload"
  /\ UNCHANGED <<disk, edits, watched, cycle, round, built, edited, hasty, late, unbuilt, reloaded>>

\* A page embeds a file that is not there.  The dependencies and the pending
\* change are kept.
GenerateFails ==
  /\ due /\ cycle = "idle"
  /\ \E e \in EmbedDeps : ~Exists(e)
  /\ due' = FALSE /\ failed' = TRUE
  /\ UNCHANGED <<disk, edits, watched, pending, cycle, round, built, edited, hasty, late, unbuilt,
                 reloaded>>

\* PreReload and OnReload touch neither .gastro/ nor the application: a cycle
\* that reloads has nothing more to do here.
ConsumePending ==
  /\ cycle = "generated"
  /\ cycle' = IF pending = "restart" THEN "restart" ELSE "idle"
  /\ pending' = "reload"
  /\ UNCHANGED <<disk, edits, watched, due, round, built, history>>

\* OnRestart: the build reads the Go files as they are now, and .gastro/.
RestartWorks ==
  /\ cycle = "restart" /\ cycle' = "idle"
  /\ app' = [f \in Files |-> IF f \in Go THEN Look(f) ELSE tree[f]] /\ unbuilt' = FALSE
  /\ UNCHANGED <<disk, edits, watched, pending, due, round, tree, edited, hasty, failed, late,
                 reloaded>>

\* The asset chain or the build fails; the old application keeps running.
RestartFails ==
  /\ cycle = "restart" /\ cycle' = "idle"
  /\ unbuilt' = TRUE
  /\ UNCHANGED <<disk, edits, watched, pending, due, round, built, edited, hasty, failed, late,
                 reloaded>>

Cycle == Generate \/ GenerateFails \/ ConsumePending \/ RestartWorks \/ RestartFails

Next ==
  \/ \E f \in Files : Edit(f)
  \/ RunLoop \/ Cycle

Spec == Init /\ [][Next]_vars

(* The poller's goroutine runs, the timer fires and the cycle goes on.     *)
FairSpec == Spec /\ WF_vars(RunLoop) /\ WF_vars(Cycle)

-----------------------------------------------------------------------------
(* Properties                                                              *)

\* A whole round has passed with no edit, and no cycle is to come or under way.
AtRest == pc = "sleep" /\ ~edited /\ ~due /\ cycle = "idle"

\* What the poller knows then is what there is, embedded files included.
KnowsDisk ==
  AtRest /\ embedCache = extDeps =>
    \A f \in Files :
      IF f \in Embeds \ extDeps THEN modTimes[f] = 0 ELSE modTimes[f] = disk[f].mtime

Frontmatter(text) == IF text = Absent THEN Absent ELSE text.fm

\* .gastro/ is made from the present pages and from what they embed.
TreeFresh == \A f \in Pages \cup EmbedDeps : tree[f] = Look(f)

\* The application is made from the present frontmatters and embedded files.  An
\* embedded file that is edited is only reloaded: the text of it in the
\* application, where it is a literal, is that of the last restart.
CodeFresh ==
  /\ \A f \in EmbedDeps \ reloaded : app[f] = Look(f)
  /\ \A f \in Pages : Frontmatter(app[f]) = Frontmatter(Look(f))

\* At rest, .gastro/ is made from what is on disk, and the application from the
\* Go files on disk and from the code in .gastro/ that the disk calls for.  The
\* exceptions: a file was edited before the poller had seen it as it was (hasty);
\* Generate failed last; the last restart failed (unbuilt); and, for the code in
\* .gastro/ alone, a page was found to need a restart after Generate and before
\* consumePending (late), when the cycle restarts without the new code and the
\* next one only reloads (devloop.go:234-242).
Fresh ==
  /\ KnowsDisk
  /\ AtRest /\ ~failed /\ ~hasty =>
       /\ TreeFresh
       /\ ~unbuilt => \A f \in Go : app[f] = Look(f)
       /\ ~unbuilt /\ ~late => CodeFresh

\* When the edits stop, so do the cycles: no cycle makes work for another.
EventuallyStill == <>[](~changed /\ ~due /\ cycle = "idle")
=============================================================================
