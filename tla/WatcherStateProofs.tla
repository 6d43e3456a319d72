-------------------------- MODULE WatcherStateProofs -------------------------
(***************************************************************************)
(* At rest, WatcherState's poller knows the disk, .gastro/ is made from it *)
(* and the application built from it (Fresh).  The inductive invariant     *)
(* says what a round has covered so far; what a text that was compiled or  *)
(* built can be while the poller is behind the disk (the present text, or  *)
(* the one the poller knows, or a cycle is owed); and what the code that   *)
(* was generated can be while a restart has yet to build it.               *)
(***************************************************************************)
EXTENDS WatcherState, TLAPS

Stale(f) == modTimes[f] # disk[f].mtime

\* The page as the poller knows it.
Known(p) == IF modTimes[p] = 0 THEN Absent ELSE fileContents[p]

\* A cycle is to come, or has failed.
Owed == due \/ changed \/ failed

\* The files that the pages of .gastro/ or of the application embed.
DepsOf(texts) == UNION {texts[p].fm : p \in {q \in Pages : texts[q] # Absent}}

\* Edits get later and later mtimes, and the poller's are of the past.
Clock ==
  \A f \in Files :
    /\ disk[f].mtime <= edits + 1 /\ modTimes[f] <= edits + 1
    /\ Exists(f) => modTimes[f] <= disk[f].mtime
    /\ ~Exists(f) => disk[f] = NoFile

\* A page whose mtime is known is known as it is.
Seen == \A p \in Pages : Exists(p) /\ ~Stale(p) => fileContents[p] = disk[p].text

\* A page is read when its mtime is later than the one known.
Reading ==
  pc = "read" =>
    /\ info.file \in Pages /\ info.mtime <= edits + 1
    /\ modTimes[info.file] < info.mtime
    /\ Exists(info.file) => info.mtime <= disk[info.file].mtime

Others  == Static \cup Go
Watched == Pages \cup embedCache \cup Others

\* Which files each stage looks at.
Stages ==
  /\ pc = "sleep" => todo = {} /\ ~changed
  /\ pc \in {"pages", "read"} => todo \subseteq Pages
  /\ pc = "embeds" => todo \subseteq embedCache \cap currentFiles
  /\ pc = "others" => todo \subseteq Others
  /\ pc \in {"pages", "read", "embeds"} => currentFiles \cap Others = {}

Pending == pending = "restart" => Owed \/ cycle = "generated"

Dropped == \A e \in Embeds \ embedCache : modTimes[e] = 0

\* The files whose presence the round has recorded, and those it has yet to stat.
Walked ==
  IF pc = "embeds" THEN Pages \cup (embedCache \ todo)
  ELSE IF pc = "others" THEN Watched ELSE Pages
Ahead ==
  IF pc = "pages" THEN todo \cup embedCache \cup Others
  ELSE IF pc = "read" THEN todo \cup {info.file} \cup embedCache \cup Others
  ELSE IF pc = "embeds" THEN todo \cup Others ELSE todo

\* What a round with no edit has covered.
Covered ==
  ~edited =>
    /\ pc # "sleep" => \A f \in Walked : f \in currentFiles <=> Exists(f)
    /\ pc = "read" => info.mtime = disk[info.file].mtime
    /\ pc # "embeds" => \A f \in todo : Exists(f)
    /\ \A f \in Watched \ Ahead : Exists(f) \/ pc = "sleep" => ~Stale(f)

\* The dependencies are those of the pages .gastro/ is made from, and what was
\* embedded was there.
Deps ==
  /\ extDeps = DepsOf(tree)
  /\ \A e \in extDeps : tree[e] # Absent
  /\ \A e \in DepsOf(app) : app[e] # Absent

\* A page in .gastro/ is the present one or the one the poller knows.
PagesMade == ~hasty /\ ~Owed => \A p \in Pages : tree[p] \in {Look(p), Known(p)}

\* An embedded file in .gastro/ is the present one, or the next round finds it.
EmbedsMade ==
  ~hasty /\ ~Owed =>
    \A e \in extDeps : tree[e] = Look(e) \/ (e \in embedCache /\ Stale(e))

\* The code in .gastro/ is what a restart that is under way, or consumed the
\* pending change, builds.
ToBuild == cycle = "generated" \/ (cycle = "restart" /\ pending = "reload")

\* Its frontmatters are then the present ones or those the poller knows.
FmToBuild ==
  ~hasty /\ ~late /\ ToBuild =>
    \A p \in Pages : Frontmatter(tree[p]) \in {Frontmatter(Look(p)), Frontmatter(Known(p))}

\* And an embedded file is in it as it is, or a round finds it edited.
EmbedsToBuild ==
  ~hasty /\ ~late /\ ToBuild =>
    \A e \in extDeps \ reloaded :
      tree[e] = Look(e) \/ (e \in embedCache /\ modTimes[e] # 0 /\ Stale(e))

\* The application was built, and no restart is to come or under way.
Built == ~hasty /\ ~unbuilt /\ cycle # "restart" /\ pending = "reload"

\* A Go file in the application is the present one, or the next round finds it.
GoBuilt == Built => \A f \in Go : app[f] = Look(f) \/ Stale(f)

\* A frontmatter in the application is the present one or the one the poller
\* knows; where .gastro/ has another, .gastro/ is ahead of the poller.
FmBuilt ==
  Built /\ ~late =>
    \A p \in Pages :
      /\ Frontmatter(app[p]) \in {Frontmatter(Look(p)), Frontmatter(Known(p))}
      /\ Frontmatter(tree[p]) # Frontmatter(app[p]) =>
           /\ Frontmatter(tree[p]) = Frontmatter(Look(p))
           /\ Frontmatter(app[p]) = Frontmatter(Known(p))

SameFm == \A p \in Pages : Frontmatter(tree[p]) = Frontmatter(app[p])

\* While they have the same frontmatters, an embedded file is built in as it is,
\* or the next round finds it edited, or has.
EmbedsBuilt ==
  Built /\ ~late /\ SameFm =>
    \A e \in extDeps \ reloaded :
      app[e] = Look(e) \/ (e \in embedCache /\ modTimes[e] # 0 /\ Stale(e))

Poller == Clock /\ Seen /\ Reading /\ Stages /\ Pending /\ Dropped /\ Covered
Made   == Deps /\ PagesMade /\ EmbedsMade /\ FmToBuild /\ EmbedsToBuild
Held   == GoBuilt /\ FmBuilt /\ EmbedsBuilt
IInv   == TypeOK /\ Poller /\ Made /\ Held

-----------------------------------------------------------------------------
LEMMA Reads ==
  ASSUME TypeOK
  PROVE  /\ \A f \in Files : disk[f].mtime \in Nat /\ disk[f].text \in Text
         /\ \A f \in Files : IF Exists(f) THEN Look(f) \in Text ELSE Look(f) = Absent
         /\ Snapshot \in [Files -> Text \cup {Absent}]
         /\ EmbedDeps \subseteq Embeds
<1>1. \A f \in Files : disk[f].mtime \in Nat /\ disk[f].text \in Text
  BY DEF TypeOK
<1>2. \A f \in Files : IF Exists(f) THEN Look(f) \in Text ELSE Look(f) = Absent
  BY <1>1 DEF Look
<1>3. Snapshot \in [Files -> Text \cup {Absent}]
  BY <1>2 DEF Snapshot
<1>4. EmbedDeps \subseteq Embeds
  BY <1>1 DEF EmbedDeps, Text, Files
<1> QED
  BY <1>1, <1>2, <1>3, <1>4

LEMMA NextTypeOK == IInv /\ [Next]_vars => TypeOK'
<1> SUFFICES ASSUME IInv, [Next]_vars PROVE TypeOK'
  OBVIOUS
<1> USE WatcherStateAssumption DEF IInv, TypeOK
<1>1. ASSUME NEW f \in Files, Edit(f) PROVE TypeOK'
  BY <1>1, Reads DEF Edit, watched, round, built, NoFile, NoText, Texts, Text
<1>2. ASSUME NEW f \in todo, StatPage(f) PROVE TypeOK'
  <2>1. f \in Files /\ [file |-> f, mtime |-> disk[f].mtime] \in [file : Files \cup {Absent}, mtime : Nat]
    BY <1>2, Reads
  <2>2. info' \in [file : Files \cup {Absent}, mtime : Nat]
    BY <1>2, <2>1 DEF StatPage
  <2>3. pc' \in {"pages", "read"}
    BY <1>2 DEF StatPage
  <2> QED
    BY <1>2, <2>2, <2>3 DEF StatPage, watched, built, history
<1>3. ASSUME NEW f \in todo, StatEmbed(f) PROVE TypeOK'
  <2>1. f \in Embeds /\ f \in Files
    BY <1>3 DEF StatEmbed, Poller, Stages
  <2>2. disk[f].mtime \in Nat
    BY <2>1, Reads
  <2>3. modTimes' \in [Files -> Nat] /\ pending' \in {"reload", "restart"} /\ changed' \in BOOLEAN
    BY <1>3, <2>1, <2>2 DEF StatEmbed, Found, Escalate
  <2>4. reloaded' \subseteq Embeds
    BY <1>3, <2>1 DEF StatEmbed
  <2> QED
    BY <1>3, <2>3, <2>4 DEF StatEmbed, built
<1>4. ASSUME NEW f \in todo, StatOther(f) PROVE TypeOK'
  <2>1. f \in Files
    BY <1>4
  <2>2. disk[f].mtime \in Nat
    BY <2>1, Reads
  <2>3. modTimes' \in [Files -> Nat]
    BY <1>4, <2>1, <2>2 DEF StatOther, Found
  <2>4. pending' \in {"reload", "restart"} /\ changed' \in BOOLEAN
    BY <1>4 DEF StatOther, Found, Escalate
  <2>5. todo' \subseteq Files
    BY <1>4 DEF StatOther
  <2> QED
    BY <1>4, <2>3, <2>4, <2>5 DEF StatOther, built, history
<1>5. CASE WalkPages
  <2>1. edited' \in BOOLEAN
    BY <1>5 DEF WalkPages, WalkFails
  <2> QED
    BY <1>5, <2>1, Reads DEF WalkPages, watched, built, Files
<1>6. CASE NewPage
  <2>1. late' \in BOOLEAN
    BY <1>6, Zenon DEF NewPage, Late
  <2> QED
    BY <1>6, <2>1, Reads DEF NewPage, Read, Found, built, history, Escalate, Poller,
         Reading, NoInfo, NoText, Text, Files
<1>7. CASE PageUnread
  BY <1>7, Reads DEF PageUnread, Read, watched, built, history, NoInfo
<1>8. CASE PageTouched
  BY <1>8, Reads DEF PageTouched, Read, built, history, Poller, Reading,
       NoInfo, Files
<1>9. CASE PageChanged
  <2>1. late' \in BOOLEAN
    BY <1>9, Zenon DEF PageChanged, Late
  <2> QED
    BY <1>9, <2>1, Reads DEF PageChanged, Read, Found, built, history, Escalate,
         Poller, Reading, NoInfo, Files
<1>10. CASE SyncEmbedCache
  BY <1>10, Reads DEF SyncEmbedCache, built, history, Files
<1>11. CASE WalkOthers
  <2>1. edited' \in BOOLEAN
    BY <1>11 DEF WalkOthers, WalkFails
  <2> QED
    BY <1>11, <2>1, Reads DEF WalkOthers, watched, built, Files
<1>12. CASE EndRound
  <2>1. late' \in BOOLEAN
    BY <1>12, Zenon DEF EndRound, Late
  <2> QED
    BY <1>12, <2>1, Reads DEF EndRound, Deleted, built, history, Escalate, NoText,
         Text
<1>13. CASE Generate
  BY <1>13, Reads DEF Generate, round
<1>14. CASE GenerateFails
  BY <1>14, Reads DEF GenerateFails, watched, round, built
<1>15. CASE ConsumePending
  BY <1>15, Reads DEF ConsumePending, watched, round, built, history
<1>16. CASE RestartWorks
  <2>1. \A f \in Files : Look(f) \in Text \cup {Absent} /\ tree[f] \in Text \cup {Absent}
    BY Reads
  <2>2. app' \in [Files -> Text \cup {Absent}]
    BY <1>16, <2>1 DEF RestartWorks
  <2> QED
    BY <1>16, <2>2 DEF RestartWorks, watched, round
<1>17. CASE RestartFails
  BY <1>17, Reads DEF RestartFails, watched, round, built
<1>18. CASE UNCHANGED vars
  BY <1>18, Reads DEF vars, watched, round, built, history
<1> QED
  BY <1>1, <1>2, <1>3, <1>4, <1>5, <1>6, <1>7, <1>8, <1>9, <1>10, <1>11,
       <1>12, <1>13, <1>14, <1>15, <1>16, <1>17, <1>18 DEF Next, RunLoop,
       Cycle

LEMMA NextClock == IInv /\ [Next]_vars => Clock'
<1> SUFFICES ASSUME IInv, [Next]_vars PROVE Clock'
  OBVIOUS
<1> USE WatcherStateAssumption DEF IInv, TypeOK, Poller, Clock, Exists
<1>1. ASSUME NEW f \in Files, Edit(f) PROVE Clock'
  BY <1>1 DEF Edit, watched, round, built, NoFile
<1>2. ASSUME NEW f \in todo, StatPage(f) PROVE Clock'
  BY <1>2 DEF StatPage, watched, built, history
<1>3. ASSUME NEW f \in todo, StatEmbed(f) PROVE Clock'
  BY <1>3 DEF StatEmbed, Found, built
<1>4. ASSUME NEW f \in todo, StatOther(f) PROVE Clock'
  BY <1>4 DEF StatOther, Found, built, history
<1>5. CASE WalkPages
  BY <1>5 DEF WalkPages, WalkFails, watched, built
<1>6. CASE NewPage
  BY <1>6 DEF NewPage, Read, Found, built, history, Reading
<1>7. CASE PageUnread
  BY <1>7 DEF PageUnread, Read, watched, built, history
<1>8. CASE PageTouched
  BY <1>8 DEF PageTouched, Read, built, history, Reading
<1>9. CASE PageChanged
  BY <1>9 DEF PageChanged, Read, Found, built, history, Reading
<1>10. CASE SyncEmbedCache
  BY <1>10 DEF SyncEmbedCache, built, history
<1>11. CASE WalkOthers
  BY <1>11 DEF WalkOthers, WalkFails, watched, built
<1>12. CASE EndRound
  BY <1>12 DEF EndRound, Deleted, built, history
<1>13. CASE Generate
  BY <1>13 DEF Generate, round
<1>14. CASE GenerateFails
  BY <1>14 DEF GenerateFails, watched, round, built
<1>15. CASE ConsumePending
  BY <1>15 DEF ConsumePending, watched, round, built, history
<1>16. CASE RestartWorks
  BY <1>16 DEF RestartWorks, watched, round
<1>17. CASE RestartFails
  BY <1>17 DEF RestartFails, watched, round, built
<1>18. CASE UNCHANGED vars
  BY <1>18 DEF vars, watched, round, built, history
<1> QED
  BY <1>1, <1>2, <1>3, <1>4, <1>5, <1>6, <1>7, <1>8, <1>9, <1>10, <1>11,
       <1>12, <1>13, <1>14, <1>15, <1>16, <1>17, <1>18 DEF Next, RunLoop,
       Cycle

LEMMA NextSeen == IInv /\ [Next]_vars => Seen'
<1> SUFFICES ASSUME IInv, [Next]_vars PROVE Seen'
  OBVIOUS
<1> USE WatcherStateAssumption DEF IInv, TypeOK, Poller, Seen, Stale
<1>1. ASSUME NEW f \in Files, Edit(f) PROVE Seen'
  BY <1>1, Reads DEF Edit, watched, round, built, Exists, Clock, Exists,
       NoFile, Files
<1>2. ASSUME NEW f \in todo, StatPage(f) PROVE Seen'
  BY <1>2, Reads DEF StatPage, watched, built, history, Exists
<1>3. ASSUME NEW f \in todo, StatEmbed(f) PROVE Seen'
  BY <1>3, Reads DEF StatEmbed, Found, built, Exists, Stages, Files
<1>4. ASSUME NEW f \in todo, StatOther(f) PROVE Seen'
  BY <1>4, Reads DEF StatOther, Found, built, history, Exists, Stages,
       Others, Files
<1>5. CASE WalkPages
  BY <1>5, Reads DEF WalkPages, WalkFails, watched, built, Exists
<1>6. CASE NewPage
  BY <1>6, Reads DEF NewPage, Read, Found, built, history, Exists, Reading,
       Exists, Look, Files
<1>7. CASE PageUnread
  BY <1>7, Reads DEF PageUnread, Read, watched, built, history, Exists
<1>8. CASE PageTouched
  BY <1>8, Reads DEF PageTouched, Read, built, history, Exists, Look,
       Reading, Files
<1>9. CASE PageChanged
  BY <1>9, Reads DEF PageChanged, Read, Found, built, history, Exists,
       Exists, Look, Reading, Files
<1>10. CASE SyncEmbedCache
  BY <1>10, Reads DEF SyncEmbedCache, built, history, Exists, Files
<1>11. CASE WalkOthers
  BY <1>11, Reads DEF WalkOthers, WalkFails, watched, built, Exists
<1>12. CASE EndRound
  BY <1>12, Reads DEF EndRound, Deleted, built, history, Exists, Files
<1>13. CASE Generate
  BY <1>13, Reads DEF Generate, round, Exists
<1>14. CASE GenerateFails
  BY <1>14, Reads DEF GenerateFails, watched, round, built, Exists
<1>15. CASE ConsumePending
  BY <1>15, Reads DEF ConsumePending, watched, round, built, history, Exists
<1>16. CASE RestartWorks
  BY <1>16, Reads DEF RestartWorks, watched, round, Exists
<1>17. CASE RestartFails
  BY <1>17, Reads DEF RestartFails, watched, round, built, Exists
<1>18. CASE UNCHANGED vars
  BY <1>18, Reads DEF vars, watched, round, built, history, Exists
<1> QED
  BY <1>1, <1>2, <1>3, <1>4, <1>5, <1>6, <1>7, <1>8, <1>9, <1>10, <1>11,
       <1>12, <1>13, <1>14, <1>15, <1>16, <1>17, <1>18 DEF Next, RunLoop,
       Cycle

LEMMA NextReading == IInv /\ [Next]_vars => Reading'
<1> SUFFICES ASSUME IInv, [Next]_vars PROVE Reading'
  OBVIOUS
<1> USE WatcherStateAssumption DEF IInv, TypeOK, Poller, Reading, Exists
<1>1. ASSUME NEW f \in Files, Edit(f) PROVE Reading'
  BY <1>1 DEF Edit, watched, round, built, Clock, NoFile, Files
<1>2. ASSUME NEW f \in todo, StatPage(f) PROVE Reading'
  BY <1>2 DEF StatPage, watched, built, history, Clock, Stages, Unchanged,
       Files
<1>3. ASSUME NEW f \in todo, StatEmbed(f) PROVE Reading'
  BY <1>3 DEF StatEmbed, Found, built
<1>4. ASSUME NEW f \in todo, StatOther(f) PROVE Reading'
  BY <1>4 DEF StatOther, Found, built, history
<1>5. CASE WalkPages
  BY <1>5 DEF WalkPages, WalkFails, watched, built
<1>6. CASE NewPage
  BY <1>6 DEF NewPage, Read, Found, built, history
<1>7. CASE PageUnread
  BY <1>7 DEF PageUnread, Read, watched, built, history
<1>8. CASE PageTouched
  BY <1>8 DEF PageTouched, Read, built, history
<1>9. CASE PageChanged
  BY <1>9 DEF PageChanged, Read, Found, built, history
<1>10. CASE SyncEmbedCache
  BY <1>10 DEF SyncEmbedCache, built, history
<1>11. CASE WalkOthers
  BY <1>11 DEF WalkOthers, WalkFails, watched, built
<1>12. CASE EndRound
  BY <1>12 DEF EndRound, Deleted, built, history
<1>13. CASE Generate
  BY <1>13 DEF Generate, round
<1>14. CASE GenerateFails
  BY <1>14 DEF GenerateFails, watched, round, built
<1>15. CASE ConsumePending
  BY <1>15 DEF ConsumePending, watched, round, built, history
<1>16. CASE RestartWorks
  BY <1>16 DEF RestartWorks, watched, round
<1>17. CASE RestartFails
  BY <1>17 DEF RestartFails, watched, round, built
<1>18. CASE UNCHANGED vars
  BY <1>18 DEF vars, watched, round, built, history
<1> QED
  BY <1>1, <1>2, <1>3, <1>4, <1>5, <1>6, <1>7, <1>8, <1>9, <1>10, <1>11,
       <1>12, <1>13, <1>14, <1>15, <1>16, <1>17, <1>18 DEF Next, RunLoop,
       Cycle

LEMMA NextStages == IInv /\ [Next]_vars => Stages'
<1> SUFFICES ASSUME IInv, [Next]_vars PROVE Stages'
  OBVIOUS
<1> USE WatcherStateAssumption DEF IInv, TypeOK, Poller, Stages, Others, Files
<1>1. ASSUME NEW f \in Files, Edit(f) PROVE Stages'
  BY <1>1 DEF Edit, watched, round, built
<1>2. ASSUME NEW f \in todo, StatPage(f) PROVE Stages'
  BY <1>2 DEF StatPage, watched, built, history
<1>3. ASSUME NEW f \in todo, StatEmbed(f) PROVE Stages'
  BY <1>3 DEF StatEmbed, Found, built
<1>4. ASSUME NEW f \in todo, StatOther(f) PROVE Stages'
  BY <1>4 DEF StatOther, Found, built, history
<1>5. CASE WalkPages
  BY <1>5 DEF WalkPages, WalkFails, watched, built
<1>6. CASE NewPage
  BY <1>6 DEF NewPage, Read, Found, built, history
<1>7. CASE PageUnread
  BY <1>7 DEF PageUnread, Read, watched, built, history
<1>8. CASE PageTouched
  BY <1>8 DEF PageTouched, Read, built, history
<1>9. CASE PageChanged
  BY <1>9 DEF PageChanged, Read, Found, built, history
<1>10. CASE SyncEmbedCache
  BY <1>10 DEF SyncEmbedCache, built, history
<1>11. CASE WalkOthers
  BY <1>11 DEF WalkOthers, WalkFails, watched, built
<1>12. CASE EndRound
  BY <1>12 DEF EndRound, Deleted, built, history
<1>13. CASE Generate
  BY <1>13 DEF Generate, round
<1>14. CASE GenerateFails
  BY <1>14 DEF GenerateFails, watched, round, built
<1>15. CASE ConsumePending
  BY <1>15 DEF ConsumePending, watched, round, built, history
<1>16. CASE RestartWorks
  BY <1>16 DEF RestartWorks, watched, round
<1>17. CASE RestartFails
  BY <1>17 DEF RestartFails, watched, round, built
<1>18. CASE UNCHANGED vars
  BY <1>18 DEF vars, watched, round, built, history
<1> QED
  BY <1>1, <1>2, <1>3, <1>4, <1>5, <1>6, <1>7, <1>8, <1>9, <1>10, <1>11,
       <1>12, <1>13, <1>14, <1>15, <1>16, <1>17, <1>18 DEF Next, RunLoop,
       Cycle

LEMMA NextPending == IInv /\ [Next]_vars => Pending'
<1> SUFFICES ASSUME IInv, [Next]_vars PROVE Pending'
  OBVIOUS
<1> USE WatcherStateAssumption DEF IInv, TypeOK, Poller, Pending, Owed
<1>1. ASSUME NEW f \in Files, Edit(f) PROVE Pending'
  BY <1>1 DEF Edit, watched, round, built, Escalate
<1>2. ASSUME NEW f \in todo, StatPage(f) PROVE Pending'
  BY <1>2 DEF StatPage, watched, built, history, Escalate
<1>3. ASSUME NEW f \in todo, StatEmbed(f) PROVE Pending'
  BY <1>3 DEF StatEmbed, Found, built, Escalate
<1>4. ASSUME NEW f \in todo, StatOther(f) PROVE Pending'
  BY <1>4 DEF StatOther, Found, built, history, Escalate
<1>5. CASE WalkPages
  BY <1>5 DEF WalkPages, WalkFails, watched, built, Escalate
<1>6. CASE NewPage
  BY <1>6 DEF NewPage, Read, Found, built, history, Escalate
<1>7. CASE PageUnread
  BY <1>7 DEF PageUnread, Read, watched, built, history, Escalate
<1>8. CASE PageTouched
  BY <1>8 DEF PageTouched, Read, built, history, Escalate
<1>9. CASE PageChanged
  BY <1>9 DEF PageChanged, Read, Found, built, history, Escalate
<1>10. CASE SyncEmbedCache
  BY <1>10 DEF SyncEmbedCache, built, history, Escalate
<1>11. CASE WalkOthers
  BY <1>11 DEF WalkOthers, WalkFails, watched, built, Escalate
<1>12. CASE EndRound
  BY <1>12 DEF EndRound, Deleted, built, history, Escalate
<1>13. CASE Generate
  BY <1>13 DEF Generate, round, Escalate
<1>14. CASE GenerateFails
  BY <1>14 DEF GenerateFails, watched, round, built, Escalate
<1>15. CASE ConsumePending
  BY <1>15 DEF ConsumePending, watched, round, built, history, Escalate
<1>16. CASE RestartWorks
  BY <1>16 DEF RestartWorks, watched, round, Escalate
<1>17. CASE RestartFails
  BY <1>17 DEF RestartFails, watched, round, built, Escalate
<1>18. CASE UNCHANGED vars
  BY <1>18 DEF vars, watched, round, built, history, Escalate
<1> QED
  BY <1>1, <1>2, <1>3, <1>4, <1>5, <1>6, <1>7, <1>8, <1>9, <1>10, <1>11,
       <1>12, <1>13, <1>14, <1>15, <1>16, <1>17, <1>18 DEF Next, RunLoop,
       Cycle

LEMMA NextDropped == IInv /\ [Next]_vars => Dropped'
<1> SUFFICES ASSUME IInv, [Next]_vars PROVE Dropped'
  OBVIOUS
<1> USE WatcherStateAssumption DEF IInv, TypeOK, Poller, Dropped
<1>1. ASSUME NEW f \in Files, Edit(f) PROVE Dropped'
  BY <1>1 DEF Edit, watched, round, built
<1>2. ASSUME NEW f \in todo, StatPage(f) PROVE Dropped'
  BY <1>2 DEF StatPage, watched, built, history
<1>3. ASSUME NEW f \in todo, StatEmbed(f) PROVE Dropped'
  BY <1>3 DEF StatEmbed, Found, built, Stages, Files
<1>4. ASSUME NEW f \in todo, StatOther(f) PROVE Dropped'
  BY <1>4 DEF StatOther, Found, built, history, Stages, Others, Files
<1>5. CASE WalkPages
  BY <1>5 DEF WalkPages, WalkFails, watched, built
<1>6. CASE NewPage
  BY <1>6 DEF NewPage, Read, Found, built, history, Reading, Files
<1>7. CASE PageUnread
  BY <1>7 DEF PageUnread, Read, watched, built, history
<1>8. CASE PageTouched
  BY <1>8 DEF PageTouched, Read, built, history, Reading, Files
<1>9. CASE PageChanged
  BY <1>9 DEF PageChanged, Read, Found, built, history, Reading, Files
<1>10. CASE SyncEmbedCache
  BY <1>10 DEF SyncEmbedCache, built, history, Files
<1>11. CASE WalkOthers
  BY <1>11 DEF WalkOthers, WalkFails, watched, built
<1>12. CASE EndRound
  BY <1>12 DEF EndRound, Deleted, built, history, Files
<1>13. CASE Generate
  BY <1>13 DEF Generate, round
<1>14. CASE GenerateFails
  BY <1>14 DEF GenerateFails, watched, round, built
<1>15. CASE ConsumePending
  BY <1>15 DEF ConsumePending, watched, round, built, history
<1>16. CASE RestartWorks
  BY <1>16 DEF RestartWorks, watched, round
<1>17. CASE RestartFails
  BY <1>17 DEF RestartFails, watched, round, built
<1>18. CASE UNCHANGED vars
  BY <1>18 DEF vars, watched, round, built, history
<1> QED
  BY <1>1, <1>2, <1>3, <1>4, <1>5, <1>6, <1>7, <1>8, <1>9, <1>10, <1>11,
       <1>12, <1>13, <1>14, <1>15, <1>16, <1>17, <1>18 DEF Next, RunLoop,
       Cycle

\* A file that a stat passes over is known as it is.
LEMMA Passed ==
  ASSUME IInv, NEW f \in Files, Unchanged(f), Exists(f)
  PROVE  modTimes[f] = disk[f].mtime
<1>1. modTimes[f] \in Nat /\ disk[f].mtime \in Nat
  BY DEF IInv, TypeOK
<1>2. modTimes[f] <= disk[f].mtime
  BY DEF IInv, Poller, Clock
<1> QED
  BY <1>1, <1>2 DEF Unchanged

\* A file that is edited is not stale, unless the edit is hasty; the edit makes
\* it stale, and changes nothing else.
LEMMA Edits ==
  ASSUME IInv, NEW f \in Files, Edit(f)
  PROVE  /\ ~hasty' => ~hasty /\ (f \in Embeds \ extDeps \/ ~Stale(f))
         /\ ~hasty' /\ f \notin Embeds \ extDeps => modTimes'[f] # disk'[f].mtime
         /\ \A g \in Files \ {f} : disk'[g] = disk[g]
         /\ UNCHANGED <<watched, pending, due, cycle, round, built, failed, late, unbuilt, reloaded>>
<1> USE DEF IInv, TypeOK, Poller
<1>1. ~hasty' => ~hasty /\ (f \in Embeds \ extDeps \/ ~Stale(f))
  BY DEF Edit, Stale
<1>2. PICK new \in [text : Texts(f), mtime : {edits + 2}] \cup {NoFile} :
        new # disk[f] /\ disk' = [disk EXCEPT ![f] = new]
  BY DEF Edit
<1>3. new.mtime \in {0, edits + 2} /\ (new.mtime = 0 => new = NoFile)
  BY DEF NoFile
<1>4. UNCHANGED <<watched, pending, due, cycle, round, built, failed, late, unbuilt, reloaded>>
  BY DEF Edit
<1>5. modTimes'[f] = modTimes[f] /\ modTimes[f] < edits + 2 /\ disk'[f] = new
  BY <1>2, <1>4 DEF watched, Clock
<1>6. ~Stale(f) /\ modTimes[f] = 0 => new.mtime # 0
  BY <1>2, <1>3 DEF Clock, Stale, Exists
<1>7. ~Stale(f) => modTimes'[f] # disk'[f].mtime
  BY <1>3, <1>5, <1>6
<1> QED
  BY <1>1, <1>2, <1>4, <1>7
\* What a cycle makes embeds what the pages on the disk do.
LEMMA Compiles ==
  ASSUME TypeOK
  PROVE  /\ DepsOf(Snapshot) = EmbedDeps
         /\ \A f \in Files : Exists(f) => Snapshot[f] # Absent
<1>1. \A f \in Files : Snapshot[f] = Look(f)
  BY DEF Snapshot
<1>2. \A f \in Files : Look(f) # Absent <=> Exists(f)
  BY Reads, WatcherStateAssumption
<1>3. \A p \in Pages : Exists(p) => Look(p) = disk[p].text
  BY DEF Look
<1>4. {q \in Pages : Snapshot[q] # Absent} = {q \in Pages : Exists(q)}
  BY <1>1, <1>2 DEF Files
<1> QED
  BY <1>1, <1>2, <1>3, <1>4 DEF DepsOf, EmbedDeps, Files

LEMMA NextCovered == IInv /\ [Next]_vars => Covered'
<1> SUFFICES ASSUME IInv, [Next]_vars PROVE Covered'
  OBVIOUS
<1> USE WatcherStateAssumption DEF IInv, TypeOK, Poller, Covered, Stages,
       Walked, Ahead, Watched, Others, Files, Stale, Exists
<1>1. ASSUME NEW f \in Files, Edit(f) PROVE Covered'
  BY <1>1, Passed DEF Edit, watched, round, built
<1>2. ASSUME NEW f \in todo, StatPage(f) PROVE Covered'
  BY <1>2, Passed DEF StatPage, watched, built, history
<1>3. ASSUME NEW f \in todo, StatEmbed(f) PROVE Covered'
  <2>1. f \in embedCache /\ f \in Files /\ f \notin Pages \cup Others /\ pc' = pc /\ pc = "embeds"
    BY <1>3 DEF StatEmbed
  <2>2. Exists(f) => modTimes'[f] = disk[f].mtime
    <3>1. CASE Unchanged(f)
      BY <1>3, <2>1, <3>1, Passed DEF StatEmbed
    <3>2. CASE ~Unchanged(f)
      BY <1>3, <2>1, <3>2 DEF StatEmbed, Found
    <3> QED
      BY <3>1, <3>2
  <2>3. \A g \in Files \ {f} : modTimes'[g] = modTimes[g] /\ (g \in currentFiles' <=> g \in currentFiles)
    BY <1>3 DEF StatEmbed, Found
  <2>4. f \in currentFiles' => Exists(f)
    BY <1>3 DEF StatEmbed
  <2>5. f \in currentFiles' <=> Exists(f)
    BY <1>3, <2>1, <2>4 DEF StatEmbed
  <2> SUFFICES ASSUME ~edited'
               PROVE  /\ \A g \in Pages \cup (embedCache \ (todo \ {f})) : g \in currentFiles' <=> Exists(g)
                      /\ \A g \in Watched \ ((todo \ {f}) \cup Others) : Exists(g) => modTimes'[g] = disk[g].mtime
    BY <1>3, <2>1 DEF StatEmbed, built
  <2> QED
    BY <1>3, <2>1, <2>2, <2>3, <2>5 DEF StatEmbed
<1>4. ASSUME NEW f \in todo, StatOther(f) PROVE Covered'
  BY <1>4, Passed DEF StatOther, Found, built, history
<1>5. CASE WalkPages
  BY <1>5, Passed DEF WalkPages, WalkFails, watched, built
<1>6. CASE NewPage
  BY <1>6, Passed DEF NewPage, Read, Found, built, history, Reading
<1>7. CASE PageUnread
  BY <1>7, Passed DEF PageUnread, Read, watched, built, history, Reading
<1>8. CASE PageTouched
  BY <1>8, Passed DEF PageTouched, Read, built, history, Reading
<1>9. CASE PageChanged
  BY <1>9, Passed DEF PageChanged, Read, Found, built, history, Reading
<1>10. CASE SyncEmbedCache
  BY <1>10, Passed DEF SyncEmbedCache, built, history
<1>11. CASE WalkOthers
  BY <1>11, Passed DEF WalkOthers, WalkFails, watched, built
<1>12. CASE EndRound
  BY <1>12, Passed DEF EndRound, Deleted, built, history
<1>13. CASE Generate
  BY <1>13, Passed DEF Generate, round
<1>14. CASE GenerateFails
  BY <1>14, Passed DEF GenerateFails, watched, round, built
<1>15. CASE ConsumePending
  BY <1>15, Passed DEF ConsumePending, watched, round, built, history
<1>16. CASE RestartWorks
  BY <1>16, Passed DEF RestartWorks, watched, round
<1>17. CASE RestartFails
  BY <1>17, Passed DEF RestartFails, watched, round, built
<1>18. CASE UNCHANGED vars
  BY <1>18, Passed DEF vars, watched, round, built, history
<1> QED
  BY <1>1, <1>2, <1>3, <1>4, <1>5, <1>6, <1>7, <1>8, <1>9, <1>10, <1>11,
       <1>12, <1>13, <1>14, <1>15, <1>16, <1>17, <1>18 DEF Next, RunLoop,
       Cycle

LEMMA NextDeps == IInv /\ [Next]_vars => Deps'
<1> SUFFICES ASSUME IInv, [Next]_vars PROVE Deps'
  OBVIOUS
<1> USE WatcherStateAssumption DEF IInv, TypeOK, Made, Deps
<1>1. ASSUME NEW f \in Files, Edit(f) PROVE Deps'
  BY <1>1 DEF Edit, watched, round, built, DepsOf
<1>2. ASSUME NEW f \in todo, StatPage(f) PROVE Deps'
  BY <1>2 DEF StatPage, watched, built, history, DepsOf
<1>3. ASSUME NEW f \in todo, StatEmbed(f) PROVE Deps'
  BY <1>3 DEF StatEmbed, Found, built, DepsOf
<1>4. ASSUME NEW f \in todo, StatOther(f) PROVE Deps'
  BY <1>4 DEF StatOther, Found, built, history, DepsOf
<1>5. CASE WalkPages
  BY <1>5 DEF WalkPages, WalkFails, watched, built, DepsOf
<1>6. CASE NewPage
  BY <1>6 DEF NewPage, Read, Found, built, history, DepsOf
<1>7. CASE PageUnread
  BY <1>7 DEF PageUnread, Read, watched, built, history, DepsOf
<1>8. CASE PageTouched
  BY <1>8 DEF PageTouched, Read, built, history, DepsOf
<1>9. CASE PageChanged
  BY <1>9 DEF PageChanged, Read, Found, built, history, DepsOf
<1>10. CASE SyncEmbedCache
  BY <1>10 DEF SyncEmbedCache, built, history, DepsOf
<1>11. CASE WalkOthers
  BY <1>11 DEF WalkOthers, WalkFails, watched, built, DepsOf
<1>12. CASE EndRound
  BY <1>12 DEF EndRound, Deleted, built, history, DepsOf
<1>13. CASE Generate
  <2>1. DepsOf(Snapshot) = DepsOf(tree)' /\ DepsOf(app)' = DepsOf(app)
    BY <1>13 DEF Generate, DepsOf
  <2>2. \A e \in EmbedDeps : Snapshot[e] # Absent
    BY <1>13, Compiles, Reads DEF Generate, Files
  <2> QED
    BY <1>13, <2>1, <2>2, Compiles DEF Generate
<1>14. CASE GenerateFails
  BY <1>14 DEF GenerateFails, watched, round, built, DepsOf
<1>15. CASE ConsumePending
  BY <1>15 DEF ConsumePending, watched, round, built, history, DepsOf
<1>16. CASE RestartWorks
  <2>1. tree' = tree /\ extDeps' = extDeps
    BY <1>16 DEF RestartWorks, watched
  <2>2. \A f \in Pages \cup Embeds : app'[f] = tree[f]
    BY <1>16 DEF RestartWorks, Files
  <2>3. DepsOf(tree)' = DepsOf(tree) /\ DepsOf(app)' = DepsOf(tree)
    BY <2>1, <2>2 DEF DepsOf
  <2> QED
    BY <2>1, <2>2, <2>3
<1>17. CASE RestartFails
  BY <1>17 DEF RestartFails, watched, round, built, DepsOf
<1>18. CASE UNCHANGED vars
  BY <1>18 DEF vars, watched, round, built, history, DepsOf
<1> QED
  BY <1>1, <1>2, <1>3, <1>4, <1>5, <1>6, <1>7, <1>8, <1>9, <1>10, <1>11,
       <1>12, <1>13, <1>14, <1>15, <1>16, <1>17, <1>18 DEF Next, RunLoop,
       Cycle

LEMMA NextPagesMade == IInv /\ [Next]_vars => PagesMade'
<1> SUFFICES ASSUME IInv, [Next]_vars PROVE PagesMade'
  OBVIOUS
<1> USE WatcherStateAssumption DEF IInv, TypeOK, Made, PagesMade, Owed, Known,
       Look, Exists
<1>1. ASSUME NEW f \in Files, Edit(f) PROVE PagesMade'
  <2> SUFFICES ASSUME ~hasty', ~Owed', NEW p \in Pages
               PROVE  (tree[p] \in {Look(p), Known(p)})'
    OBVIOUS
  <2>1. tree[p] \in {Look(p), Known(p)}
    BY <1>1, Edits DEF round
  <2>2. CASE p # f
    BY <1>1, <2>1, <2>2, Edits DEF watched, built, Files
  <2>3. CASE p = f
    <3>1. Known(f) = Look(f)
      BY <1>1, <2>3, Edits, WatcherStateAssumption DEF Poller, Seen, Stale
    <3> QED
      BY <1>1, <2>1, <2>3, <3>1, Edits DEF watched, built
  <2> QED
    BY <2>2, <2>3
<1>2. ASSUME NEW f \in todo, StatPage(f) PROVE PagesMade'
  BY <1>2, Reads DEF StatPage, watched, built, history, Files, Poller
<1>3. ASSUME NEW f \in todo, StatEmbed(f) PROVE PagesMade'
  BY <1>3, Reads DEF StatEmbed, Found, built, Files, Poller
<1>4. ASSUME NEW f \in todo, StatOther(f) PROVE PagesMade'
  BY <1>4, Reads DEF StatOther, Found, built, history, Files, Poller
<1>5. CASE WalkPages
  BY <1>5, Reads DEF WalkPages, WalkFails, watched, built, Files, Poller
<1>6. CASE NewPage
  BY <1>6, Reads DEF NewPage, Read, Found, built, history, Files, Poller
<1>7. CASE PageUnread
  BY <1>7, Reads DEF PageUnread, Read, watched, built, history, Files, Poller
<1>8. CASE PageTouched
  BY <1>8, Reads DEF PageTouched, Read, built, history, Files, Poller
<1>9. CASE PageChanged
  BY <1>9, Reads DEF PageChanged, Read, Found, built, history, Files, Poller
<1>10. CASE SyncEmbedCache
  BY <1>10, Reads DEF SyncEmbedCache, built, history, Files, Poller
<1>11. CASE WalkOthers
  BY <1>11, Reads DEF WalkOthers, WalkFails, watched, built, Files, Poller
<1>12. CASE EndRound
  BY <1>12, Reads DEF EndRound, Deleted, built, history, Files, Poller
<1>13. CASE Generate
  BY <1>13, Reads DEF Generate, round, Files, Poller, Snapshot
<1>14. CASE GenerateFails
  BY <1>14, Reads DEF GenerateFails, watched, round, built, Files, Poller
<1>15. CASE ConsumePending
  BY <1>15, Reads DEF ConsumePending, watched, round, built, history, Files,
       Poller
<1>16. CASE RestartWorks
  BY <1>16, Reads DEF RestartWorks, watched, round, Files, Poller
<1>17. CASE RestartFails
  BY <1>17, Reads DEF RestartFails, watched, round, built, Files, Poller
<1>18. CASE UNCHANGED vars
  BY <1>18, Reads DEF vars, watched, round, built, history, Files, Poller
<1> QED
  BY <1>1, <1>2, <1>3, <1>4, <1>5, <1>6, <1>7, <1>8, <1>9, <1>10, <1>11,
       <1>12, <1>13, <1>14, <1>15, <1>16, <1>17, <1>18 DEF Next, RunLoop,
       Cycle

LEMMA NextEmbedsMade == IInv /\ [Next]_vars => EmbedsMade'
<1> SUFFICES ASSUME IInv, [Next]_vars PROVE EmbedsMade'
  OBVIOUS
<1> USE WatcherStateAssumption DEF IInv, TypeOK, Made, EmbedsMade, Owed, Look,
       Exists, Stale
<1>1. ASSUME NEW f \in Files, Edit(f) PROVE EmbedsMade'
  <2> SUFFICES ASSUME ~hasty', ~Owed', NEW e \in extDeps'
               PROVE  (tree[e] = Look(e) \/ (e \in embedCache /\ Stale(e)))'
    OBVIOUS
  <2>1. e \in extDeps /\ (tree[e] = Look(e) \/ (e \in embedCache /\ Stale(e)))
    BY <1>1, Edits DEF round, watched
  <2>2. CASE e # f
    BY <1>1, <2>1, <2>2, Edits DEF watched, built, Files
  <2>3. CASE e = f
    <3>1. ~Stale(f) /\ (f \notin embedCache => ~Exists(f))
      BY <1>1, <2>1, <2>3, Edits DEF Poller, Dropped
    <3>2. f \in embedCache
      BY <2>1, <2>3, <3>1 DEF Deps
    <3> QED
      BY <1>1, <2>1, <2>3, <3>1, <3>2, Edits DEF watched, built
  <2> QED
    BY <2>2, <2>3
<1>2. ASSUME NEW f \in todo, StatPage(f) PROVE EmbedsMade'
  BY <1>2 DEF StatPage, watched, built, history, Poller
<1>3. ASSUME NEW f \in todo, StatEmbed(f) PROVE EmbedsMade'
  BY <1>3 DEF StatEmbed, Found, built, Poller
<1>4. ASSUME NEW f \in todo, StatOther(f) PROVE EmbedsMade'
  BY <1>4 DEF StatOther, Found, built, history, Poller
<1>5. CASE WalkPages
  BY <1>5 DEF WalkPages, WalkFails, watched, built, Poller
<1>6. CASE NewPage
  BY <1>6 DEF NewPage, Read, Found, built, history, Poller
<1>7. CASE PageUnread
  BY <1>7 DEF PageUnread, Read, watched, built, history, Poller
<1>8. CASE PageTouched
  BY <1>8 DEF PageTouched, Read, built, history, Poller, Reading, Files
<1>9. CASE PageChanged
  BY <1>9 DEF PageChanged, Read, Found, built, history, Poller
<1>10. CASE SyncEmbedCache
  BY <1>10 DEF SyncEmbedCache, built, history, Poller, Files
<1>11. CASE WalkOthers
  BY <1>11 DEF WalkOthers, WalkFails, watched, built, Poller
<1>12. CASE EndRound
  BY <1>12 DEF EndRound, Deleted, built, history, Poller, Files
<1>13. CASE Generate
  <2>1. extDeps' \subseteq Files /\ tree' = Snapshot /\ UNCHANGED disk
    BY <1>13, Reads DEF Generate, Files
  <2> QED
    BY <2>1 DEF Snapshot
<1>14. CASE GenerateFails
  BY <1>14 DEF GenerateFails, watched, round, built, Poller
<1>15. CASE ConsumePending
  BY <1>15 DEF ConsumePending, watched, round, built, history, Poller
<1>16. CASE RestartWorks
  BY <1>16 DEF RestartWorks, watched, round, Poller
<1>17. CASE RestartFails
  BY <1>17 DEF RestartFails, watched, round, built, Poller
<1>18. CASE UNCHANGED vars
  BY <1>18 DEF vars, watched, round, built, history, Poller
<1> QED
  BY <1>1, <1>2, <1>3, <1>4, <1>5, <1>6, <1>7, <1>8, <1>9, <1>10, <1>11,
       <1>12, <1>13, <1>14, <1>15, <1>16, <1>17, <1>18 DEF Next, RunLoop,
       Cycle

LEMMA NextFmToBuild == IInv /\ [Next]_vars => FmToBuild'
<1> SUFFICES ASSUME IInv, [Next]_vars PROVE FmToBuild'
  OBVIOUS
<1> USE WatcherStateAssumption DEF IInv, TypeOK, Made, FmToBuild, ToBuild
<1>1. ASSUME NEW f \in Files, Edit(f) PROVE FmToBuild'
  <2> SUFFICES ASSUME ~hasty', ~late', ToBuild', NEW p \in Pages
               PROVE  (Frontmatter(tree[p]) \in {Frontmatter(Look(p)), Frontmatter(Known(p))})'
    BY DEF FmToBuild
  <2>1. ~hasty /\ UNCHANGED <<watched, pending, cycle, built, late, unbuilt>> /\ \A g \in Files \ {f} : disk'[g] = disk[g]
    BY <1>1, Edits
  <2>2. CASE p # f
    BY <2>1, <2>2 DEF watched, built, Files, Known, Look, Exists, Frontmatter
  <2>3. CASE p = f
    <3>1. Known(f) = Look(f)
      BY <1>1, <2>3, Edits, Reads DEF Poller, Seen, Stale, Known, Look, Exists, Files
    <3>2. Known(f)' = Known(f) /\ UNCHANGED <<tree, app>>
      BY <2>1 DEF watched, built, Known
    <3> QED
      BY <2>1, <2>3, <3>1, <3>2 DEF Frontmatter
  <2> QED
    BY <2>2, <2>3
<1>2. ASSUME NEW f \in todo, StatPage(f) PROVE FmToBuild'
  BY <1>2 DEF StatPage, watched, built, history, Escalate, Late, Files, Known,
       Look, Exists
<1>3. ASSUME NEW f \in todo, StatEmbed(f) PROVE FmToBuild'
  BY <1>3 DEF StatEmbed, Found, built, Escalate, Late, Files, Known, Look, Exists,
       Poller, Stages
<1>4. ASSUME NEW f \in todo, StatOther(f) PROVE FmToBuild'
  BY <1>4 DEF StatOther, Found, built, history, Escalate, Late, Files, Known, Look,
       Exists, Poller, Stages, Others
<1>5. CASE WalkPages
  BY <1>5 DEF WalkPages, WalkFails, watched, built, Escalate, Late, Files, Known,
       Look, Exists
<1>6. CASE NewPage
  BY <1>6 DEF NewPage, Read, Found, built, history, Escalate, Late, Files, Known,
       Look, Exists
<1>7. CASE PageUnread
  BY <1>7 DEF PageUnread, Read, watched, built, history, Escalate, Late, Files,
       Known, Look, Exists
<1>8. CASE PageTouched
  BY <1>8 DEF PageTouched, Read, built, history, Escalate, Late, Files, Known,
       Look, Exists
<1>9. CASE PageChanged
  <2> SUFFICES ASSUME ~hasty', ~late', ToBuild'
               PROVE  FmToBuild'
    BY DEF FmToBuild
  <2>1. PICK f \in Pages : f = info.file
    BY <1>9 DEF PageChanged, Read, Poller, Reading
  <2>2. ToBuild /\ ~late /\ ~hasty /\ Look(f).fm = fileContents[f].fm
    BY <1>9, <2>1 DEF PageChanged, Found, Escalate, Late
  <2>3. modTimes[f] # 0 /\ modTimes'[f] # 0 /\ fileContents'[f] = Look(f) /\ Look(f) \in Text
    BY <1>9, <2>1, Reads DEF PageChanged, Read, Found, Poller, Reading, Files
  <2>4. Frontmatter(Known(f))' = Frontmatter(Known(f))
    BY <2>2, <2>3, WatcherStateAssumption DEF Frontmatter, Known
  <2>5. \A p \in Pages \ {f} : Frontmatter(Known(p))' = Frontmatter(Known(p))
    BY <1>9, <2>1 DEF PageChanged, Found, Known, Files, Frontmatter
  <2>6. \A p \in Pages : Look(p)' = Look(p)
    BY <1>9 DEF PageChanged, Look, Exists
  <2>7. ASSUME NEW p \in Pages PROVE Frontmatter(Known(p))' = Frontmatter(Known(p))
    BY <2>4, <2>5
  <2> QED
    BY <1>9, <2>2, <2>6, <2>7 DEF PageChanged, built, history, Frontmatter
<1>10. CASE SyncEmbedCache
  BY <1>10 DEF SyncEmbedCache, built, history, Escalate, Late, Files, Known, Look,
       Exists
<1>11. CASE WalkOthers
  BY <1>11 DEF WalkOthers, WalkFails, watched, built, Escalate, Late, Files, Known,
       Look, Exists
<1>12. CASE EndRound
  BY <1>12 DEF EndRound, Deleted, built, history, Escalate, Late, Files, Known,
       Look, Exists
<1>13. CASE Generate
  <2>1. \A p \in Pages : tree'[p] = Look(p) /\ Look(p)' = Look(p)
    BY <1>13 DEF Generate, Snapshot, Look, Exists, Files
  <2> QED
    BY <2>1 DEF Frontmatter
<1>14. CASE GenerateFails
  BY <1>14 DEF GenerateFails, watched, round, built, Escalate, Late, Files, Known,
       Look, Exists
<1>15. CASE ConsumePending
  BY <1>15 DEF ConsumePending, watched, round, built, history, Escalate,
       Files, Known, Look, Exists
<1>16. CASE RestartWorks
  BY <1>16 DEF RestartWorks
<1>17. CASE RestartFails
  BY <1>17 DEF RestartFails, watched, round, built, Escalate, Late, Files, Known,
       Look, Exists
<1>18. CASE UNCHANGED vars
  BY <1>18 DEF vars, watched, round, built, history, Escalate, Late, Files, Known,
       Look, Exists
<1> QED
  BY <1>1, <1>2, <1>3, <1>4, <1>5, <1>6, <1>7, <1>8, <1>9, <1>10, <1>11,
       <1>12, <1>13, <1>14, <1>15, <1>16, <1>17, <1>18 DEF Next, RunLoop,
       Cycle

LEMMA NextEmbedsToBuild == IInv /\ [Next]_vars => EmbedsToBuild'
<1> SUFFICES ASSUME IInv, [Next]_vars PROVE EmbedsToBuild'
  OBVIOUS
<1> USE WatcherStateAssumption DEF IInv, TypeOK, Made, EmbedsToBuild, ToBuild
<1>1. ASSUME NEW f \in Files, Edit(f) PROVE EmbedsToBuild'
  <2> SUFFICES ASSUME ~hasty', ~late', ToBuild', NEW e \in extDeps' \ reloaded'
               PROVE  (tree[e] = Look(e) \/ (e \in embedCache /\ modTimes[e] # 0 /\ Stale(e)))'
    BY DEF EmbedsToBuild
  <2>1. /\ e \in extDeps
        /\ tree[e] = Look(e) \/ (e \in embedCache /\ modTimes[e] # 0 /\ Stale(e))
    BY <1>1, Edits DEF watched, built
  <2>2. CASE e # f
    BY <1>1, <2>1, <2>2, Edits DEF watched, built, Files, Look, Exists, Stale
  <2>3. CASE e = f
    <3>1. ~Stale(f) /\ tree[f] = Look(f) /\ tree[f] # Absent
      BY <1>1, <2>1, <2>3, Edits DEF Deps
    <3>2. modTimes[f] # 0
      BY <3>1 DEF Look, Exists, Stale
    <3>3. f \in embedCache
      BY <2>1, <2>3, <3>2 DEF Poller, Dropped
    <3> QED
      BY <1>1, <2>1, <2>3, <3>2, <3>3, Edits DEF watched, Stale
  <2> QED
    BY <2>2, <2>3
<1>2. ASSUME NEW f \in todo, StatPage(f) PROVE EmbedsToBuild'
  BY <1>2 DEF StatPage, watched, built, history, Escalate, Late, Files, Look,
       Exists, Stale
<1>3. ASSUME NEW f \in todo, StatEmbed(f) PROVE EmbedsToBuild'
  BY <1>3 DEF StatEmbed, Found, built, Escalate, Late, Files, Look, Exists, Stale,
       Poller, Reading, Stages, Owed
<1>4. ASSUME NEW f \in todo, StatOther(f) PROVE EmbedsToBuild'
  BY <1>4 DEF StatOther, Found, built, history, Escalate, Late, Files, Look,
       Exists, Stale, Poller, Stages, Others
<1>5. CASE WalkPages
  BY <1>5 DEF WalkPages, WalkFails, watched, built, Escalate, Late, Files, Look,
       Exists, Stale
<1>6. CASE NewPage
  BY <1>6 DEF NewPage, Read, Found, built, history, Escalate, Late, Files, Look,
       Exists, Stale, Poller, Reading, Stages, Owed
<1>7. CASE PageUnread
  BY <1>7 DEF PageUnread, Read, watched, built, history, Escalate, Late, Files,
       Look, Exists, Stale
<1>8. CASE PageTouched
  BY <1>8 DEF PageTouched, Read, built, history, Escalate, Late, Files, Look,
       Exists, Stale, Poller, Reading, Stages, Owed
<1>9. CASE PageChanged
  BY <1>9 DEF PageChanged, Read, Found, built, history, Escalate, Late, Files,
       Look, Exists, Stale, Poller, Reading, Stages,
       Owed
<1>10. CASE SyncEmbedCache
  BY <1>10 DEF SyncEmbedCache, built, history, Escalate, Late, Files, Look, Exists,
       Stale
<1>11. CASE WalkOthers
  BY <1>11 DEF WalkOthers, WalkFails, watched, built, Escalate, Late, Files, Look,
       Exists, Stale
<1>12. CASE EndRound
  BY <1>12 DEF EndRound, Deleted, built, history, Escalate, Late, Files, Look,
       Exists, Stale, Owed
<1>13. CASE Generate
  <2>1. extDeps' \subseteq Files /\ tree' = Snapshot /\ UNCHANGED disk
    BY <1>13, Reads DEF Generate, Files
  <2> QED
    BY <2>1 DEF Snapshot, Look, Exists
<1>14. CASE GenerateFails
  BY <1>14 DEF GenerateFails, watched, round, built, Escalate, Late, Files, Look,
       Exists, Stale
<1>15. CASE ConsumePending
  BY <1>15 DEF ConsumePending, watched, round, built, history, Escalate,
       Files, Look, Exists, Stale
<1>16. CASE RestartWorks
  BY <1>16 DEF RestartWorks
<1>17. CASE RestartFails
  BY <1>17 DEF RestartFails, watched, round, built, Escalate, Late, Files, Look,
       Exists, Stale
<1>18. CASE UNCHANGED vars
  BY <1>18 DEF vars, watched, round, built, history, Escalate, Late, Files, Look,
       Exists, Stale
<1> QED
  BY <1>1, <1>2, <1>3, <1>4, <1>5, <1>6, <1>7, <1>8, <1>9, <1>10, <1>11,
       <1>12, <1>13, <1>14, <1>15, <1>16, <1>17, <1>18 DEF Next, RunLoop,
       Cycle

LEMMA NextGoBuilt == IInv /\ [Next]_vars => GoBuilt'
<1> SUFFICES ASSUME IInv, [Next]_vars PROVE GoBuilt'
  OBVIOUS
<1> USE WatcherStateAssumption DEF IInv, TypeOK, Held, GoBuilt, Built, Look,
       Exists, Stale
<1>1. ASSUME NEW f \in Files, Edit(f) PROVE GoBuilt'
  <2> SUFFICES ASSUME Built', NEW g \in Go
               PROVE  (app[g] = Look(g) \/ Stale(g))'
    OBVIOUS
  <2>1. app[g] = Look(g) \/ Stale(g)
    BY <1>1, Edits
  <2>2. CASE g # f
    BY <1>1, <2>1, <2>2, Edits DEF watched, built, Files
  <2>3. CASE g = f
    BY <1>1, <2>3, Edits
  <2> QED
    BY <2>2, <2>3
<1>2. ASSUME NEW f \in todo, StatPage(f) PROVE GoBuilt'
  BY <1>2 DEF StatPage, watched, built, history, Escalate, Files
<1>3. ASSUME NEW f \in todo, StatEmbed(f) PROVE GoBuilt'
  BY <1>3 DEF StatEmbed, Found, built, Escalate, Files, Poller, Stages
<1>4. ASSUME NEW f \in todo, StatOther(f) PROVE GoBuilt'
  BY <1>4 DEF StatOther, Found, built, history, Escalate, Files, Poller,
       Stages
<1>5. CASE WalkPages
  BY <1>5 DEF WalkPages, WalkFails, watched, built, Escalate, Files
<1>6. CASE NewPage
  BY <1>6 DEF NewPage, Read, Found, built, history, Escalate, Files, Poller,
       Reading
<1>7. CASE PageUnread
  BY <1>7 DEF PageUnread, Read, watched, built, history, Escalate, Files
<1>8. CASE PageTouched
  BY <1>8 DEF PageTouched, Read, built, history, Escalate, Files, Poller,
       Reading
<1>9. CASE PageChanged
  BY <1>9 DEF PageChanged, Read, Found, built, history, Escalate, Files,
       Poller, Reading
<1>10. CASE SyncEmbedCache
  BY <1>10 DEF SyncEmbedCache, built, history, Escalate, Files
<1>11. CASE WalkOthers
  BY <1>11 DEF WalkOthers, WalkFails, watched, built, Escalate, Files
<1>12. CASE EndRound
  BY <1>12 DEF EndRound, Deleted, built, history, Escalate, Files
<1>13. CASE Generate
  BY <1>13 DEF Generate, round, Escalate, Files, Snapshot
<1>14. CASE GenerateFails
  BY <1>14 DEF GenerateFails, watched, round, built, Escalate, Files
<1>15. CASE ConsumePending
  BY <1>15 DEF ConsumePending, watched, round, built, history, Escalate,
       Files
<1>16. CASE RestartWorks
  BY <1>16 DEF RestartWorks, watched, round, Escalate, Files
<1>17. CASE RestartFails
  BY <1>17 DEF RestartFails, watched, round, built, Escalate, Files
<1>18. CASE UNCHANGED vars
  BY <1>18 DEF vars, watched, round, built, history, Escalate, Files
<1> QED
  BY <1>1, <1>2, <1>3, <1>4, <1>5, <1>6, <1>7, <1>8, <1>9, <1>10, <1>11,
       <1>12, <1>13, <1>14, <1>15, <1>16, <1>17, <1>18 DEF Next, RunLoop,
       Cycle

LEMMA NextFmBuilt == IInv /\ [Next]_vars => FmBuilt'
<1> SUFFICES ASSUME IInv, [Next]_vars PROVE FmBuilt'
  OBVIOUS
<1> USE WatcherStateAssumption DEF IInv, TypeOK, Held, FmBuilt, Built
<1>1. ASSUME NEW f \in Files, Edit(f) PROVE FmBuilt'
  <2> SUFFICES ASSUME Built', ~late', NEW p \in Pages
               PROVE  (/\ Frontmatter(app[p]) \in {Frontmatter(Look(p)), Frontmatter(Known(p))}
                       /\ Frontmatter(tree[p]) # Frontmatter(app[p]) =>
                            /\ Frontmatter(tree[p]) = Frontmatter(Look(p))
                            /\ Frontmatter(app[p]) = Frontmatter(Known(p)))'
    BY DEF FmBuilt
  <2>1. ~hasty /\ UNCHANGED <<watched, pending, cycle, built, late, unbuilt>> /\ \A g \in Files \ {f} : disk'[g] = disk[g]
    BY <1>1, Edits
  <2>2. CASE p # f
    BY <2>1, <2>2 DEF watched, built, Files, Known, Look, Exists, Frontmatter
  <2>3. CASE p = f
    <3>1. Known(f) = Look(f)
      BY <1>1, <2>3, Edits, Reads DEF Poller, Seen, Stale, Known, Look, Exists, Files
    <3>2. Known(f)' = Known(f) /\ UNCHANGED <<tree, app>>
      BY <2>1 DEF watched, built, Known
    <3> QED
      BY <2>1, <2>3, <3>1, <3>2 DEF Frontmatter
  <2> QED
    BY <2>2, <2>3
<1>2. ASSUME NEW f \in todo, StatPage(f) PROVE FmBuilt'
  BY <1>2 DEF StatPage, watched, built, history, Escalate, Files, Known,
       Look, Exists
<1>3. ASSUME NEW f \in todo, StatEmbed(f) PROVE FmBuilt'
  BY <1>3 DEF StatEmbed, Found, built, Escalate, Files, Known, Look, Exists,
       Poller, Stages
<1>4. ASSUME NEW f \in todo, StatOther(f) PROVE FmBuilt'
  BY <1>4 DEF StatOther, Found, built, history, Escalate, Files, Known, Look,
       Exists
<1>5. CASE WalkPages
  BY <1>5 DEF WalkPages, WalkFails, watched, built, Escalate, Files, Known,
       Look, Exists
<1>6. CASE NewPage
  BY <1>6 DEF NewPage, Read, Found, built, history, Escalate, Late, Files, Known,
       Look, Exists
<1>7. CASE PageUnread
  BY <1>7 DEF PageUnread, Read, watched, built, history, Escalate, Files,
       Known, Look, Exists
<1>8. CASE PageTouched
  BY <1>8 DEF PageTouched, Read, built, history, Escalate, Files, Known,
       Look, Exists
<1>9. CASE PageChanged
  <2> SUFFICES ASSUME Built', ~late'
               PROVE  FmBuilt'
    BY DEF FmBuilt
  <2>1. PICK f \in Pages : f = info.file
    BY <1>9 DEF PageChanged, Read, Poller, Reading
  <2>2. pending = "reload" /\ Look(f).fm = fileContents[f].fm
    BY <1>9, <2>1 DEF PageChanged, Found, Escalate
  <2>3. modTimes[f] # 0 /\ modTimes'[f] # 0 /\ fileContents'[f] = Look(f) /\ Look(f) \in Text
    BY <1>9, <2>1, Reads DEF PageChanged, Read, Found, Poller, Reading, Files
  <2>4. Frontmatter(Known(f))' = Frontmatter(Known(f))
    BY <2>2, <2>3, WatcherStateAssumption DEF Frontmatter, Known
  <2>5. \A p \in Pages \ {f} : Frontmatter(Known(p))' = Frontmatter(Known(p))
    BY <1>9, <2>1 DEF PageChanged, Found, Known, Files, Frontmatter
  <2>6. \A p \in Pages : Look(p)' = Look(p)
    BY <1>9 DEF PageChanged, Look, Exists
  <2>7. ASSUME NEW p \in Pages PROVE Frontmatter(Known(p))' = Frontmatter(Known(p))
    BY <2>4, <2>5
  <2> QED
    BY <1>9, <2>2, <2>6, <2>7 DEF PageChanged, Late, built, history, Frontmatter
<1>10. CASE SyncEmbedCache
  BY <1>10 DEF SyncEmbedCache, built, history, Escalate, Files, Known, Look,
       Exists
<1>11. CASE WalkOthers
  BY <1>11 DEF WalkOthers, WalkFails, watched, built, Escalate, Files, Known,
       Look, Exists
<1>12. CASE EndRound
  BY <1>12 DEF EndRound, Deleted, built, history, Escalate, Late, Files, Known,
       Look, Exists
<1>13. CASE Generate
  <2>1. \A p \in Pages : tree'[p] = Look(p) /\ Look(p)' = Look(p) /\ Known(p)' = Known(p)
    BY <1>13 DEF Generate, Snapshot, Look, Exists, Known, Files
  <2>2. CASE pending = "restart"
    BY <1>13, <2>1, <2>2 DEF Generate, Frontmatter
  <2>3. CASE pending = "reload"
    BY <1>13, <2>1, <2>3 DEF Generate, Frontmatter
  <2> QED
    BY <2>2, <2>3
<1>14. CASE GenerateFails
  BY <1>14 DEF GenerateFails, watched, round, built, Escalate, Files, Known,
       Look, Exists
<1>15. CASE ConsumePending
  BY <1>15 DEF ConsumePending, watched, round, built, history, Escalate,
       Files, Known, Look, Exists
<1>16. CASE RestartWorks
  <2> SUFFICES ASSUME Built', ~late', NEW p \in Pages
               PROVE  /\ Frontmatter(app[p])' \in {Frontmatter(Look(p))', Frontmatter(Known(p))'}
                      /\ tree'[p] = app'[p]
    BY DEF FmBuilt, Frontmatter
  <2>1. app'[p] = tree[p] /\ tree' = tree
    BY <1>16 DEF RestartWorks, Files
  <2>2. Look(p)' = Look(p) /\ Known(p)' = Known(p)
    BY <1>16 DEF RestartWorks, watched, Look, Exists, Known
  <2>3. Frontmatter(tree[p]) \in {Frontmatter(Look(p)), Frontmatter(Known(p))}
    BY <1>16 DEF RestartWorks, Made, FmToBuild, ToBuild
  <2> QED
    BY <2>1, <2>2, <2>3 DEF Frontmatter
<1>17. CASE RestartFails
  BY <1>17 DEF RestartFails, watched, round, built, Escalate, Files, Known,
       Look, Exists
<1>18. CASE UNCHANGED vars
  BY <1>18 DEF vars, watched, round, built, history, Escalate, Files, Known,
       Look, Exists
<1> QED
  BY <1>1, <1>2, <1>3, <1>4, <1>5, <1>6, <1>7, <1>8, <1>9, <1>10, <1>11,
       <1>12, <1>13, <1>14, <1>15, <1>16, <1>17, <1>18 DEF Next, RunLoop,
       Cycle

\* The embedded files are told from the frontmatters alone.
LEMMA SameDeps ==
  ASSUME NEW a \in [Files -> Text \cup {Absent}], NEW b \in [Files -> Text \cup {Absent}],
         \A p \in Pages : Frontmatter(a[p]) = Frontmatter(b[p])
  PROVE  DepsOf(a) = DepsOf(b)
<1>1. \A p \in Pages : /\ a[p] # Absent <=> b[p] # Absent
                       /\ a[p] # Absent => a[p].fm = b[p].fm
  BY WatcherStateAssumption DEF Frontmatter, Text, Files
<1> QED
  BY <1>1 DEF DepsOf

LEMMA NextEmbedsBuilt == IInv /\ [Next]_vars => EmbedsBuilt'
<1> SUFFICES ASSUME IInv, [Next]_vars PROVE EmbedsBuilt'
  OBVIOUS
<1> USE WatcherStateAssumption DEF IInv, TypeOK, Made, Held, EmbedsBuilt, Built
<1>1. ASSUME NEW f \in Files, Edit(f) PROVE EmbedsBuilt'
  <2> SUFFICES ASSUME Built', ~late', SameFm', NEW e \in extDeps' \ reloaded'
               PROVE  (app[e] = Look(e) \/ (e \in embedCache /\ modTimes[e] # 0 /\ Stale(e)))'
    BY DEF EmbedsBuilt
  <2>1. /\ e \in extDeps /\ SameFm
        /\ app[e] = Look(e) \/ (e \in embedCache /\ modTimes[e] # 0 /\ Stale(e))
    BY <1>1, Edits DEF watched, built, SameFm, Frontmatter
  <2>2. CASE e # f
    BY <1>1, <2>1, <2>2, Edits DEF watched, built, Files, Look, Exists, Stale
  <2>3. CASE e = f
    <3>1. DepsOf(tree) = DepsOf(app)
      BY <2>1, SameDeps DEF SameFm
    <3>2. ~Stale(f) /\ app[f] = Look(f) /\ app[f] # Absent
      BY <1>1, <2>1, <2>3, <3>1, Edits DEF Deps
    <3>3. modTimes[f] # 0
      BY <3>2 DEF Look, Exists, Stale
    <3>4. f \in embedCache
      BY <2>1, <2>3, <3>3 DEF Poller, Dropped
    <3> QED
      BY <1>1, <2>1, <2>3, <3>3, <3>4, Edits DEF watched, Stale
  <2> QED
    BY <2>2, <2>3
<1>2. ASSUME NEW f \in todo, StatPage(f) PROVE EmbedsBuilt'
  BY <1>2 DEF StatPage, watched, built, history, Escalate, Files, Look,
       Exists, Stale, SameFm, Frontmatter
<1>3. ASSUME NEW f \in todo, StatEmbed(f) PROVE EmbedsBuilt'
  BY <1>3 DEF StatEmbed, Found, built, Escalate, Files, Look, Exists, Stale,
       SameFm, Frontmatter, Poller, Reading, Stages, Owed
<1>4. ASSUME NEW f \in todo, StatOther(f) PROVE EmbedsBuilt'
  BY <1>4 DEF StatOther, Found, built, history, Escalate, Files, Look,
       Exists, Stale, SameFm, Frontmatter, Poller, Reading, Stages, Owed
<1>5. CASE WalkPages
  BY <1>5 DEF WalkPages, WalkFails, watched, built, Escalate, Files, Look,
       Exists, Stale, SameFm, Frontmatter
<1>6. CASE NewPage
  BY <1>6 DEF NewPage, Read, Found, built, history, Escalate, Late, Files, Look,
       Exists, Stale, SameFm, Frontmatter, Poller, Reading, Stages, Owed
<1>7. CASE PageUnread
  BY <1>7 DEF PageUnread, Read, watched, built, history, Escalate, Files,
       Look, Exists, Stale, SameFm, Frontmatter
<1>8. CASE PageTouched
  BY <1>8 DEF PageTouched, Read, built, history, Escalate, Files, Look,
       Exists, Stale, SameFm, Frontmatter, Poller, Reading, Stages, Owed
<1>9. CASE PageChanged
  BY <1>9 DEF PageChanged, Read, Found, built, history, Escalate, Late, Files,
       Look, Exists, Stale, SameFm, Frontmatter, Poller, Reading, Stages,
       Owed
<1>10. CASE SyncEmbedCache
  BY <1>10 DEF SyncEmbedCache, built, history, Escalate, Files, Look, Exists,
       Stale, SameFm, Frontmatter
<1>11. CASE WalkOthers
  BY <1>11 DEF WalkOthers, WalkFails, watched, built, Escalate, Files, Look,
       Exists, Stale, SameFm, Frontmatter
<1>12. CASE EndRound
  BY <1>12 DEF EndRound, Deleted, built, history, Escalate, Late, Files, Look,
       Exists, Stale, SameFm, Frontmatter, Owed
<1>13. CASE Generate
  <2> SUFFICES ASSUME Built', ~late', SameFm', NEW e \in extDeps' \ reloaded'
               PROVE  (app[e] = Look(e))' \/ (e \in embedCache /\ modTimes[e] # 0 /\ Stale(e))'
    BY DEF EmbedsBuilt
  <2>1. tree' = Snapshot /\ extDeps' = EmbedDeps /\ e \in Files
    BY <1>13, Reads DEF Generate, Files
  <2>2. pending = "reload" /\ app' = app /\ reloaded' = reloaded /\ Built /\ ~late
    BY <1>13 DEF Generate
  <2>3. \A p \in Pages : Frontmatter(Look(p)) = Frontmatter(app[p])
    BY <2>1, <2>2 DEF SameFm, Snapshot, Frontmatter, Files
  <2>4. SameFm
    BY <2>2, <2>3 DEF FmBuilt, SameFm
  <2>5. extDeps' = extDeps
    <3>1. \A p \in Pages : Frontmatter(tree[p]) = Frontmatter(Snapshot[p])
      BY <2>3, <2>4 DEF SameFm, Snapshot, Files
    <3>2. DepsOf(tree) = DepsOf(Snapshot)
      BY <3>1, Reads, SameDeps
    <3> QED
      BY <2>1, <3>2, Compiles DEF Deps
  <2> QED
    BY <1>13, <2>2, <2>4, <2>5 DEF Generate, round, EmbedsBuilt, Look, Exists, Stale
<1>14. CASE GenerateFails
  BY <1>14 DEF GenerateFails, watched, round, built, Escalate, Files, Look,
       Exists, Stale, SameFm, Frontmatter
<1>15. CASE ConsumePending
  BY <1>15 DEF ConsumePending, watched, round, built, history, Escalate,
       Files, Look, Exists, Stale, SameFm, Frontmatter
<1>16. CASE RestartWorks
  <2> SUFFICES ASSUME Built', ~late', NEW e \in extDeps' \ reloaded'
               PROVE  (app[e] = Look(e) \/ (e \in embedCache /\ modTimes[e] # 0 /\ Stale(e)))'
    BY DEF EmbedsBuilt
  <2>1. e \in extDeps \ reloaded /\ e \in Embeds /\ app'[e] = tree[e]
    BY <1>16 DEF RestartWorks, watched, Files
  <2>2. tree[e] = Look(e) \/ (e \in embedCache /\ modTimes[e] # 0 /\ Stale(e))
    BY <1>16, <2>1 DEF RestartWorks, EmbedsToBuild, ToBuild
  <2> QED
    BY <1>16, <2>1, <2>2 DEF RestartWorks, watched, Look, Exists, Stale
<1>17. CASE RestartFails
  BY <1>17 DEF RestartFails, watched, round, built, Escalate, Files, Look,
       Exists, Stale, SameFm, Frontmatter
<1>18. CASE UNCHANGED vars
  BY <1>18 DEF vars, watched, round, built, history, Escalate, Files, Look,
       Exists, Stale, SameFm, Frontmatter
<1> QED
  BY <1>1, <1>2, <1>3, <1>4, <1>5, <1>6, <1>7, <1>8, <1>9, <1>10, <1>11,
       <1>12, <1>13, <1>14, <1>15, <1>16, <1>17, <1>18 DEF Next, RunLoop,
       Cycle

-----------------------------------------------------------------------------
LEMMA InitIInv == Init => IInv
<1> SUFFICES ASSUME Init PROVE IInv
  OBVIOUS
<1> USE WatcherStateAssumption
<1>1. PICK fm \in SUBSET Embeds :
        disk = [f \in Files |-> [text |-> [NoText EXCEPT !.fm = IF f \in Pages THEN fm ELSE {}],
                                mtime |-> 1]]
  BY DEF Init
<1>2. \A f \in Files : /\ disk[f].mtime = 1 /\ Exists(f) /\ disk[f].text \in Text
                       /\ Look(f) = disk[f].text /\ disk[f] \in [text : Text, mtime : Nat]
  BY <1>1 DEF NoText, Text, Exists, Look
<1>3. disk \in [Files -> [text : Text, mtime : Nat]]
  BY <1>1, <1>2
<1>4. EmbedDeps \subseteq Embeds
  BY <1>2 DEF EmbedDeps, Text, Files
<1>5. TypeOK
  <2>1. Snapshot \in [Files -> Text \cup {Absent}] /\ fileContents \in [Pages -> Text]
    BY <1>2 DEF Init, Snapshot, Files
  <2>2. NoInfo \in [file : Files \cup {Absent}, mtime : Nat]
    BY DEF NoInfo
  <2> QED
    BY <1>3, <1>4, <2>1, <2>2 DEF Init, TypeOK
<1>6. Clock /\ Seen
  <2>1. edits = 0 /\ \A f \in Files : modTimes[f] \in {0, 1}
    BY DEF Init
  <2>2. Clock
    BY <1>2, <2>1 DEF Clock
  <2> QED
    BY <1>2, <2>2 DEF Init, Seen, Files
<1>7. Reading /\ Stages /\ Pending /\ Dropped
  BY <1>4 DEF Init, Reading, Stages, Pending, Dropped, Files
<1>8. Covered
  <2>1. \A f \in Watched : modTimes[f] = disk[f].mtime
    BY <1>2, <1>4 DEF Init, Watched, Others, Files
  <2> QED
    BY <2>1 DEF Init, Covered, Stale
<1>9. Deps
  BY <1>2, <1>4, <1>5, Compiles DEF Init, Deps, Files
<1>10. PagesMade /\ EmbedsMade /\ FmToBuild /\ EmbedsToBuild /\ GoBuilt /\ FmBuilt /\ EmbedsBuilt
  BY <1>4 DEF Init, PagesMade, EmbedsMade, FmToBuild, EmbedsToBuild, ToBuild, GoBuilt, FmBuilt, EmbedsBuilt, Snapshot, Files
<1> QED
  BY <1>5, <1>6, <1>7, <1>8, <1>9, <1>10 DEF IInv, Poller, Made, Held

LEMMA Inductive == Spec => []IInv
<1>1. IInv /\ [Next]_vars => IInv'
  <2> SUFFICES ASSUME IInv, [Next]_vars PROVE IInv'
    OBVIOUS
  <2>1. TypeOK'
    BY NextTypeOK
  <2>2. Poller'
    BY NextClock, NextSeen, NextReading, NextStages, NextPending, NextDropped, NextCovered DEF Poller
  <2>3. Made'
    BY NextDeps, NextPagesMade, NextEmbedsMade, NextFmToBuild, NextEmbedsToBuild DEF Made
  <2>4. Held'
    BY NextGoBuilt, NextFmBuilt, NextEmbedsBuilt DEF Held
  <2> QED
    BY <2>1, <2>2, <2>3, <2>4 DEF IInv
<1> QED
  BY InitIInv, <1>1, PTL DEF Spec

\* The poller's variables have their types, for any set of files.
THEOREM TypeCorrect == Spec => []TypeOK
<1>1. IInv => TypeOK
  BY DEF IInv
<1> QED
  BY Inductive, <1>1, PTL

-----------------------------------------------------------------------------
(* At rest.                                                                *)

\* After a round with no edit no file the poller watches is stale.
LEMMA NoneStale ==
  ASSUME IInv, AtRest
  PROVE  \A f \in Watched : modTimes[f] = disk[f].mtime
  BY DEF IInv, Poller, Stages, Covered, Ahead, AtRest, Stale

LEMMA Knows == IInv => KnowsDisk
<1> SUFFICES ASSUME IInv, AtRest, embedCache = extDeps, NEW f \in Files
             PROVE  IF f \in Embeds \ extDeps THEN modTimes[f] = 0 ELSE modTimes[f] = disk[f].mtime
  BY DEF KnowsDisk
<1>1. CASE f \in Embeds \ extDeps
  BY <1>1 DEF IInv, Poller, Dropped
<1>2. CASE f \notin Embeds \ extDeps
  BY <1>2, NoneStale DEF Watched, Others, Files
<1> QED
  BY <1>1, <1>2

LEMMA RestFresh == IInv => Fresh
<1> SUFFICES ASSUME IInv, AtRest, ~failed, ~hasty
             PROVE  /\ TreeFresh
                    /\ ~unbuilt => \A f \in Go : app[f] = Look(f)
                    /\ ~unbuilt /\ ~late => CodeFresh
  BY Knows DEF Fresh
<1> USE DEF IInv, Poller, Made, Held
<1>1. ~Owed /\ pending = "reload" /\ (~unbuilt => Built)
  BY DEF AtRest, Owed, Stages, Pending, TypeOK, Built
<1>2. \A f \in Watched : ~Stale(f)
  BY NoneStale DEF Stale
<1>3. \A p \in Pages : Known(p) = Look(p)
  <2> SUFFICES ASSUME NEW p \in Pages PROVE Known(p) = Look(p)
    OBVIOUS
  <2>1. modTimes[p] = disk[p].mtime
    BY NoneStale DEF Watched
  <2> QED
    BY <2>1 DEF Known, Look, Exists, Seen, Stale
<1>4. \A p \in Pages : tree[p] = Look(p)
  BY <1>1, <1>3 DEF PagesMade
<1>5. EmbedDeps = extDeps
  <2>1. \A p \in Pages : Frontmatter(tree[p]) = Frontmatter(Snapshot[p])
    BY <1>4 DEF Snapshot, Files
  <2>2. DepsOf(tree) = DepsOf(Snapshot)
    BY <2>1, Reads, SameDeps DEF TypeOK
  <2> QED
    BY <2>2, Compiles DEF Deps
<1>6. \A e \in EmbedDeps : tree[e] = Look(e)
  BY <1>1, <1>2, <1>5 DEF EmbedsMade, Watched
<1>7. ~unbuilt => \A f \in Go : app[f] = Look(f)
  BY <1>1, <1>2 DEF GoBuilt, Watched, Others
<1>8. ~unbuilt /\ ~late => \A p \in Pages : Frontmatter(app[p]) = Frontmatter(Look(p))
  BY <1>1, <1>3 DEF FmBuilt
<1>9. ~unbuilt /\ ~late => SameFm
  BY <1>4, <1>8 DEF SameFm
<1>10. ~unbuilt /\ ~late => \A e \in EmbedDeps \ reloaded : app[e] = Look(e)
  BY <1>1, <1>2, <1>5, <1>9 DEF EmbedsBuilt, Watched
<1> QED
  BY <1>4, <1>6, <1>7, <1>8, <1>10 DEF TreeFresh, CodeFresh

\* A round without an edit, and the cycles that were asked for, leave the poller
\* knowing the disk, .gastro/ made from it, and the application built from the Go
\* files and the code that the disk calls for, with the exceptions Fresh names,
\* for any set of pages, embedded, static and Go files and any number of edits
\* between any two file operations or two steps of a cycle.
THEOREM FreshHolds == Spec => []Fresh
  BY Inductive, RestFresh, PTL
=============================================================================
