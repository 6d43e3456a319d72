------------------------ MODULE LspDiagnosticsProofs ------------------------
(***************************************************************************)
(* The diagnostics the editor shows are those of both sources, and a       *)
(* document at rest has left no probe line and no stale type behind, for   *)
(* any number of texts, background runs and retries.                       *)
(***************************************************************************)
EXTENDS LspDiagnostics, TLAPS

\* What a run carries at each of its places, whatever it has crossed.
JobInv(p) ==
  /\ job[p].pc \notin {"idle", "sleep"} => job[p].doc # None
  /\ job[p].pc \in {"idle", "sleep", "syncFile", "syncNotify", "query"} =>
       job[p].types = None /\ job[p].fields = None
  /\ p = Main => job[p].pc # "sleep"
  /\ job[p].pc \in {"syncFile", "syncNotify"} => p = Main

\* What a run has found out it found out about the virtual file as it is.
JobClean(p) ==
  /\ job[p].types \in {None, vfile} /\ job[p].fields \in {None, vfile}
  /\ job[p].pc \in {"probing", "restore"} => job[p].vf = vfile

\* As long as no run has crossed a message: runs only go on once the main loop
\* has returned, so that the virtual file changes under none of them.
Clean ==
  /\ job[Main].pc # "idle" => \A r \in Runs : job[r].pc = "idle"
  /\ doc = None => Idle /\ typeCache = None /\ fieldCache = None
  /\ \A p \in Procs : JobClean(p)
  /\ typeCache \in {None, vfile} /\ fieldCache \in {None, vfile}
  /\ job[Main].pc \in {"syncFile", "syncNotify"} => typeCache = None /\ fieldCache = None
  /\ job[Main].pc = "syncNotify" => job[Main].doc = vfile
  /\ job[Main].pc # "syncNotify" => text.of = vfile
  /\ text.probe = TRUE => \E p \in Procs : job[p].pc \in {"probing", "restore"}

IInv ==
  /\ TypeOK /\ ShownIsMerged
  /\ \A p \in Procs : JobInv(p)
  /\ crossed = FALSE => Clean

-----------------------------------------------------------------------------

LEMMA Constant ==
  /\ Main \in Procs /\ Runs \subseteq Procs /\ Main \notin Runs
  /\ \A p \in Procs : p = Main \/ p \in Runs
  /\ None \notin Version /\ None \in Maybe /\ Version \subseteq Maybe
  /\ \A v \in Maybe : v # None => v \in Version
  /\ MaxRetries \in Nat /\ MaxVersion \in Nat
BY LspDiagnosticsAssumption DEF LspDiagnosticsAssumption, Procs, Version, Maybe

\* The parts of a job, and the jobs made from them.
LEMMA Parts ==
  /\ \A j \in Job : /\ j.pc \in Places /\ j.doc \in Maybe /\ j.types \in Maybe
                    /\ j.vf \in Maybe /\ j.fields \in Maybe
  /\ NoJob \in Job
  /\ NoJob.pc = "idle" /\ NoJob.doc = None /\ NoJob.types = None /\ NoJob.fields = None
BY Constant DEF Job, NoJob, Places

\* A step of one goroutine.
LEMMA Moved ==
  ASSUME job \in [Procs -> Job], NEW p \in Procs, NEW j \in Job, job' = [job EXCEPT ![p] = j]
  PROVE  /\ job' \in [Procs -> Job]
         /\ \A q \in Procs : job'[q] = IF q = p THEN j ELSE job[q]
OBVIOUS

\* The type invariant, variable by variable.
LEMMA Typed ==
  TypeOK <=>
    /\ version \in 0 .. MaxVersion
    /\ doc \in Maybe /\ vfile \in Maybe
    /\ typeCache \in Maybe /\ fieldCache \in Maybe /\ goplsDiags \in Maybe
    /\ templateDiags \in Diags
    /\ retries \in 0 .. MaxRetries
    /\ job \in [Procs -> Job]
    /\ text \in [of : Maybe, probe : BOOLEAN]
    /\ shown \in [gopls : Maybe, template : Diags]
    /\ stale \in BOOLEAN /\ ready \in BOOLEAN /\ loaded \in BOOLEAN /\ warm \in BOOLEAN
    /\ due \in BOOLEAN /\ crossed \in BOOLEAN /\ flipped \in BOOLEAN
BY Zenon DEF TypeOK

-----------------------------------------------------------------------------
(* The steps of a run.                                                     *)

Syncing == {"syncFile", "syncNotify"}

\* A run that goes on, from a place past the sync to a job j, keeps all but the
\* types and what is shown.
LEMMA Kept ==
  ASSUME IInv, NEW p \in Procs, NEW j \in Job, job' = [job EXCEPT ![p] = j],
         job[p].pc \notin Syncing \cup {"idle"}, j.pc \notin Syncing,
         UNCHANGED <<version, doc, vfile, history>>,
         j.pc \notin {"idle", "sleep"} => j.doc # None,
         j.pc \in {"idle", "sleep", "query"} => j.types = None /\ j.fields = None,
         p = Main => j.pc # "sleep",
         Clean => /\ j.types \in {None, vfile} /\ j.fields \in {None, vfile}
                  /\ j.pc \in {"probing", "restore"} => j.vf = vfile
                  /\ typeCache' \in {None, vfile} /\ fieldCache' \in {None, vfile}
                  /\ text'.of = vfile,
         text'.probe = TRUE =>
           \/ j.pc \in {"probing", "restore"}
           \/ text.probe = TRUE /\ job[p].pc \notin {"probing", "restore"}
  PROVE  (\A q \in Procs : JobInv(q)') /\ (crossed' = FALSE => Clean')
<1>1. /\ job' \in [Procs -> Job]
      /\ \A q \in Procs : job'[q] = IF q = p THEN j ELSE job[q]
  BY Moved DEF IInv, TypeOK
<1>2. \A q \in Procs : JobInv(q)'
  BY <1>1 DEF IInv, JobInv, Syncing
<1>3. ASSUME crossed' = FALSE PROVE Clean'
  <2>1. Clean /\ doc' = doc /\ vfile' = vfile
    BY <1>3 DEF IInv, history
  <2>2. doc # None
    BY <2>1 DEF Clean, Idle
  <2>3. job'[Main].pc # "idle" => \A r \in Runs : job'[r].pc = "idle"
    BY <1>1, <2>1, Constant DEF Clean
  <2>4. job'[Main].pc \notin Syncing
    BY <1>1, <2>1, Constant DEF Clean, Syncing
  <2>5. \A q \in Procs : JobClean(q)'
    BY <1>1, <2>1 DEF Clean, JobClean
  <2>6. text'.probe = TRUE => \E q \in Procs : job'[q].pc \in {"probing", "restore"}
    BY <1>1, <2>1 DEF Clean
  <2> QED
    BY <2>1, <2>2, <2>3, <2>4, <2>5, <2>6 DEF Clean, Syncing
<1> QED
  BY <1>2, <1>3

LEMMA Facts ==
  ASSUME IInv, NEW p \in Procs
  PROVE  /\ job \in [Procs -> Job] /\ job[p] \in Job /\ JobInv(p)
         /\ job[p].doc \in Maybe /\ job[p].types \in Maybe /\ job[p].fields \in Maybe
         /\ job[p].vf \in Maybe
         /\ doc \in Maybe /\ vfile \in Maybe /\ typeCache \in Maybe /\ fieldCache \in Maybe
         /\ text \in [of : Maybe, probe : BOOLEAN] /\ text.of \in Maybe
         /\ goplsDiags \in Maybe /\ templateDiags \in Diags /\ retries \in 0 .. MaxRetries
         /\ Clean => /\ JobClean(p)
                     /\ job[p].pc \notin Syncing \cup {"idle"} => text.of = vfile
<1>1. TypeOK /\ job \in [Procs -> Job] /\ job[p] \in Job /\ JobInv(p)
  BY DEF IInv, TypeOK
<1>2. Clean => JobClean(p)
  BY DEF Clean
<1>3. ASSUME Clean, job[p].pc \notin Syncing \cup {"idle"} PROVE text.of = vfile
  BY <1>3, Constant DEF Clean, Syncing
<1> QED
  BY <1>1, <1>2, <1>3, Parts, Typed

\* A step that shows nothing new.
LEMMA StillMerged ==
  ASSUME IInv, NEW p \in Procs, job'[Main].pc = "idle" => job[Main].pc = "idle",
         UNCHANGED <<doc, shown, goplsDiags, templateDiags>>
  PROVE  ShownIsMerged'
BY DEF IInv, ShownIsMerged

LEMMA QueriesTypes ==
  ASSUME IInv, NEW p \in Procs, QueryTypes(p)
  PROVE  IInv'
<1> DEFINE found == IF loaded /\ vfile # None THEN text.of ELSE None
           j == IF typeCache # None THEN [job[p] EXCEPT !.pc = "walk", !.types = typeCache]
                ELSE [job[p] EXCEPT !.pc = "keepTypes", !.types = found]
<1>0. /\ job[p].pc = "query" /\ job[p].types = None /\ job[p].fields = None
      /\ job[p].doc # None
      /\ UNCHANGED <<version, doc, vfile, caches, results, ready, gopls, history>>
      /\ job' = [job EXCEPT ![p] = j]
  BY Facts DEF QueryTypes, JobInv
<1>1. found \in Maybe /\ (Clean => found \in {None, vfile})
  BY <1>0, Facts, Constant DEF Syncing
<1> HIDE DEF found
<1>2. /\ j \in Job /\ j.pc \in {"walk", "keepTypes"} /\ j.doc = job[p].doc
      /\ j.types \in {typeCache, found} /\ j.fields = None
  BY <1>0, <1>1, Facts DEF Job, Places
<1> HIDE DEF j
<1>3. /\ job' \in [Procs -> Job]
      /\ \A q \in Procs : job'[q] = IF q = p THEN j ELSE job[q]
  BY <1>0, <1>2, Facts, Moved
<1>4. TypeOK'
  BY <1>0, <1>3 DEF IInv, TypeOK, caches, results, gopls, history
<1>5. ShownIsMerged'
  BY <1>0, <1>2, <1>3, Constant, StillMerged DEF results
<1>6. (\A q \in Procs : JobInv(q)') /\ (crossed' = FALSE => Clean')
  <2>1. UNCHANGED <<typeCache, fieldCache, text, version, doc, vfile, history>>
    BY <1>0 DEF caches, gopls
  <2>2. Clean => typeCache \in {None, vfile} /\ fieldCache \in {None, vfile} /\ text.of = vfile
    BY <1>0, Facts DEF Clean, Syncing
  <2> QED
    BY <1>0, <1>1, <1>2, <2>1, <2>2, Kept DEF Syncing
<1> QED
  BY <1>4, <1>5, <1>6 DEF IInv

LEMMA KeepsTypes ==
  ASSUME IInv, NEW p \in Procs, KeepTypes(p)
  PROVE  IInv'
<1> DEFINE j == [job[p] EXCEPT !.pc = "walk"]
<1>0. /\ job[p].pc = "keepTypes" /\ job[p].doc # None
      /\ UNCHANGED <<version, doc, vfile, fieldCache, results, ready, gopls, history>>
      /\ job' = [job EXCEPT ![p] = j]
      /\ typeCache' \in {typeCache, job[p].types}
  BY Facts DEF KeepTypes, Goto, JobInv
<1>2. /\ j \in Job /\ j.pc = "walk" /\ j.doc = job[p].doc
      /\ j.types = job[p].types /\ j.fields = job[p].fields
  BY Facts DEF Job, Places
<1> HIDE DEF j
<1>3. /\ job' \in [Procs -> Job]
      /\ \A q \in Procs : job'[q] = IF q = p THEN j ELSE job[q]
  BY <1>0, <1>2, Facts, Moved
<1>4. TypeOK'
  <2>1. typeCache' \in Maybe
    BY <1>0, Facts
  <2> QED
    BY <1>0, <1>3, <2>1 DEF IInv, TypeOK, results, gopls, history
<1>5. ShownIsMerged'
  BY <1>0, <1>2, <1>3, Constant, StillMerged DEF results
<1>6. (\A q \in Procs : JobInv(q)') /\ (crossed' = FALSE => Clean')
  <2>1. UNCHANGED <<fieldCache, text, version, doc, vfile, history>>
    BY <1>0 DEF gopls
  <2>2. Clean => /\ typeCache' \in {None, vfile} /\ fieldCache \in {None, vfile} /\ text.of = vfile
                 /\ JobClean(p)
    BY <1>0, Facts DEF Clean, Syncing, JobClean
  <2> QED
    BY <1>0, <1>2, <2>1, <2>2, Kept DEF Syncing, JobClean
<1> QED
  BY <1>4, <1>5, <1>6 DEF IInv

LEMMA Walks ==
  ASSUME IInv, NEW p \in Procs, Walk(p)
  PROVE  IInv'
<1> DEFINE f == IF job[p].types = None THEN None ELSE fieldCache
           j == [job[p] EXCEPT !.pc = "finish", !.fields = f]
<1>0. /\ job[p].pc = "walk" /\ job[p].doc # None
      /\ UNCHANGED <<version, doc, vfile, caches, results, ready, gopls, history>>
      /\ job' = [job EXCEPT ![p] = j]
  BY Facts DEF Walk, JobInv
<1>1. f \in {None, fieldCache} /\ f \in Maybe
  BY Facts, Constant
<1> HIDE DEF f
<1>2. /\ j \in Job /\ j.pc = "finish" /\ j.doc = job[p].doc
      /\ j.types = job[p].types /\ j.fields = f
  BY <1>1, Facts DEF Job, Places
<1> HIDE DEF j
<1>3. /\ job' \in [Procs -> Job]
      /\ \A q \in Procs : job'[q] = IF q = p THEN j ELSE job[q]
  BY <1>0, <1>2, Facts, Moved
<1>4. TypeOK'
  BY <1>0, <1>3, Facts DEF IInv, TypeOK, caches, results, gopls, history
<1>5. ShownIsMerged'
  BY <1>0, <1>2, <1>3, Constant, StillMerged DEF results
<1>6. (\A q \in Procs : JobInv(q)') /\ (crossed' = FALSE => Clean')
  <2>1. UNCHANGED <<typeCache, fieldCache, text, version, doc, vfile, history>>
    BY <1>0 DEF caches, gopls
  <2>2. Clean => /\ typeCache \in {None, vfile} /\ fieldCache \in {None, vfile} /\ text.of = vfile
                 /\ JobClean(p)
    BY <1>0, Facts DEF Clean, Syncing
  <2> QED
    BY <1>0, <1>1, <1>2, <2>1, <2>2, Kept DEF Syncing, JobClean
<1> QED
  BY <1>4, <1>5, <1>6 DEF IInv

LEMMA Told ==
  ASSUME NEW of \in Maybe, NEW probe \in BOOLEAN, Tell(of, probe)
  PROVE  text' \in [of : Maybe, probe : BOOLEAN] /\ text'.of = of /\ text'.probe = probe
         /\ due' \in BOOLEAN
BY DEF Tell

LEMMA Probes ==
  ASSUME IInv, NEW p \in Procs, Probe(p)
  PROVE  IInv'
<1> DEFINE j == [job[p] EXCEPT !.pc = "probing", !.vf = vfile]
<1>0. /\ job[p].pc = "walk" /\ job[p].doc # None
      /\ UNCHANGED <<version, doc, vfile, caches, results, ready, loaded, warm, history>>
      /\ job' = [job EXCEPT ![p] = j]
      /\ Tell(vfile, TRUE)
  BY Facts DEF Probe, JobInv
<1>1. text' \in [of : Maybe, probe : BOOLEAN] /\ text'.of = vfile /\ due' \in BOOLEAN
  BY <1>0, Facts, Told
<1>2. /\ j \in Job /\ j.pc = "probing" /\ j.doc = job[p].doc /\ j.vf = vfile
      /\ j.types = job[p].types /\ j.fields = job[p].fields
  BY <1>0, Facts DEF Job, Places
<1> HIDE DEF j
<1>3. /\ job' \in [Procs -> Job]
      /\ \A q \in Procs : job'[q] = IF q = p THEN j ELSE job[q]
  BY <1>0, <1>2, Facts, Moved
<1>4. TypeOK'
  BY <1>0, <1>1, <1>3, Facts DEF IInv, TypeOK, caches, results, history
<1>5. ShownIsMerged'
  BY <1>0, <1>2, <1>3, Constant, StillMerged DEF results
<1>6. (\A q \in Procs : JobInv(q)') /\ (crossed' = FALSE => Clean')
  <2>1. UNCHANGED <<typeCache, fieldCache, version, doc, vfile, history>>
    BY <1>0 DEF caches
  <2>2. Clean => /\ typeCache \in {None, vfile} /\ fieldCache \in {None, vfile}
                 /\ JobClean(p)
    BY <1>0, Facts DEF Clean
  <2> QED
    BY <1>0, <1>1, <1>2, <2>1, <2>2, Kept DEF Syncing, JobClean
<1> QED
  BY <1>4, <1>5, <1>6 DEF IInv

LEMMA ProbesAnswered ==
  ASSUME IInv, NEW p \in Procs, ProbeAnswered(p)
  PROVE  IInv'
<1> PICK found \in BOOLEAN :
      job' = [job EXCEPT ![p] = [@ EXCEPT !.pc = "restore",
                                          !.fields = IF found THEN text.of ELSE None]]
  BY DEF ProbeAnswered
<1> DEFINE f == IF found THEN text.of ELSE None
           j == [job[p] EXCEPT !.pc = "restore", !.fields = f]
<1>0. /\ job[p].pc = "probing" /\ job[p].doc # None
      /\ UNCHANGED <<version, doc, vfile, caches, results, ready, gopls, history>>
      /\ job' = [job EXCEPT ![p] = j]
  BY Facts DEF ProbeAnswered, JobInv
<1>1. f \in Maybe /\ (Clean => f \in {None, vfile})
  BY <1>0, Facts, Constant DEF Syncing
<1> HIDE DEF f
<1>2. /\ j \in Job /\ j.pc = "restore" /\ j.doc = job[p].doc /\ j.vf = job[p].vf
      /\ j.types = job[p].types /\ j.fields = f
  BY <1>1, Facts DEF Job, Places
<1> HIDE DEF j
<1>3. /\ job' \in [Procs -> Job]
      /\ \A q \in Procs : job'[q] = IF q = p THEN j ELSE job[q]
  BY <1>0, <1>2, Facts, Moved
<1>4. TypeOK'
  BY <1>0, <1>3, Facts DEF IInv, TypeOK, caches, results, gopls, history
<1>5. ShownIsMerged'
  BY <1>0, <1>2, <1>3, Constant, StillMerged DEF results
<1>6. (\A q \in Procs : JobInv(q)') /\ (crossed' = FALSE => Clean')
  <2>1. UNCHANGED <<typeCache, fieldCache, text, version, doc, vfile, history>>
    BY <1>0 DEF caches, gopls
  <2>2. Clean => /\ typeCache \in {None, vfile} /\ fieldCache \in {None, vfile} /\ text.of = vfile
                 /\ JobClean(p)
    BY <1>0, Facts DEF Clean, Syncing
  <2> QED
    BY <1>0, <1>1, <1>2, <2>1, <2>2, Kept, ZenonT(30) DEF Syncing, JobClean
<1> QED
  BY <1>4, <1>5, <1>6 DEF IInv

LEMMA Restores ==
  ASSUME IInv, NEW p \in Procs, Restore(p)
  PROVE  IInv'
<1> DEFINE j == [job[p] EXCEPT !.pc = "keepFields"]
<1>0. /\ job[p].pc = "restore" /\ job[p].doc # None
      /\ UNCHANGED <<version, doc, vfile, caches, results, ready, loaded, warm, history>>
      /\ job' = [job EXCEPT ![p] = j]
      /\ Tell(job[p].vf, FALSE)
  BY Facts DEF Restore, Goto, JobInv
<1>1. /\ text' \in [of : Maybe, probe : BOOLEAN] /\ text'.of = job[p].vf /\ text'.probe = FALSE
      /\ due' \in BOOLEAN
  BY <1>0, Facts, Told
<1>2. /\ j \in Job /\ j.pc = "keepFields" /\ j.doc = job[p].doc
      /\ j.types = job[p].types /\ j.fields = job[p].fields
  BY <1>0, Facts DEF Job, Places
<1> HIDE DEF j
<1>3. /\ job' \in [Procs -> Job]
      /\ \A q \in Procs : job'[q] = IF q = p THEN j ELSE job[q]
  BY <1>0, <1>2, Facts, Moved
<1>4. TypeOK'
  BY <1>0, <1>1, <1>3, Facts DEF IInv, TypeOK, caches, results, history
<1>5. ShownIsMerged'
  BY <1>0, <1>2, <1>3, Constant, StillMerged DEF results
<1>6. (\A q \in Procs : JobInv(q)') /\ (crossed' = FALSE => Clean')
  <2>1. UNCHANGED <<typeCache, fieldCache, version, doc, vfile, history>>
    BY <1>0 DEF caches
  <2>2. Clean => /\ typeCache \in {None, vfile} /\ fieldCache \in {None, vfile}
                 /\ JobClean(p) /\ text'.of = vfile
    BY <1>0, <1>1, Facts DEF Clean, JobClean
  <2> QED
    BY <1>0, <1>1, <1>2, <2>1, <2>2, Kept DEF Syncing, JobClean
<1> QED
  BY <1>4, <1>5, <1>6 DEF IInv

LEMMA KeepsFields ==
  ASSUME IInv, NEW p \in Procs, KeepFields(p)
  PROVE  IInv'
<1> DEFINE j == [job[p] EXCEPT !.pc = "finish"]
<1>0. /\ job[p].pc = "keepFields" /\ job[p].doc # None
      /\ UNCHANGED <<version, doc, vfile, typeCache, results, ready, gopls, history>>
      /\ job' = [job EXCEPT ![p] = j]
      /\ fieldCache' \in {fieldCache, job[p].fields}
  BY Facts DEF KeepFields, Goto, JobInv
<1>2. /\ j \in Job /\ j.pc = "finish" /\ j.doc = job[p].doc
      /\ j.types = job[p].types /\ j.fields = job[p].fields
  BY Facts DEF Job, Places
<1> HIDE DEF j
<1>3. /\ job' \in [Procs -> Job]
      /\ \A q \in Procs : job'[q] = IF q = p THEN j ELSE job[q]
  BY <1>0, <1>2, Facts, Moved
<1>4. TypeOK'
  <2>1. fieldCache' \in Maybe
    BY <1>0, Facts
  <2> QED
    BY <1>0, <1>3, <2>1 DEF IInv, TypeOK, results, gopls, history
<1>5. ShownIsMerged'
  BY <1>0, <1>2, <1>3, Constant, StillMerged DEF results
<1>6. (\A q \in Procs : JobInv(q)') /\ (crossed' = FALSE => Clean')
  <2>1. UNCHANGED <<typeCache, text, version, doc, vfile, history>>
    BY <1>0 DEF gopls
  <2>2. Clean => /\ typeCache \in {None, vfile} /\ fieldCache' \in {None, vfile} /\ text.of = vfile
                 /\ JobClean(p)
    BY <1>0, Facts DEF Clean, Syncing, JobClean
  <2> QED
    BY <1>0, <1>2, <2>1, <2>2, Kept DEF Syncing, JobClean
<1> QED
  BY <1>4, <1>5, <1>6 DEF IInv

-----------------------------------------------------------------------------
(* The steps that show a result.                                           *)

LEMMA FailsToParse ==
  ASSUME IInv, NEW p \in Procs, ParseFails(p)
  PROVE  IInv'
<1>0. /\ job[p].pc = "query" /\ job[p].doc # None
      /\ UNCHANGED <<version, doc, vfile, caches, goplsDiags, stale, retries, ready, gopls, history>>
      /\ job' = [job EXCEPT ![p] = NoJob]
      /\ shown' = [gopls |-> goplsDiags, template |-> templateDiags']
      /\ templateDiags' = [of |-> job[p].doc, with |-> "parse error"]
  BY Facts DEF ParseFails, Merged, JobInv
<1>1. templateDiags' \in Diags
  BY <1>0, Facts, Constant DEF Diags
<1>2. shown' \in [gopls : Maybe, template : Diags]
  BY <1>0, <1>1, Facts
<1>3. /\ job' \in [Procs -> Job]
      /\ \A q \in Procs : job'[q] = IF q = p THEN NoJob ELSE job[q]
  BY <1>0, Facts, Moved, Parts
<1>4. TypeOK'
  BY <1>0, <1>1, <1>2, <1>3 DEF IInv, TypeOK, caches, gopls, history
<1>5. ShownIsMerged'
  BY <1>0 DEF ShownIsMerged
<1>6. (\A q \in Procs : JobInv(q)') /\ (crossed' = FALSE => Clean')
  <2>1. UNCHANGED <<typeCache, fieldCache, text, version, doc, vfile, history>>
    BY <1>0 DEF caches, gopls
  <2>2. Clean => typeCache \in {None, vfile} /\ fieldCache \in {None, vfile} /\ text.of = vfile
    BY <1>0, Facts DEF Clean, Syncing
  <2> QED
    BY <1>0, <2>1, <2>2, Kept, Parts DEF Syncing
<1> QED
  BY <1>4, <1>5, <1>6 DEF IInv

LEMMA Stores ==
  ASSUME IInv, NEW p \in Procs, Store(p)
  PROVE  /\ job[p].pc = "finish"
         /\ UNCHANGED <<version, doc, vfile, typeCache, fieldCache, goplsDiags, ready,
                        text, loaded, warm, due, crossed, flipped>>
         /\ shown' = [gopls |-> goplsDiags, template |-> templateDiags']
         /\ templateDiags' \in Diags /\ shown' \in [gopls : Maybe, template : Diags]
         /\ SawEmptyResolve(p) \in BOOLEAN /\ ShownIsMerged'
<1>1. /\ job[p].pc = "finish" /\ job[p].doc # None
      /\ UNCHANGED <<version, doc, vfile, caches, goplsDiags, ready, gopls, history>>
      /\ shown' = [gopls |-> goplsDiags, template |-> templateDiags']
      /\ \E w \in {"types", "no types"} : templateDiags' = [of |-> job[p].doc, with |-> w]
  BY Facts DEF Store, Merged, JobInv
<1>2. templateDiags' \in Diags
  <2>1. job[p].doc \in Version
    BY <1>1, Facts, Constant
  <2>2. PICK w \in {"types", "no types"} : templateDiags' = [of |-> job[p].doc, with |-> w]
    BY <1>1
  <2> QED
    BY <2>1, <2>2 DEF Diags
<1>3. shown' \in [gopls : Maybe, template : Diags]
  BY <1>1, <1>2, Facts
<1> QED
  BY <1>1, <1>2, <1>3 DEF caches, gopls, history, ShownIsMerged, SawEmptyResolve

LEMMA Finishes ==
  ASSUME IInv, NEW p \in Procs, Finish(p)
  PROVE  IInv'
<1>0. /\ Store(p) /\ job' = [job EXCEPT ![p] = NoJob]
      /\ stale' = Stale(p) /\ retries' \in {retries, 0}
  BY DEF Finish
<1>1. /\ job[p].pc = "finish"
      /\ UNCHANGED <<version, doc, vfile, typeCache, fieldCache, goplsDiags, ready,
                     text, loaded, warm, due, crossed, flipped>>
      /\ templateDiags' \in Diags /\ shown' \in [gopls : Maybe, template : Diags]
      /\ ShownIsMerged'
  BY <1>0, Stores
<1>2. stale' \in BOOLEAN
  BY <1>0, Zenon DEF Stale
<1>3. /\ job' \in [Procs -> Job]
      /\ \A q \in Procs : job'[q] = IF q = p THEN NoJob ELSE job[q]
  BY <1>0, Facts, Moved, Parts
<1>4. TypeOK'
  <2>1. retries' \in 0 .. MaxRetries
    BY <1>0, Facts, Constant
  <2> QED
    BY <1>1, <1>2, <1>3, <2>1 DEF IInv, TypeOK
<1>6. (\A q \in Procs : JobInv(q)') /\ (crossed' = FALSE => Clean')
  <2>2. Clean => typeCache \in {None, vfile} /\ fieldCache \in {None, vfile} /\ text.of = vfile
    BY <1>1, Facts DEF Clean, Syncing
  <2> QED
    BY <1>0, <1>1, <2>2, Kept, Parts DEF Syncing, history
<1> QED
  BY <1>1, <1>4, <1>6 DEF IInv

\* A job that waits for gopls to warm up carries nothing yet.
LEMMA Sleeper ==
  /\ [NoJob EXCEPT !.pc = "sleep"] \in Job
  /\ [NoJob EXCEPT !.pc = "sleep"].pc = "sleep"
  /\ [NoJob EXCEPT !.pc = "sleep"].types = None
  /\ [NoJob EXCEPT !.pc = "sleep"].fields = None
BY Parts DEF Job, Places, NoJob

LEMMA RetriesItself ==
  ASSUME IInv, NEW p \in Procs, NEW r \in Runs, SelfRetry(p, r)
  PROVE  IInv'
<1> DEFINE s == [NoJob EXCEPT !.pc = "sleep"]
<1>0. /\ Store(p) /\ stale' = FALSE /\ retries' = retries + 1 /\ retries < MaxRetries
      /\ r = p \/ job[r].pc = "idle"
      /\ job' = [q \in Procs |-> IF q = r THEN s ELSE IF q = p THEN NoJob ELSE job[q]]
  BY DEF SelfRetry
<1>1. /\ job[p].pc = "finish"
      /\ UNCHANGED <<version, doc, vfile, typeCache, fieldCache, goplsDiags, ready,
                     text, loaded, warm, due, crossed, flipped>>
      /\ templateDiags' \in Diags /\ shown' \in [gopls : Maybe, template : Diags]
      /\ ShownIsMerged'
  BY <1>0, Stores
<1>2. s \in Job /\ s.pc = "sleep" /\ s.types = None /\ s.fields = None
  BY Sleeper
<1> HIDE DEF s
<1>3. /\ job' \in [Procs -> Job]
      /\ \A q \in Procs : job'[q] = IF q = r THEN s ELSE IF q = p THEN NoJob ELSE job[q]
  BY <1>0, <1>2, Facts, Parts
<1>4. TypeOK'
  <2>1. retries' \in 0 .. MaxRetries
    BY <1>0, Facts, Constant
  <2> QED
    BY <1>0, <1>1, <1>3, <2>1 DEF IInv, TypeOK
<1>5. \A q \in Procs : JobInv(q)'
  <2>1. \A q \in Procs : JobInv(q)
    BY DEF IInv
  <2> QED
    BY <1>2, <1>3, <2>1, Parts, Constant DEF JobInv
<1>6. ASSUME crossed' = FALSE PROVE Clean'
  <2>1. Clean
    BY <1>1, <1>6 DEF IInv
  <2>2. doc # None /\ job'[Main].pc \in {"idle", job[Main].pc} /\ job[Main].pc \notin Syncing
    BY <1>1, <1>3, <2>1, Parts, Constant DEF Clean, Idle, Syncing
  <2>3. job'[Main].pc # "idle" => \A q \in Runs : job'[q].pc = "idle"
    BY <1>1, <1>3, <2>1, Parts, Constant DEF Clean
  <2>4. \A q \in Procs : JobClean(q)'
    BY <1>1, <1>2, <1>3, <2>1, Parts DEF Clean, JobClean
  <2>5. text'.probe = TRUE => \E q \in Procs : job'[q].pc \in {"probing", "restore"}
    BY <1>0, <1>1, <1>3, <2>1, Constant DEF Clean
  <2> QED
    BY <1>1, <2>1, <2>2, <2>3, <2>4, <2>5 DEF Clean, Syncing
<1> QED
  BY <1>1, <1>4, <1>5, <1>6 DEF IInv

LEMMA Awakes ==
  ASSUME IInv, NEW p \in Procs, Awake(p)
  PROVE  IInv'
<1> DEFINE j == IF doc = None THEN NoJob ELSE [NoJob EXCEPT !.pc = "query", !.doc = doc]
<1>0. /\ job[p].pc = "sleep"
      /\ UNCHANGED <<version, doc, vfile, caches, results, ready, gopls, history>>
      /\ job' = [job EXCEPT ![p] = j]
  BY DEF Awake
<1>2. /\ j \in Job /\ j.pc \in {"idle", "query"} /\ (j.pc = "query" => j.doc # None)
      /\ j.types = None /\ j.fields = None
  BY Facts, Parts DEF Job, Places, NoJob
<1> HIDE DEF j
<1>3. /\ job' \in [Procs -> Job]
      /\ \A q \in Procs : job'[q] = IF q = p THEN j ELSE job[q]
  BY <1>0, <1>2, Facts, Moved
<1>4. TypeOK'
  BY <1>0, <1>3 DEF IInv, TypeOK, caches, results, gopls, history
<1>5. ShownIsMerged'
  <2>1. p # Main
    BY <1>0, Facts DEF JobInv
  <2> QED
    BY <1>0, <2>1, <1>3, Constant, StillMerged DEF results
<1>6. (\A q \in Procs : JobInv(q)') /\ (crossed' = FALSE => Clean')
  <2>1. UNCHANGED <<typeCache, fieldCache, text, version, doc, vfile, history>>
    BY <1>0 DEF caches, gopls
  <2>2. Clean => typeCache \in {None, vfile} /\ fieldCache \in {None, vfile} /\ text.of = vfile
    BY <1>0, Facts DEF Clean, Syncing
  <2> QED
    BY <1>0, <1>2, <2>1, <2>2, Kept DEF Syncing
<1> QED
  BY <1>4, <1>5, <1>6 DEF IInv

-----------------------------------------------------------------------------
(* The main loop.                                                          *)

LEMMA Sleepless ==
  ASSUME IInv, Idle
  PROVE  /\ \A p \in Procs : job[p].types = None /\ job[p].fields = None
         /\ Clean => text.probe # TRUE /\ text.of = vfile
<1>1. \A p \in Procs : JobInv(p) /\ job[p].pc = "idle"
  BY DEF IInv, Idle
<1> QED
  BY <1>1, Constant DEF JobInv, Clean

\* A message that crosses no run finds everybody idle.
LEMMA Messages ==
  ASSUME IInv, Message
  PROVE  /\ job[Main].pc = "idle" /\ crossed' \in BOOLEAN
         /\ crossed' = FALSE => Idle /\ Clean
<1>1. crossed' \in BOOLEAN /\ (crossed' = FALSE => ~crossed /\ Idle)
  BY Zenon DEF Message
<1>2. crossed \in BOOLEAN
  BY Typed DEF IInv
<1> QED
  BY <1>1, <1>2 DEF Message, IInv

LEMMA TextsArrive ==
  ASSUME IInv, DidOpen \/ DidChange
  PROVE  IInv'
<1> DEFINE v == version + 1
           j == [NoJob EXCEPT !.pc = "syncFile", !.doc = v]
<1>0. /\ Message /\ version < MaxVersion
      /\ version' = v /\ doc' = v
      /\ job' = [job EXCEPT ![Main] = j]
      /\ UNCHANGED <<vfile, templateDiags, goplsDiags, stale, shown, ready, text, loaded, warm, due,
                     flipped>>
      /\ \/ doc = None /\ UNCHANGED <<typeCache, fieldCache, retries>>
         \/ typeCache' = None /\ fieldCache' = None /\ retries' = 0
  BY DEF DidOpen, DidChange, NewText, caches, results, gopls
<1>1. v \in Version /\ v \in 0 .. MaxVersion /\ v # None /\ v \in Maybe
  BY <1>0, Typed, Constant DEF IInv, Version
<1> HIDE DEF v
<1>2. /\ j \in Job /\ j.pc = "syncFile" /\ j.doc = v /\ j.types = None /\ j.fields = None
  BY <1>1, Parts, Constant DEF Job, Places, NoJob
<1> HIDE DEF j
<1>3. /\ job' \in [Procs -> Job]
      /\ \A q \in Procs : job'[q] = IF q = Main THEN j ELSE job[q]
  BY <1>0, <1>2, Facts, Moved, Constant
<1>4. TypeOK'
  <2>1. /\ typeCache' \in Maybe /\ fieldCache' \in Maybe /\ retries' \in 0 .. MaxRetries
        /\ crossed' \in BOOLEAN
    <3>1. typeCache \in Maybe /\ fieldCache \in Maybe /\ retries \in 0 .. MaxRetries
      BY Facts, Constant
    <3>2. 0 \in 0 .. MaxRetries /\ None \in Maybe
      BY Constant
    <3>3. typeCache' \in Maybe /\ fieldCache' \in Maybe /\ retries' \in 0 .. MaxRetries
      BY <1>0, <3>1, <3>2
    <3> QED
      BY <1>0, <3>3, Messages
  <2>2. {doc', vfile', typeCache', fieldCache', goplsDiags'} \subseteq Maybe
    BY <1>0, <1>1, <2>1 DEF IInv, TypeOK
  <2>3. {stale', ready', loaded', warm', due', crossed', flipped'} \subseteq BOOLEAN
    <3>1. UNCHANGED <<stale, ready, loaded, warm, due, flipped>>
      BY <1>0
    <3> QED
      BY <3>1, <2>1 DEF IInv, TypeOK
  <2>4. version' \in 0 .. MaxVersion /\ UNCHANGED <<templateDiags, text, shown>>
    BY <1>0, <1>1
  <2> QED
    BY <1>3, <2>1, <2>2, <2>3, <2>4 DEF IInv, TypeOK
<1>5. ShownIsMerged'
  BY <1>2, <1>3, Constant DEF ShownIsMerged
<1>6. \A q \in Procs : JobInv(q)'
  BY <1>1, <1>2, <1>3 DEF IInv, JobInv
<1>7. ASSUME crossed' = FALSE PROVE Clean'
  <2>1. Idle /\ Clean
    BY <1>0, <1>7, Messages
  <2>2. typeCache' = None /\ fieldCache' = None
    BY <1>0, <2>1 DEF Clean
  <2>3. /\ \A q \in Procs : JobClean(q)'
        /\ \A r \in Runs : job'[r].pc = "idle"
        /\ job'[Main].pc = "syncFile" /\ text'.probe # TRUE /\ text'.of = vfile'
    BY <1>0, <1>2, <1>3, <2>1, Sleepless, Constant DEF JobClean, Idle
  <2> QED
    BY <1>0, <1>1, <2>2, <2>3 DEF Clean
<1> QED
  BY <1>4, <1>5, <1>6, <1>7 DEF IInv

LEMMA Closes ==
  ASSUME IInv, DidClose
  PROVE  IInv'
<1>0. /\ Message /\ doc' = None /\ typeCache' = None /\ fieldCache' = None
      /\ templateDiags' = None /\ goplsDiags' = None /\ stale' = FALSE /\ retries' = 0
      /\ UNCHANGED <<version, vfile, shown, ready, job, text, loaded, warm, due, flipped>>
  BY DEF DidClose, gopls
<1>1. crossed' \in BOOLEAN /\ (crossed' = FALSE => Idle /\ Clean)
  BY <1>0, Messages
<1>2. TypeOK'
  <2>1. None \in Diags /\ None \in Maybe /\ 0 \in 0 .. MaxRetries
    BY Constant DEF Diags
  <2>2. {doc', vfile', typeCache', fieldCache', goplsDiags'} \subseteq Maybe
    BY <1>0, <2>1 DEF IInv, TypeOK
  <2>3. {stale', ready', loaded', warm', due', crossed', flipped'} \subseteq BOOLEAN
    BY <1>0, <1>1 DEF IInv, TypeOK
  <2> QED
    BY <1>0, <2>1, <2>2, <2>3 DEF IInv, TypeOK
<1>3. ShownIsMerged' /\ \A q \in Procs : JobInv(q)'
  BY <1>0 DEF IInv, ShownIsMerged, JobInv
<1>4. ASSUME crossed' = FALSE PROVE Clean'
  BY <1>0, <1>1, <1>4 DEF Clean, JobClean, Idle
<1> QED
  BY <1>2, <1>3, <1>4 DEF IInv

LEMMA SyncsFile ==
  ASSUME IInv, SyncFile
  PROVE  IInv'
<1> DEFINE j == [job[Main] EXCEPT !.pc = IF job[Main].doc \in Malformed THEN "query" ELSE "syncNotify"]
<1>0. /\ job[Main].pc = "syncFile" /\ job[Main].doc # None
      /\ job[Main].types = None /\ job[Main].fields = None
      /\ UNCHANGED <<version, doc, caches, results, ready, gopls, history>>
      /\ job' = [job EXCEPT ![Main] = j]
      /\ vfile' = IF job[Main].doc \in Malformed THEN vfile ELSE job[Main].doc
  BY Facts, Constant DEF SyncFile, Goto, JobInv
<1>2. /\ j \in Job /\ j.doc = job[Main].doc /\ j.types = None /\ j.fields = None
      /\ \/ j.pc = "query" /\ vfile' = vfile
         \/ j.pc = "syncNotify" /\ vfile' = job[Main].doc
  BY <1>0, Facts, Constant DEF Job, Places
<1> HIDE DEF j
<1>3. /\ job' \in [Procs -> Job]
      /\ \A q \in Procs : job'[q] = IF q = Main THEN j ELSE job[q]
  BY <1>0, <1>2, Facts, Moved, Constant
<1>4. TypeOK'
  <2>1. vfile' \in Maybe
    BY <1>2, Facts, Constant
  <2> QED
    BY <1>0, <1>3, <2>1 DEF IInv, TypeOK, caches, results, gopls, history
<1>5. ShownIsMerged'
  BY <1>2, <1>3, Constant DEF ShownIsMerged
<1>6. \A q \in Procs : JobInv(q)'
  BY <1>0, <1>2, <1>3 DEF IInv, JobInv
<1>7. ASSUME crossed' = FALSE PROVE Clean'
  <2>1. Clean /\ doc' = doc /\ text' = text /\ typeCache' = typeCache /\ fieldCache' = fieldCache
    BY <1>0, <1>7 DEF IInv, history, caches, gopls
  <2>2. /\ \A r \in Runs : job[r].pc = "idle"
        /\ typeCache = None /\ fieldCache = None /\ text.of = vfile /\ doc # None
    BY <1>0, <2>1, Constant DEF Clean, Idle
  <2>3. \A q \in Procs : JobInv(q)
    BY DEF IInv
  <2>4. \A q \in Procs : JobClean(q)'
    BY <1>2, <1>3, <2>2, <2>3, Constant DEF JobInv, JobClean
  <2>5. text.probe # TRUE
    BY <1>0, <2>1, <2>2, Constant DEF Clean
  <2> QED
    BY <1>2, <1>3, <2>1, <2>2, <2>4, <2>5, Constant DEF Clean
<1> QED
  BY <1>4, <1>5, <1>6, <1>7 DEF IInv

LEMMA SyncNotifies ==
  ASSUME IInv, SyncNotify
  PROVE  IInv'
<1> DEFINE j == [job[Main] EXCEPT !.pc = "query"]
<1>0. /\ job[Main].pc = "syncNotify" /\ job[Main].doc # None
      /\ job[Main].types = None /\ job[Main].fields = None
      /\ UNCHANGED <<version, doc, vfile, caches, results, ready, loaded, warm, history>>
      /\ job' = [job EXCEPT ![Main] = j]
      /\ Tell(job[Main].doc, FALSE)
  BY Facts, Constant DEF SyncNotify, Goto, JobInv
<1>1. /\ text' \in [of : Maybe, probe : BOOLEAN] /\ text'.of = job[Main].doc /\ text'.probe = FALSE
      /\ due' \in BOOLEAN
  BY <1>0, Facts, Told, Constant
<1>2. /\ j \in Job /\ j.doc = job[Main].doc /\ j.types = None /\ j.fields = None /\ j.pc = "query"
  BY <1>0, Facts, Constant DEF Job, Places
<1> HIDE DEF j
<1>3. /\ job' \in [Procs -> Job]
      /\ \A q \in Procs : job'[q] = IF q = Main THEN j ELSE job[q]
  BY <1>0, <1>2, Facts, Moved, Constant
<1>4. TypeOK'
  BY <1>0, <1>1, <1>3 DEF IInv, TypeOK, caches, results, history
<1>5. ShownIsMerged'
  BY <1>2, <1>3, Constant DEF ShownIsMerged
<1>6. \A q \in Procs : JobInv(q)'
  BY <1>0, <1>2, <1>3 DEF IInv, JobInv
<1>7. ASSUME crossed' = FALSE PROVE Clean'
  <2>1. Clean /\ doc' = doc /\ vfile' = vfile /\ typeCache' = typeCache /\ fieldCache' = fieldCache
    BY <1>0, <1>7 DEF IInv, history, caches
  <2>2. /\ \A r \in Runs : job[r].pc = "idle"
        /\ typeCache = None /\ fieldCache = None /\ job[Main].doc = vfile /\ doc # None
    BY <1>0, <2>1, Constant DEF Clean, Idle
  <2>4. \A q \in Procs : JobClean(q)'
    BY <1>2, <1>3, <2>1 DEF Clean, JobClean
  <2> QED
    BY <1>1, <1>2, <1>3, <2>1, <2>2, <2>4, Constant DEF Clean
<1> QED
  BY <1>4, <1>5, <1>6, <1>7 DEF IInv

-----------------------------------------------------------------------------
(* gopls.                                                                  *)

LEMMA Warms ==
  ASSUME IInv, GoplsLoads \/ GoplsWarms
  PROVE  IInv'
<1>1. /\ UNCHANGED <<version, doc, vfile, caches, results, ready, job, text, due, history>>
      /\ loaded' \in {loaded, TRUE} /\ warm' \in {warm, TRUE}
  BY DEF GoplsLoads, GoplsWarms
<1>2. TypeOK'
  BY <1>1 DEF IInv, TypeOK, caches, results, history
<1>3. ShownIsMerged' /\ \A q \in Procs : JobInv(q)'
  BY <1>1 DEF IInv, ShownIsMerged, JobInv, results
<1>4. ASSUME crossed' = FALSE PROVE Clean'
  BY <1>1, <1>4 DEF IInv, Clean, JobClean, Idle, caches, history
<1> QED
  BY <1>2, <1>3, <1>4 DEF IInv

\* A re-run that starts while the main loop is under way crosses it.
LEMMA Reruns ==
  ASSUME IInv, GoplsPublishes, doc # None, Rerun
  PROVE  IInv'
<1> DEFINE j == [NoJob EXCEPT !.pc = "query", !.doc = doc]
<1>0. PICK r \in Runs :
        /\ job[r].pc = "idle" /\ job' = [job EXCEPT ![r] = j]
        /\ stale' = FALSE /\ retries' = retries + 1 /\ retries < MaxRetries
        /\ goplsDiags' = text.of /\ templateDiags' = templateDiags
        /\ shown' = [gopls |-> text.of, template |-> templateDiags]
        /\ ready' = TRUE /\ due' = FALSE
        /\ UNCHANGED <<version, doc, vfile, caches, text, loaded, warm>>
        /\ crossed' = (crossed \/ job[Main].pc # "idle")
  BY DEF GoplsPublishes, Rerun
<1>1. flipped' \in BOOLEAN
  BY Zenon DEF GoplsPublishes
<1>2. crossed' \in BOOLEAN /\ (crossed' = FALSE => ~crossed /\ job[Main].pc = "idle")
  BY <1>0, Zenon
<1>3. j \in Job /\ j.pc = "query" /\ j.doc = doc /\ j.types = None /\ j.fields = None
  BY Facts, Parts, Constant DEF Job, Places, NoJob
<1> HIDE DEF j
<1>4. /\ job' \in [Procs -> Job]
      /\ \A q \in Procs : job'[q] = IF q = r THEN j ELSE job[q]
  BY <1>0, <1>3, Facts, Moved, Constant
<1>5. TypeOK'
  <2>1. retries' \in 0 .. MaxRetries
    BY <1>0, Facts, Constant
  <2>2. shown' \in [gopls : Maybe, template : Diags] /\ goplsDiags' \in Maybe
    BY <1>0, Facts, Constant
  <2> QED
    BY <1>0, <1>1, <1>2, <1>4, <2>1, <2>2, ZenonT(30) DEF IInv, TypeOK, caches
<1>6. ShownIsMerged'
  BY <1>0 DEF ShownIsMerged
<1>7. \A q \in Procs : JobInv(q)'
  BY <1>0, <1>3, <1>4, Constant DEF IInv, JobInv
<1>8. ASSUME crossed' = FALSE PROVE Clean'
  <2>1. Clean /\ job[Main].pc = "idle" /\ job'[Main] = job[Main]
    BY <1>2, <1>4, <1>8, Constant DEF IInv
  <2>2. UNCHANGED <<doc, vfile, typeCache, fieldCache, text>>
    BY <1>0 DEF caches
  <2>3. \A q \in Procs : JobClean(q)'
    BY <1>3, <1>4, <2>1, <2>2 DEF Clean, JobClean
  <2>4. text'.probe = TRUE => \E q \in Procs : job'[q].pc \in {"probing", "restore"}
    BY <1>0, <1>4, <2>1, <2>2 DEF Clean
  <2> QED
    BY <2>1, <2>2, <2>3, <2>4 DEF Clean
<1> QED
  BY <1>5, <1>6, <1>7, <1>8 DEF IInv

LEMMA Publishes ==
  ASSUME IInv, GoplsPublishes
  PROVE  IInv'
<1>1. CASE doc = None
  <2>1. UNCHANGED <<version, doc, vfile, caches, results, ready, job, text, loaded, warm, history>>
        /\ due' = FALSE
    BY <1>1 DEF GoplsPublishes
  <2>2. TypeOK'
    BY <2>1 DEF IInv, TypeOK, caches, results, history
  <2>3. ShownIsMerged' /\ \A q \in Procs : JobInv(q)'
    BY <2>1 DEF IInv, ShownIsMerged, JobInv, results
  <2>4. crossed' = FALSE => Clean'
    BY <2>1 DEF IInv, Clean, JobClean, Idle, caches, history
  <2> QED
    BY <2>2, <2>3, <2>4 DEF IInv
<1>2. CASE doc # None /\ Rerun
  BY <1>2, Reruns
<1>3. CASE doc # None /\ ~Rerun
  <2>1. /\ UNCHANGED <<version, doc, vfile, caches, text, loaded, warm, stale, retries, job, crossed,
                       templateDiags>>
        /\ goplsDiags' = text.of /\ ready' = TRUE /\ due' = FALSE
        /\ shown' = [gopls |-> text.of, template |-> templateDiags]
    BY <1>3 DEF GoplsPublishes
  <2>2. flipped' \in BOOLEAN
    BY <1>3, Zenon DEF GoplsPublishes
  <2>3. shown' \in [gopls : Maybe, template : Diags] /\ goplsDiags' \in Maybe
    BY <2>1, Facts, Constant
  <2>4. TypeOK'
    BY <2>1, <2>2, <2>3 DEF IInv, TypeOK, caches
  <2>5. ShownIsMerged' /\ \A q \in Procs : JobInv(q)'
    BY <2>1 DEF IInv, ShownIsMerged, JobInv
  <2>6. crossed' = FALSE => Clean'
    BY <2>1 DEF IInv, Clean, JobClean, Idle, caches
  <2> QED
    BY <2>4, <2>5, <2>6 DEF IInv
<1> QED
  BY <1>1, <1>2, <1>3

-----------------------------------------------------------------------------
(* The theorems.                                                           *)

LEMMA Start == Init => IInv
<1> SUFFICES ASSUME Init PROVE IInv
  OBVIOUS
<1>1. /\ version = 0 /\ doc = None /\ vfile = None /\ typeCache = None /\ fieldCache = None
      /\ templateDiags = None /\ goplsDiags = None /\ stale = FALSE /\ retries = 0 /\ ready = FALSE
      /\ job = [p \in Procs |-> NoJob]
      /\ text = [of |-> None, probe |-> FALSE]
      /\ loaded = FALSE /\ warm = FALSE /\ due = FALSE
      /\ shown = [gopls |-> None, template |-> None]
      /\ crossed = FALSE /\ flipped = FALSE
  BY DEF Init
<1>2. job \in [Procs -> Job] /\ \A p \in Procs : job[p] = NoJob
  BY <1>1, Parts
<1>3. TypeOK
  <2>1. None \in Diags /\ None \in Maybe /\ 0 \in 0 .. MaxRetries /\ 0 \in 0 .. MaxVersion
    BY Constant DEF Diags
  <2>2. {doc, vfile, typeCache, fieldCache, goplsDiags} \subseteq Maybe
    BY <1>1, <2>1
  <2>3. {stale, ready, loaded, warm, due, crossed, flipped} \subseteq BOOLEAN
    BY <1>1
  <2>4. text \in [of : Maybe, probe : BOOLEAN] /\ shown \in [gopls : Maybe, template : Diags]
    BY <1>1, <2>1
  <2> QED
    BY <1>1, <1>2, <2>1, <2>2, <2>3, <2>4 DEF TypeOK
<1>4. ShownIsMerged /\ \A p \in Procs : JobInv(p)
  BY <1>1, <1>2, Parts DEF ShownIsMerged, JobInv
<1>5. Clean
  BY <1>1, <1>2, Parts, Constant DEF Clean, JobClean, Idle
<1> QED
  BY <1>3, <1>4, <1>5 DEF IInv

LEMMA Steps ==
  ASSUME IInv, NEW p \in Procs, Step(p)
  PROVE  IInv'
<1>1. ASSUME NEW r \in Runs, SelfRetry(p, r) PROVE IInv'
  BY <1>1, RetriesItself
<1> QED
  BY <1>1, FailsToParse, QueriesTypes, KeepsTypes, Walks, Probes, ProbesAnswered, Restores, KeepsFields,
     Finishes, Awakes, SyncsFile, SyncNotifies
     DEF Step

LEMMA Preserved == IInv /\ [Next]_vars => IInv'
<1> SUFFICES ASSUME IInv, [Next]_vars PROVE IInv'
  OBVIOUS
<1>1. ASSUME NEW p \in Procs, Step(p) PROVE IInv'
  BY <1>1, Steps
<1>2. CASE UNCHANGED vars
  <2>1. UNCHANGED <<version, doc, vfile, typeCache, fieldCache, templateDiags, goplsDiags, stale,
                    retries, shown, ready, job, text, loaded, warm, due, crossed, flipped>>
    BY <1>2 DEF vars, caches, results, gopls, history
  <2> QED
    BY <2>1 DEF IInv, TypeOK, ShownIsMerged, JobInv, Clean, JobClean, Idle
<1> QED
  BY <1>1, <1>2, TextsArrive, Closes, Warms, Publishes DEF Next

LEMMA Inductive == Spec => []IInv
BY Start, Preserved, PTL DEF Spec

\* A run carries a text, types and fields that some text of the editor had, and
\* is in one of its places (diagnostics.go, runTemplateDiagnostics).
THEOREM TypeCorrect == Spec => []TypeOK
<1>1. IInv => TypeOK
  BY DEF IInv
<1> QED
  BY <1>1, Inductive, PTL

\* The editor shows the latest results of both sources, for any number of
\* background runs (diagnostics.go, publishMergedDiagnostics).
THEOREM ShownIsMergedHolds == Spec => []ShownIsMerged
<1>1. IInv => ShownIsMerged
  BY DEF IInv
<1> QED
  BY <1>1, Inductive, PTL

\* A document at rest has no probe line in gopls' copy and no type of another
\* text in its caches, if no run crossed a message (gopls.go,
\* restoreVirtualFile; handlers.go, handleDidChange).
THEOREM SettledCleanHolds == Spec => []SettledClean
<1>1. IInv => SettledClean
  <2> SUFFICES ASSUME IInv, Settled
               PROVE  /\ text = [of |-> doc, probe |-> FALSE]
                      /\ {typeCache, fieldCache} \subseteq {None, doc}
    BY DEF SettledClean
  <2>1. Idle /\ vfile = doc /\ Clean
    BY Typed DEF Settled, IInv
  <2>2. text.probe # TRUE /\ text.of = doc
    BY <2>1, Sleepless
  <2>3. text \in [of : Maybe, probe : BOOLEAN]
    BY DEF IInv, TypeOK
  <2> QED
    BY <2>1, <2>2, <2>3 DEF Clean
<1> QED
  BY <1>1, Inductive, PTL
=============================================================================
