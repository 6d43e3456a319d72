--------------------------- MODULE LspDiagnostics ---------------------------
(***************************************************************************)
(* The language server's diagnostics of one document.  Three kinds of      *)
(* goroutine compute and publish them: the main loop, on every didOpen and *)
(* didChange; the reader of gopls' messages; and re-runs in the            *)
(* background, because gopls answers hovers and completions with nothing   *)
(* until it has loaded the package.                                        *)
(*                                                                         *)
(* A text is its version.  The document exports a variable and ranges over *)
(* its fields, so a run needs the variable's type (hover) and its fields   *)
(* (a probe line put into the virtual file, completed, taken out again).   *)
(***************************************************************************)
EXTENDS Naturals

CONSTANTS Main,        \* the main loop
          Runs,        \* background goroutines alive at one time
          MaxVersion,  \* bound on the texts the editor sends
          Malformed,   \* the versions that do not parse
          MaxRetries,  \* templateDiagsMaxRetries; 5 in the code
          None

ASSUME LspDiagnosticsAssumption ==
  /\ MaxVersion \in Nat /\ MaxRetries \in Nat
  /\ Malformed \subseteq 1 .. MaxVersion
  /\ Main \notin Runs /\ None \notin Nat

VARIABLES version,        \* the latest text of the editor
          doc,            \* documents[uri]
          vfile,          \* workspace.files: the text the virtual file is made from
          typeCache, fieldCache,
          templateDiags, goplsDiags,
          stale, retries, \* templateDiagsStale, templateDiagsRetries
          ready,          \* goplsReady
          job,            \* the goroutines
          text,           \* gopls: the virtual file as gopls has it
          loaded, warm,   \* gopls: it answers hovers; it completes fields
          due,            \* gopls: it has not published diagnostics of `text'
          shown,          \* the diagnostics the editor shows
          crossed,        \* history: the main loop handled a message while a
                          \* background run was under way
          flipped         \* history: gopls became ready while a run was past
                          \* its hovers

gopls   == <<text, loaded, warm, due>>
caches  == <<typeCache, fieldCache>>
results == <<templateDiags, goplsDiags, stale, retries, shown>>
history == <<crossed, flipped>>
vars    == <<version, doc, vfile, caches, results, ready, job, gopls, history>>

Version == 1 .. MaxVersion
Maybe   == Version \cup {None}
Procs   == Runs \cup {Main}

\* What a run found: a text that does not parse, the body checked with no type
\* information, or the body checked with types and fields.
Diags   == [of : Version, with : {"parse error", "no types", "types"}] \cup {None}

Places ==
  {"idle", "syncFile", "syncNotify", "sleep", "query", "keepTypes", "walk",
   "probing", "restore", "keepFields", "finish"}

Job == [pc : Places, doc : Maybe, types : Maybe, vf : Maybe, fields : Maybe]

TypeOK ==
  /\ version \in 0 .. MaxVersion
  /\ {doc, vfile, typeCache, fieldCache, goplsDiags} \subseteq Maybe
  /\ templateDiags \in Diags
  /\ retries \in 0 .. MaxRetries
  /\ job \in [Procs -> Job]
  /\ text \in [of : Maybe, probe : BOOLEAN]
  /\ shown \in [gopls : Maybe, template : Diags]
  /\ {stale, ready, loaded, warm, due, crossed, flipped} \subseteq BOOLEAN

NoJob == [pc |-> "idle", doc |-> None, types |-> None, vf |-> None, fields |-> None]

Init ==
  /\ version = 0 /\ doc = None /\ vfile = None
  /\ typeCache = None /\ fieldCache = None
  /\ templateDiags = None /\ goplsDiags = None
  /\ stale = FALSE /\ retries = 0 /\ ready = FALSE
  /\ job = [p \in Procs |-> NoJob]
  /\ text = [of |-> None, probe |-> FALSE]
  /\ loaded = FALSE /\ warm = FALSE /\ due = FALSE
  /\ shown = [gopls |-> None, template |-> None]
  /\ crossed = FALSE /\ flipped = FALSE

Goto(p, place) == job' = [job EXCEPT ![p].pc = place]

Idle == \A p \in Procs : job[p].pc = "idle"

-----------------------------------------------------------------------------
(* The main loop: one message of the editor at a time.                     *)

Message ==
  /\ job[Main].pc = "idle"
  /\ crossed' = (crossed \/ ~Idle)

NewText ==
  /\ version < MaxVersion
  /\ version' = version + 1 /\ doc' = version'
  /\ job' = [job EXCEPT ![Main] = [NoJob EXCEPT !.pc = "syncFile", !.doc = version']]

DidOpen ==
  /\ doc = None /\ Message /\ NewText
  /\ UNCHANGED <<vfile, caches, results, ready, gopls, flipped>>

DidChange ==
  /\ doc # None /\ Message /\ NewText
  /\ typeCache' = None /\ fieldCache' = None /\ retries' = 0
  /\ UNCHANGED <<vfile, templateDiags, goplsDiags, stale, shown, ready, gopls, flipped>>

\* The editor is sent nothing and keeps what it shows.
DidClose ==
  /\ doc # None /\ Message
  /\ doc' = None
  /\ typeCache' = None /\ fieldCache' = None
  /\ templateDiags' = None /\ goplsDiags' = None
  /\ stale' = FALSE /\ retries' = 0
  /\ UNCHANGED <<version, vfile, shown, ready, job, gopls, flipped>>

\* syncToGopls: a text that does not parse leaves the virtual file as it is.
SyncFile ==
  /\ job[Main].pc = "syncFile"
  /\ IF job[Main].doc \in Malformed
     THEN Goto(Main, "query") /\ UNCHANGED vfile
     ELSE Goto(Main, "syncNotify") /\ vfile' = job[Main].doc
  /\ UNCHANGED <<version, doc, caches, results, ready, gopls, history>>

\* Notify textDocument/didOpen or didChange.
Tell(of, probe) == text' = [of |-> of, probe |-> probe] /\ due' = TRUE

SyncNotify ==
  /\ job[Main].pc = "syncNotify"
  /\ Tell(job[Main].doc, FALSE)
  /\ Goto(Main, "query")
  /\ UNCHANGED <<version, doc, vfile, caches, results, ready, loaded, warm, history>>

-----------------------------------------------------------------------------
(* runTemplateDiagnostics                                                  *)

\* Mutant: the body's diagnostics replace the frontmatter's.
MergedForgets(t) == [gopls |-> None, template |-> t]

\* publishMergedDiagnostics
Merged(t) == [gopls |-> goplsDiags, template |-> t]

\* publishParseDiagnostic
ParseFails(p) ==
  /\ job[p].pc = "query" /\ job[p].doc \in Malformed
  /\ templateDiags' = [of |-> job[p].doc, with |-> "parse error"]
  /\ shown' = Merged(templateDiags')
  /\ job' = [job EXCEPT ![p] = NoJob]
  /\ UNCHANGED <<version, doc, vfile, caches, goplsDiags, stale, retries, ready, gopls, history>>

\* queryVariableTypes: the cache, or a hover on the virtual file.
QueryTypes(p) ==
  /\ job[p].pc = "query" /\ job[p].doc \notin Malformed
  /\ job' = [job EXCEPT ![p] =
       IF typeCache # None
       THEN [@ EXCEPT !.pc = "walk", !.types = typeCache]
       ELSE [@ EXCEPT !.pc = "keepTypes",
                      !.types = IF loaded /\ vfile # None THEN text.of ELSE None]]
  /\ UNCHANGED <<version, doc, vfile, caches, results, ready, gopls, history>>

KeepTypes(p) ==
  /\ job[p].pc = "keepTypes"
  /\ typeCache' = IF job[p].types # None THEN job[p].types ELSE typeCache
  /\ Goto(p, "walk")
  /\ UNCHANGED <<version, doc, vfile, fieldCache, results, ready, gopls, history>>

\* Diagnose: without the type it asks for no fields; with it the fields come
\* from the cache, or from a probe line told to gopls.
Walk(p) ==
  /\ job[p].pc = "walk"
  /\ job[p].types = None \/ fieldCache # None
  /\ job' = [job EXCEPT ![p] = [@ EXCEPT !.pc = "finish",
               !.fields = IF job[p].types = None THEN None ELSE fieldCache]]
  /\ UNCHANGED <<version, doc, vfile, caches, results, ready, gopls, history>>

Probe(p) ==
  /\ job[p].pc = "walk"
  /\ job[p].types # None /\ fieldCache = None
  /\ job' = [job EXCEPT ![p] = [@ EXCEPT !.pc = "probing", !.vf = vfile]]
  /\ Tell(vfile, TRUE)
  /\ UNCHANGED <<version, doc, vfile, caches, results, ready, loaded, warm, history>>

\* The completion comes, with fields or without, or the request times out.
ProbeAnswered(p) ==
  /\ job[p].pc = "probing"
  /\ \E found \in BOOLEAN :
       /\ found => warm /\ text.probe
       /\ job' = [job EXCEPT ![p] = [@ EXCEPT !.pc = "restore",
                    !.fields = IF found THEN text.of ELSE None]]
  /\ UNCHANGED <<version, doc, vfile, caches, results, ready, gopls, history>>

\* Mutant: a probe that found nothing returns without restoring the file.
RestoreSkipped(p) ==
  /\ job[p].pc = "restore"
  /\ IF job[p].fields = None THEN UNCHANGED <<text, due>> ELSE Tell(job[p].vf, FALSE)
  /\ Goto(p, "keepFields")
  /\ UNCHANGED <<version, doc, vfile, caches, results, ready, loaded, warm, history>>

\* restoreVirtualFile: the text as it was when the probe was made from it.
Restore(p) ==
  /\ job[p].pc = "restore"
  /\ Tell(job[p].vf, FALSE)
  /\ Goto(p, "keepFields")
  /\ UNCHANGED <<version, doc, vfile, caches, results, ready, loaded, warm, history>>

KeepFields(p) ==
  /\ job[p].pc = "keepFields"
  /\ fieldCache' = IF job[p].fields # None THEN job[p].fields ELSE fieldCache
  /\ Goto(p, "finish")
  /\ UNCHANGED <<version, doc, vfile, typeCache, results, ready, gopls, history>>

\* The fields were asked for and did not come.
SawEmptyResolve(p) == job[p].types # None /\ job[p].fields = None

Stale(p) == ~ready \/ SawEmptyResolve(p)

\* Under dataMu the result is stored and published.
Store(p) ==
  /\ job[p].pc = "finish"
  /\ templateDiags' = [of |-> job[p].doc,
                       with |-> IF job[p].types # None /\ job[p].fields # None
                                THEN "types" ELSE "no types"]
  /\ shown' = Merged(templateDiags')
  /\ UNCHANGED <<version, doc, vfile, caches, goplsDiags, ready, gopls, history>>

\* The result is final, or it waits for gopls to be ready, or for nothing any
\* more after MaxRetries.
Finish(p) ==
  /\ Store(p)
  /\ ~(Stale(p) /\ ready /\ retries < MaxRetries)
  /\ stale' = Stale(p)
  /\ retries' = IF Stale(p) THEN retries ELSE 0
  /\ job' = [job EXCEPT ![p] = NoJob]

\* Mutant: the retry is not counted.
SelfRetryUncounted(p, r) ==
  /\ Store(p)
  /\ Stale(p) /\ ready /\ retries < MaxRetries
  /\ stale' = FALSE /\ UNCHANGED retries
  /\ r = p \/ job[r].pc = "idle"
  /\ job' = [q \in Procs |-> IF q = r THEN [NoJob EXCEPT !.pc = "sleep"]
                             ELSE IF q = p THEN NoJob ELSE job[q]]

\* gopls is ready and yet had no fields: the run starts another, after a delay.
SelfRetry(p, r) ==
  /\ Store(p)
  /\ Stale(p) /\ ready /\ retries < MaxRetries
  /\ stale' = FALSE /\ retries' = retries + 1
  /\ r = p \/ job[r].pc = "idle"
  /\ job' = [q \in Procs |-> IF q = r THEN [NoJob EXCEPT !.pc = "sleep"]
                             ELSE IF q = p THEN NoJob ELSE job[q]]

\* The delay is over: a run on the text the document has by then.
Awake(p) ==
  /\ job[p].pc = "sleep"
  /\ job' = [job EXCEPT ![p] = IF doc = None THEN NoJob
                               ELSE [NoJob EXCEPT !.pc = "query", !.doc = doc]]
  /\ UNCHANGED <<version, doc, vfile, caches, results, ready, gopls, history>>

Step(p) ==
  \/ ParseFails(p) \/ QueryTypes(p) \/ KeepTypes(p)
  \/ Walk(p) \/ Probe(p) \/ ProbeAnswered(p) \/ Restore(p) \/ KeepFields(p)
  \/ Finish(p) \/ (\E r \in Runs : SelfRetry(p, r)) \/ Awake(p)
  \/ p = Main /\ (SyncFile \/ SyncNotify)

-----------------------------------------------------------------------------
(* gopls, and handleGoplsNotification on the goroutine that reads it.      *)

GoplsLoads ==
  /\ text.of # None /\ ~loaded /\ loaded' = TRUE
  /\ UNCHANGED <<version, doc, vfile, caches, results, ready, job, text, warm, due, history>>

GoplsWarms ==
  /\ loaded /\ ~warm /\ warm' = TRUE
  /\ UNCHANGED <<version, doc, vfile, caches, results, ready, job, text, loaded, due, history>>

\* Mutant: gopls becoming ready starts no run.
RerunOnceReady == ready /\ stale /\ retries < MaxRetries

\* The first notification re-runs every stale document, a later one its own.
Rerun == stale /\ retries < MaxRetries

\* gopls publishes the diagnostics of what it has.  Those of a document that
\* is not open are ignored.
GoplsPublishes ==
  /\ loaded /\ due /\ due' = FALSE
  /\ IF doc = None
     THEN UNCHANGED <<results, ready, job, history>>
     ELSE /\ goplsDiags' = text.of
          /\ shown' = [gopls |-> text.of, template |-> templateDiags]
          /\ ready' = TRUE
          /\ flipped' = (\/ flipped
                         \/ ~ready /\ \E p \in Procs :
                              job[p].pc \notin {"idle", "syncFile", "syncNotify", "sleep", "query"})
          /\ IF Rerun
             THEN /\ stale' = FALSE /\ retries' = retries + 1
                  /\ \E r \in Runs :
                       /\ job[r].pc = "idle"
                       /\ job' = [job EXCEPT ![r] = [NoJob EXCEPT !.pc = "query", !.doc = doc]]
                  /\ crossed' = (crossed \/ job[Main].pc # "idle")
             ELSE UNCHANGED <<stale, retries, job, crossed>>
          /\ UNCHANGED templateDiags
  /\ UNCHANGED <<version, doc, vfile, caches, text, loaded, warm>>

Next ==
  \/ DidOpen \/ DidChange \/ DidClose
  \/ \E p \in Procs : Step(p)
  \/ GoplsLoads \/ GoplsWarms \/ GoplsPublishes

Spec == Init /\ [][Next]_vars

(* Goroutines run and requests return, at the latest by their timeout.     *)
(* gopls loads the package and publishes; it may never complete fields.    *)
FairSpec ==
  /\ Spec
  /\ \A p \in Procs : WF_vars(Step(p))
  /\ WF_vars(GoplsLoads) /\ WF_vars(GoplsPublishes)

-----------------------------------------------------------------------------
(* Properties                                                              *)

\* The re-runs end: however gopls answers, the server comes to rest.
EventuallyQuiet == []<>Idle

Diagnosed ==
  \/ doc = None \/ retries = MaxRetries
  \/ doc \in Malformed /\ shown.template = [of |-> doc, with |-> "parse error"]
  \/ shown.template = [of |-> doc, with |-> "types"]

\* diagnostics.go: "retry a small bounded number of times with a short delay so
\* the diagnostics catch up once gopls warms up".
\* They do, if no run crossed a message and gopls became ready in the middle of
\* none; and the retries end.
PatientDiagnosed == EventuallyQuiet /\ []<>(crossed \/ flipped \/ Diagnosed)

Settled == Idle /\ ~crossed /\ doc # None /\ vfile = doc

\* At rest gopls has the document again, not a probe line, and what is cached was
\* made from the present text.
SettledClean ==
  Settled =>
    /\ text = [of |-> doc, probe |-> FALSE]
    /\ {typeCache, fieldCache} \subseteq {None, doc}

\* The editor shows the latest results of both sources, whichever goroutine
\* published last.
ShownIsMerged ==
  doc # None /\ job[Main].pc = "idle" =>
    shown = [gopls |-> goplsDiags, template |-> templateDiags]
=============================================================================
