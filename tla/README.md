# gastro: a verification project

gastro compiles `.gastro` files (Go frontmatter and an HTML template) to Go
handlers, serves them, re-renders them live over SSE, and gives the developer a
watch loop, a formatter and a language server.  This directory holds TLA+
modules of the parts whose correctness depends on order, concurrency, failure,
names that meet, or several passes that read one text each in its own way; TLC
configurations that check them on small instances; and TLAPS proofs of the
invariants that matter most, for every value of the constants.  Paths below are
relative to the repository (`src/` here).

Contents: 1 the system, 2 the modules, 3 the runs, 4 bounds and fairness,
5 the proofs, 6 where code and documents disagree, 7 what is not modelled,
8 what is left.

## 1. The system

```
        developer's edits
              |
   poller (watcher.go) --pendingChange--> debounce --> cycle (devloop.go)
                                                        |        |
                                      Compile (compiler.go)   OnRestart / OnReload
                                               |                 |          |
      parser, embeds, analysis, codegen --> .gastro/        application   .reload, .build-error
                                                                 |          |
   browser <--HTTP-- injectWriter <- gastroWriter <- page     devReloader (devreload.go)
   browser <--SSE--- LivePages <- Notifier <- application's writers
   editor  <--LSP--- server <--diagnostics--> proxy <--pipes--> gopls
                        |                                          |
                        +-- shadow workspace (a Go file per .gastro file)
```

### Components

| component | state it keeps | operations | interacts with | what is hard | what makes it correct |
|---|---|---|---|---|---|
| `datastar.Notifier` (`datastar/notifier.go`) | set of one-place channels, mutex | Subscribe, cancel, Notify | LivePages, the application | a signal coalesces into one already there; receive takes no lock | a receiver that reads after its signal sees the change |
| `datastar.LivePages` (`datastar/live.go`) | map of groups; each group's members, last frame, mutex; a goroutine per stream and per group | serve, join, leave, run, publish, deliver | Notifier, the page handlers, browsers | two mutexes, a send made under one of them, last-leaves-while-another-joins | nothing blocks under a lock, nobody is left in a dead group, nobody is shown another's or an older page, every change arrives |
| watch loop (`internal/devloop/devloop.go`) | `pendingChange`, the debounce timer | Run, the debounced function, escalate, consumePending | poller, compiler, the hooks | each timer firing is a goroutine of its own; state is read before and used after a slow Generate | the newest sources are generated and reach the application and the browsers |
| poller (`internal/devloop/watcher.go`) | mod times, page texts, embed cache | newWatcherState, runLoop, syncEmbedCache | the file system, the cycle's dependency list | files change, go and come back between any two file operations | at rest it knows the disk, and cycles have seen it |
| `gastro watch` (`cmd/gastro/watch.go`) | the running App, the build's cancel function | startApp, runChain, runAssets, cleanup | the watch loop, processes | cancelled builds, interrupts in the middle of a swap | a failed build never stops what serves; one process |
| `gastro dev` (`cmd/gastro/main.go`) | the server process, `appMu` | startApp, cleanup | the watch loop, processes | overlapping cycles, exit while one starts a server | one server; none outlives the command |
| devReloader (`pkg/gastro/devreload.go`) | client channels, the two signal files | watchSignal, broadcast, HandleSSE | the CLI through files, the browser's script | two processes share files without a lock; full channels; restarts | every browser reloads; no stale failure is shown |
| page response (`pkg/gastro/page_writer.go`, `recover.go`, `error_handler.go`, `sse.go`; `injectWriter` in `devreload.go`) | committed and body flags; the held-back HTML | Header, WriteHeader, Write, Flush, Recover | generated handlers, net/http | the order of calls is the user's; two wrappers with different interfaces | what a client gets is what the calls say; failures become a 500 or nothing |
| compiler (`internal/compiler/compiler.go`) | the tree `.gastro/` | Compile: walk, compileFile per file, diagnose, write, prune | the passes below, go build, the development server | writes in place, kills and failures at any step | a compile repairs whatever it finds; errors write nothing |
| parser (`internal/parser/parser.go`) | none | Parse | compiler, LSP | it finds `---` and imports by lines, where Go would look for raw strings and comments | it splits a file where Go would |
| codegen (`internal/codegen/`) | none | embeds, analysis and hoisting, the Go file, the template, the checks of both | compiler, LSP | five passes over one text, one after the other and each with a reading of its own: comment maps, hand-made scopes, regular expressions, masks | what it accepts builds and means what was written; what it refuses is wrong |
| analysis (`internal/analysis/respwrite.go`) | none | FindMissingReturns | compiler, LSP | control flow read off the syntax | a write that runs on is reported |
| names (`internal/router/router.go`, `internal/codegen/pageid.go`, `generate.go`) | none | six functions from a path to names | compiler, routes | each folds separators in its own way | what is accepted builds |
| runtime props (`pkg/gastro/props.go`, `props_check.go`, `attrs.go`, `dict` in `funcs.go`) | none | CheckPropTypes, CheckRequiredProps, MapToStruct, setField | generated components | a literal is judged three times, by three rules, before it is stored by a fourth | a prop that passes is shown as it was given |
| gopls proxy (`internal/lsp/proxy/proxy.go`) | id counter, pending map, closed flag, mutex | Request, Notify, Close, readLoop | gopls, every LSP goroutine | pipes that fill, timeouts against late answers, Close at any time | framing, every answer to its caller, everything returns |
| LSP diagnostics (`internal/lsp/server/diagnostics.go`, `gopls.go`, `handlers.go`) | documents, caches, both sources' diagnostics, retry counters | didOpen, didChange, didClose, re-runs, probes | the proxy, the editor | three kinds of goroutine on one document; gopls answers "nothing" until warm | re-runs end; diagnostics catch up; probes are undone |
| shadow workspace, positions (`internal/lsp/shadow/`, `sourcemap/`, the first half of `proxy.go`) | the virtual files, one offset for each | UpdateFile, Map in both directions | gopls, go build's view of the same code | one number maps lines that were moved, hoisted or dropped | gopls sees what go build will, and a finding is shown at its line |
| LSP features (`internal/lsp/server/`, `internal/lsp/template/`) | none | runTemplateDiagnostics, code actions | the passes of codegen | a second implementation of the compiler's checks, with regular expressions for what does not parse | the editor and the compiler say the same |
| CLI one-shots (`generate`, `build`, `check`, `list`, `fmt`, `new`), formatter | none between calls | - | compiler | `fmt`'s worker pool | see section 7 |
| routes, middleware, attrs, the other template functions, deps, fs | tables built in New | - | generated code | conflicts show only at start | see section 7 |
| datastar SDK, completion, hover, definition, editors, lexers, examples | - | - | - | - | see section 7 |

`PROJECT.json` lists every component with its sources and, where it is not
modelled, the reason.  Under "hazards" it lists what can go wrong at which
line, with the properties that would notice.

## 2. The modules

| module | what it is | code |
|---|---|---|
| `Notifier` | operators for the channels and the walk of Notify, send by send | `datastar/notifier.go` |
| `LivePages` | streams, groups, writers as goroutines; instantiates `Notifier` | `datastar/live.go` |
| `LiveView` | abstract: what browsers may see | (the promise of `live.go`) |
| `LivePagesProofs` | theorems about `LivePages`, and that it implements `LiveView` | |
| `DevLoop` | poll, debounce, cycle; no specification of its own | `internal/devloop/devloop.go` |
| `AppProcess` | what `gastro dev` and `gastro watch` keep of the program they run | `cmd/gastro/process_unix.go` |
| `WatchApp` | `AppProcess` with `gastro watch`'s startApp as OnRestart | `cmd/gastro/watch.go`, `process_unix.go` |
| `DevApp` | `AppProcess` with `gastro dev`'s startApp | `cmd/gastro/main.go` |
| `Commands` | a run of the one command or of the other: `WatchApp`, and `DevApp` as the instance `Dev` | `main.go`, `watch.go` |
| `DevLoopProofs` | theorems about `WatchApp`, `Commands` and `DevReload` | |
| `WatcherState`, `WatcherStateProofs` | the poller, file operation by file operation, and theorems | `internal/devloop/watcher.go`, `internal/watcher/watcher.go` |
| `DevReload` | signal files, channels, browsers | `pkg/gastro/devreload.go` |
| `PageResponse`, `PageResponseProofs` | one request through the two writers, and theorems | `pkg/gastro/*.go`, the handler template |
| `Names` | the names made from a path | `router.go`, `pageid.go`, `generate.go` |
| `GenerateTree`, `GenerateTreeProofs` | one Compile after another over a tree that it may leave in pieces, and theorems | `internal/compiler/compiler.go` |
| `Sections` | the lines of a file, Parse, and Go's reading of the same lines | `internal/parser/parser.go` |
| `Embeds` | the two passes over `//gastro:embed` directives | `internal/codegen/embed.go` |
| `Hoisting` | AnalyzeFrontmatter: what is hoisted, and what is refused for it | `analyze.go`, `hoist.go`, `freevars.go` |
| `Handler` | GenerateHandler: mangled names, rewritten references and markers; what go build thinks of it | `generate.go`, `hoist.go`, `rewrite_refs.go` |
| `Returns` | FindMissingReturns, and where control really goes | `internal/analysis/respwrite.go` |
| `Markup` | TransformTemplate and ValidateTemplate over one sequence of actions | `template.go`, `validate_template.go`, `scan.go` of `codegen/` |
| `Props` | the four readings of a component's props | `typecheck_props.go`, `validate.go`, `generate.go`, `pkg/gastro/props.go`, `props_check.go` |
| `Shadow` | the virtual file gopls reads, its positions and stubs | `internal/lsp/shadow/`, `sourcemap/`, `proxy.go` |
| `Editor` | what the language server itself finds in a text, and its fixes | `internal/lsp/server/`, `internal/lsp/template/` |
| `CompileFile`, `CompileFileProofs` | compileFile and what follows: the passes above composed, one file at a time, and theorems about its imports, its embeds and its props | `internal/compiler/compiler.go` |
| `GoplsProxy`, `GoplsProxyProofs` | callers, reader, Close, pipes, gopls, and theorems | `internal/lsp/proxy/proxy.go` |
| `LspDiagnostics`, `LspDiagnosticsProofs` | one document's diagnostics, and theorems | `internal/lsp/server/` |
| `MCLivePages`, `MCCommands`, `MCGenerateTree`, `MCCompileFile` | symmetry sets, the paths and the files for TLC | |

How state and actions correspond to the code:

**LivePages.**  `st[s]` is the goroutine of one stream: its place in serve, its
group, its channel (`chan`), the frame PatchElements is writing and the one the
browser shows.  `grp[g]` is a liveGroup with the goroutine run: its place, its
mutex, members, last frame and cancelled context.  `lmu` and `nmu` are the two
other mutexes.  `deliver` is run by whoever holds the group's mutex, so its steps
(`DeliverTry`, `DeliverDrain`, `DeliverPush`) belong to the group.  A page is
the version of the application's state that it was rendered from.

**DevLoop, WatchApp, DevApp.**  The sources are a version number per class of
file and what is wrong with them (`Faults`).  `job[p]` is where the goroutine p
is: Run itself (`Main`) or one firing of the debounce timer (`Cycles`).  What a
step has read it keeps in `snap`, so that later steps use what was read then.
WatchApp and DevApp add the processes and the variables of startApp, and share
all of DevLoop.  WatchApp keeps of the swap what makes two of them meet: the process a
startApp has taken out of `app` and the one it has not published yet (`old`, `new` of its
job), those published over (`lost`), and whether two were ever past their builds at once (`crossed`).
`Commands` begins with the choice of a command, and takes its steps from then on.

**WatcherState.**  A round is `WalkPages`, `StatPage` and the read of each page,
`SyncEmbedCache`, `StatEmbed`, `WalkOthers`, `StatOther`, `EndRound`; the
developer may edit, touch, delete or re-create a file between any two of them.  A walk
fails when a file vanishes under it (`WalkFails`), and then lists none of its kind.
The four kinds of files are disjoint, as they are in the code by directory and suffix.
A cycle is `Generate` (or `GenerateFails`), `ConsumePending`, and `RestartWorks` or
`RestartFails`, with the poller and the developer in between; `late` remembers that a
page's restart was found in that window.  Generate and the build each read the disk in one
step, and a cycle ends before the next one begins: DevLoop splits both and lets cycles overlap.
`tree` is what `.gastro/` was made from and `app` what the running application was
built from, which starts as built from what is there; `reloaded` remembers the embedded
files whose edits since then were only answered by a reload.

**DevReload.**  `reload` and `failure` are the two files; `watch` is the place of
watchSignal between two file operations; `queue[b]` is the channel of a browser.
`overtook` is the last reload that watchSignal has taken, and `saw[b]` what that was when
b's page was loaded; `Restart` puts another process in the place of the one that polls.

**PageResponse.**  A call is a function from the response to the response, on
the wrapped writer and, next to it, on a plain net/http writer (`out.plain`).  A
net/http response takes its status and headers at the first WriteHeader or Write, and
sends them at the first Flush or at the end, with the type that the bytes look like which go with
them (`sent`, `seenType`).
The frontmatter is any sequence of calls.  `odd` collects the calls that are
known to be taken differently.

**GenerateTree.**  The tree holds, for each generated file, what it was made
from; `Declares` and `Refers` give the identifiers that go build would look at.
Reads, the write of a `.tmp`, its rename, and each removal are steps; every
one of them may fail, and Compile may be killed between any two.

**CompileFile.**  `stage` is the pass that is next: `ParseFile`, `ExpandEmbeds`,
`Analyze`, `Validate` and `Generate` are compileFile's, each on what the one before
it left (`parsed`, `embeds`, `info`, `output`) and each ending the compile with
`diags` when it finds an error.  `GoBuild`, `Start` and `Render` are what becomes of
the output, and `OpenInEditor` what the language server makes of the same text.
A line of a file is what the passes tell apart: what it looks like (`is`), the
name, path or import in it (`arg`), what is unusual about a declaration (`form`), the
identifiers of its code or the actions of its markup (`code`), and whether it has
an odd backtick (`tick`).  Go code is a sequence of tagged identifiers, with the
blocks they are in; a template is a sequence of actions.  The passes are operators
over these.  Next to each stands an operator that says what Go, html/template or
the source itself makes of the same text (`GoCode`, `Sense`, `RunsOn`,
`FallsOut`, `WrittenTokens`), and the properties compare the two.

**GoplsProxy.**  `call[c]` is where a caller is in Request, Notify or
writeMessage.  Header and body are two writes to a pipe of bounded capacity.
gopls reads, answers, hangs or dies when it likes.

**LspDiagnostics.**  `job[p]` is the main loop or a background run; the fields
are the locals that it carries from step to step.  `text` is what gopls has.

## 3. The runs

| run | module | what it checks | what it shows |
|---|---|---|---|
| `live_safety` | MCLivePages | DeliverNeverBlocks, GroupMapExact, LiveViewRefined; no deadlock | every race of join, leave, publish, deliver and Notify with two streams, keys and groups; LivePages implements LiveView |
| `live_fresh` | MCLivePages | NoLostChange, EventuallyFresh | no signal is lost with a debounce window; streams catch up; abandoned groups end |
| `watch_serial` | WatchApp | KeepsServing, PatientGetsLatest | with every fault, one cycle at a time |
| `watch_latest` | WatchApp | EventuallyLatest (violated) | section 6, 1 |
| `commands_overlap` | MCCommands | OneApp, OneServer, NothingLeftBehind | two cycles that overlap as they like, failures and an interrupt anywhere: how many processes of `gastro watch` are up, and who has them; that `gastro dev` has one and leaves none |
| `poll_rounds` | WatcherState | Fresh, EventuallyStill; no deadlock | a file of each class, two edits anywhere in the rounds and the cycles, restarts that fail: what `.gastro/` and the application were made from is what is on disk, but for the cases that are named; and once the edits stop, so do the cycles |
| `reload_reaches` | DevReload | NoStaleFailure, ReloadReaches | five signals, a channel of four, restarts anywhere; no overtaken failure is shown in a channel or to a page loaded since |
| `generate_tree` | MCGenerateTree | TreeExact, CleanBuilds, TreeSteps | any two of five paths, an edit and a failure anywhere |
| `page_response` | PageResponse | AnswerKept, OneAuthor, FailureShown | any five calls, any template of two writes, both modes |
| `proxy_calls` | GoplsProxy | Framed, NoneForgotten, EverythingReturns | two callers, gopls answering in any order, hanging or dying |
| `lsp_warmup` | LspDiagnostics | SettledClean, ShownIsMerged, PatientDiagnosed | three texts, one malformed, two background runs |
| `compile_file` | MCCompileFile | the fourteen below | seven families of files through every pass, go build, the program and the editor |

The properties of `compile_file`, in the order of the passes:

| property | says |
|---|---|
| SectionsExact | frontmatter, template and imports are split where Go would split them |
| EmbedsHonoured | the variables that are filled are those right below the directives, and those that only blank lines and comments separate from one |
| DiagnosticsAt | a finding is shown at the line it is about, whatever earlier passes moved |
| RequestRefused | a declaration that would run once but depends on the request is refused, and no other |
| BuiltAsWritten | in a program that builds, every name means what it meant in the frontmatter |
| ValidBuilds | a frontmatter that is valid Go builds |
| ReturnsFollow | a write of the response after which control leaves its block, or the frontmatter, and runs on is warned of, and nothing else is |
| WrapsNest | the template that is rendered has the blocks, wraps and raw texts of the one that was written |
| CallsChecked | the component calls that were checked are those the program makes, against the fields the component has |
| LiteralsAgree | the compiler refuses exactly the literals the renderer would |
| PropsShown | props that pass the checks arrive as they were given |
| PositionsAgree | what gopls finds in a line of code is shown at that line, and what is asked about it is asked there |
| ShadowAgrees | gopls accepts what go build accepts, and knows the props the generated package has |
| EditorAgrees | the editor's own findings are the compiler's |

Every property of a passing run has a mutant in `PROJECT.json`: an operator of the
same module (marked "Mutant" in its comment) that stands for a plausible bug, and
with which TLC finds the property violated.

Several properties have exceptions.  Where they depend on what happened before they
are history variables with names of their own (`risky`, `held`, `crossed`, `lost`,
`hasty`, `reloaded`, `failed`, `late`, `unbuilt`, `spared`,
`flipped`, `odd`, `litter`, `dropped`); in `compile_file` they are predicates
on the file (`LoneTick`, `LooselyBelow`, `InCase`, `BreaksOut`, `Swallows`, `MisreadScope`, `Shadows`, `LooksLikeFunc`,
`HoistedMapKey`, `CommentInRaw`, `NoWay`, `ImportBelow`, `HoistedFirst`, `TakenOut` and a
few written in place).  Each says precisely when the code does not do what the
property asks, and each was found necessary: without it TLC shows a behaviour of the
code.  Section 6 tells those that a document or a comment promises otherwise.

## 4. Bounds and fairness

| run | bounds | why they are enough |
|---|---|---|
| `live_*` | 2 streams, 2 keys, 2 groups, 1 writer, 1 or 2 versions | a race is between a stream that leaves and one that joins, in one group or in its replacement; a second change is needed to fall into the debounce window of the first; the proofs cover any number for the safety properties |
| `watch_serial`, `watch_latest` | 1 edit per class, 2 or 3 processes, 1 cycle at a time | three classes already give three edits, before, in and after a cycle; a swap needs two processes; the proofs cover any number, and that KeepsServing does not rest on cycles that wait for each other |
| `commands_overlap` | 2 cycles and Main, 3 processes, 1 edit per class, builds and starts that fail | a startApp in its swap while another builds and swaps: one process runs, one is taken out, one is started; a third goroutine that wants `gastro dev`'s `appMu` waits like the second; the proofs cover any number |
| `poll_rounds` | one page, one embedded file, one Go file, one static file, 2 edits | an edit and its undoing, or a second one in another round or in the window of a cycle; a file deleted and made again, which changes what a page embeds; the proof covers any number of each for Fresh |
| `reload_reaches` | 1 browser, 5 signals, channel of 4 | browsers share nothing but the two files; five signals overfill the channel |
| `generate_tree` | 2 of 5 files, 1 edit | the names collide pairwise, one file of each pair may come, go or break; litter from one failed Compile meets the next.  The first tree's pages import every component there is |
| `page_response` | 5 calls, 2 chunks | type, status, write, flush and one more in every order; the proofs cover any number |
| `proxy_calls` | 2 callers, 2 ids, 1 notice, pipes of 2 | a full pipe, a late answer and a Close each need two calls at most; the proofs cover any number for the safety properties |
| `lsp_warmup` | 3 texts, 2 runs, 2 retries (5 in the code) | a malformed text between two good ones; a re-run while another sleeps |
| `compile_file` | seven families, some 220 000 states | see below |

The families of `compile_file` (`MCCompileFile`) each vary one part of a file and keep
the rest plain, since the passes meet in the lines of that part:

| family | files | why |
|---|---|---|
| sections | every sequence of up to four of a delimiter, a blank line, an import, the lines of an import block, a raw string's end and a lone backtick | a delimiter or an import in a raw string needs its two ends around it |
| embeds | every sequence of up to five of a directive, a comment, a blank line, a variable and a statement, above three tails | a directive, two comment groups, what is above and what is below |
| code | every declaration of twenty kinds with every body of seventeen and every ending | hoisting is a relation between one declaration, what refers to it and what shadows it |
| edits | the same declarations alone and below imports, comments and others | positions |
| returns | every pair of thirteen statements, blocks among them, with and without a third | a write, and a return in its block or around it |
| markup | every sequence of up to four actions | raw in a wrap, a comment that ends one, and an end |
| props | a literal of every type and at every edge for a field of every type; calls with up to two entries for eight declarations of Props | widths of integers and floats are scaled down, so that their edges are among the values |

Deadlock is checked in `live_safety`, `live_fresh` and `poll_rounds`.  The other systems
do stop: a process exits, a compile ends, calls and edits run out.

Fairness, and what in the code justifies it:

- LivePages: strong fairness of each goroutine.  A goroutine that can take a mutex
  again and again gets it (Go's mutexes hand over to a waiter after 1 ms) and a
  ready select branch is chosen sometime.  Browsers may stay or go; writers need
  not write, but one that has written calls Notify.
- DevLoop, WatchApp: weak fairness of the poller, the timer and each cycle; commands
  end, App.Stop kills after its grace period.  The developer may stop at any time.
- WatcherState: weak fairness of the round and of the cycle: the poller's goroutine runs,
  the timer fires, and a hook returns, though it may fail each time.
- DevReload: the ticker fires, an open browser handles its events.
- GoplsProxy: callers, the reader and Close run, timers fire, a gopls that runs
  reads its input.  It need not answer, and may hang or die.
- LspDiagnostics: goroutines run and requests return (30 s at the latest).  gopls
  loads the package and publishes; it need never complete fields.

## 5. The proofs

The eight `...Proofs` modules hold for every value of the constants that meets the
modules' assumptions (`LivePagesAssumption`, `DevLoopAssumption`,
`WatcherStateAssumption`, `DevReloadAssumption`, `PageResponseAssumption`,
`GoplsProxyAssumption`, `LspDiagnosticsAssumption`, `GenerateTreeAssumption`,
`CompileFileAssumption`: bounds are naturals, a pipe and a
channel hold something, None and Absent are no members of the sets, streams are not
groups, Main is not a cycle nor a run, a file is of one kind; a project has finitely many
files, and no text is Absent or Torn; a file is a sequence of lines, and a line that looks like an
import names something (`AnyLine`); what a call passes is a list of keys with values).

| theorem | says |
|---|---|
| `LivePagesProofs!TypeCorrect` | `Spec => []TypeOK` |
| `LivePagesProofs!DeliverNeverBlocksHolds` | the send under the group's mutex always finds room |
| `LivePagesProofs!GroupMapExactHolds` | a group with members is the one in the map and is alive; an abandoned one is cancelled, or about to be |
| `LivePagesProofs!NoLostChangeHolds` | a group that waits with an old version has a signal, or a Notify is on its way |
| `LivePagesProofs!LiveViewRefinedHolds` | every behaviour of LivePages is one of LiveView |
| `GoplsProxyProofs!TypeCorrect` | `Spec => []TypeOK` |
| `GoplsProxyProofs!NoneForgottenHolds` | a waiting caller is pending, being served or served |
| `GoplsProxyProofs!FramedHolds` | gopls reads a header and its own body, alternately |
| `GoplsProxyProofs!NothingAfterCloseHolds` | no byte is written once Close has marked the proxy |
| `DevLoopProofs!DevTypeCorrect` | `Dev!Spec => []Dev!TypeOK` |
| `DevLoopProofs!OneServerHolds` | `CommandSpec => []OneServer`: one server of `gastro dev` at most is up, and it is `appCmd`, with any number of overlapping cycles |
| `DevLoopProofs!NothingLeftBehindHolds` | no server outlives `gastro dev` |
| `DevLoopProofs!TypeCorrect` | `Spec => []TypeOK` |
| `DevLoopProofs!KeepsServingHolds` | what serves is only taken away by a startApp that has built a replacement, with any number of overlapping cycles |
| `DevLoopProofs!OneAppHolds` | however cycles overlap: one process is up at most until two startApps have been past their builds at once; each that is up is `app`, in a startApp's hands or published over; nothing else is left behind |
| `WatcherStateProofs!TypeCorrect` | `Spec => []TypeOK` |
| `WatcherStateProofs!FreshHolds` | a poller at rest knows the disk, `.gastro/` is made from it, and the application from the Go files on it and from the code it calls for, but for files edited unseen, a Generate or a restart that failed last and, for that code alone, a restart that was consumed late |
| `DevLoopProofs!ReloadTypeCorrect` | `ReloadSpec => []ReloadTypeOK` |
| `DevLoopProofs!NoStaleFailureHolds` | a failure a reload has overtaken is shown neither behind it in a channel nor to a page loaded since, unless the process was replaced before it could remove the file |
| `LspDiagnosticsProofs!TypeCorrect` | `Spec => []TypeOK` |
| `LspDiagnosticsProofs!ShownIsMergedHolds` | the editor shows the diagnostics of both sources |
| `LspDiagnosticsProofs!SettledCleanHolds` | a document at rest has no probe line and no stale type, unless a run crossed a message |
| `PageResponseProofs!OneAuthorHolds` | the bytes of a response have one author |
| `PageResponseProofs!AnswerKeptHolds` | the client gets what net/http would have sent for the same calls, the script apart, but for the calls that are named, a flush before any type or byte in development among them |
| `PageResponseProofs!FailureShownHolds` | a page that fails with nothing committed answers 500 with the error page |
| `GenerateTreeProofs!TypeCorrect` | `Spec => []TypeOK` |
| `GenerateTreeProofs!TreeExactHolds` | a Compile that ends well leaves what it would have made from nothing, and a Go file is never half written |
| `GenerateTreeProofs!CleanBuildsHolds` | what was generated without a diagnostic builds and finds its templates, for any paths but those the property names |
| `GenerateTreeProofs!TreeStepsHolds` | a Compile that reports an error has touched nothing, and pruning removes nothing that is referred to |
| `CompileFileProofs!SectionsExactHolds` | the parser splits a file, and takes its imports out, where Go would, whatever raw strings and groups it has: a lone backtick in a comment and an import with a comment behind it apart |
| `CompileFileProofs!EmbedsHonouredHolds` | what is embedded is every variable right below a directive and its comments, the next one where only blank lines and comments are between (section 6, 9), and no other line, for any frontmatter |
| `CompileFileProofs!LiteralsAgreeHolds` | `TypecheckProps /\ Spec => []LiteralsAgree`: the compiler refuses a literal exactly when the renderer would, whatever the literal and the field |
| `CompileFileProofs!PropsShownHolds` | props that pass the checks are shown as they were given, for any call and any declaration |

**LivePages.**  No invariant is inductive alone.  That deliver finds room needs
that only the holder of the group's mutex delivers, and only to members
(`DeliverInv`); that a member is never removed under its hands needs the map to be
exact (`MapInv`); that needs a stream to hold `LivePages.mu` from its look-up to the
end of join and throughout leave, with its group alive and in the map all the
while (`StreamInv`).  `KeyInv` gives every running group a key.  `SignalInv` says that
a writer is in Notify exactly while it holds the Notifier's mutex, that a group is
subscribed from its Subscribe to its end, and that no change is lost.  Their
conjunction with `TypeOK` is `IInv`; each conjunct's preservation is a lemma with
one step per action, and `Inductive` combines them.

**LiveView.**  LiveView lets a browser be shown a page only of its own key, no newer
than the application's state and never older than what it was shown.
`FrameInv` follows a frame from the group's render through the group, the stream's
channel and the event being written to the page: at each place it is of the
stream's key and no newer than the frame behind it.  Under `IInv` and `FrameInv`
every step of a goroutine is a step of LiveView or leaves what browsers see alone.

**GoplsProxy.**  `MuInv`: the mutex is held exactly by a caller between the check of
closed and the last byte of its body.  `IdInv`: ids are unique.  `PendingInv`: an
id is in one of pending, in the reader's hand, and answered, and belongs to a caller.
`PartsInv` and `TailInv` describe the pipe: parts alternate from what gopls has
read, each body is of its header's message, and the last part is a header exactly
while a caller is between its two writes.  Framed follows from these and the parity
of positions.

**DevApp.**  `MuInv`: a goroutine holds `appMu` exactly between the look at `appCmd` and
the new server's start.  `ServerInv`: what is up is `appCmd`, between stop and start
nothing is, and nothing is after the cleanup.  The last part is kept only because a
cycle that is past Run's end finds its context cancelled; `RunInv` says so: before Run
watches there is no cycle, and when it has ended either ctx is done or there never
was one (the first Generate failed).  In `Commands` a command stays what it was, and
`DevIInv` is carried along the runs of `gastro dev`.

**WatchApp.**  There is no mutex, and cycles may overlap.  `HandInv`: what a startApp
has taken out of `app` or not yet put there is neither `app` nor in another's hands, so
no StopOld stops what serves.  `ServeInv`: an empty `app` means that a startApp is
between its swap and its publication.  `RunInv` is DevApp's, and adds that nothing has
been started before Run watches.  OneApp is about overlapping cycles too, and `CrossInv`
carries it: a process that is up is `app`, in a hand, or was published over, whatever
cycles do.  The restart cancels the build before it, so two are past their builds at once only
when the first has built and not yet published (`crossed`); until then one goroutine at
a time is there and the others hold nothing (`Alone`), `app` is empty during its swap, and so
nothing is published over.  At the end the cleanup stops `app` alone: what is up after it was in
a hand when it looked (`held`), or had been published over.

**WatcherState.**  While the poller is behind the disk, what was compiled may be newer
than what it knows, or older.  `PagesMade`, `EmbedsMade`, `GoBuilt`, `FmBuilt` and `EmbedsBuilt`
say what is left of Fresh then: unless a cycle is owed (`Owed`), a text in `.gastro/` or in the
application is the present one or the one the poller knows, and in the second case the
file's mtime will give it away.  `Covered` says what a round in which nothing was edited
has compared so far (`Walked`, `Ahead`), and so what it knows when it ends; `Seen` and
`Reading` tie the page texts it keeps to the mtimes it keeps; `Clock` has edits come
later and later.  A frontmatter may be ahead in `.gastro/` while the application still
has the one the poller knows (`FmBuilt`): the cycle that is to restart it is then yet
to be found.  Between Generate and the end of the restart it is the code in `.gastro/` that
counts (`FmToBuild`, `EmbedsToBuild`): unless a page's restart came `late`, it is that which the
application is about to be built from.  What the application was built from is only
spoken of once no restart is pending or under way and the last one worked (`Built`).

**DevReload.**  The reloads in a channel were written before any failure behind them
(`QueueInv`).  What keeps that is what watchSignal knows of the two files at each
of its places: a failure it holds, or is about to read, is newer than every reload it
has sent (`SignalInv` and the middle of `QueueInv`).  Pages that are loaded again between the two
need a second invariant, over the restarts: what lies in `.build-error` while watchSignal may
read it, and what it has read, was written after the last reload it took, or was
spared by a restart between the two removals (`StandInv`); and what is in the channel of a
page is newer than the last reload taken when the page was loaded (`PageInv`).

**LspDiagnostics.**  `JobInv` says what a run carries at each place.  As long as no run
has crossed a message (`crossed`), runs go on only while the main loop is idle, so the
virtual file changes under none of them, and every type, field and probe is of that
file (`Clean`).  ShownIsMerged is inductive by itself with the types.

**PageResponse.**  `FlagInv`: a page that has written a byte has gastroWriter's body
flag set.  With it, the template starts and the error page is written only over an
empty body (`AuthorInv`).  For the other two theorems an invariant relates the response
behind the wrappers to the plain one, as long as the handler runs (`Facts`): `Quiet`, of either
response, says what net/http has sent when, and that a type it sends is the header's if there
is one; `Bodies` that the bytes were either passed on or are held, all of them; `Untouched` that
where net/http has no status the wrappers have decided nothing; `Statuses` which status
the client will get; `Typed` and `Held` what the types are, which may be guessed from the
first bytes on one side and from all of them on the other, and that headers went out below
without a type only under a body injectWriter passes on (`Headless`).  Every conjunct but the
first three is under the calls that may break it, so that the exceptions of AnswerKept
are carried from the call to the end.  One lemma per call says what it does to the
response (`...Effect`), and one that it keeps `Facts`; `SentEffect` says what the end of
the handler makes of it, `SentStatus`, `SentType` and `SentScript` that this is the promise.
`Streaming` does the same for an event stream.

**GenerateTree.**  An earlier Compile may have left anything behind: a `.tmp` or a
template half written, files of pages that are gone.  So `IInv` says of the present one
only what it has covered.  `WrittenInv`: every file that is no longer to do has its handler and its
template, its own or those of another file with the same output; the template being written
may be torn meanwhile.  `TmpInv`: a `.tmp` that is filled holds what is to be renamed, and
only a failure leaves one.  `StaticInv` and `SharedInv` say the same of `static/`, `embed.go`,
`routes.go` and `render.go`, `PrunedInv` of what is stale at the end; `StageInv` says that nothing is written
after an error.  That a Go file is never torn is because it is only ever renamed.  For CleanBuilds,
the names: a path's names are folds of one sequence of words, and the lemmas of the
second part say which determine which (`SameOutput`, `RouteNames`, `ComponentNames`, `PropsNames`).  With
no two page IDs alike no two files share an output (`OwnHandler`, `OwnTemplate`), so
that each has its own; then every identifier is declared (`EndedRefers`) and declared once
(`EndedDeclares`).  TreeSteps needs besides that what a pruned handler declares is its own file's
(`StaleDeclares`).

**CompileFile.**  `PassInv` says that what the parser and the expansion of embeds have
made of the file is what later passes see; the rest is about files of any length.
What a function over the lines computes is found by its minimal counterexample
(`Smallest`, from the well-foundedness of <): two functions that agree on the first
line, and on each line if they do on the one before, are equal (`Alike`).

SectionsExact: a parity of backticks and Go's raw strings are such functions
(`SameStrings`, from `Ticks`), so both see the same closing delimiter (`SameDelims`,
`SplitInner`).  `Groups` says how an import group begins and ends from one line to the
next.  In what Go can read no line of a group is in a raw string (`Codes`): so the
`)` that stripImports waits for is Go's, what it keeps is Go's code (`KeptIsCode`), and
what extractImports takes a line to begin in, without counting backticks in a group, is what Go
does (`InsideOf`, `ImportsFound`).  `ParsedSections` carries this to the lines of the file.

EmbedsHonoured: the group of comments of a directive reaches without a gap from it to its
last line (`Grouping`), and go/ast attaches it to the next statement below unless it trails
the one above (`Attached`); that statement is right below the group or separated from it by
blank lines and comments (`Adjacent`).  The rewrite of a variable
drops lines above it, but never another variable (`NoneSwallowed`); what is left is listed
in order (`Listed`: the rank of a member is a bijection), and exactly the variables that are
owned are baked (`BakedOwn`).

The other two are about values, not about texts.  `Literals` takes
one literal and one field and compares typecheck_props.go with props_check.go, kind by
kind.  `Stored` takes a value that CheckPropTypes accepts: setField keeps it, since a
number within the bounds of a width is not wrapped (`Wraps`).  `GivenValues` needs that
the last entry of a key exists (`Largest`), `Fields` and
`Rendered` lift it to a struct and a render, and `ShownInv` says that what was shown is
a render of the file's call.  LiteralsAgree is under TypecheckProps: without it the
compiler refuses nothing.

What the proofs changed in the models: `Untouched` first said nothing of the status
below injectWriter, and was not inductive without it; a walk that fails in
WatcherState now counts as an edit of its round, since what it did not list is not
covered, and `WalkOthers` may fail for static files too; `LooksLike` is a quantifier
rather than a selection from a sequence; two cases of `SetField` overlapped for a nil in a
string field, which TLC resolved by their order.  stripImports and extractImports are sets of lines
(`Kept`, `ExtractImports`) with a function that says what a line begins in (`Inside`),
where they were folds; `InOrder` lists a set by the rank of its members; and `Readable`
now says that a group has no raw string in it, which it has in no legal program.

Only model-checked:

- all liveness (EventuallyFresh, EventuallyLatest, PatientGetsLatest, EventuallyStill,
  ReloadReaches, EverythingReturns, PatientDiagnosed): fairness and ENABLED are out of
  the prover's reach;
- the other ten properties of `CompileFile`: they compare what several passes compute of a
  file, by folds over its lines or over the actions of its markup.  Induction over data
  is out of the prover's reach; a function over the lines can be reasoned about by a
  minimal counterexample, as above, but a fold of the community modules cannot.

## 6. Where code and documents disagree

Checked as a violation, and listed in `PROJECT.json` as a finding:

1. `watch_latest`.  `consumePending` is called after Generate (`devloop.go:242`).  A
   frontmatter edit polled while a cycle generates is consumed by that cycle,
   which builds the code generated before it; the next cycle generates the new code
   but finds only a reload pending.  `watch_integration_test.go:446` asks that "the
   system must reach the latest code".

Met while modelling; the models do what the code does, and the properties have the
case as an exception.  The development loop and the runtime:

2. The hooks of `gastro watch` can run concurrently: every debounce timer has its own
   goroutine (`watcher.go:226`), and nothing waits for the cycle before, while
   `devloop.go:31-33` says of the hooks "never concurrently with each other or with
   themselves". `gastro dev` is safe since startApp takes `appMu` throughout; in
   `gastro watch` two startApps that have both built (`crossed`) can each start a
   process, and the one that is published over (`lost`) is never stopped.
3. The cleanup of `gastro watch` stops `app` and waits for no startApp
   (`watch.go:538`): an interrupt in the middle of a swap, when the old process is
   taken out of `app` or the new one not yet put there (`held`), leaves that one to
   its context, which kills it only if the program lives long enough and never its
   children. `watch.go:422-424` has the guard so that "the deferred shutdown can stop
   a partially-started child".
4. `.reload` and `.build-error` are removed one after the other
   (`devreload.go:100-105`), by a process that may be replaced in between; its
   successor finds the failure alone (`spared`) and tells it to pages loaded since the
   reload, where `devreload.go:101-103` has the removal so that "the next tick doesn't
   replay an old failure".
5. An edit of a file named by `//gastro:embed` only reloads (`devloop/watcher.go:311`),
   though its text is a literal in the generated code; `docs/dev-mode.md:99` counts it
   as RESTART (and `dev-mode.md:395` as a reload).  `Fresh` has it as `reloaded`; and the
   window of 1 as `late`.  A restart whose build failed is made up for only by the next change
   that restarts (`unbuilt`).
6. In development mode a page's writer has no Flush, because `injectWriter` has only
   Unwrap and `NewPageWriter` looks for a Flusher (`page_writer.go:126`): Send fails, and
   events arrive when the handler returns.  `devreload.go:256` says that Unwrap is
   there for this.
7. Early hints (103) count as the commitment: the status after them is dropped, and a
   panic is answered 200 and empty (`page_writer.go:58`).  In development mode: a
   frontmatter that writes only a status (`docs/pages.md:546`) gets no reload
   script, a blank first write makes the type text/plain, the last status of a handler
   counts, and headers set after the status are taken.  A flush before any type or byte
   sends headers without a type that `injectWriter` knows nothing of, and gives the HTML after
   it the script; of a page it is not made, and the page has a type that production does not
   send.  An event stream opened without an event lets the template render into it.
8. `Recover` swallows `http.ErrAbortHandler`.

The compiler:

9. A `//gastro:embed` directive with a blank line between it and its variable is
   honoured (`LooselyBelow`): go/ast's comment map attaches a comment to the next
   statement across blank lines unless it trails the one above, and `embed.go:381`
   asks for no more than that it ends before the declaration.
   `docs/markdown.md:216-217` ("no blank line between them"), the message at
   `embed.go:300` and the comments at `embed.go:5` and `286-289` say it is refused.
10. `RouteToFuncName` keeps an underscore that `HandlerFuncName` folds, so
    `pages/post_card.gastro` generates a package that does not build; and two pages
    with one handler name (`postCard`, `post-card`) get no diagnostic
    (`docs/architecture.md:180-181`).
11. `gastro check` reports for ever a `.gastro/static` whose source has gone, or a `.tmp`
    left by a killed write: nothing removes either.  Templates are written in place.
    "No window where a live file points at a pruned one" (`compiler.go:680`) is not so for
    `render.go` when the last component goes, nor for a component that went and is
    still imported.  A project with no file fails its own `//go:embed templates/*`.
12. `rewrite_refs.go:30-31` leaves shadowed names to a check of the analyzer; there is
    none.  A parameter or local with the name of a hoisted declaration, a hoisted name
    as the key of a map literal, a tuple variable, and a marker in a hoisted func give a
    file that does not build, or one that means something else.
13. A frontmatter that is one hoisted line is emitted twice (`generate.go:96-110`).
    A line of a raw string that begins with `func ` is hoisted.  Two exported variables
    of one name, one declared in a block, and `Children :=` in a component break the
    map of template data.
14. "The rewrite keeps line numbers" (`compiler.go:488-489`): the rewrite of an embed
    drops a blank line or a second group of comments above its variable.  A directive
    that no variable follows compiles silently; only the editor reports it.
15. A lone backtick in a comment makes the parser miss a delimiter or see one in
    code; `import "fmt" // x` is dropped without a word.
16. `freevars.go` takes `x.r`, `r: 1` and `var r` for references to the request, and the r
    on the right of `r := r` in a func literal for none.
17. `docs/pages.md:196-202` has every write of `w` followed by a return, or warned of.
    FindMissingReturns says nothing of a frontmatter with a func at its top level (so
    too for deprecated markers), of writes in a case, of one whose result is kept, nor of one
    whose return a break skips.  It warns of a write at the end of an inner block though
    nothing runs after it, as `respwrite.go:63-69` chooses.
18. A comment in a raw block stays a comment; a comment with `endraw` or `wrap` in it,
    and `{{- wrap`, hide component calls from the compiler's check.
19. Complex fields and ints that no float64 holds pass the compiler's check and fail
    CheckPropTypes; numbers for unsigned fields and odd widths pass both, and setField
    has no case for them, so that nothing is rendered.  ParseStructFields takes the first
    struct of a component, where `scan.go:44` says Props.  `render.go` imports nothing for
    the types of a component with children.

The language server:

20. When gopls becomes ready in the middle of a run, the run is not repeated
    (`diagnostics.go:188`), against the comment at `diagnostics.go:22-31`.
21. The shadow file's one offset: what gopls finds in a hoisted declaration is never
    shown at its line; an import below code, or a first line that is hoisted, shifts
    all the others.  gopls faults hoisted names that the generated file imports (`log`,
    `fmt`, `http`) though the build accepts them.  A stub takes the first struct for
    Props, where `workspace.go:455-458` says that the two can never disagree.
22. The editor shows warnings and embed faults of a frontmatter at lines counted
    without the imports and blanks that were taken out (`server/diagnostics.go:105`,
    `code_action.go:110`).
23. `{{ wrap X }}` without a dict around a component with props is an error in the editor
    only, where `completions.go` says "identical verdicts"; so are unknown props of a
    component whose only struct is not Props, and `.Children` in one that never calls
    gastro.Props.  A template that does not parse is read by regular expressions
    (`completions.go:625`).

## 7. What is not modelled, and why

- Characters: the formatter, the lexers, the SSE event format, the wording of
  diagnostics, the layout of generated code.  `CompileFile` keeps of a line what the
  passes tell apart.
- Whether a diagnostic that is only a warning stops a compile depends on the command
  (`generate`, `build` and `check` are strict): GenerateTree takes either.
- One-shot commands.  `fmt`'s worker pool has a result channel with room for every
  file, so no worker waits for the printer.
- Paths, globs, URLs and their canonical forms are sets and model values.
- Routes: BuildRoutes, MergeRoutes, NewRouteMux and the middleware patterns are evaluated
  once, sequentially, in New, which panics on a conflict before anything is served.
- Of the runtime: attrs, the template functions but for dict, the registry of
  dependencies, the file systems.
- Of codegen: nested types that HoistTypeDeclarations removes from blocks
  (`analyze.go:476-504`).
- In the editor: completion, hover, definition and references, which change nothing;
  the start of a project's instance and its scan of components; virtual file names that
  meet (`workspace.go:101-110` folds `/` and `-` and drops brackets); props read from
  `documents` without its lock (`diagnostics.go:465`).
- In GoplsProxy: start before it returns, requests that gopls sends to the client (this
  client announces no capability for them), and a restart of gopls, which the code
  does not have although `Backoff` is there.
- In CompileFile: EditorAgrees leaves out files in which lines were taken out above the
  code (`TakenOut`), and ShadowAgrees compares of the stubs the fields of Props only.  In
  PageResponse: FailureShown asks nothing of a failure after a bare WriteHeader, which `Recover`
  only logs.
- In LspDiagnostics: document versions, component props, request helpers, the probes
  of completion requests.
- In WatchApp: an application that exits by itself; `risky` leaves out starts that
  failed in the asset chain or in `--run`, which the code does not retry.
- Editors, examples, and the development tools.

## 8. What is left

1. `LspInstances`: instanceForURI, initInstance, getComponents and the shadow
   workspace's map of files (`server/util.go`, `shadow/workspace.go`) under concurrent
   requests: one instance per project, none used before it is ready.
2. `Routes`: what New accepts serves every page; what it refuses had a conflict; and a
   middleware, which New finds by one made-up request for each route
   (`pkg/gastro/middleware.go:50-57`, with `x` for every `{param}`), is around the
   routes that its pattern covers.
3. `FmtPool`: fmtFiles' workers, and the formatter's promise that formatting twice
   changes nothing.

## Running

```
tlc -workers 2 -config LivePages_safety.cfg MCLivePages
tlc -workers 2 -config CompileFile_passes.cfg MCCompileFile
tlapm LivePagesProofs.tla
```

and so on for the rows of section 3; `PROJECT.json` names the module and the
configuration of each run.
