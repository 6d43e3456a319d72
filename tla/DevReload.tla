----------------------------- MODULE DevReload ------------------------------
(***************************************************************************)
(* pkg/gastro devReloader: the signal files the CLI writes into .gastro/,  *)
(* the goroutine of the application that polls them, the event queue of    *)
(* every connected browser, and the browser's reload script.               *)
(*                                                                         *)
(* Every write of a signal file is numbered by `clock', and a page by the  *)
(* clock at which it was served: a page older than the last reload signal  *)
(* is stale.                                                               *)
(***************************************************************************)
EXTENDS Naturals, Sequences

CONSTANTS Browsers,
          Cap,        \* capacity of a client's channel; 4 in the code
          MaxWrites,  \* bound on the signals the CLI writes
          Restarts    \* the application may be restarted

ASSUME DevReloadAssumption ==
  Cap \in Nat \ {0} /\ MaxWrites \in Nat /\ Restarts \in BOOLEAN

VARIABLES clock,
          reload, failure,     \* .reload and .build-error: the write, or 0
          lastReload,          \* the latest reload signal written
          watch, hand,         \* watchSignal: its place, the event it holds
          queue,               \* clients: the channel of each browser
          conn, page, since,   \* each browser: connection, page, when it subscribed
          dropped,             \* history: a reload found the channel full
          overtook,            \* history: the latest reload watchSignal has taken
          saw,                 \* history: overtook when each browser's page was loaded
          spared               \* history: failures a restart kept from DropFailure

files      == <<clock, reload, failure, lastReload>>
watcher    == <<watch, hand, overtook, spared>>
clients    == <<queue, conn, page, since, dropped, saw>>
reloadVars == <<files, watcher, clients>>

Writes == 0 .. MaxWrites
Event  == [kind : {"reload", "build-error"}, at : Writes]

ReloadTypeOK ==
  /\ {clock, reload, failure, lastReload, overtook} \subseteq Writes
  /\ hand \in Event
  /\ watch \in {"tick", "tellReload", "dropFailure", "readFailure", "removeFailure", "tellFailure"}
  /\ queue \in [Browsers -> Seq(Event)]
  /\ conn \in [Browsers -> {"closed", "loaded", "open", "lost"}]
  /\ page \in [Browsers -> Writes] /\ since \in [Browsers -> Writes]
  /\ saw \in [Browsers -> Writes] /\ spared \subseteq Writes
  /\ dropped \in [Browsers -> BOOLEAN]

ReloadInit ==
  /\ clock = 0 /\ reload = 0 /\ failure = 0 /\ lastReload = 0
  /\ watch = "tick" /\ hand = [kind |-> "reload", at |-> 0]
  /\ overtook = 0 /\ spared = {}
  /\ queue = [b \in Browsers |-> <<>>]
  /\ conn = [b \in Browsers |-> "closed"]
  /\ page = [b \in Browsers |-> 0] /\ since = [b \in Browsers |-> 0]
  /\ saw = [b \in Browsers |-> 0]
  /\ dropped = [b \in Browsers |-> FALSE]

-----------------------------------------------------------------------------
(* The CLI.                                                                *)

WriteReloadSignal ==
  /\ clock < MaxWrites
  /\ clock' = clock + 1 /\ reload' = clock' /\ lastReload' = clock'
  /\ UNCHANGED <<failure, watcher, clients>>

\* A temporary file and a rename: the reader sees all of a message or none.
WriteBuildErrorSignal ==
  /\ clock < MaxWrites
  /\ clock' = clock + 1 /\ failure' = clock'
  /\ UNCHANGED <<reload, lastReload, watcher, clients>>

-----------------------------------------------------------------------------
(* watchSignal                                                             *)

Go(place) == watch' = place

RemoveReload ==
  /\ watch = "tick"
  /\ IF reload = 0
     THEN Go("readFailure") /\ UNCHANGED <<reload, hand, overtook>>
     ELSE /\ Go("tellReload") /\ reload' = 0 /\ overtook' = reload
          /\ hand' = [kind |-> "reload", at |-> reload]
  /\ UNCHANGED <<clock, failure, lastReload, spared, clients>>

Send(q, e) == IF Len(q) < Cap THEN Append(q, e) ELSE q

\* broadcastEvent: under mu, to every subscribed client, never waiting.
Broadcast(e) ==
  /\ queue' = [b \in Browsers |-> IF conn[b] = "open" THEN Send(queue[b], e) ELSE queue[b]]
  /\ dropped' = [b \in Browsers |->
                   \/ dropped[b]
                   \/ conn[b] = "open" /\ e.kind = "reload" /\ Len(queue[b]) = Cap]
  /\ UNCHANGED <<conn, page, since, saw>>

TellReload ==
  /\ watch = "tellReload"
  /\ Broadcast(hand)
  /\ Go("dropFailure")
  /\ UNCHANGED <<files, hand, overtook, spared>>

\* Mutant: the failure a reload made stale is left for the next tick.
DropFailureForgotten ==
  /\ watch = "dropFailure"
  /\ Go("tick")
  /\ UNCHANGED <<files, hand, overtook, spared, clients>>

\* Mutant: the signal file is removed once the browsers have been told.
DropFailureRemovesReload ==
  /\ watch = "dropFailure"
  /\ failure' = 0 /\ reload' = 0
  /\ Go("tick")
  /\ UNCHANGED <<clock, lastReload, hand, overtook, spared, clients>>

\* The reload makes a pending failure stale: remove it without a word.
DropFailure ==
  /\ watch = "dropFailure"
  /\ failure' = 0
  /\ Go("tick")
  /\ UNCHANGED <<clock, reload, lastReload, hand, overtook, spared, clients>>

ReadFailure ==
  /\ watch = "readFailure"
  /\ IF failure = 0
     THEN Go("tick") /\ UNCHANGED hand
     ELSE Go("removeFailure") /\ hand' = [kind |-> "build-error", at |-> failure]
  /\ UNCHANGED <<files, overtook, spared, clients>>

RemoveFailure ==
  /\ watch = "removeFailure"
  /\ failure' = 0
  /\ Go("tellFailure")
  /\ UNCHANGED <<clock, reload, lastReload, hand, overtook, spared, clients>>

TellFailure ==
  /\ watch = "tellFailure"
  /\ Broadcast(hand)
  /\ Go("tick")
  /\ UNCHANGED <<files, hand, overtook, spared>>

WatchSignal ==
  \/ RemoveReload \/ TellReload \/ DropFailure
  \/ ReadFailure \/ RemoveFailure \/ TellFailure

-----------------------------------------------------------------------------
(* The browsers: HandleSSE and the reload script.                          *)

\* The server renders the page as it is now; its script opens an EventSource.
Load(b) ==
  /\ conn' = [conn EXCEPT ![b] = "loaded"]
  /\ page' = [page EXCEPT ![b] = clock]
  /\ saw' = [saw EXCEPT ![b] = overtook]
  /\ queue' = [queue EXCEPT ![b] = <<>>]
  /\ dropped' = [dropped EXCEPT ![b] = FALSE]
  /\ UNCHANGED since

Visit(b) ==
  /\ conn[b] = "closed"
  /\ Load(b)
  /\ UNCHANGED <<files, watcher>>

Subscribe(b) ==
  /\ conn[b] = "loaded"
  /\ conn' = [conn EXCEPT ![b] = "open"]
  /\ since' = [since EXCEPT ![b] = clock]
  /\ UNCHANGED <<files, watcher, queue, page, dropped, saw>>

\* A reload event loads the page again; a failure is logged to the console.
Receive(b) ==
  /\ conn[b] = "open" /\ queue[b] # <<>>
  /\ IF Head(queue[b]).kind = "reload"
     THEN Load(b)
     ELSE queue' = [queue EXCEPT ![b] = Tail(@)] /\ UNCHANGED <<conn, page, since, dropped, saw>>
  /\ UNCHANGED <<files, watcher>>

\* The stream breaks or cannot be opened: onerror notes it and retries.
Lose(b) ==
  /\ conn[b] \in {"loaded", "open"}
  /\ conn' = [conn EXCEPT ![b] = "lost"]
  /\ queue' = [queue EXCEPT ![b] = <<>>]
  /\ UNCHANGED <<files, watcher, page, since, dropped, saw>>

\* onopen after an error loads the page again.
Reconnect(b) ==
  /\ conn[b] = "lost"
  /\ Load(b)
  /\ UNCHANGED <<files, watcher>>

Close(b) ==
  /\ conn[b] # "closed"
  /\ conn' = [conn EXCEPT ![b] = "closed"]
  /\ queue' = [queue EXCEPT ![b] = <<>>]
  /\ UNCHANGED <<files, watcher, page, since, dropped, saw>>

\* Another process takes over: it starts polling, and every stream breaks.  A
\* watchSignal that had taken a reload does not get to drop the failure file.
Restart ==
  /\ Restarts
  /\ watch' = "tick"
  /\ conn' = [b \in Browsers |-> IF conn[b] = "closed" THEN "closed" ELSE "lost"]
  /\ queue' = [b \in Browsers |-> <<>>]
  /\ spared' = IF watch \in {"tellReload", "dropFailure"} /\ failure # 0
               THEN spared \cup {failure} ELSE spared
  /\ UNCHANGED <<files, hand, overtook, page, since, dropped, saw>>

Browser(b) == Subscribe(b) \/ Receive(b) \/ Reconnect(b)

ReloadNext ==
  \/ WriteReloadSignal \/ WriteBuildErrorSignal
  \/ WatchSignal \/ Restart
  \/ \E b \in Browsers : Browser(b) \/ Visit(b) \/ Lose(b) \/ Close(b)

ReloadSpec == ReloadInit /\ [][ReloadNext]_reloadVars

\* The ticker keeps firing and an open browser handles its events.
FairReload ==
  /\ ReloadSpec
  /\ WF_reloadVars(WatchSignal)
  /\ \A b \in Browsers : WF_reloadVars(Browser(b))

-----------------------------------------------------------------------------
(* Properties                                                              *)

\* A failure that a reload has overtaken is never shown after that reload:
\* neither behind it in a channel nor, whatever the browser lost or loaded
\* again, to a page loaded since watchSignal took the reload.  The exception:
\* the application was replaced after its watchSignal had taken the reload and
\* before it removed the failure file (devreload.go:100-105), which its
\* successor then finds.
NoStaleFailure ==
  \A b \in Browsers : \A j \in 1 .. Len(queue[b]) :
    queue[b][j].kind = "build-error" =>
      /\ queue[b][j].at > saw[b] \/ queue[b][j].at \in spared
      /\ \A i \in 1 .. j - 1 : queue[b][i].kind = "reload" => queue[b][j].at > queue[b][i].at

\* The page is as new as the last reload signal, or the browser connected only
\* after that signal, or has no connection.
UpToDate(b) == conn[b] # "open" \/ page[b] >= lastReload \/ since[b] >= lastReload

\* A reload signal reaches every browser connected when it was written, across
\* lost connections and restarts, unless the browser's channel was full.
ReloadReaches == \A b \in Browsers : []<>(UpToDate(b) \/ dropped[b])
=============================================================================
