----------------------------- MODULE LivePages ------------------------------
(***************************************************************************)
(* datastar.LivePages: one goroutine per open stream (serve), one per      *)
(* group of streams that render identically (run), and the application's   *)
(* writers, which change the state and then call Notify.                   *)
(*                                                                         *)
(* Three mutexes order them: LivePages.mu (`lmu'), liveGroup.mu (field mu  *)
(* of grp[g]) and Notifier.mu (`nmu').  An action is what a goroutine does *)
(* between two points where another may interfere: a lock it takes, a      *)
(* channel operation, the call into the page handler.                      *)
(***************************************************************************)
EXTENDS Naturals

CONSTANTS Streams,    \* open pages; each runs serve
          Keys,       \* liveKey: target, Host and forwarded headers
          Groups,     \* liveGroup objects alive at one time (the bound on them)
          Writers,    \* goroutines that write the application's state
          None,       \* no goroutine, group, key or frame
          MaxVersion, \* bound on the number of writes
          Debounced   \* LivePages.Debounce > 0

Frame == [key : Keys, ver : 0 .. MaxVersion]

ASSUME LivePagesAssumption ==
  /\ MaxVersion \in Nat
  /\ Debounced \in BOOLEAN
  /\ None \notin Streams \cup Keys \cup Groups \cup Writers \cup Frame
  /\ Streams \cap Groups = {}

VARIABLES version, wpc,               \* the state, and each writer's place
          subs, pending, nmu, walk,   \* the Notifier; a group is its subscription
          lmu, groups,                \* LivePages.mu and LivePages.groups
          grp,                        \* the liveGroups, with run and deliver
          st                          \* the streams, with serve

app      == <<version, wpc>>
notifier == <<subs, pending, nmu, walk>>
vars     == <<version, wpc, subs, pending, nmu, walk, lmu, groups, grp, st>>

N == INSTANCE Notifier WITH Subscribers <- Groups

Group ==
  [pc : {"none", "subscribe", "render", "rendered", "publish", "wait", "timer"},
   key : Keys \cup {None}, mu : Streams \cup Groups \cup {None},
   members : SUBSET Streams, last : Frame \cup {None}, cancelled : BOOLEAN,
   drawn : 0 .. MaxVersion,           \* the version the latest render read
   failed : BOOLEAN,                  \* the latest render failed
   left : SUBSET Streams,             \* deliver: members still to be handed `last'
   target : Streams \cup {None}, step : {"idle", "try", "drain", "push"}]

Stream ==
  [pc : {"off", "join", "joinGroup", "joinDeliver", "stream", "send",
         "leave", "leaveGroup", "leaveLast"},
   key : Keys \cup {None}, grp : Groups \cup {None},
   chan : Frame \cup {None},          \* liveMember.frames, capacity one
   sending : Frame \cup {None},       \* the frame PatchElements writes
   shown : Frame \cup {None}]         \* the frame the browser shows

TypeOK ==
  /\ version \in 0 .. MaxVersion
  /\ wpc \in [Writers -> {"idle", "written", "notifying"}]
  /\ N!NotifierTypeOK
  /\ lmu \in Streams \cup {None}
  /\ groups \in [Keys -> Groups \cup {None}]
  /\ grp \in [Groups -> Group]
  /\ st \in [Streams -> Stream]

NoGroup == [pc |-> "none", key |-> None, mu |-> None, members |-> {}, last |-> None,
            cancelled |-> FALSE, drawn |-> 0, failed |-> FALSE,
            left |-> {}, target |-> None, step |-> "idle"]

NoStream == [pc |-> "off", key |-> None, grp |-> None,
             chan |-> None, sending |-> None, shown |-> None]

Init ==
  /\ version = 0
  /\ wpc = [w \in Writers |-> "idle"]
  /\ N!NotifierInit
  /\ lmu = None
  /\ groups = [k \in Keys |-> None]
  /\ grp = [g \in Groups |-> NoGroup]
  /\ st = [s \in Streams |-> NoStream]

-----------------------------------------------------------------------------
(* The application: "Notify() after every write" (LivePages doc).          *)

Write(w) ==
  /\ wpc[w] = "idle"
  /\ version < MaxVersion
  /\ version' = version + 1
  /\ wpc' = [wpc EXCEPT ![w] = "written"]
  /\ UNCHANGED <<notifier, lmu, groups, grp, st>>

Notify(w) ==
  /\ \/ /\ wpc[w] = "written"
        /\ N!NotifyLock(w)
        /\ wpc' = [wpc EXCEPT ![w] = "notifying"]
     \/ /\ \E g \in Groups : N!NotifySend(w, g)
        /\ UNCHANGED wpc
     \/ /\ N!NotifyUnlock(w)
        /\ wpc' = [wpc EXCEPT ![w] = "idle"]
  /\ UNCHANGED <<version, lmu, groups, grp, st>>

-----------------------------------------------------------------------------
(* serve: a stream opens, joins its group, forwards frames, leaves.        *)

\* A request whose target is valid; the channel it makes is empty.
Open(s, k) ==
  /\ st[s].pc = "off"
  /\ st' = [st EXCEPT ![s] = [NoStream EXCEPT !.pc = "join", !.key = k]]
  /\ UNCHANGED <<app, notifier, lmu, groups, grp>>

\* Mutant: the map ignores the forwarded headers, so one caller joins the
\* group another caller's headers started.
LookupAnyCaller(k) ==
  LET found == {j \in Keys : groups[j] # None}
  IN  IF found # {} THEN groups[CHOOSE j \in found : TRUE] ELSE None

Lookup(k) == groups[k]

\* join takes LivePages.mu and finds the key's group, or makes it and starts run.
JoinExisting(s) ==
  /\ st[s].pc = "join" /\ lmu = None
  /\ Lookup(st[s].key) # None
  /\ lmu' = s
  /\ st' = [st EXCEPT ![s] = [@ EXCEPT !.pc = "joinGroup", !.grp = Lookup(st[s].key)]]
  /\ UNCHANGED <<app, notifier, groups, grp>>

JoinNew(s, g) ==
  /\ st[s].pc = "join" /\ lmu = None
  /\ Lookup(st[s].key) = None
  /\ grp[g].pc = "none"
  /\ lmu' = s
  /\ groups' = [groups EXCEPT ![st[s].key] = g]
  /\ grp' = [grp EXCEPT ![g] = [NoGroup EXCEPT !.pc = "subscribe", !.key = st[s].key]]
  /\ st' = [st EXCEPT ![s] = [@ EXCEPT !.pc = "joinGroup", !.grp = g]]
  /\ UNCHANGED <<app, notifier>>

\* Under liveGroup.mu: become a member, and be handed the last frame if any.
JoinGroup(s) ==
  LET g == st[s].grp IN
  /\ st[s].pc = "joinGroup" /\ grp[g].mu = None
  /\ grp' = [grp EXCEPT ![g] = [@ EXCEPT !.mu = s, !.step = "try",
                              !.members = grp[g].members \cup {s},
                              !.left = IF grp[g].last = None THEN {} ELSE {s}]]
  /\ st' = [st EXCEPT ![s] = [@ EXCEPT !.pc = "joinDeliver"]]
  /\ UNCHANGED <<app, notifier, lmu, groups>>

Joined(s) ==
  LET g == st[s].grp IN
  /\ st[s].pc = "joinDeliver" /\ grp[g].left = {}
  /\ grp' = [grp EXCEPT ![g] = [@ EXCEPT !.mu = None, !.step = "idle"]]
  /\ lmu' = None
  /\ st' = [st EXCEPT ![s] = [@ EXCEPT !.pc = "stream"]]
  /\ UNCHANGED <<app, notifier, groups>>

Forward(s) ==
  /\ st[s].pc = "stream" /\ st[s].chan # None
  /\ st' = [st EXCEPT ![s] = [@ EXCEPT !.pc = "send", !.sending = st[s].chan, !.chan = None]]
  /\ UNCHANGED <<app, notifier, lmu, groups, grp>>

Patched(s) ==
  /\ st[s].pc = "send"
  /\ st' = [st EXCEPT ![s] = [@ EXCEPT !.pc = "stream", !.shown = st[s].sending, !.sending = None]]
  /\ UNCHANGED <<app, notifier, lmu, groups, grp>>

\* The browser goes away: the context ends while serve waits, or PatchElements
\* fails.  (serve looks at the context nowhere else.)
Hangup(s) ==
  /\ st[s].pc \in {"stream", "send"}
  /\ st' = [st EXCEPT ![s] = [@ EXCEPT !.pc = "leave"]]
  /\ UNCHANGED <<app, notifier, lmu, groups, grp>>

LeaveLock(s) ==
  /\ st[s].pc = "leave" /\ lmu = None
  /\ lmu' = s
  /\ st' = [st EXCEPT ![s] = [@ EXCEPT !.pc = "leaveGroup"]]
  /\ UNCHANGED <<app, notifier, groups, grp>>

\* Mutant: leave gives up LivePages.mu before it knows whether s was the last.
LeaveGroupUnlocked(s) ==
  LET g == st[s].grp IN
  /\ st[s].pc = "leaveGroup" /\ grp[g].mu = None
  /\ grp' = [grp EXCEPT ![g] = [@ EXCEPT !.members = grp[g].members \ {s}]]
  /\ lmu' = None
  /\ st' = [st EXCEPT ![s] = IF grp[g].members \subseteq {s}
                             THEN [@ EXCEPT !.pc = "leaveLast"] ELSE NoStream]
  /\ UNCHANGED <<app, notifier, groups>>

\* Under liveGroup.mu: stop being a member.  Unless it was the last one, the
\* stream is done: serve returns and its channel is garbage.
LeaveGroup(s) ==
  LET g == st[s].grp IN
  /\ st[s].pc = "leaveGroup" /\ grp[g].mu = None
  /\ grp' = [grp EXCEPT ![g] = [@ EXCEPT !.members = grp[g].members \ {s}]]
  /\ IF grp[g].members \subseteq {s}
     THEN st' = [st EXCEPT ![s] = [@ EXCEPT !.pc = "leaveLast"]] /\ UNCHANGED lmu
     ELSE st' = [st EXCEPT ![s] = NoStream] /\ lmu' = None
  /\ UNCHANGED <<app, notifier, groups>>

\* The last stream takes the group out of the map and stops its goroutine.
LeaveLast(s) ==
  LET g == st[s].grp IN
  /\ st[s].pc = "leaveLast"
  /\ groups' = [groups EXCEPT ![grp[g].key] = None]
  /\ grp' = [grp EXCEPT ![g] = [@ EXCEPT !.cancelled = TRUE]]
  /\ lmu' = None
  /\ st' = [st EXCEPT ![s] = NoStream]
  /\ UNCHANGED <<app, notifier>>

-----------------------------------------------------------------------------
(* deliver, by the goroutine that holds liveGroup.mu (run or a joiner):    *)
(* try to send; if the channel is full take what is there; send.           *)

\* Mutant: a full channel keeps its old frame and the new one is dropped.
DeliverTryDrops(g) ==
  /\ grp[g].step = "try"
  /\ \E m \in grp[g].left :
       /\ st' = [st EXCEPT ![m] = [@ EXCEPT !.chan = IF @ = None THEN grp[g].last ELSE @]]
       /\ grp' = [grp EXCEPT ![g] = [@ EXCEPT !.left = grp[g].left \ {m}]]
  /\ UNCHANGED <<app, notifier, lmu, groups>>

DeliverTry(g) ==
  /\ grp[g].step = "try"
  /\ \E m \in grp[g].left :
       IF st[m].chan = None
       THEN /\ st' = [st EXCEPT ![m] = [@ EXCEPT !.chan = grp[g].last]]
            /\ grp' = [grp EXCEPT ![g] = [@ EXCEPT !.left = grp[g].left \ {m}]]
       ELSE /\ grp' = [grp EXCEPT ![g] = [@ EXCEPT !.target = m, !.step = "drain"]]
            /\ UNCHANGED st
  /\ UNCHANGED <<app, notifier, lmu, groups>>

\* Mutant: the pending frame is not taken out before the send.
DeliverDrainForgotten(g) ==
  /\ grp[g].step = "drain"
  /\ grp' = [grp EXCEPT ![g] = [@ EXCEPT !.step = "push"]]
  /\ UNCHANGED <<app, notifier, lmu, groups, st>>

DeliverDrain(g) ==
  /\ grp[g].step = "drain"
  /\ st' = [st EXCEPT ![grp[g].target] = [@ EXCEPT !.chan = None]]
  /\ grp' = [grp EXCEPT ![g] = [@ EXCEPT !.step = "push"]]
  /\ UNCHANGED <<app, notifier, lmu, groups>>

\* This send has no default branch: it waits while the channel is full.
DeliverPush(g) ==
  LET m == grp[g].target IN
  /\ grp[g].step = "push" /\ st[m].chan = None
  /\ st' = [st EXCEPT ![m] = [@ EXCEPT !.chan = grp[g].last]]
  /\ grp' = [grp EXCEPT ![g] = [@ EXCEPT !.left = grp[g].left \ {m}, !.target = None, !.step = "try"]]
  /\ UNCHANGED <<app, notifier, lmu, groups>>

Deliver(g) == DeliverTry(g) \/ DeliverDrain(g) \/ DeliverPush(g)

-----------------------------------------------------------------------------
(* run: the goroutine of one group.                                        *)

RunSubscribe(g) ==
  /\ grp[g].pc = "subscribe"
  /\ N!Subscribe(g)
  /\ grp' = [grp EXCEPT ![g] = [@ EXCEPT !.pc = "render"]]
  /\ UNCHANGED <<app, lmu, groups, st>>

\* The page handler reads the state at some moment of the render.
RenderRead(g) ==
  /\ grp[g].pc = "render"
  /\ grp' = [grp EXCEPT ![g] = [@ EXCEPT !.pc = "rendered", !.drawn = version]]
  /\ UNCHANGED <<app, notifier, lmu, groups, st>>

\* A panic, a status other than 200 or a page without live root: nothing is sent.
RenderFails(g) ==
  /\ grp[g].pc = "rendered"
  /\ grp' = [grp EXCEPT ![g] = [@ EXCEPT !.pc = "wait", !.failed = TRUE]]
  /\ UNCHANGED <<app, notifier, lmu, groups, st>>

Publish(g) ==
  /\ grp[g].pc = "rendered" /\ grp[g].mu = None
  /\ grp' = [grp EXCEPT ![g] = [@ EXCEPT !.pc = "publish", !.mu = g, !.step = "try",
                              !.last = [key |-> grp[g].key, ver |-> grp[g].drawn],
                              !.left = grp[g].members, !.failed = FALSE]]
  /\ UNCHANGED <<app, notifier, lmu, groups, st>>

Published(g) ==
  /\ grp[g].pc = "publish" /\ grp[g].left = {}
  /\ grp' = [grp EXCEPT ![g] = [@ EXCEPT !.pc = "wait", !.mu = None, !.step = "idle"]]
  /\ UNCHANGED <<app, notifier, lmu, groups, st>>

Wake(g) ==
  /\ grp[g].pc = "wait"
  /\ N!Receive(g)
  /\ grp' = [grp EXCEPT ![g] = [@ EXCEPT !.pc = IF Debounced THEN "timer" ELSE "render"]]
  /\ UNCHANGED <<app, lmu, groups, st>>

\* Mutant: a window that drained a signal waits for the next one to render.
TimerFiresSkips(g) ==
  /\ grp[g].pc = "timer"
  /\ N!Drain(g)
  /\ grp' = [grp EXCEPT ![g] = [@ EXCEPT !.pc = IF pending[g] THEN "wait" ELSE "render"]]
  /\ UNCHANGED <<app, lmu, groups, st>>

\* The timer fires; a signal that came meanwhile is taken with it.
TimerFires(g) ==
  /\ grp[g].pc = "timer"
  /\ N!Drain(g)
  /\ grp' = [grp EXCEPT ![g] = [@ EXCEPT !.pc = "render"]]
  /\ UNCHANGED <<app, lmu, groups, st>>

\* Mutant: run returns without its deferred cancel.
RunStopsSubscribed(g) ==
  /\ grp[g].pc \in {"wait", "timer"} /\ grp[g].cancelled
  /\ grp' = [grp EXCEPT ![g] = NoGroup]
  /\ UNCHANGED <<app, notifier, lmu, groups, st>>

\* ctx.Done in either select; the deferred cancel unsubscribes, and the group,
\* which nothing refers to any more, is garbage.
RunStops(g) ==
  /\ grp[g].pc \in {"wait", "timer"} /\ grp[g].cancelled
  /\ N!Cancel(g)
  /\ grp' = [grp EXCEPT ![g] = NoGroup]
  /\ UNCHANGED <<app, lmu, groups, st>>

Run(g) ==
  \/ RunSubscribe(g) \/ RenderRead(g) \/ RenderFails(g)
  \/ Publish(g) \/ Published(g)
  \/ Wake(g) \/ TimerFires(g) \/ RunStops(g)

Serve(s) ==
  \/ JoinExisting(s) \/ (\E g \in Groups : JoinNew(s, g))
  \/ JoinGroup(s) \/ Joined(s)
  \/ Forward(s) \/ Patched(s)
  \/ LeaveLock(s) \/ LeaveGroup(s) \/ LeaveLast(s)

Next ==
  \/ \E w \in Writers : Write(w) \/ Notify(w)
  \/ \E s \in Streams : Serve(s) \/ Hangup(s) \/ \E k \in Keys : Open(s, k)
  \/ \E g \in Groups : Run(g) \/ Deliver(g)

Spec == Init /\ [][Next]_vars

(* The Go scheduler runs every goroutine that can run, and its mutexes do  *)
(* not starve a waiter: strong fairness for each goroutine.  Browsers come *)
(* and go as they like and writers may stop, but one that wrote notifies.  *)
FairSpec ==
  /\ Spec
  /\ \A w \in Writers : SF_vars(Notify(w))
  /\ \A s \in Streams : SF_vars(Serve(s))
  /\ \A g \in Groups : SF_vars(Run(g)) /\ SF_vars(Deliver(g))

-----------------------------------------------------------------------------
(* Properties                                                              *)

\* deliver's last send (live.go) never waits, though it is made under
\* liveGroup.mu while the stream reads the channel without any lock.
DeliverNeverBlocks ==
  \A g \in Groups : grp[g].step = "push" => st[grp[g].target].chan = None

\* LivePages.groups is exact.  A group with a member is the one the map holds
\* for its key and is not cancelled; a running group without one is cancelled,
\* or a stream inside join or leave is about to change that; and no stream
\* that may still read its channel belongs to a cancelled group.
GroupMapExact ==
  \A g \in Groups :
    /\ grp[g].members # {} =>
         grp[g].key # None /\ groups[grp[g].key] = g /\ ~grp[g].cancelled
    /\ grp[g].pc # "none" /\ ~grp[g].cancelled /\ grp[g].members = {} =>
         lmu # None /\ st[lmu].grp = g /\ st[lmu].pc \in {"joinGroup", "leaveLast"}
    /\ grp[g].cancelled => \A s \in Streams : st[s].grp # g

\* No change is lost between Subscribe, Notify and the render: a group that
\* has drawn an older version and will not draw again by itself has a signal,
\* or a Notify is still to reach it.
NoLostChange ==
  \A g \in Groups :
    grp[g].pc \in {"rendered", "publish", "wait"} /\ grp[g].drawn < version =>
      \/ pending[g]
      \/ nmu # None /\ g \in walk
      \/ \E w \in Writers : wpc[w] = "written"

\* The browsers see what LiveView allows: frames rendered for their own key,
\* never an older one after a newer one, whatever joins, leaves and renders race.
View == INSTANCE LiveView WITH
  Browsers  <- Streams,
  following <- [s \in Streams |-> st[s].key],
  view      <- [s \in Streams |-> st[s].shown]

LiveViewRefined == View!LVSpec

\* The goroutine of a group nobody watches ends and gives up its subscription.
CancelledGroupEnds ==
  \A g \in Groups : grp[g].cancelled ~> (grp[g].pc = "none" /\ g \notin subs)

\* An open page catches up: unless its last render failed, a stream that stays
\* connected shows the newest version again and again.
StreamsCatchUp ==
  \A s \in Streams : []<>
    \/ st[s].pc \in {"off", "leave"}
    \/ st[s].grp # None /\ grp[st[s].grp].failed
    \/ st[s].shown # None /\ st[s].shown.ver = version

\* Who watches sees the newest version, and what nobody watches is given up.
EventuallyFresh == StreamsCatchUp /\ CancelledGroupEnds
=============================================================================
