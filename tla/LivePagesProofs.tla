-------------------------- MODULE LivePagesProofs ---------------------------
(***************************************************************************)
(* Type correctness of LivePages, and the two invariants that keep it      *)
(* alive: the group map is exact, and deliver never blocks under the       *)
(* group's lock.  Both follow from one inductive invariant, IInv, which    *)
(* says what each lock protects.  At the end, that LivePages implements    *)
(* LiveView.                                                               *)
(***************************************************************************)
EXTENDS LivePages, TLAPS

InGroup(s) == st[s].pc \in {"joinDeliver", "stream", "send", "leave", "leaveGroup"}
HasLock(s) == st[s].pc \in {"joinGroup", "joinDeliver", "leaveGroup", "leaveLast"}
Outside(s) == st[s].pc \in {"off", "join"}

\* A stream holds LivePages.mu exactly while it joins or leaves; from the
\* lookup to the last step of leave its group is alive and in the map.
StreamInv ==
  \A s \in Streams :
    /\ lmu = s <=> HasLock(s)
    /\ st[s].pc # "off" => st[s].key \in Keys
    /\ Outside(s) => st[s].grp = None
    /\ ~Outside(s) =>
         /\ st[s].grp \in Groups
         /\ grp[st[s].grp].pc # "none"
         /\ ~grp[st[s].grp].cancelled
         /\ grp[st[s].grp].key = st[s].key
         /\ groups[st[s].key] = st[s].grp
    /\ InGroup(s) => s \in grp[st[s].grp].members
    /\ st[s].pc = "leaveLast" => grp[st[s].grp].members = {}
    /\ st[s].pc = "joinDeliver" => grp[st[s].grp].mu = s

\* The map holds live groups under their own key, and every live group.
MapInv ==
  /\ \A k \in Keys : groups[k] # None =>
       /\ grp[groups[k]].pc # "none"
       /\ ~grp[groups[k]].cancelled
       /\ grp[groups[k]].key = k
  /\ \A g \in Groups : grp[g].pc # "none" /\ ~grp[g].cancelled =>
       /\ grp[g].key \in Keys
       /\ groups[grp[g].key] = g
       /\ grp[g].members = {} =>
            lmu # None /\ st[lmu].grp = g /\ st[lmu].pc \in {"joinGroup", "leaveLast"}
  /\ \A g \in Groups : \A s \in grp[g].members : st[s].grp = g /\ InGroup(s)

\* liveGroup.mu is held by run while it publishes or by a stream that joins;
\* only its holder delivers, and only to members.
DeliverInv ==
  \A g \in Groups :
    /\ grp[g].step = "idle" <=> grp[g].mu = None
    /\ grp[g].mu \in Streams => st[grp[g].mu].pc = "joinDeliver" /\ st[grp[g].mu].grp = g
    /\ grp[g].mu \in Groups => grp[g].mu = g /\ grp[g].pc = "publish"
    /\ grp[g].pc = "publish" => grp[g].mu = g
    /\ grp[g].step = "idle" => grp[g].left = {}
    /\ grp[g].left \subseteq grp[g].members
    /\ grp[g].step \in {"drain", "push"} => grp[g].target \in grp[g].left
    /\ grp[g].step = "push" => st[grp[g].target].chan = None

\* A group has a key while it runs, cancelled or not.
KeyInv == \A g \in Groups : grp[g].pc # "none" => grp[g].key \in Keys

\* A writer is inside Notify exactly while it holds Notifier.mu, a group is
\* registered from its Subscribe to its end, and no change is lost.
SignalInv ==
  /\ \A w \in Writers : wpc[w] = "notifying" <=> nmu = w
  /\ nmu = None => walk = {}
  /\ \A g \in Groups : grp[g].pc \notin {"none", "subscribe"} => g \in subs
  /\ NoLostChange

IInv == TypeOK /\ KeyInv /\ StreamInv /\ MapInv /\ DeliverInv /\ SignalInv

-----------------------------------------------------------------------------
(* Type correctness.                                                       *)

\* Every action of the Notifier keeps its variables in their types.
LEMMA NotifierTypes ==
  ASSUME N!NotifierTypeOK,
         \/ \E w \in Writers : \/ N!NotifyLock(w) \/ N!NotifyUnlock(w)
                               \/ \E g \in Groups : N!NotifySend(w, g)
         \/ \E g \in Groups : \/ N!Subscribe(g) \/ N!Cancel(g)
                              \/ N!Receive(g) \/ N!Drain(g)
         \/ UNCHANGED notifier
  PROVE  N!NotifierTypeOK'
BY DEF N!NotifierTypeOK, N!NotifyLock, N!NotifyUnlock, N!NotifySend, N!Subscribe,
       N!Cancel, N!Receive, N!Drain, notifier

\* The records of a group and a stream that do not exist are well typed.
LEMMA BlankTypes == NoGroup \in Group /\ NoStream \in Stream
BY LivePagesAssumption DEF NoGroup, NoStream, Group, Stream

\* The initial state is well typed.
LEMMA InitTypeOK == Init => TypeOK
BY LivePagesAssumption, BlankTypes DEF Init, TypeOK, N!NotifierInit, N!NotifierTypeOK

\* What the actions store in a group's record leaves it well typed.
LEMMA GroupUpdates ==
  ASSUME NEW q \in Group
  PROVE  /\ \A k \in Keys : [q EXCEPT !.pc = "subscribe", !.key = k] \in Group
         /\ \A s \in Streams :
              [q EXCEPT !.mu = s, !.step = "try", !.members = q.members \cup {s},
                        !.left = IF q.last = None THEN {} ELSE {s}] \in Group
         /\ [q EXCEPT !.mu = None, !.step = "idle"] \in Group
         /\ \A s \in Streams : [q EXCEPT !.members = q.members \ {s}] \in Group
         /\ [q EXCEPT !.cancelled = TRUE] \in Group
         /\ \A m \in Streams : [q EXCEPT !.left = q.left \ {m}] \in Group
         /\ \A m \in Streams : [q EXCEPT !.target = m, !.step = "drain"] \in Group
         /\ [q EXCEPT !.step = "push"] \in Group
         /\ \A m \in Streams : [q EXCEPT !.left = q.left \ {m}, !.target = None, !.step = "try"] \in Group
         /\ [q EXCEPT !.pc = "render"] \in Group
         /\ \A v \in 0 .. MaxVersion :
              [q EXCEPT !.pc = "rendered", !.drawn = v] \in Group
         /\ [q EXCEPT !.pc = "wait", !.failed = TRUE] \in Group
         /\ \A g \in Groups, f \in Frame :
              [q EXCEPT !.pc = "publish", !.mu = g, !.step = "try", !.last = f,
                        !.left = q.members, !.failed = FALSE] \in Group
         /\ [q EXCEPT !.pc = "wait", !.mu = None, !.step = "idle"] \in Group
         /\ [q EXCEPT !.pc = IF Debounced THEN "timer" ELSE "render"] \in Group
<1>1. \A k \in Keys : [q EXCEPT !.pc = "subscribe", !.key = k] \in Group
  BY DEF Group
<1>2. \A s \in Streams :
       [q EXCEPT !.mu = s, !.step = "try", !.members = q.members \cup {s},
       !.left = IF q.last = None THEN {} ELSE {s}] \in Group
  BY DEF Group
<1>3. [q EXCEPT !.mu = None, !.step = "idle"] \in Group
  BY DEF Group
<1>4. \A s \in Streams : [q EXCEPT !.members = q.members \ {s}] \in Group
  BY DEF Group
<1>5. [q EXCEPT !.cancelled = TRUE] \in Group
  BY DEF Group
<1>6. \A m \in Streams : [q EXCEPT !.left = q.left \ {m}] \in Group
  BY DEF Group
<1>7. \A m \in Streams : [q EXCEPT !.target = m, !.step = "drain"] \in Group
  BY DEF Group
<1>8. [q EXCEPT !.step = "push"] \in Group
  BY DEF Group
<1>9. \A m \in Streams : [q EXCEPT !.left = q.left \ {m}, !.target = None, !.step = "try"] \in Group
  BY DEF Group
<1>10. [q EXCEPT !.pc = "render"] \in Group
  BY DEF Group
<1>11. \A v \in 0 .. MaxVersion :
       [q EXCEPT !.pc = "rendered", !.drawn = v] \in Group
  BY DEF Group
<1>12. [q EXCEPT !.pc = "wait", !.failed = TRUE] \in Group
  BY DEF Group
<1>13. \A g \in Groups, f \in Frame :
       [q EXCEPT !.pc = "publish", !.mu = g, !.step = "try", !.last = f,
       !.left = q.members, !.failed = FALSE] \in Group
  BY DEF Group
<1>14. [q EXCEPT !.pc = "wait", !.mu = None, !.step = "idle"] \in Group
  BY DEF Group
<1>15. [q EXCEPT !.pc = IF Debounced THEN "timer" ELSE "render"] \in Group
  BY DEF Group
<1> QED
  BY <1>1, <1>2, <1>3, <1>4, <1>5, <1>6, <1>7, <1>8, <1>9, <1>10, <1>11, <1>12, <1>13, <1>14, <1>15

\* And so does what they store in a stream's record.
LEMMA StreamUpdates ==
  ASSUME NEW q \in Stream
  PROVE  /\ \A k \in Keys : [q EXCEPT !.pc = "join", !.key = k] \in Stream
         /\ \A g \in Groups : [q EXCEPT !.pc = "joinGroup", !.grp = g] \in Stream
         /\ \A p \in {"joinDeliver", "stream", "leave", "leaveGroup", "leaveLast"} :
              [q EXCEPT !.pc = p] \in Stream
         /\ [q EXCEPT !.pc = "send", !.sending = q.chan, !.chan = None] \in Stream
         /\ [q EXCEPT !.pc = "stream", !.shown = q.sending, !.sending = None] \in Stream
         /\ \A f \in Frame \cup {None} : [q EXCEPT !.chan = f] \in Stream
BY DEF Stream

\* Every step keeps the types.
LEMMA NextTypeOK == IInv /\ [Next]_vars => TypeOK'
<1> SUFFICES ASSUME IInv, [Next]_vars PROVE TypeOK'
  OBVIOUS
<1>1. /\ \A g \in Groups : grp[g] \in Group
      /\ \A s \in Streams : st[s] \in Stream
  BY DEF IInv, TypeOK
<1>2. /\ \A g \in Groups : grp[g].left \subseteq Streams /\ grp[g].last \in Frame \cup {None}
      /\ \A g \in Groups : grp[g].step \in {"drain", "push"} => grp[g].target \in Streams
      /\ \A g \in Groups : grp[g].pc # "none" =>
           [key |-> grp[g].key, ver |-> grp[g].drawn] \in Frame
  BY <1>1 DEF Group, Frame, IInv, DeliverInv, KeyInv
<1>3. \A s \in Streams : /\ st[s].pc = "join" => st[s].key \in Keys
                         /\ ~Outside(s) => st[s].grp \in Groups
  BY DEF IInv, StreamInv
<1>4. \A k \in Keys : groups[k] \in Groups \cup {None}
  BY DEF IInv, TypeOK
<1>5. ASSUME NEW w \in Writers, Write(w) PROVE TypeOK'
  BY <1>5, NotifierTypes, LivePagesAssumption DEF Write, app, notifier, IInv, TypeOK
<1>6. ASSUME NEW w \in Writers, Notify(w) PROVE TypeOK'
  BY <1>6, NotifierTypes, LivePagesAssumption DEF Notify, app, notifier, IInv, TypeOK
<1>7. ASSUME NEW s \in Streams, NEW k \in Keys, Open(s, k) PROVE TypeOK'
  <2>1. st' \in [Streams -> Stream]
    BY <1>7, <1>1, StreamUpdates, BlankTypes DEF Open, IInv, TypeOK
  <2> QED
    BY <1>7, <2>1, NotifierTypes DEF Open, app, notifier, IInv, TypeOK
<1>8. ASSUME NEW s \in Streams, JoinExisting(s) PROVE TypeOK'
  <2>1. st' \in [Streams -> Stream]
    BY <1>8, <1>1, <1>3, <1>4, StreamUpdates, BlankTypes DEF JoinExisting, Outside, Lookup, IInv, TypeOK
  <2> QED
    BY <1>8, <2>1, NotifierTypes DEF JoinExisting, app, notifier, IInv, TypeOK
<1>9. ASSUME NEW s \in Streams, NEW g \in Groups, JoinNew(s, g) PROVE TypeOK'
  <2>1. grp' \in [Groups -> Group]
    BY <1>9, <1>1, <1>3, GroupUpdates, BlankTypes DEF JoinNew, Lookup, IInv, TypeOK
  <2>2. st' \in [Streams -> Stream]
    BY <1>9, <1>1, <1>3, StreamUpdates, BlankTypes DEF JoinNew, Lookup, IInv, TypeOK
  <2> QED
    BY <1>9, <2>1, <2>2, <1>3, NotifierTypes DEF JoinNew, app, notifier, IInv, TypeOK
<1>10. ASSUME NEW s \in Streams, JoinGroup(s) PROVE TypeOK'
  <2> DEFINE g == st[s].grp
  <2>3. g \in Groups
    BY <1>10, <1>3 DEF JoinGroup, Outside
  <2>4. [grp[g] EXCEPT !.mu = s, !.step = "try", !.members = grp[g].members \cup {s},
                       !.left = IF grp[g].last = None THEN {} ELSE {s}] \in Group
    BY <2>3, <1>1, GroupUpdates
  <2>1. grp' \in [Groups -> Group]
    BY <1>10, <2>3, <2>4 DEF JoinGroup, IInv, TypeOK
  <2>2. st' \in [Streams -> Stream]
    BY <1>10, <1>1, <1>3, StreamUpdates, BlankTypes DEF JoinGroup, Outside, IInv, TypeOK
  <2> QED
    BY <1>10, <2>1, <2>2, NotifierTypes DEF JoinGroup, app, notifier, IInv, TypeOK
<1>11. ASSUME NEW s \in Streams, Joined(s) PROVE TypeOK'
  <2>1. grp' \in [Groups -> Group]
    BY <1>11, <1>1, <1>3, GroupUpdates, BlankTypes DEF Joined, Outside, IInv, TypeOK
  <2>2. st' \in [Streams -> Stream]
    BY <1>11, <1>1, <1>3, StreamUpdates, BlankTypes DEF Joined, Outside, IInv, TypeOK
  <2> QED
    BY <1>11, <2>1, <2>2, NotifierTypes DEF Joined, app, notifier, IInv, TypeOK
<1>12. ASSUME NEW s \in Streams, Forward(s) PROVE TypeOK'
  <2>1. st' \in [Streams -> Stream]
    BY <1>12, <1>1, StreamUpdates, BlankTypes DEF Forward, IInv, TypeOK
  <2> QED
    BY <1>12, <2>1, NotifierTypes DEF Forward, app, notifier, IInv, TypeOK
<1>13. ASSUME NEW s \in Streams, Patched(s) PROVE TypeOK'
  <2>1. st' \in [Streams -> Stream]
    BY <1>13, <1>1, StreamUpdates, BlankTypes DEF Patched, IInv, TypeOK
  <2> QED
    BY <1>13, <2>1, NotifierTypes DEF Patched, app, notifier, IInv, TypeOK
<1>14. ASSUME NEW s \in Streams, Hangup(s) PROVE TypeOK'
  <2>1. st' \in [Streams -> Stream]
    BY <1>14, <1>1, StreamUpdates, BlankTypes DEF Hangup, IInv, TypeOK
  <2> QED
    BY <1>14, <2>1, NotifierTypes DEF Hangup, app, notifier, IInv, TypeOK
<1>15. ASSUME NEW s \in Streams, LeaveLock(s) PROVE TypeOK'
  <2>1. st' \in [Streams -> Stream]
    BY <1>15, <1>1, StreamUpdates, BlankTypes DEF LeaveLock, IInv, TypeOK
  <2> QED
    BY <1>15, <2>1, NotifierTypes DEF LeaveLock, app, notifier, IInv, TypeOK
<1>16. ASSUME NEW s \in Streams, LeaveGroup(s) PROVE TypeOK'
  <2> DEFINE g == st[s].grp
  <2>3. g \in Groups
    BY <1>16, <1>3 DEF LeaveGroup, Outside
  <2>4. [grp[g] EXCEPT !.members = grp[g].members \ {s}] \in Group
    BY <2>3, <1>1, GroupUpdates
  <2>1. grp' \in [Groups -> Group]
    BY <1>16, <2>3, <2>4 DEF LeaveGroup, IInv, TypeOK
  <2>5. [st[s] EXCEPT !.pc = "leaveLast"] \in Stream
    BY <1>1, StreamUpdates
  <2>2. st' \in [Streams -> Stream]
    BY <1>16, <2>5, BlankTypes DEF LeaveGroup, IInv, TypeOK
  <2> QED
    BY <1>16, <2>1, <2>2, NotifierTypes DEF LeaveGroup, app, notifier, IInv, TypeOK
<1>17. ASSUME NEW s \in Streams, LeaveLast(s) PROVE TypeOK'
  <2>1. grp' \in [Groups -> Group]
    BY <1>17, <1>1, <1>3, GroupUpdates, BlankTypes DEF LeaveLast, Outside, IInv, TypeOK
  <2>2. st' \in [Streams -> Stream]
    BY <1>17, <1>1, <1>3, StreamUpdates, BlankTypes DEF LeaveLast, Outside, IInv, TypeOK
  <2> QED
    BY <1>17, <2>1, <2>2, NotifierTypes DEF LeaveLast, app, notifier, IInv, TypeOK
<1>18. ASSUME NEW g \in Groups, DeliverTry(g) PROVE TypeOK'
  <2>1. PICK m \in grp[g].left :
          IF st[m].chan = None
          THEN /\ st' = [st EXCEPT ![m] = [@ EXCEPT !.chan = grp[g].last]]
               /\ grp' = [grp EXCEPT ![g] = [@ EXCEPT !.left = grp[g].left \ {m}]]
          ELSE /\ grp' = [grp EXCEPT ![g] = [@ EXCEPT !.target = m, !.step = "drain"]]
               /\ UNCHANGED st
    BY <1>18 DEF DeliverTry
  <2>2. m \in Streams
    BY <2>1, <1>2
  <2>3. /\ [grp[g] EXCEPT !.left = grp[g].left \ {m}] \in Group
        /\ [grp[g] EXCEPT !.target = m, !.step = "drain"] \in Group
    BY <2>2, <1>1, GroupUpdates
  <2>4. [st[m] EXCEPT !.chan = grp[g].last] \in Stream
    BY <2>2, <1>1, <1>2, StreamUpdates
  <2>5. grp' \in [Groups -> Group] /\ st' \in [Streams -> Stream]
    BY <2>1, <2>2, <2>3, <2>4 DEF IInv, TypeOK
  <2> QED
    BY <1>18, <2>5, NotifierTypes DEF DeliverTry, app, notifier, IInv, TypeOK
<1>19. ASSUME NEW g \in Groups, DeliverDrain(g) PROVE TypeOK'
  <2>1. grp' \in [Groups -> Group]
    BY <1>19, <1>1, <1>2, GroupUpdates, BlankTypes DEF DeliverDrain, IInv, TypeOK
  <2>2. st' \in [Streams -> Stream]
    BY <1>19, <1>1, <1>2, StreamUpdates, BlankTypes DEF DeliverDrain, IInv, TypeOK
  <2> QED
    BY <1>19, <2>1, <2>2, NotifierTypes DEF DeliverDrain, app, notifier, IInv, TypeOK
<1>20. ASSUME NEW g \in Groups, DeliverPush(g) PROVE TypeOK'
  <2>3. [grp[g] EXCEPT !.left = grp[g].left \ {grp[g].target}, !.target = None, !.step = "try"] \in Group
    BY <1>20, <1>1, <1>2, GroupUpdates DEF DeliverPush
  <2>1. grp' \in [Groups -> Group]
    BY <1>20, <2>3 DEF DeliverPush, IInv, TypeOK
  <2>2. st' \in [Streams -> Stream]
    BY <1>20, <1>1, <1>2, StreamUpdates, BlankTypes DEF DeliverPush, IInv, TypeOK
  <2> QED
    BY <1>20, <2>1, <2>2, NotifierTypes DEF DeliverPush, app, notifier, IInv, TypeOK
<1>21. ASSUME NEW g \in Groups, RunSubscribe(g) PROVE TypeOK'
  <2>1. grp' \in [Groups -> Group]
    BY <1>21, <1>1, GroupUpdates, BlankTypes DEF RunSubscribe, IInv, TypeOK
  <2> QED
    BY <1>21, <2>1, NotifierTypes DEF RunSubscribe, app, notifier, IInv, TypeOK
<1>22. ASSUME NEW g \in Groups, RenderRead(g) PROVE TypeOK'
  <2>1. grp' \in [Groups -> Group]
    BY <1>22, <1>1, GroupUpdates, BlankTypes DEF RenderRead, IInv, TypeOK
  <2> QED
    BY <1>22, <2>1, NotifierTypes DEF RenderRead, app, notifier, IInv, TypeOK
<1>23. ASSUME NEW g \in Groups, RenderFails(g) PROVE TypeOK'
  <2>1. grp' \in [Groups -> Group]
    BY <1>23, <1>1, GroupUpdates, BlankTypes DEF RenderFails, IInv, TypeOK
  <2> QED
    BY <1>23, <2>1, NotifierTypes DEF RenderFails, app, notifier, IInv, TypeOK
<1>24. ASSUME NEW g \in Groups, Publish(g) PROVE TypeOK'
  <2>1. grp' \in [Groups -> Group]
    BY <1>24, <1>1, <1>2, GroupUpdates, BlankTypes DEF Publish, IInv, TypeOK
  <2> QED
    BY <1>24, <2>1, NotifierTypes DEF Publish, app, notifier, IInv, TypeOK
<1>25. ASSUME NEW g \in Groups, Published(g) PROVE TypeOK'
  <2>1. grp' \in [Groups -> Group]
    BY <1>25, <1>1, GroupUpdates, BlankTypes DEF Published, IInv, TypeOK
  <2> QED
    BY <1>25, <2>1, NotifierTypes DEF Published, app, notifier, IInv, TypeOK
<1>26. ASSUME NEW g \in Groups, Wake(g) PROVE TypeOK'
  <2>1. grp' \in [Groups -> Group]
    BY <1>26, <1>1, GroupUpdates, BlankTypes DEF Wake, IInv, TypeOK
  <2> QED
    BY <1>26, <2>1, NotifierTypes DEF Wake, app, notifier, IInv, TypeOK
<1>27. ASSUME NEW g \in Groups, TimerFires(g) PROVE TypeOK'
  <2>1. grp' \in [Groups -> Group]
    BY <1>27, <1>1, GroupUpdates, BlankTypes DEF TimerFires, IInv, TypeOK
  <2> QED
    BY <1>27, <2>1, NotifierTypes DEF TimerFires, app, notifier, IInv, TypeOK
<1>28. ASSUME NEW g \in Groups, RunStops(g) PROVE TypeOK'
  <2>1. grp' \in [Groups -> Group]
    BY <1>28, <1>1, GroupUpdates, BlankTypes DEF RunStops, IInv, TypeOK
  <2> QED
    BY <1>28, <2>1, NotifierTypes DEF RunStops, app, notifier, IInv, TypeOK
<1>29. CASE UNCHANGED vars
  BY <1>29, NotifierTypes DEF vars, notifier, IInv, TypeOK
<1> QED
  BY <1>5, <1>6, <1>7, <1>8, <1>9, <1>10, <1>11, <1>12, <1>13, <1>14, <1>15, <1>16, <1>17, <1>18, <1>19, <1>20, <1>21, <1>22, <1>23, <1>24, <1>25, <1>26, <1>27, <1>28, <1>29 DEF Next, Serve, Run, Deliver

-----------------------------------------------------------------------------
(* The inductive invariant.                                                *)

\* A group keeps its key until its goroutine ends.
LEMMA NextKeyInv == IInv /\ [Next]_vars => KeyInv'
<1> SUFFICES ASSUME IInv, [Next]_vars PROVE KeyInv'
  OBVIOUS
<1>1. /\ grp \in [Groups -> Group] /\ st \in [Streams -> Stream]
      /\ groups \in [Keys -> Groups \cup {None}] /\ lmu \in Streams \cup {None}
  BY DEF IInv, TypeOK
<1> USE DEF IInv, KeyInv, StreamInv, Outside, Group, Stream, NoGroup, NoStream
<1>2. ASSUME NEW w \in Writers, Write(w) PROVE KeyInv'
  BY <1>2, <1>1, LivePagesAssumption DEF Write, Lookup
<1>3. ASSUME NEW w \in Writers, Notify(w) PROVE KeyInv'
  BY <1>3, <1>1, LivePagesAssumption DEF Notify, Lookup
<1>4. ASSUME NEW s \in Streams, NEW k \in Keys, Open(s, k) PROVE KeyInv'
  BY <1>4, <1>1, LivePagesAssumption DEF Open, Lookup
<1>5. ASSUME NEW s \in Streams, JoinExisting(s) PROVE KeyInv'
  BY <1>5, <1>1, LivePagesAssumption DEF JoinExisting, Lookup
<1>6. ASSUME NEW s \in Streams, NEW g \in Groups, JoinNew(s, g) PROVE KeyInv'
  BY <1>6, <1>1, LivePagesAssumption DEF JoinNew, Lookup
<1>7. ASSUME NEW s \in Streams, JoinGroup(s) PROVE KeyInv'
  BY <1>7, <1>1, LivePagesAssumption DEF JoinGroup, Lookup
<1>8. ASSUME NEW s \in Streams, Joined(s) PROVE KeyInv'
  BY <1>8, <1>1, LivePagesAssumption DEF Joined, Lookup
<1>9. ASSUME NEW s \in Streams, Forward(s) PROVE KeyInv'
  BY <1>9, <1>1, LivePagesAssumption DEF Forward, Lookup
<1>10. ASSUME NEW s \in Streams, Patched(s) PROVE KeyInv'
  BY <1>10, <1>1, LivePagesAssumption DEF Patched, Lookup
<1>11. ASSUME NEW s \in Streams, Hangup(s) PROVE KeyInv'
  BY <1>11, <1>1, LivePagesAssumption DEF Hangup, Lookup
<1>12. ASSUME NEW s \in Streams, LeaveLock(s) PROVE KeyInv'
  BY <1>12, <1>1, LivePagesAssumption DEF LeaveLock, Lookup
<1>13. ASSUME NEW s \in Streams, LeaveGroup(s) PROVE KeyInv'
  BY <1>13, <1>1, LivePagesAssumption DEF LeaveGroup, Lookup
<1>14. ASSUME NEW s \in Streams, LeaveLast(s) PROVE KeyInv'
  BY <1>14, <1>1, LivePagesAssumption DEF LeaveLast, Lookup
<1>15. ASSUME NEW g \in Groups, DeliverTry(g) PROVE KeyInv'
  <2>1. PICK m \in grp[g].left :
          IF st[m].chan = None
          THEN /\ st' = [st EXCEPT ![m] = [@ EXCEPT !.chan = grp[g].last]]
               /\ grp' = [grp EXCEPT ![g] = [@ EXCEPT !.left = grp[g].left \ {m}]]
          ELSE /\ grp' = [grp EXCEPT ![g] = [@ EXCEPT !.target = m, !.step = "drain"]]
               /\ UNCHANGED st
    BY <1>15 DEF DeliverTry
  <2>2. UNCHANGED <<lmu, groups>> /\ grp[g].step = "try" /\ m \in Streams
    BY <1>15, <1>1 DEF DeliverTry
  <2>3. CASE st[m].chan = None
    <3>1. /\ st' = [st EXCEPT ![m] = [@ EXCEPT !.chan = grp[g].last]]
          /\ grp' = [grp EXCEPT ![g] = [@ EXCEPT !.left = grp[g].left \ {m}]]
      BY <2>1, <2>3
    <3> QED
      BY <1>1, <2>2, <3>1, LivePagesAssumption
  <2>4. CASE st[m].chan # None
    <3>1. /\ grp' = [grp EXCEPT ![g] = [@ EXCEPT !.target = m, !.step = "drain"]]
          /\ UNCHANGED st
      BY <2>1, <2>4
    <3> QED
      BY <1>1, <2>2, <3>1, LivePagesAssumption
  <2> QED
    BY <2>3, <2>4
<1>16. ASSUME NEW g \in Groups, DeliverDrain(g) PROVE KeyInv'
  BY <1>16, <1>1, LivePagesAssumption DEF DeliverDrain, Lookup
<1>17. ASSUME NEW g \in Groups, DeliverPush(g) PROVE KeyInv'
  BY <1>17, <1>1, LivePagesAssumption DEF DeliverPush, Lookup
<1>18. ASSUME NEW g \in Groups, RunSubscribe(g) PROVE KeyInv'
  BY <1>18, <1>1, LivePagesAssumption DEF RunSubscribe, Lookup
<1>19. ASSUME NEW g \in Groups, RenderRead(g) PROVE KeyInv'
  BY <1>19, <1>1, LivePagesAssumption DEF RenderRead, Lookup
<1>20. ASSUME NEW g \in Groups, RenderFails(g) PROVE KeyInv'
  BY <1>20, <1>1, LivePagesAssumption DEF RenderFails, Lookup
<1>21. ASSUME NEW g \in Groups, Publish(g) PROVE KeyInv'
  BY <1>21, <1>1, LivePagesAssumption DEF Publish, Lookup
<1>22. ASSUME NEW g \in Groups, Published(g) PROVE KeyInv'
  BY <1>22, <1>1, LivePagesAssumption DEF Published, Lookup
<1>23. ASSUME NEW g \in Groups, Wake(g) PROVE KeyInv'
  BY <1>23, <1>1, LivePagesAssumption DEF Wake, Lookup
<1>24. ASSUME NEW g \in Groups, TimerFires(g) PROVE KeyInv'
  BY <1>24, <1>1, LivePagesAssumption DEF TimerFires, Lookup
<1>25. ASSUME NEW g \in Groups, RunStops(g) PROVE KeyInv'
  BY <1>25, <1>1, LivePagesAssumption DEF RunStops, Lookup
<1>26. CASE UNCHANGED vars
  BY <1>26 DEF vars
<1> QED
  BY <1>2, <1>3, <1>4, <1>5, <1>6, <1>7, <1>8, <1>9, <1>10, <1>11, <1>12, <1>13, <1>14, <1>15, <1>16, <1>17, <1>18, <1>19, <1>20, <1>21, <1>22, <1>23, <1>24, <1>25, <1>26 DEF Next, Serve, Run, Deliver

\* What a stream knows of its group and of LivePages.mu.
LEMMA NextStreamInv == IInv /\ [Next]_vars => StreamInv'
<1> SUFFICES ASSUME IInv, [Next]_vars PROVE StreamInv'
  OBVIOUS
<1>1. /\ grp \in [Groups -> Group] /\ st \in [Streams -> Stream]
      /\ groups \in [Keys -> Groups \cup {None}] /\ lmu \in Streams \cup {None}
  BY DEF IInv, TypeOK
<1> USE DEF IInv, StreamInv, MapInv, DeliverInv, InGroup, HasLock, Outside, Group, Stream, NoGroup, NoStream
<1>2. ASSUME NEW w \in Writers, Write(w) PROVE StreamInv'
  BY <1>2, <1>1, LivePagesAssumption DEF Write, Lookup
<1>3. ASSUME NEW w \in Writers, Notify(w) PROVE StreamInv'
  BY <1>3, <1>1, LivePagesAssumption DEF Notify, Lookup
<1>4. ASSUME NEW s \in Streams, NEW k \in Keys, Open(s, k) PROVE StreamInv'
  BY <1>4, <1>1, LivePagesAssumption DEF Open, Lookup
<1>5. ASSUME NEW s \in Streams, JoinExisting(s) PROVE StreamInv'
  BY <1>5, <1>1, LivePagesAssumption DEF JoinExisting, Lookup
<1>6. ASSUME NEW s \in Streams, NEW g \in Groups, JoinNew(s, g) PROVE StreamInv'
  BY <1>6, <1>1, LivePagesAssumption DEF JoinNew, Lookup
<1>7. ASSUME NEW s \in Streams, JoinGroup(s) PROVE StreamInv'
  BY <1>7, <1>1, LivePagesAssumption DEF JoinGroup, Lookup
<1>8. ASSUME NEW s \in Streams, Joined(s) PROVE StreamInv'
  BY <1>8, <1>1, LivePagesAssumption DEF Joined, Lookup
<1>9. ASSUME NEW s \in Streams, Forward(s) PROVE StreamInv'
  BY <1>9, <1>1, LivePagesAssumption DEF Forward, Lookup
<1>10. ASSUME NEW s \in Streams, Patched(s) PROVE StreamInv'
  BY <1>10, <1>1, LivePagesAssumption DEF Patched, Lookup
<1>11. ASSUME NEW s \in Streams, Hangup(s) PROVE StreamInv'
  BY <1>11, <1>1, LivePagesAssumption DEF Hangup, Lookup
<1>12. ASSUME NEW s \in Streams, LeaveLock(s) PROVE StreamInv'
  BY <1>12, <1>1, LivePagesAssumption DEF LeaveLock, Lookup
<1>13. ASSUME NEW s \in Streams, LeaveGroup(s) PROVE StreamInv'
  <2> DEFINE g == st[s].grp
  <2>1. /\ st[s].pc = "leaveGroup" /\ grp[g].mu = None /\ g \in Groups
        /\ grp' = [grp EXCEPT ![g] = [@ EXCEPT !.members = grp[g].members \ {s}]]
        /\ UNCHANGED groups
    BY <1>13, <1>1 DEF LeaveGroup
  <2>2. CASE grp[g].members \subseteq {s}
    <3>1. st' = [st EXCEPT ![s] = [@ EXCEPT !.pc = "leaveLast"]] /\ UNCHANGED lmu
      BY <1>13, <2>2 DEF LeaveGroup
    <3> HIDE DEF g
    <3> QED
      BY <1>1, <2>1, <2>2, <3>1, LivePagesAssumption DEF g
  <2>3. CASE ~(grp[g].members \subseteq {s})
    <3>1. st' = [st EXCEPT ![s] = NoStream] /\ lmu' = None
      BY <1>13, <2>3 DEF LeaveGroup
    <3> HIDE DEF g
    <3> QED
      BY <1>1, <2>1, <2>3, <3>1, LivePagesAssumption DEF g
  <2> QED
    BY <2>2, <2>3
<1>14. ASSUME NEW s \in Streams, LeaveLast(s) PROVE StreamInv'
  BY <1>14, <1>1, LivePagesAssumption DEF LeaveLast, Lookup
<1>15. ASSUME NEW g \in Groups, DeliverTry(g) PROVE StreamInv'
  <2>1. PICK m \in grp[g].left :
          IF st[m].chan = None
          THEN /\ st' = [st EXCEPT ![m] = [@ EXCEPT !.chan = grp[g].last]]
               /\ grp' = [grp EXCEPT ![g] = [@ EXCEPT !.left = grp[g].left \ {m}]]
          ELSE /\ grp' = [grp EXCEPT ![g] = [@ EXCEPT !.target = m, !.step = "drain"]]
               /\ UNCHANGED st
    BY <1>15 DEF DeliverTry
  <2>2. UNCHANGED <<lmu, groups>> /\ grp[g].step = "try" /\ m \in Streams
    BY <1>15, <1>1 DEF DeliverTry
  <2>3. CASE st[m].chan = None
    <3>1. /\ st' = [st EXCEPT ![m] = [@ EXCEPT !.chan = grp[g].last]]
          /\ grp' = [grp EXCEPT ![g] = [@ EXCEPT !.left = grp[g].left \ {m}]]
      BY <2>1, <2>3
    <3> QED
      BY <1>1, <2>2, <3>1, LivePagesAssumption
  <2>4. CASE st[m].chan # None
    <3>1. /\ grp' = [grp EXCEPT ![g] = [@ EXCEPT !.target = m, !.step = "drain"]]
          /\ UNCHANGED st
      BY <2>1, <2>4
    <3> QED
      BY <1>1, <2>2, <3>1, LivePagesAssumption
  <2> QED
    BY <2>3, <2>4
<1>16. ASSUME NEW g \in Groups, DeliverDrain(g) PROVE StreamInv'
  <2>1. UNCHANGED <<lmu, groups>>
    BY <1>16 DEF DeliverDrain
  <2>2. \A h \in Groups : /\ grp'[h].pc = grp[h].pc /\ grp'[h].cancelled = grp[h].cancelled
                         /\ grp'[h].key = grp[h].key /\ grp'[h].mu = grp[h].mu
                         /\ grp'[h].members = grp[h].members
    BY <1>16, <1>1 DEF DeliverDrain
  <2>3. \A z \in Streams : st'[z].pc = st[z].pc /\ st'[z].key = st[z].key /\ st'[z].grp = st[z].grp
    BY <1>16, <1>1 DEF DeliverDrain
  <2> QED
    BY <1>1, <2>1, <2>2, <2>3, LivePagesAssumption
<1>17. ASSUME NEW g \in Groups, DeliverPush(g) PROVE StreamInv'
  <2>1. UNCHANGED <<lmu, groups>>
    BY <1>17 DEF DeliverPush
  <2>2. \A h \in Groups : /\ grp'[h].pc = grp[h].pc /\ grp'[h].cancelled = grp[h].cancelled
                         /\ grp'[h].key = grp[h].key /\ grp'[h].mu = grp[h].mu
                         /\ grp'[h].members = grp[h].members
    BY <1>17, <1>1 DEF DeliverPush
  <2>3. \A z \in Streams : st'[z].pc = st[z].pc /\ st'[z].key = st[z].key /\ st'[z].grp = st[z].grp
    BY <1>17, <1>1 DEF DeliverPush
  <2> QED
    BY <1>1, <2>1, <2>2, <2>3, LivePagesAssumption
<1>18. ASSUME NEW g \in Groups, RunSubscribe(g) PROVE StreamInv'
  BY <1>18, <1>1, LivePagesAssumption DEF RunSubscribe, Lookup
<1>19. ASSUME NEW g \in Groups, RenderRead(g) PROVE StreamInv'
  BY <1>19, <1>1, LivePagesAssumption DEF RenderRead, Lookup
<1>20. ASSUME NEW g \in Groups, RenderFails(g) PROVE StreamInv'
  BY <1>20, <1>1, LivePagesAssumption DEF RenderFails, Lookup
<1>21. ASSUME NEW g \in Groups, Publish(g) PROVE StreamInv'
  BY <1>21, <1>1, LivePagesAssumption DEF Publish, Lookup
<1>22. ASSUME NEW g \in Groups, Published(g) PROVE StreamInv'
  BY <1>22, <1>1, LivePagesAssumption DEF Published, Lookup
<1>23. ASSUME NEW g \in Groups, Wake(g) PROVE StreamInv'
  BY <1>23, <1>1, LivePagesAssumption DEF Wake, Lookup
<1>24. ASSUME NEW g \in Groups, TimerFires(g) PROVE StreamInv'
  BY <1>24, <1>1, LivePagesAssumption DEF TimerFires, Lookup
<1>25. ASSUME NEW g \in Groups, RunStops(g) PROVE StreamInv'
  BY <1>25, <1>1, LivePagesAssumption DEF RunStops, Lookup
<1>26. CASE UNCHANGED vars
  BY <1>26 DEF vars
<1> QED
  BY <1>2, <1>3, <1>4, <1>5, <1>6, <1>7, <1>8, <1>9, <1>10, <1>11, <1>12, <1>13, <1>14, <1>15, <1>16, <1>17, <1>18, <1>19, <1>20, <1>21, <1>22, <1>23, <1>24, <1>25, <1>26 DEF Next, Serve, Run, Deliver

\* What the map knows of the groups.
LEMMA NextMapInv == IInv /\ [Next]_vars => MapInv'
<1> SUFFICES ASSUME IInv, [Next]_vars PROVE MapInv'
  OBVIOUS
<1>1. /\ grp \in [Groups -> Group] /\ st \in [Streams -> Stream]
      /\ groups \in [Keys -> Groups \cup {None}] /\ lmu \in Streams \cup {None}
  BY DEF IInv, TypeOK
<1> USE DEF IInv, StreamInv, MapInv, InGroup, HasLock, Outside, Group, Stream, NoGroup, NoStream
<1>2. ASSUME NEW w \in Writers, Write(w) PROVE MapInv'
  BY <1>2, <1>1, LivePagesAssumption DEF Write, Lookup
<1>3. ASSUME NEW w \in Writers, Notify(w) PROVE MapInv'
  BY <1>3, <1>1, LivePagesAssumption DEF Notify, Lookup
<1>4. ASSUME NEW s \in Streams, NEW k \in Keys, Open(s, k) PROVE MapInv'
  BY <1>4, <1>1, LivePagesAssumption DEF Open, Lookup
<1>5. ASSUME NEW s \in Streams, JoinExisting(s) PROVE MapInv'
  BY <1>5, <1>1, LivePagesAssumption DEF JoinExisting, Lookup
<1>6. ASSUME NEW s \in Streams, NEW g \in Groups, JoinNew(s, g) PROVE MapInv'
  BY <1>6, <1>1, LivePagesAssumption DEF JoinNew, Lookup
<1>7. ASSUME NEW s \in Streams, JoinGroup(s) PROVE MapInv'
  BY <1>7, <1>1, LivePagesAssumption DEF JoinGroup, Lookup
<1>8. ASSUME NEW s \in Streams, Joined(s) PROVE MapInv'
  BY <1>8, <1>1, LivePagesAssumption DEF Joined, Lookup
<1>9. ASSUME NEW s \in Streams, Forward(s) PROVE MapInv'
  BY <1>9, <1>1, LivePagesAssumption DEF Forward, Lookup
<1>10. ASSUME NEW s \in Streams, Patched(s) PROVE MapInv'
  BY <1>10, <1>1, LivePagesAssumption DEF Patched, Lookup
<1>11. ASSUME NEW s \in Streams, Hangup(s) PROVE MapInv'
  BY <1>11, <1>1, LivePagesAssumption DEF Hangup, Lookup
<1>12. ASSUME NEW s \in Streams, LeaveLock(s) PROVE MapInv'
  BY <1>12, <1>1, LivePagesAssumption DEF LeaveLock, Lookup
<1>13. ASSUME NEW s \in Streams, LeaveGroup(s) PROVE MapInv'
  BY <1>13, <1>1, LivePagesAssumption DEF LeaveGroup, Lookup
<1>14. ASSUME NEW s \in Streams, LeaveLast(s) PROVE MapInv'
  BY <1>14, <1>1, LivePagesAssumption DEF LeaveLast, Lookup
<1>15. ASSUME NEW g \in Groups, DeliverTry(g) PROVE MapInv'
  <2>1. PICK m \in grp[g].left :
          IF st[m].chan = None
          THEN /\ st' = [st EXCEPT ![m] = [@ EXCEPT !.chan = grp[g].last]]
               /\ grp' = [grp EXCEPT ![g] = [@ EXCEPT !.left = grp[g].left \ {m}]]
          ELSE /\ grp' = [grp EXCEPT ![g] = [@ EXCEPT !.target = m, !.step = "drain"]]
               /\ UNCHANGED st
    BY <1>15 DEF DeliverTry
  <2>2. UNCHANGED <<lmu, groups>> /\ grp[g].step = "try" /\ m \in Streams
    BY <1>15, <1>1 DEF DeliverTry
  <2>3. CASE st[m].chan = None
    <3>1. /\ st' = [st EXCEPT ![m] = [@ EXCEPT !.chan = grp[g].last]]
          /\ grp' = [grp EXCEPT ![g] = [@ EXCEPT !.left = grp[g].left \ {m}]]
      BY <2>1, <2>3
    <3> QED
      BY <1>1, <2>2, <3>1, LivePagesAssumption
  <2>4. CASE st[m].chan # None
    <3>1. /\ grp' = [grp EXCEPT ![g] = [@ EXCEPT !.target = m, !.step = "drain"]]
          /\ UNCHANGED st
      BY <2>1, <2>4
    <3> QED
      BY <1>1, <2>2, <3>1, LivePagesAssumption
  <2> QED
    BY <2>3, <2>4
<1>16. ASSUME NEW g \in Groups, DeliverDrain(g) PROVE MapInv'
  BY <1>16, <1>1, LivePagesAssumption DEF DeliverDrain, Lookup
<1>17. ASSUME NEW g \in Groups, DeliverPush(g) PROVE MapInv'
  BY <1>17, <1>1, LivePagesAssumption DEF DeliverPush, Lookup
<1>18. ASSUME NEW g \in Groups, RunSubscribe(g) PROVE MapInv'
  BY <1>18, <1>1, LivePagesAssumption DEF RunSubscribe, Lookup
<1>19. ASSUME NEW g \in Groups, RenderRead(g) PROVE MapInv'
  BY <1>19, <1>1, LivePagesAssumption DEF RenderRead, Lookup
<1>20. ASSUME NEW g \in Groups, RenderFails(g) PROVE MapInv'
  BY <1>20, <1>1, LivePagesAssumption DEF RenderFails, Lookup
<1>21. ASSUME NEW g \in Groups, Publish(g) PROVE MapInv'
  BY <1>21, <1>1, LivePagesAssumption DEF Publish, Lookup
<1>22. ASSUME NEW g \in Groups, Published(g) PROVE MapInv'
  BY <1>22, <1>1, LivePagesAssumption DEF Published, Lookup
<1>23. ASSUME NEW g \in Groups, Wake(g) PROVE MapInv'
  BY <1>23, <1>1, LivePagesAssumption DEF Wake, Lookup
<1>24. ASSUME NEW g \in Groups, TimerFires(g) PROVE MapInv'
  BY <1>24, <1>1, LivePagesAssumption DEF TimerFires, Lookup
<1>25. ASSUME NEW g \in Groups, RunStops(g) PROVE MapInv'
  BY <1>25, <1>1, LivePagesAssumption DEF RunStops, Lookup
<1>26. CASE UNCHANGED vars
  BY <1>26 DEF vars
<1> QED
  BY <1>2, <1>3, <1>4, <1>5, <1>6, <1>7, <1>8, <1>9, <1>10, <1>11, <1>12, <1>13, <1>14, <1>15, <1>16, <1>17, <1>18, <1>19, <1>20, <1>21, <1>22, <1>23, <1>24, <1>25, <1>26 DEF Next, Serve, Run, Deliver

\* What leave does to the groups while no deliver of its group is under way.
LEMMA GroupLeft ==
  ASSUME IInv, NEW s \in Streams, NEW g \in Groups, g = st[s].grp, LeaveGroup(s)
  PROVE  /\ grp[g].step = "idle" /\ grp[g].mu = None /\ grp[g].left = {}
         /\ \A h \in Groups : /\ grp'[h].step = grp[h].step /\ grp'[h].mu = grp[h].mu
                              /\ grp'[h].pc = grp[h].pc /\ grp'[h].left = grp[h].left
                              /\ grp'[h].target = grp[h].target
                              /\ h # g => grp'[h].members = grp[h].members
         /\ \A z \in Streams : z # s => st'[z] = st[z]
<1>1. grp \in [Groups -> Group] /\ st \in [Streams -> Stream]
  BY DEF IInv, TypeOK
<1>2. grp[g].mu = None /\ grp' = [grp EXCEPT ![g] = [@ EXCEPT !.members = grp[g].members \ {s}]]
  BY DEF LeaveGroup
<1>3. grp[g].step = "idle" /\ grp[g].left = {}
  BY <1>2 DEF IInv, DeliverInv
<1>4. \A z \in Streams : z # s => st'[z] = st[z]
  BY <1>1 DEF LeaveGroup
<1>5. \A h \in Groups : h # g => grp'[h] = grp[h]
  BY <1>1, <1>2
<1>6. grp[g] \in Group /\ grp'[g] = [grp[g] EXCEPT !.members = grp[g].members \ {s}]
  BY <1>1, <1>2
<1>7. /\ grp'[g].step = grp[g].step /\ grp'[g].mu = grp[g].mu /\ grp'[g].pc = grp[g].pc
      /\ grp'[g].left = grp[g].left /\ grp'[g].target = grp[g].target
  BY <1>6 DEF Group
<1> QED
  BY <1>2, <1>3, <1>4, <1>5, <1>7

\* What the holder of a group's lock may do.
LEMMA NextDeliverInv == IInv /\ [Next]_vars => DeliverInv'
<1> SUFFICES ASSUME IInv, [Next]_vars PROVE DeliverInv'
  OBVIOUS
<1>1. /\ grp \in [Groups -> Group] /\ st \in [Streams -> Stream]
      /\ groups \in [Keys -> Groups \cup {None}] /\ lmu \in Streams \cup {None}
  BY DEF IInv, TypeOK
<1> USE DEF IInv, StreamInv, MapInv, DeliverInv, InGroup, HasLock, Outside, Group, Stream, NoGroup, NoStream
<1>2. ASSUME NEW w \in Writers, Write(w) PROVE DeliverInv'
  BY <1>2, <1>1, LivePagesAssumption DEF Write, Lookup
<1>3. ASSUME NEW w \in Writers, Notify(w) PROVE DeliverInv'
  BY <1>3, <1>1, LivePagesAssumption DEF Notify, Lookup
<1>4. ASSUME NEW s \in Streams, NEW k \in Keys, Open(s, k) PROVE DeliverInv'
  BY <1>4, <1>1, LivePagesAssumption DEF Open, Lookup
<1>5. ASSUME NEW s \in Streams, JoinExisting(s) PROVE DeliverInv'
  BY <1>5, <1>1, LivePagesAssumption DEF JoinExisting, Lookup
<1>6. ASSUME NEW s \in Streams, NEW g \in Groups, JoinNew(s, g) PROVE DeliverInv'
  BY <1>6, <1>1, LivePagesAssumption DEF JoinNew, Lookup
<1>7. ASSUME NEW s \in Streams, JoinGroup(s) PROVE DeliverInv'
  BY <1>7, <1>1, LivePagesAssumption DEF JoinGroup, Lookup
<1>8. ASSUME NEW s \in Streams, Joined(s) PROVE DeliverInv'
  BY <1>8, <1>1, LivePagesAssumption DEF Joined, Lookup
<1>9. ASSUME NEW s \in Streams, Forward(s) PROVE DeliverInv'
  BY <1>9, <1>1, LivePagesAssumption DEF Forward, Lookup
<1>10. ASSUME NEW s \in Streams, Patched(s) PROVE DeliverInv'
  BY <1>10, <1>1, LivePagesAssumption DEF Patched, Lookup
<1>11. ASSUME NEW s \in Streams, Hangup(s) PROVE DeliverInv'
  BY <1>11, <1>1, LivePagesAssumption DEF Hangup, Lookup
<1>12. ASSUME NEW s \in Streams, LeaveLock(s) PROVE DeliverInv'
  BY <1>12, <1>1, LivePagesAssumption DEF LeaveLock, Lookup
<1>13. ASSUME NEW s \in Streams, LeaveGroup(s) PROVE DeliverInv'
  <2>1. PICK g \in Groups : g = st[s].grp
    BY <1>13, <1>1 DEF LeaveGroup
  <2>2. /\ grp[g].step = "idle" /\ grp[g].mu = None /\ grp[g].left = {}
        /\ \A h \in Groups : /\ grp'[h].step = grp[h].step /\ grp'[h].mu = grp[h].mu
                             /\ grp'[h].pc = grp[h].pc /\ grp'[h].left = grp[h].left
                             /\ grp'[h].target = grp[h].target
                             /\ h # g => grp'[h].members = grp[h].members
        /\ \A z \in Streams : z # s => st'[z] = st[z]
    BY <1>13, <2>1, GroupLeft
  <2>3. st[s].pc = "leaveGroup" /\ \A h \in Groups : h # g => s \notin grp[h].left
    BY <1>13, <2>1 DEF LeaveGroup
  <2> QED
    BY <1>1, <2>1, <2>2, <2>3, LivePagesAssumption
<1>14. ASSUME NEW s \in Streams, LeaveLast(s) PROVE DeliverInv'
  <2>1. \A h \in Groups : /\ grp'[h].step = grp[h].step /\ grp'[h].mu = grp[h].mu
                         /\ grp'[h].pc = grp[h].pc /\ grp'[h].left = grp[h].left
                         /\ grp'[h].target = grp[h].target /\ grp'[h].members = grp[h].members
    BY <1>14, <1>1 DEF LeaveLast
  <2>2. st[s].pc = "leaveLast" /\ \A z \in Streams : z # s => st'[z] = st[z]
    BY <1>14, <1>1 DEF LeaveLast
  <2>3. st'[s].chan = None
    BY <1>14, <1>1 DEF LeaveLast
  <2> QED
    BY <1>1, <2>1, <2>2, <2>3, LivePagesAssumption
<1>15. ASSUME NEW g \in Groups, DeliverTry(g) PROVE DeliverInv'
  <2>1. PICK m \in grp[g].left :
          IF st[m].chan = None
          THEN /\ st' = [st EXCEPT ![m] = [@ EXCEPT !.chan = grp[g].last]]
               /\ grp' = [grp EXCEPT ![g] = [@ EXCEPT !.left = grp[g].left \ {m}]]
          ELSE /\ grp' = [grp EXCEPT ![g] = [@ EXCEPT !.target = m, !.step = "drain"]]
               /\ UNCHANGED st
    BY <1>15 DEF DeliverTry
  <2>2. UNCHANGED <<lmu, groups>> /\ grp[g].step = "try" /\ m \in Streams
    BY <1>15, <1>1 DEF DeliverTry
  <2>3. CASE st[m].chan = None
    <3>1. /\ st' = [st EXCEPT ![m] = [@ EXCEPT !.chan = grp[g].last]]
          /\ grp' = [grp EXCEPT ![g] = [@ EXCEPT !.left = grp[g].left \ {m}]]
      BY <2>1, <2>3
    <3> QED
      BY <1>1, <2>2, <3>1, LivePagesAssumption
  <2>4. CASE st[m].chan # None
    <3>1. /\ grp' = [grp EXCEPT ![g] = [@ EXCEPT !.target = m, !.step = "drain"]]
          /\ UNCHANGED st
      BY <2>1, <2>4
    <3> QED
      BY <1>1, <2>2, <3>1, LivePagesAssumption
  <2> QED
    BY <2>3, <2>4
<1>16. ASSUME NEW g \in Groups, DeliverDrain(g) PROVE DeliverInv'
  BY <1>16, <1>1, LivePagesAssumption DEF DeliverDrain, Lookup
<1>17. ASSUME NEW g \in Groups, DeliverPush(g) PROVE DeliverInv'
  BY <1>17, <1>1, LivePagesAssumption DEF DeliverPush, Lookup
<1>18. ASSUME NEW g \in Groups, RunSubscribe(g) PROVE DeliverInv'
  BY <1>18, <1>1, LivePagesAssumption DEF RunSubscribe, Lookup
<1>19. ASSUME NEW g \in Groups, RenderRead(g) PROVE DeliverInv'
  BY <1>19, <1>1, LivePagesAssumption DEF RenderRead, Lookup
<1>20. ASSUME NEW g \in Groups, RenderFails(g) PROVE DeliverInv'
  BY <1>20, <1>1, LivePagesAssumption DEF RenderFails, Lookup
<1>21. ASSUME NEW g \in Groups, Publish(g) PROVE DeliverInv'
  BY <1>21, <1>1, LivePagesAssumption DEF Publish, Lookup
<1>22. ASSUME NEW g \in Groups, Published(g) PROVE DeliverInv'
  BY <1>22, <1>1, LivePagesAssumption DEF Published, Lookup
<1>23. ASSUME NEW g \in Groups, Wake(g) PROVE DeliverInv'
  BY <1>23, <1>1, LivePagesAssumption DEF Wake, Lookup
<1>24. ASSUME NEW g \in Groups, TimerFires(g) PROVE DeliverInv'
  BY <1>24, <1>1, LivePagesAssumption DEF TimerFires, Lookup
<1>25. ASSUME NEW g \in Groups, RunStops(g) PROVE DeliverInv'
  BY <1>25, <1>1, LivePagesAssumption DEF RunStops, Lookup
<1>26. CASE UNCHANGED vars
  BY <1>26 DEF vars
<1> QED
  BY <1>2, <1>3, <1>4, <1>5, <1>6, <1>7, <1>8, <1>9, <1>10, <1>11, <1>12, <1>13, <1>14, <1>15, <1>16, <1>17, <1>18, <1>19, <1>20, <1>21, <1>22, <1>23, <1>24, <1>25, <1>26 DEF Next, Serve, Run, Deliver

\* The initial state satisfies the invariant.
LEMMA InitIInv == Init => IInv
<1> SUFFICES ASSUME Init PROVE IInv
  OBVIOUS
<1>1. TypeOK
  BY InitTypeOK
<1>2. KeyInv /\ StreamInv /\ MapInv /\ DeliverInv /\ SignalInv
  BY LivePagesAssumption
     DEF Init, N!NotifierInit, KeyInv, StreamInv, MapInv, DeliverInv, SignalInv, NoLostChange,
         NoGroup, NoStream, InGroup, HasLock, Outside
<1> QED
  BY <1>1, <1>2 DEF IInv

\* The signal protocol: between Subscribe and Notify no change is lost.
LEMMA NextSignalInv == IInv /\ [Next]_vars => SignalInv'
<1> SUFFICES ASSUME IInv, [Next]_vars PROVE SignalInv'
  OBVIOUS
<1>1. /\ grp \in [Groups -> Group] /\ pending \in [Groups -> BOOLEAN]
      /\ wpc \in [Writers -> {"idle", "written", "notifying"}]
      /\ version \in Nat /\ version' \in Nat
      /\ \A g \in Groups : grp[g].drawn \in Nat
      /\ subs \subseteq Groups /\ walk \subseteq Groups /\ nmu \in Writers \cup {None}
  BY NextTypeOK, LivePagesAssumption DEF IInv, TypeOK, N!NotifierTypeOK, Group
<1> USE DEF IInv, SignalInv, NoLostChange, notifier, app
<1>2. ASSUME NEW w \in Writers, Write(w) PROVE SignalInv'
  BY <1>2, <1>1, LivePagesAssumption DEF Write, NoGroup, Group
<1>3. ASSUME NEW w \in Writers, Notify(w) PROVE SignalInv'
  BY <1>3, <1>1, LivePagesAssumption DEF Notify, NoGroup, Group, N!NotifyLock, N!NotifySend, N!NotifyUnlock
<1>4. ASSUME NEW s \in Streams, NEW k \in Keys, Open(s, k) PROVE SignalInv'
  BY <1>4, <1>1, LivePagesAssumption DEF Open, NoGroup, Group
<1>5. ASSUME NEW s \in Streams, JoinExisting(s) PROVE SignalInv'
  BY <1>5, <1>1, LivePagesAssumption DEF JoinExisting, NoGroup, Group
<1>6. ASSUME NEW s \in Streams, NEW g \in Groups, JoinNew(s, g) PROVE SignalInv'
  BY <1>6, <1>1, LivePagesAssumption DEF JoinNew, NoGroup, Group
<1>7. ASSUME NEW s \in Streams, JoinGroup(s) PROVE SignalInv'
  BY <1>7, <1>1, LivePagesAssumption DEF JoinGroup, NoGroup, Group
<1>8. ASSUME NEW s \in Streams, Joined(s) PROVE SignalInv'
  BY <1>8, <1>1, LivePagesAssumption DEF Joined, NoGroup, Group
<1>9. ASSUME NEW s \in Streams, Forward(s) PROVE SignalInv'
  BY <1>9, <1>1, LivePagesAssumption DEF Forward, NoGroup, Group
<1>10. ASSUME NEW s \in Streams, Patched(s) PROVE SignalInv'
  BY <1>10, <1>1, LivePagesAssumption DEF Patched, NoGroup, Group
<1>11. ASSUME NEW s \in Streams, Hangup(s) PROVE SignalInv'
  BY <1>11, <1>1, LivePagesAssumption DEF Hangup, NoGroup, Group
<1>12. ASSUME NEW s \in Streams, LeaveLock(s) PROVE SignalInv'
  BY <1>12, <1>1, LivePagesAssumption DEF LeaveLock, NoGroup, Group
<1>13. ASSUME NEW s \in Streams, LeaveGroup(s) PROVE SignalInv'
  BY <1>13, <1>1, LivePagesAssumption DEF LeaveGroup, NoGroup, Group
<1>14. ASSUME NEW s \in Streams, LeaveLast(s) PROVE SignalInv'
  BY <1>14, <1>1, LivePagesAssumption DEF LeaveLast, NoGroup, Group
<1>15. ASSUME NEW g \in Groups, DeliverTry(g) PROVE SignalInv'
  <2>1. PICK m \in grp[g].left :
          IF st[m].chan = None
          THEN /\ st' = [st EXCEPT ![m] = [@ EXCEPT !.chan = grp[g].last]]
               /\ grp' = [grp EXCEPT ![g] = [@ EXCEPT !.left = grp[g].left \ {m}]]
          ELSE /\ grp' = [grp EXCEPT ![g] = [@ EXCEPT !.target = m, !.step = "drain"]]
               /\ UNCHANGED st
    BY <1>15 DEF DeliverTry
  <2>2. UNCHANGED <<version, wpc, subs, pending, nmu, walk>>
    BY <1>15 DEF DeliverTry
  <2>3. CASE grp' = [grp EXCEPT ![g] = [@ EXCEPT !.left = grp[g].left \ {m}]]
    BY <1>1, <2>2, <2>3 DEF Group
  <2>4. CASE grp' = [grp EXCEPT ![g] = [@ EXCEPT !.target = m, !.step = "drain"]]
    BY <1>1, <2>2, <2>4 DEF Group
  <2> QED
    BY <2>1, <2>3, <2>4
<1>16. ASSUME NEW g \in Groups, DeliverDrain(g) PROVE SignalInv'
  BY <1>16, <1>1, LivePagesAssumption DEF DeliverDrain, NoGroup, Group
<1>17. ASSUME NEW g \in Groups, DeliverPush(g) PROVE SignalInv'
  BY <1>17, <1>1, LivePagesAssumption DEF DeliverPush, NoGroup, Group
<1>18. ASSUME NEW g \in Groups, RunSubscribe(g) PROVE SignalInv'
  BY <1>18, <1>1, LivePagesAssumption DEF RunSubscribe, NoGroup, Group, N!Subscribe
<1>19. ASSUME NEW g \in Groups, RenderRead(g) PROVE SignalInv'
  BY <1>19, <1>1, LivePagesAssumption DEF RenderRead, NoGroup, Group
<1>20. ASSUME NEW g \in Groups, RenderFails(g) PROVE SignalInv'
  BY <1>20, <1>1, LivePagesAssumption DEF RenderFails, NoGroup, Group
<1>21. ASSUME NEW g \in Groups, Publish(g) PROVE SignalInv'
  BY <1>21, <1>1, LivePagesAssumption DEF Publish, NoGroup, Group
<1>22. ASSUME NEW g \in Groups, Published(g) PROVE SignalInv'
  BY <1>22, <1>1, LivePagesAssumption DEF Published, NoGroup, Group
<1>23. ASSUME NEW g \in Groups, Wake(g) PROVE SignalInv'
  BY <1>23, <1>1, LivePagesAssumption DEF Wake, NoGroup, Group, N!Receive
<1>24. ASSUME NEW g \in Groups, TimerFires(g) PROVE SignalInv'
  BY <1>24, <1>1, LivePagesAssumption DEF TimerFires, NoGroup, Group, N!Drain
<1>25. ASSUME NEW g \in Groups, RunStops(g) PROVE SignalInv'
  BY <1>25, <1>1, LivePagesAssumption DEF RunStops, NoGroup, Group, N!Cancel
<1>26. CASE UNCHANGED vars
  BY <1>26 DEF vars
<1> QED
  BY <1>2, <1>3, <1>4, <1>5, <1>6, <1>7, <1>8, <1>9, <1>10, <1>11, <1>12, <1>13, <1>14, <1>15, <1>16, <1>17, <1>18, <1>19, <1>20, <1>21, <1>22, <1>23, <1>24, <1>25, <1>26 DEF Next, Serve, Run, Deliver

-----------------------------------------------------------------------------
(* The theorems.                                                           *)

\* IInv holds in every state of LivePages.
LEMMA Inductive == Spec => []IInv
<1>1. IInv /\ [Next]_vars => IInv'
  BY NextTypeOK, NextKeyInv, NextStreamInv, NextMapInv, NextDeliverInv, NextSignalInv DEF IInv
<1> QED
  BY InitIInv, <1>1, PTL DEF Spec

\* Every variable of LivePages keeps its type, for any number of streams,
\* keys, groups and writers.
THEOREM TypeCorrect == Spec => []TypeOK
<1>1. IInv => TypeOK
  BY DEF IInv
<1> QED
  BY Inductive, <1>1, PTL

\* deliver never blocks while it holds liveGroup.mu, whatever joins, leaves
\* and publishes race with the stream's own reads.
THEOREM DeliverNeverBlocksHolds == Spec => []DeliverNeverBlocks
<1>1. IInv => DeliverNeverBlocks
  BY DEF IInv, DeliverInv, DeliverNeverBlocks
<1> QED
  BY Inductive, <1>1, PTL

\* LivePages.groups is exact: no stream is ever in a cancelled or replaced
\* group, and no group without streams keeps running uncancelled.
THEOREM GroupMapExactHolds == Spec => []GroupMapExact
<1>1. IInv => GroupMapExact
  <2> SUFFICES ASSUME IInv, NEW g \in Groups
               PROVE  GroupMapExact!(g)
    BY DEF GroupMapExact
  <2> QED
    BY LivePagesAssumption
       DEF IInv, TypeOK, StreamInv, MapInv, InGroup, Outside, Group, Stream
<1> QED
  BY Inductive, <1>1, PTL

\* No change is lost: a group that waits with an older version than the
\* application's has a signal pending or about to come.
THEOREM NoLostChangeHolds == Spec => []NoLostChange
<1>1. IInv => NoLostChange
  BY DEF IInv, SignalInv
<1> QED
  BY Inductive, <1>1, PTL

-----------------------------------------------------------------------------
(***************************************************************************)
(* LivePages implements LiveView: every step of a goroutine is a step of   *)
(* what the browsers are promised, or changes nothing they see.  FrameInv  *)
(* follows a frame from the render through the group, the channel and the  *)
(* event being written to the page.                                        *)
(***************************************************************************)
NotNewer(f, h) == f # None /\ h # None => f.ver <= h.ver

\* A group's frame is of its key and no newer than its latest render.
GroupFrames ==
  \A g \in Groups :
    /\ grp[g].drawn <= version
    /\ grp[g].left # {} => grp[g].last # None
    /\ grp[g].last # None => grp[g].last.key = grp[g].key /\ grp[g].last.ver <= grp[g].drawn

\* A stream's frames are of its key, none newer than the one behind it.
StreamFrames ==
  \A s \in Streams :
    /\ st[s].pc = "off" => st[s].key = None
    /\ Outside(s) => st[s].chan = None /\ st[s].sending = None /\ st[s].shown = None
    /\ st[s].pc = "send" => st[s].sending # None
    /\ \A f \in {st[s].chan, st[s].sending, st[s].shown} : f # None =>
         /\ f.key = st[s].key
         /\ f.ver <= grp[st[s].grp].drawn
         /\ NotNewer(f, grp[st[s].grp].last)
    /\ NotNewer(st[s].sending, st[s].chan)
    /\ NotNewer(st[s].shown, st[s].chan)
    /\ NotNewer(st[s].shown, st[s].sending)

FrameInv == GroupFrames /\ StreamFrames

-----------------------------------------------------------------------------
(* FrameInv is inductive, given IInv.                                      *)

\* Nothing has been rendered yet.
LEMMA InitFrameInv == Init => FrameInv
BY LivePagesAssumption
   DEF Init, FrameInv, GroupFrames, StreamFrames, NoGroup, NoStream, Outside, NotNewer

\* What IInv says of the records FrameInv looks at.
LEMMA Records ==
  ASSUME IInv
  PROVE  /\ version \in Nat
         /\ grp \in [Groups -> Group] /\ st \in [Streams -> Stream]
         /\ \A g \in Groups : /\ grp[g].drawn \in Nat
                              /\ grp[g].last \in Frame \cup {None}
                              /\ grp[g].left \subseteq grp[g].members
                              /\ grp[g].members \subseteq Streams
         /\ \A s \in Streams : {st[s].chan, st[s].sending, st[s].shown} \subseteq Frame \cup {None}
         /\ \A f \in Frame : f.ver \in Nat /\ f # None
         /\ \A s \in Streams : ~Outside(s) =>
              st[s].grp \in Groups /\ grp[st[s].grp].pc # "none" /\ ~grp[st[s].grp].cancelled
              /\ grp[st[s].grp].key = st[s].key
BY LivePagesAssumption DEF IInv, TypeOK, StreamInv, DeliverInv, Group, Stream, Frame

\* deliver hands out a frame, and to members only.
LEMMA Delivered ==
  ASSUME IInv, NEW g \in Groups
  PROVE  /\ \A m \in grp[g].left : m \in Streams /\ st[m].grp = g /\ ~Outside(m)
         /\ grp[g].step \in {"drain", "push"} => grp[g].target \in grp[g].left
         /\ grp[g].pc # "none" => [key |-> grp[g].key, ver |-> grp[g].drawn] \in Frame
<1>1. grp[g] \in Group
  BY DEF IInv, TypeOK
<1> QED
  BY <1>1 DEF IInv, MapInv, DeliverInv, KeyInv, InGroup, Outside, Group, Frame

\* No step spoils the frame of a group.
LEMMA NextGroupFrames == IInv /\ FrameInv /\ [Next]_vars => GroupFrames'
<1> SUFFICES ASSUME IInv, FrameInv, [Next]_vars PROVE GroupFrames'
  OBVIOUS
<1> USE DEF FrameInv, GroupFrames, Group, NoGroup
<1>2. ASSUME NEW w \in Writers, Write(w) PROVE GroupFrames'
  BY <1>2, Records, LivePagesAssumption DEF Write, app
<1>3. ASSUME NEW w \in Writers, Notify(w) PROVE GroupFrames'
  BY <1>3, Records, LivePagesAssumption DEF Notify, app
<1>4. ASSUME NEW s \in Streams, NEW k \in Keys, Open(s, k) PROVE GroupFrames'
  BY <1>4, Records, LivePagesAssumption DEF Open, app
<1>5. ASSUME NEW s \in Streams, JoinExisting(s) PROVE GroupFrames'
  BY <1>5, Records, LivePagesAssumption DEF JoinExisting, app
<1>6. ASSUME NEW s \in Streams, NEW g \in Groups, JoinNew(s, g) PROVE GroupFrames'
  BY <1>6, Records, LivePagesAssumption DEF JoinNew, app
<1>7. ASSUME NEW s \in Streams, JoinGroup(s) PROVE GroupFrames'
  BY <1>7, Records, LivePagesAssumption DEF JoinGroup, app
<1>8. ASSUME NEW s \in Streams, Joined(s) PROVE GroupFrames'
  BY <1>8, Records, LivePagesAssumption DEF Joined, app
<1>9. ASSUME NEW s \in Streams, Forward(s) PROVE GroupFrames'
  BY <1>9, Records, LivePagesAssumption DEF Forward, app
<1>10. ASSUME NEW s \in Streams, Patched(s) PROVE GroupFrames'
  BY <1>10, Records, LivePagesAssumption DEF Patched, app
<1>11. ASSUME NEW s \in Streams, Hangup(s) PROVE GroupFrames'
  BY <1>11, Records, LivePagesAssumption DEF Hangup, app
<1>12. ASSUME NEW s \in Streams, LeaveLock(s) PROVE GroupFrames'
  BY <1>12, Records, LivePagesAssumption DEF LeaveLock, app
<1>13. ASSUME NEW s \in Streams, LeaveGroup(s) PROVE GroupFrames'
  BY <1>13, Records, LivePagesAssumption DEF LeaveGroup, app
<1>14. ASSUME NEW s \in Streams, LeaveLast(s) PROVE GroupFrames'
  BY <1>14, Records, LivePagesAssumption DEF LeaveLast, app
<1>15. ASSUME NEW g \in Groups, DeliverTry(g) PROVE GroupFrames'
  <2>1. PICK m \in grp[g].left :
          IF st[m].chan = None
          THEN /\ st' = [st EXCEPT ![m] = [@ EXCEPT !.chan = grp[g].last]]
               /\ grp' = [grp EXCEPT ![g] = [@ EXCEPT !.left = grp[g].left \ {m}]]
          ELSE /\ grp' = [grp EXCEPT ![g] = [@ EXCEPT !.target = m, !.step = "drain"]]
               /\ UNCHANGED st
    BY <1>15 DEF DeliverTry
  <2>2. UNCHANGED version
    BY <1>15 DEF DeliverTry, app
  <2>3. m \in Streams /\ grp[g].last # None
    BY <1>15, Delivered DEF DeliverTry
  <2>4. \A h \in Groups : /\ grp'[h].drawn = grp[h].drawn /\ grp'[h].last = grp[h].last
                          /\ grp'[h].key = grp[h].key /\ grp'[h].left \subseteq grp[h].left
    <3>1. CASE st[m].chan = None
      BY <2>1, <3>1, Records
    <3>2. CASE st[m].chan # None
      <4>1. grp' = [grp EXCEPT ![g] = [@ EXCEPT !.target = m, !.step = "drain"]]
        BY <2>1, <3>2
      <4> QED
        BY <4>1, Records
    <3> QED
      BY <3>1, <3>2
  <2> QED
    BY <2>2, <2>4, Records
<1>16. ASSUME NEW g \in Groups, DeliverDrain(g) PROVE GroupFrames'
  BY <1>16, Records, LivePagesAssumption DEF DeliverDrain, app
<1>17. ASSUME NEW g \in Groups, DeliverPush(g) PROVE GroupFrames'
  BY <1>17, Records, LivePagesAssumption DEF DeliverPush, app
<1>18. ASSUME NEW g \in Groups, RunSubscribe(g) PROVE GroupFrames'
  BY <1>18, Records, LivePagesAssumption DEF RunSubscribe, app
<1>19. ASSUME NEW g \in Groups, RenderRead(g) PROVE GroupFrames'
  BY <1>19, Records, LivePagesAssumption DEF RenderRead, app
<1>20. ASSUME NEW g \in Groups, RenderFails(g) PROVE GroupFrames'
  BY <1>20, Records, LivePagesAssumption DEF RenderFails, app
<1>21. ASSUME NEW g \in Groups, Publish(g) PROVE GroupFrames'
  BY <1>21, Records, Delivered, LivePagesAssumption DEF Publish, app
<1>22. ASSUME NEW g \in Groups, Published(g) PROVE GroupFrames'
  BY <1>22, Records, LivePagesAssumption DEF Published, app
<1>23. ASSUME NEW g \in Groups, Wake(g) PROVE GroupFrames'
  BY <1>23, Records, LivePagesAssumption DEF Wake, app
<1>24. ASSUME NEW g \in Groups, TimerFires(g) PROVE GroupFrames'
  BY <1>24, Records, LivePagesAssumption DEF TimerFires, app
<1>25. ASSUME NEW g \in Groups, RunStops(g) PROVE GroupFrames'
  BY <1>25, Records, LivePagesAssumption DEF RunStops, app
<1>26. CASE UNCHANGED vars
  BY <1>26 DEF vars
<1> QED
  BY <1>2, <1>3, <1>4, <1>5, <1>6, <1>7, <1>8, <1>9, <1>10, <1>11, <1>12, <1>13, <1>14,
     <1>15, <1>16, <1>17, <1>18, <1>19, <1>20, <1>21, <1>22, <1>23, <1>24, <1>25, <1>26
     DEF Next, Serve, Run, Deliver

\* No step puts a wrong or an older frame on the way to a browser.
LEMMA NextStreamFrames == IInv /\ FrameInv /\ [Next]_vars => StreamFrames'
<1> SUFFICES ASSUME IInv, FrameInv, [Next]_vars PROVE StreamFrames'
  OBVIOUS
<1> USE DEF FrameInv, GroupFrames, StreamFrames, Outside, NotNewer, Group, Stream, NoGroup, NoStream
<1>2. ASSUME NEW w \in Writers, Write(w) PROVE StreamFrames'
  BY <1>2, Records, LivePagesAssumption DEF Write, app
<1>3. ASSUME NEW w \in Writers, Notify(w) PROVE StreamFrames'
  BY <1>3, Records, LivePagesAssumption DEF Notify, app
<1>4. ASSUME NEW s \in Streams, NEW k \in Keys, Open(s, k) PROVE StreamFrames'
  BY <1>4, Records, LivePagesAssumption DEF Open, app
<1>5. ASSUME NEW s \in Streams, JoinExisting(s) PROVE StreamFrames'
  BY <1>5, Records, LivePagesAssumption DEF JoinExisting, app
<1>6. ASSUME NEW s \in Streams, NEW g \in Groups, JoinNew(s, g) PROVE StreamFrames'
  BY <1>6, Records, LivePagesAssumption DEF JoinNew, app
<1>7. ASSUME NEW s \in Streams, JoinGroup(s) PROVE StreamFrames'
  <2>1. \A h \in Groups : grp'[h].drawn = grp[h].drawn /\ grp'[h].last = grp[h].last
    BY <1>7, Records DEF JoinGroup
  <2>2. /\ ~Outside(s)
        /\ \A z \in Streams : /\ st'[z].pc = IF z = s THEN "joinDeliver" ELSE st[z].pc
                             /\ st'[z].key = st[z].key /\ st'[z].grp = st[z].grp
                             /\ st'[z].chan = st[z].chan /\ st'[z].sending = st[z].sending
                             /\ st'[z].shown = st[z].shown
    BY <1>7, Records DEF JoinGroup
  <2> QED
    BY <2>1, <2>2, Records
<1>8. ASSUME NEW s \in Streams, Joined(s) PROVE StreamFrames'
  <2>1. \A h \in Groups : grp'[h].drawn = grp[h].drawn /\ grp'[h].last = grp[h].last
    BY <1>8, Records DEF Joined
  <2>2. /\ ~Outside(s)
        /\ \A z \in Streams : /\ st'[z].pc = IF z = s THEN "stream" ELSE st[z].pc
                             /\ st'[z].key = st[z].key /\ st'[z].grp = st[z].grp
                             /\ st'[z].chan = st[z].chan /\ st'[z].sending = st[z].sending
                             /\ st'[z].shown = st[z].shown
    BY <1>8, Records DEF Joined
  <2> QED
    BY <2>1, <2>2, Records
<1>9. ASSUME NEW s \in Streams, Forward(s) PROVE StreamFrames'
  BY <1>9, Records, LivePagesAssumption DEF Forward, app
<1>10. ASSUME NEW s \in Streams, Patched(s) PROVE StreamFrames'
  BY <1>10, Records, LivePagesAssumption DEF Patched, app
<1>11. ASSUME NEW s \in Streams, Hangup(s) PROVE StreamFrames'
  BY <1>11, Records, LivePagesAssumption DEF Hangup, app
<1>12. ASSUME NEW s \in Streams, LeaveLock(s) PROVE StreamFrames'
  BY <1>12, Records, LivePagesAssumption DEF LeaveLock, app
<1>13. ASSUME NEW s \in Streams, LeaveGroup(s) PROVE StreamFrames'
  <2> DEFINE h == st[s].grp
  <2>1. /\ st[s].pc = "leaveGroup" /\ h \in Groups
        /\ grp' = [grp EXCEPT ![h] = [@ EXCEPT !.members = grp[h].members \ {s}]]
        /\ UNCHANGED version
    BY <1>13, Records DEF LeaveGroup, app
  <2>2. st' = [st EXCEPT ![s] = [@ EXCEPT !.pc = "leaveLast"]] \/ st' = [st EXCEPT ![s] = NoStream]
    BY <1>13 DEF LeaveGroup
  <2>3. \A g \in Groups : grp'[g].drawn = grp[g].drawn /\ grp'[g].last = grp[g].last
    BY <2>1, Records
  <2>4. CASE st' = [st EXCEPT ![s] = NoStream]
    BY <2>1, <2>3, <2>4, Records, LivePagesAssumption
  <2>5. CASE st' = [st EXCEPT ![s] = [@ EXCEPT !.pc = "leaveLast"]]
    <3> HIDE DEF h
    <3> QED
      BY <2>1, <2>3, <2>5, Records
  <2> QED
    BY <2>2, <2>4, <2>5
<1>14. ASSUME NEW s \in Streams, LeaveLast(s) PROVE StreamFrames'
  BY <1>14, Records, LivePagesAssumption DEF LeaveLast, app
<1>15. ASSUME NEW g \in Groups, DeliverTry(g) PROVE StreamFrames'
  <2>1. PICK m \in grp[g].left :
          IF st[m].chan = None
          THEN /\ st' = [st EXCEPT ![m] = [@ EXCEPT !.chan = grp[g].last]]
               /\ grp' = [grp EXCEPT ![g] = [@ EXCEPT !.left = grp[g].left \ {m}]]
          ELSE /\ grp' = [grp EXCEPT ![g] = [@ EXCEPT !.target = m, !.step = "drain"]]
               /\ UNCHANGED st
    BY <1>15 DEF DeliverTry
  <2>2. UNCHANGED version
    BY <1>15 DEF DeliverTry, app
  <2>3. m \in Streams /\ st[m].grp = g /\ ~Outside(m) /\ grp[g].last # None
    BY Delivered
  <2>4. \A h \in Groups : grp'[h].drawn = grp[h].drawn /\ grp'[h].last = grp[h].last
    <3>1. CASE st[m].chan = None
      BY <2>1, <3>1, Records
    <3>2. CASE st[m].chan # None
      <4>1. grp' = [grp EXCEPT ![g] = [@ EXCEPT !.target = m, !.step = "drain"]]
        BY <2>1, <3>2
      <4> QED
        BY <4>1, Records
    <3> QED
      BY <3>1, <3>2
  <2>5. CASE st' = st
    BY <2>2, <2>4, <2>5, Records
  <2>6. CASE st' = [st EXCEPT ![m] = [@ EXCEPT !.chan = grp[g].last]]
    BY <2>2, <2>3, <2>4, <2>6, Records, SMTT(30)
  <2> QED
    BY <2>1, <2>5, <2>6
<1>16. ASSUME NEW g \in Groups, DeliverDrain(g) PROVE StreamFrames'
  <2> DEFINE m == grp[g].target
  <2>1. /\ m \in Streams /\ st[m].grp = g /\ ~Outside(m) /\ UNCHANGED version
        /\ grp[g].last # None
    BY <1>16, Delivered DEF DeliverPush, DeliverDrain, app
  <2>2. \A h \in Groups : grp'[h].drawn = grp[h].drawn /\ grp'[h].last = grp[h].last
    BY <1>16, Records DEF DeliverPush, DeliverDrain
  <2>3. st' = [st EXCEPT ![m] = [@ EXCEPT !.chan = None]]
    BY <1>16 DEF DeliverPush, DeliverDrain
  <2> HIDE DEF m
  <2> QED
    BY <2>1, <2>2, <2>3, Records
<1>17. ASSUME NEW g \in Groups, DeliverPush(g) PROVE StreamFrames'
  <2> DEFINE m == grp[g].target
  <2>1. /\ m \in Streams /\ st[m].grp = g /\ ~Outside(m) /\ UNCHANGED version
        /\ grp[g].last # None
    BY <1>17, Delivered DEF DeliverPush, DeliverDrain, app
  <2>2. \A h \in Groups : grp'[h].drawn = grp[h].drawn /\ grp'[h].last = grp[h].last
    BY <1>17, Records DEF DeliverPush, DeliverDrain
  <2>3. st' = [st EXCEPT ![m] = [@ EXCEPT !.chan = grp[g].last]]
    BY <1>17 DEF DeliverPush, DeliverDrain
  <2> HIDE DEF m
  <2> QED
    BY <2>1, <2>2, <2>3, Records
<1>18. ASSUME NEW g \in Groups, RunSubscribe(g) PROVE StreamFrames'
  BY <1>18, Records, LivePagesAssumption DEF RunSubscribe, app
<1>19. ASSUME NEW g \in Groups, RenderRead(g) PROVE StreamFrames'
  BY <1>19, Records, LivePagesAssumption DEF RenderRead, app
<1>20. ASSUME NEW g \in Groups, RenderFails(g) PROVE StreamFrames'
  BY <1>20, Records, LivePagesAssumption DEF RenderFails, app
<1>21. ASSUME NEW g \in Groups, Publish(g) PROVE StreamFrames'
  BY <1>21, Records, LivePagesAssumption DEF Publish, app
<1>22. ASSUME NEW g \in Groups, Published(g) PROVE StreamFrames'
  BY <1>22, Records, LivePagesAssumption DEF Published, app
<1>23. ASSUME NEW g \in Groups, Wake(g) PROVE StreamFrames'
  BY <1>23, Records, LivePagesAssumption DEF Wake, app
<1>24. ASSUME NEW g \in Groups, TimerFires(g) PROVE StreamFrames'
  BY <1>24, Records, LivePagesAssumption DEF TimerFires, app
<1>25. ASSUME NEW g \in Groups, RunStops(g) PROVE StreamFrames'
  BY <1>25, Records, LivePagesAssumption DEF RunStops, app
<1>26. CASE UNCHANGED vars
  BY <1>26 DEF vars
<1> QED
  BY <1>2, <1>3, <1>4, <1>5, <1>6, <1>7, <1>8, <1>9, <1>10, <1>11, <1>12, <1>13, <1>14,
     <1>15, <1>16, <1>17, <1>18, <1>19, <1>20, <1>21, <1>22, <1>23, <1>24, <1>25, <1>26
     DEF Next, Serve, Run, Deliver

-----------------------------------------------------------------------------
(* The refinement.                                                         *)

\* What the browsers follow and show is what LiveView starts with.
LEMMA InitView == Init => View!LVInit
BY DEF Init, View!LVInit, NoStream

\* A step that changes no stream's key or browser is none of LiveView's.
LEMMA Unseen ==
  ASSUME st \in [Streams -> Stream], st' \in [Streams -> Stream], version' = version,
         \A s \in Streams : st'[s].key = st[s].key /\ st'[s].shown = st[s].shown
  PROVE  UNCHANGED View!lvVars
BY DEF View!lvVars

\* Only Write, Open, Patched and the end of leave are seen.
LEMMA NextView == IInv /\ IInv' /\ FrameInv /\ [Next]_vars => [View!LVNext]_(View!lvVars)
<1> SUFFICES ASSUME IInv, IInv', FrameInv, [Next]_vars
             PROVE  View!LVNext \/ UNCHANGED View!lvVars
  OBVIOUS
<1>1. st \in [Streams -> Stream] /\ st' \in [Streams -> Stream]
  BY DEF IInv, TypeOK
<1> USE DEF Stream
<1>2. ASSUME NEW w \in Writers, Write(w) PROVE View!LVNext
  BY <1>2 DEF Write, View!LVNext, View!Change
<1>3. ASSUME NEW s \in Streams, NEW k \in Keys, Open(s, k) PROVE View!LVNext
  <2>1. st[s].pc = "off" /\ version' = version
    BY <1>3 DEF Open, app
  <2>2. st[s].key = None /\ st[s].shown = None
    BY <2>1 DEF FrameInv, StreamFrames, Outside
  <2>3. st' = [st EXCEPT ![s] = [NoStream EXCEPT !.pc = "join", !.key = k]]
    BY <1>3 DEF Open
  <2>4. st'[s].key = k /\ st'[s].shown = None
    BY <2>3, <1>1 DEF NoStream
  <2>5. \A z \in Streams : z # s => st'[z] = st[z]
    BY <2>3, <1>1
  <2>6. [z \in Streams |-> st'[z].key] = [[z \in Streams |-> st[z].key] EXCEPT ![s] = k]
    BY <2>4, <2>5
  <2>7. [z \in Streams |-> st'[z].shown] = [z \in Streams |-> st[z].shown]
    BY <2>2, <2>4, <2>5
  <2>8. View!Follow(s, k)
    BY <2>1, <2>2, <2>6, <2>7 DEF View!Follow
  <2> QED
    BY <2>8 DEF View!LVNext
<1>4. ASSUME NEW s \in Streams, Patched(s) PROVE View!LVNext
  <2>1. PICK f \in Frame : f = st[s].sending
    BY <1>4, <1>1 DEF Patched, FrameInv, StreamFrames
  <2>2. f.key = st[s].key /\ f.ver <= grp[st[s].grp].drawn /\ NotNewer(st[s].shown, f)
    BY <1>4, <2>1, LivePagesAssumption DEF Patched, FrameInv, StreamFrames
  <2>3. st[s].grp \in Groups
    BY <1>4, Records DEF Patched, Outside
  <2>4. f.ver <= version
    BY <2>2, <2>3, Records DEF FrameInv, GroupFrames, Frame
  <2>5. /\ version' = version
        /\ st' = [st EXCEPT ![s] = [@ EXCEPT !.pc = "stream", !.shown = f, !.sending = None]]
    BY <1>4, <2>1 DEF Patched, app
  <2>6. f # None
    BY LivePagesAssumption
  <2>7. /\ \A z \in Streams : st'[z].key = st[z].key
        /\ \A z \in Streams : st'[z].shown = IF z = s THEN f ELSE st[z].shown
    BY <2>5, <1>1
  <2>8. /\ [z \in Streams |-> st'[z].key] = [z \in Streams |-> st[z].key]
         /\ [z \in Streams |-> st'[z].shown] = [[z \in Streams |-> st[z].shown] EXCEPT ![s] = f]
    BY <2>7
  <2>9. View!Show(s, f)
    BY <2>2, <2>4, <2>5, <2>6, <2>8 DEF View!Show, NotNewer
  <2>10. f \in View!Frame
    BY DEF Frame, View!Frame
  <2> QED
    BY <2>9, <2>10 DEF View!LVNext
<1>5. ASSUME NEW s \in Streams, st[s].pc \in {"leaveGroup", "leaveLast"},
             st' = [st EXCEPT ![s] = NoStream], version' = version
      PROVE  View!LVNext
  <2>1. st[s].key # None
    BY <1>5, LivePagesAssumption DEF IInv, StreamInv
  <2>2. View!Unfollow(s)
    BY <1>5, <1>1, <2>1 DEF NoStream, View!Unfollow
  <2> QED
    BY <2>2 DEF View!LVNext
<1>6. ASSUME NEW s \in Streams, LeaveGroup(s) PROVE View!LVNext \/ UNCHANGED View!lvVars
  <2>1. version' = version /\ st[s].pc = "leaveGroup"
    BY <1>6 DEF LeaveGroup, app
  <2>2. CASE st' = [st EXCEPT ![s] = [@ EXCEPT !.pc = "leaveLast"]]
    BY <2>1, <2>2, <1>1, Unseen
  <2>3. CASE st' = [st EXCEPT ![s] = NoStream]
    BY <2>1, <2>3, <1>5
  <2> QED
    BY <1>6, <2>2, <2>3 DEF LeaveGroup
<1>7. ASSUME NEW s \in Streams, LeaveLast(s) PROVE View!LVNext
  BY <1>7, <1>5 DEF LeaveLast, app
<1>8. ASSUME NEW s \in Streams,
             \/ JoinExisting(s) \/ (\E g \in Groups : JoinNew(s, g)) \/ JoinGroup(s) \/ Joined(s)
             \/ Forward(s) \/ Hangup(s) \/ LeaveLock(s)
      PROVE  UNCHANGED View!lvVars
  <2>1. version' = version
    BY <1>8 DEF JoinExisting, JoinNew, JoinGroup, Joined, Forward, Hangup, LeaveLock, app
  <2>2. \A z \in Streams : st'[z].key = st[z].key /\ st'[z].shown = st[z].shown
    <3>1. ASSUME NEW g, st' = [st EXCEPT ![s] = [@ EXCEPT !.pc = "joinGroup", !.grp = g]]
          PROVE  \A z \in Streams : st'[z].key = st[z].key /\ st'[z].shown = st[z].shown
      BY <3>1, <1>1
    <3>2. CASE JoinExisting(s) \/ (\E g \in Groups : JoinNew(s, g))
      BY <3>1, <3>2 DEF JoinExisting, JoinNew
    <3>3. CASE JoinGroup(s) \/ Joined(s) \/ Hangup(s) \/ LeaveLock(s)
      BY <3>3, <1>1 DEF JoinGroup, Joined, Hangup, LeaveLock
    <3>4. CASE Forward(s)
      BY <3>4, <1>1 DEF Forward
    <3> QED
      BY <1>8, <3>2, <3>3, <3>4
  <2> QED
    BY <1>1, <2>1, <2>2, Unseen
<1>9. ASSUME NEW g \in Groups, Deliver(g) PROVE UNCHANGED View!lvVars
  <2>1. version' = version
    BY <1>9 DEF Deliver, DeliverTry, DeliverDrain, DeliverPush, app
  <2>2. \A z \in Streams : st'[z].key = st[z].key /\ st'[z].shown = st[z].shown
    <3>1. CASE DeliverTry(g)
      BY <3>1, <1>1 DEF DeliverTry
    <3>2. CASE DeliverDrain(g) \/ DeliverPush(g)
      BY <3>2, <1>1 DEF DeliverDrain, DeliverPush
    <3> QED
      BY <1>9, <3>1, <3>2 DEF Deliver
  <2> QED
    BY <1>1, <2>1, <2>2, Unseen
<1>10. ASSUME NEW g \in Groups, Run(g) PROVE UNCHANGED View!lvVars
  BY <1>10 DEF Run, RunSubscribe, RenderRead, RenderFails, Publish, Published, Wake, TimerFires,
               RunStops, app, View!lvVars
<1>11. ASSUME NEW w \in Writers, Notify(w) PROVE UNCHANGED View!lvVars
  BY <1>11 DEF Notify, View!lvVars
<1>12. CASE UNCHANGED vars
  BY <1>12 DEF vars, View!lvVars
<1> QED
  BY <1>2, <1>3, <1>4, <1>6, <1>7, <1>8, <1>9, <1>10, <1>11, <1>12 DEF Next, Serve

\* A browser sees frames of the page and caller its stream was opened with, of
\* versions that existed, and never an older one after a newer one, for any
\* number of streams, keys, groups, writers and versions.
THEOREM LiveViewRefinedHolds == Spec => LiveViewRefined
<1>1. IInv /\ FrameInv /\ [Next]_vars => FrameInv'
  BY NextGroupFrames, NextStreamFrames DEF FrameInv
<1>2. Spec => []FrameInv
  BY Inductive, InitFrameInv, <1>1, PTL DEF Spec
<1> QED
  BY Inductive, <1>2, InitView, NextView, PTL DEF Spec, LiveViewRefined, View!LVSpec
=============================================================================
