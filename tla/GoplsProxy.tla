----------------------------- MODULE GoplsProxy -----------------------------
(***************************************************************************)
(* The client side of gopls: goroutines that send requests and             *)
(* notifications down one pipe, one goroutine that reads the other pipe    *)
(* and hands each answer to its caller, a 30 s timeout per request, and    *)
(* Close, which may come at any time.  gopls may answer in any order or    *)
(* not at all, stop reading and writing for good, or die.                  *)
(*                                                                         *)
(* The initialize request of start is a request like any other here; the   *)
(* proxy is modelled from the moment it can be used.                       *)
(***************************************************************************)
EXTENDS Naturals, Sequences

CONSTANTS Callers,   \* the goroutines that use the proxy
          MaxId,     \* bound on the requests ever sent
          MaxNotices, \* bound on the notifications ever sent
          Cap,       \* what a pipe holds before a write to it blocks
          None

VARIABLES nextID, notices, pending, closed,
          mu,        \* who holds p.mu across several steps
          chan,      \* the answered requests whose channel is full
          call,      \* where each caller is
          reader,    \* readLoop, and the answer it is about to hand over
          closer,    \* where Close is
          stdin, stdout,  \* the pipes
          got,       \* gopls: the header it has read, waiting for the body
          inbox,     \* gopls: the requests it has not answered
          gopls      \* the process

proxy   == <<nextID, notices, pending, closed, mu, chan, call, reader, closer>>
process == <<stdin, stdout, got, inbox, gopls>>
vars    == <<proxy, process>>

Ids   == 1 .. MaxId
NoId  == 0                \* a notification
Parts == {"header", "body"}
Frame == [by : Callers, id : Ids \cup {NoId}, part : Parts]

ASSUME GoplsProxyAssumption ==
  /\ MaxId \in Nat /\ MaxNotices \in Nat /\ Cap \in Nat \ {0}
  /\ None \notin Callers /\ None \notin Frame

TypeOK ==
  /\ nextID \in 0 .. MaxId /\ notices \in 0 .. MaxNotices
  /\ pending \subseteq Ids /\ chan \subseteq Ids /\ inbox \subseteq Ids
  /\ closed \in BOOLEAN
  /\ mu \in Callers \cup {None}
  /\ call \in [Callers -> [pc : {"idle", "register", "lock", "header", "body",
                                 "wait", "forget"}, id : Ids \cup {NoId}]]
  /\ reader \in [pc : {"read", "deliver", "ended"}, id : Ids \cup {NoId}]
  /\ closer \in {"none", "closing", "kill", "done"}
  /\ stdin \in Seq(Frame) /\ Len(stdin) <= Cap
  /\ stdout \in Seq(Ids \cup {NoId}) /\ Len(stdout) <= Cap
  /\ got \in Frame \cup {None}
  /\ gopls \in {"running", "hung", "dead"}

Rest == [pc |-> "idle", id |-> NoId]

Init ==
  /\ nextID = 0 /\ notices = 0 /\ pending = {} /\ closed = FALSE /\ mu = None /\ chan = {}
  /\ call = [c \in Callers |-> Rest]
  /\ reader = [pc |-> "read", id |-> NoId]
  /\ closer = "none"
  /\ stdin = <<>> /\ stdout = <<>> /\ got = None /\ inbox = {}
  /\ gopls = "running"

Goto(c, place) == call' = [call EXCEPT ![c] = [pc |-> place, id |-> call[c].id]]

-----------------------------------------------------------------------------
(* Request, Notify and writeMessage                                        *)

Request(c) ==
  /\ call[c].pc = "idle" /\ nextID < MaxId
  /\ nextID' = nextID + 1
  /\ call' = [call EXCEPT ![c] = [pc |-> "register", id |-> nextID + 1]]
  /\ UNCHANGED <<notices, pending, closed, mu, chan, reader, closer, process>>

Register(c) ==
  /\ call[c].pc = "register" /\ mu = None
  /\ pending' = pending \cup {call[c].id}
  /\ Goto(c, "lock")
  /\ UNCHANGED <<nextID, notices, closed, mu, chan, reader, closer, process>>

Notify(c) ==
  /\ call[c].pc = "idle" /\ notices < MaxNotices
  /\ notices' = notices + 1
  /\ Goto(c, "lock")
  /\ UNCHANGED <<nextID, pending, closed, mu, chan, reader, closer, process>>

\* writeMessage returned an error.
Failed(c) == IF call[c].id = NoId THEN call' = [call EXCEPT ![c] = Rest]
             ELSE Goto(c, "forget")

\* Mutant: closed is looked at when the proxy is called, not under the lock.
LockUnchecked(c) ==
  /\ call[c].pc = "lock" /\ mu = None
  /\ mu' = c /\ Goto(c, "header")
  /\ UNCHANGED <<nextID, notices, pending, closed, chan, reader, closer, process>>

Lock(c) ==
  /\ call[c].pc = "lock" /\ mu = None
  /\ IF closed THEN Failed(c) /\ UNCHANGED mu
     ELSE mu' = c /\ Goto(c, "header")
  /\ UNCHANGED <<nextID, notices, pending, closed, chan, reader, closer, process>>

\* One Write to the pipe; it blocks while the pipe is full.
Write(c, part) ==
  /\ call[c].pc = part
  /\ Len(stdin) < Cap /\ gopls # "dead"
  /\ stdin' = Append(stdin, [by |-> c, id |-> call[c].id, part |-> part])
  /\ UNCHANGED <<stdout, got, inbox, gopls>>

\* Mutant: the lock is given up between the header and the body.
WriteHeaderUnlocks(c) ==
  /\ Write(c, "header")
  /\ Goto(c, "body") /\ mu' = None
  /\ UNCHANGED <<nextID, notices, pending, closed, chan, reader, closer>>

WriteHeader(c) ==
  /\ Write(c, "header")
  /\ Goto(c, "body")
  /\ UNCHANGED <<nextID, notices, pending, closed, mu, chan, reader, closer>>

WriteBody(c) ==
  /\ Write(c, "body")
  /\ mu' = None
  /\ IF call[c].id = NoId THEN call' = [call EXCEPT ![c] = Rest] ELSE Goto(c, "wait")
  /\ UNCHANGED <<nextID, notices, pending, closed, chan, reader, closer>>

\* The process is gone: the write fails with a broken pipe.
WriteFails(c) ==
  /\ call[c].pc \in Parts /\ gopls = "dead"
  /\ mu' = None /\ Failed(c)
  /\ UNCHANGED <<nextID, notices, pending, closed, chan, reader, closer, process>>

Receive(c) ==
  /\ call[c].pc = "wait" /\ call[c].id \in chan
  /\ chan' = chan \ {call[c].id}
  /\ call' = [call EXCEPT ![c] = Rest]
  /\ UNCHANGED <<nextID, notices, pending, closed, mu, reader, closer, process>>

Timeout(c) ==
  /\ call[c].pc = "wait"
  /\ Goto(c, "forget")
  /\ UNCHANGED <<nextID, notices, pending, closed, mu, chan, reader, closer, process>>

\* Mutant: a request that fails stays pending.
ForgetKeeps(c) ==
  /\ call[c].pc = "forget" /\ mu = None
  /\ call' = [call EXCEPT ![c] = Rest]
  /\ UNCHANGED <<nextID, notices, pending, closed, mu, chan, reader, closer, process>>

\* An answer that came all the same is dropped with its channel.
Forget(c) ==
  /\ call[c].pc = "forget" /\ mu = None
  /\ pending' = pending \ {call[c].id}
  /\ chan' = chan \ {call[c].id}
  /\ call' = [call EXCEPT ![c] = Rest]
  /\ UNCHANGED <<nextID, notices, closed, mu, reader, closer, process>>

Progress(c) ==
  \/ Register(c) \/ Lock(c) \/ WriteHeader(c) \/ WriteBody(c) \/ WriteFails(c)
  \/ Receive(c) \/ Timeout(c) \/ Forget(c)

-----------------------------------------------------------------------------
(* readLoop                                                                *)

\* OnNotification runs on this goroutine and returns.
ReadNotification ==
  /\ reader.pc = "read" /\ stdout # <<>> /\ Head(stdout) = NoId
  /\ stdout' = Tail(stdout)
  /\ UNCHANGED <<proxy, stdin, got, inbox, gopls>>

\* The caller is looked up and forgotten under the lock; an answer nobody
\* waits for any more is dropped.
ReadAnswer ==
  /\ reader.pc = "read" /\ stdout # <<>> /\ Head(stdout) # NoId /\ mu = None
  /\ stdout' = Tail(stdout)
  /\ pending' = pending \ {Head(stdout)}
  /\ IF Head(stdout) \in pending
     THEN reader' = [pc |-> "deliver", id |-> Head(stdout)]
     ELSE UNCHANGED reader
  /\ UNCHANGED <<nextID, notices, closed, mu, chan, call, closer, stdin, got, inbox, gopls>>

WaitedFor(id) == \E c \in Callers : call[c].id = id

\* Mutant: the channel has no buffer.
DeliverUnbuffered ==
  /\ reader.pc = "deliver"
  /\ \E c \in Callers : call[c] = [pc |-> "wait", id |-> reader.id]
  /\ chan' = chan \cup {reader.id}
  /\ reader' = [pc |-> "read", id |-> NoId]
  /\ UNCHANGED <<nextID, notices, pending, closed, mu, call, closer, process>>

\* The channel holds one answer, so the send never waits for its caller; the
\* channel of a caller that has returned is garbage.
Deliver ==
  /\ reader.pc = "deliver"
  /\ chan' = IF WaitedFor(reader.id) THEN chan \cup {reader.id} ELSE chan
  /\ reader' = [pc |-> "read", id |-> NoId]
  /\ UNCHANGED <<nextID, notices, pending, closed, mu, call, closer, process>>

\* The end of the file, or the pipe closed by Wait.  Nobody is told.
ReadFails ==
  /\ reader.pc = "read" /\ gopls = "dead" /\ stdout = <<>>
  /\ reader' = [pc |-> "ended", id |-> NoId]
  /\ UNCHANGED <<nextID, notices, pending, closed, mu, chan, call, closer, process>>

ReadLoop == ReadNotification \/ ReadAnswer \/ Deliver \/ ReadFails

-----------------------------------------------------------------------------
(* Close                                                                   *)

Close ==
  /\ closer = "none" /\ closer' = "closing"
  /\ UNCHANGED <<nextID, notices, pending, closed, mu, chan, call, reader, process>>

CloseMarks ==
  /\ closer = "closing" /\ mu = None
  /\ closed' = TRUE /\ closer' = "kill"
  /\ UNCHANGED <<nextID, notices, pending, mu, chan, call, reader, process>>

\* Mutant: Close leaves the process to notice that its input ended.
CloseWaits ==
  /\ closer = "kill" /\ gopls = "dead"
  /\ closer' = "done"
  /\ UNCHANGED <<nextID, notices, pending, closed, mu, chan, call, reader, process>>

\* The process dies, and what it had read or was yet to read goes with it.
Dies == gopls' = "dead" /\ stdin' = <<>> /\ got' = None /\ inbox' = {}

\* stdin.Close, Process.Kill and Wait, which closes the other pipe.
CloseKills ==
  /\ closer = "kill" /\ closer' = "done"
  /\ Dies /\ stdout' = <<>>
  /\ UNCHANGED <<nextID, notices, pending, closed, mu, chan, call, reader>>

Closing == CloseMarks \/ CloseKills

-----------------------------------------------------------------------------
(* gopls                                                                   *)

GoplsReads ==
  /\ gopls = "running" /\ stdin # <<>>
  /\ stdin' = Tail(stdin)
  /\ IF got = None
     THEN got' = Head(stdin) /\ UNCHANGED inbox
     ELSE got' = None /\ inbox' = inbox \cup ({Head(stdin).id} \ {NoId})
  /\ UNCHANGED <<proxy, stdout, gopls>>

GoplsWrites ==
  /\ gopls = "running" /\ Len(stdout) < Cap
  /\ \E id \in inbox \cup {NoId} : stdout' = Append(stdout, id) /\ inbox' = inbox \ {id}
  /\ UNCHANGED <<proxy, stdin, got, gopls>>

GoplsDies ==
  /\ gopls # "dead" /\ Dies
  /\ UNCHANGED <<proxy, stdout>>

\* It neither reads nor writes any more.
GoplsHangs ==
  /\ gopls = "running" /\ gopls' = "hung" /\ inbox' = {}
  /\ UNCHANGED <<proxy, stdin, stdout, got>>

Next ==
  \/ \E c \in Callers : Request(c) \/ Notify(c) \/ Progress(c)
  \/ ReadLoop \/ Close \/ Closing
  \/ GoplsReads \/ GoplsWrites \/ GoplsDies \/ GoplsHangs

Spec == Init /\ [][Next]_vars

(* The goroutines run, timers fire, and a gopls that runs reads its input. *)
(* Nothing is promised of its answers.  The calls are bounded, so the mutex *)
(* is free for good at some time unless its holder is stuck.               *)
FairSpec ==
  /\ Spec
  /\ \A c \in Callers : WF_vars(Progress(c))
  /\ WF_vars(ReadLoop) /\ WF_vars(Closing) /\ WF_vars(GoplsReads)

-----------------------------------------------------------------------------
(* Properties                                                              *)

\* What gopls reads is a header and then that message's body, however the
\* callers interleave.
Framed ==
  LET sent == (IF got = None THEN <<>> ELSE <<got>>) \o stdin
  IN  \A i \in 1 .. Len(sent) :
        /\ sent[i].part = "header" <=> i % 2 = 1
        /\ i % 2 = 0 => sent[i].by = sent[i - 1].by /\ sent[i].id = sent[i - 1].id

\* An id is pending only while its caller is in Request, and a caller that
\* waits is pending, being served, or served.
NoneForgotten ==
  /\ \A id \in pending : \E c \in Callers : call[c].id = id
  /\ \A c \in Callers : call[c].pc = "wait" =>
       \/ call[c].id \in pending \cup chan
       \/ reader = [pc |-> "deliver", id |-> call[c].id]

\* proxy.go: "Safe to call while requests are in flight -- subsequent
\* writeMessage calls will return an error".
NothingAfterClose == [][closed => Len(stdin') <= Len(stdin)]_vars

\* Close kills the process, unless a caller is stuck writing to a hung gopls.
CloseEnds == closer = "closing" ~> (gopls = "dead" \/ (gopls = "hung" /\ mu # None))

\* Every call returns, answered or not, unless gopls is hung with the pipe full,
\* the reader is never stuck on a caller that has gone, and Close ends, after
\* which nobody writes.
EverythingReturns ==
  /\ CloseEnds /\ NothingAfterClose
  /\ \A c \in Callers : []<>(call[c].pc = "idle" \/ (gopls = "hung" /\ Len(stdin) = Cap))
  /\ []<>(reader.pc # "deliver")
=============================================================================
