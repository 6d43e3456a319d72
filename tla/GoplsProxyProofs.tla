-------------------------- MODULE GoplsProxyProofs --------------------------
(***************************************************************************)
(* What GoplsProxy promises however many goroutines call it and however    *)
(* little a pipe holds: messages stay framed, no call is forgotten, and    *)
(* nothing is written after Close.  One inductive invariant, IInv, says    *)
(* what the mutex protects, that ids are unique, and where in a message    *)
(* the pipe stands.                                                        *)
(***************************************************************************)
EXTENDS GoplsProxy, SequenceTheorems, TLAPS

\* p.mu is held from the check of closed to the last byte of the body.
MuInv ==
  /\ \A c \in Callers : mu = c <=> call[c].pc \in Parts
  /\ closed => mu = None

\* nextID is atomic: no two requests have one id, and none has a later one.
IdInv ==
  /\ \A c \in Callers : call[c].id <= nextID
  /\ \A c \in Callers : call[c].pc \in {"register", "wait", "forget"} => call[c].id # NoId
  /\ \A c \in Callers : call[c].pc = "idle" => call[c].id = NoId
  /\ \A c, d \in Callers : c # d /\ call[c].id # NoId => call[c].id # call[d].id

Delivering(id) == reader.pc = "deliver" /\ reader.id = id

\* A registered request is pending, about to be handed its answer, or answered,
\* and what is pending or answered is the request of some caller.
PendingInv ==
  /\ \A id \in pending \cup chan : \E c \in Callers : call[c].id = id
  /\ pending \cap chan = {}
  /\ reader.pc = "deliver" => reader.id # NoId /\ reader.id \notin pending
  /\ reader.id <= nextID
  /\ \A c \in Callers : call[c].id # NoId /\ call[c].pc \in Parts \cup {"lock", "wait"} =>
       call[c].id \in pending \/ call[c].id \in chan \/ Delivering(call[c].id)
  /\ \A c \in Callers : call[c].pc = "register" =>
       call[c].id \notin pending /\ call[c].id \notin chan /\ ~Delivering(call[c].id)

\* The frame f is of c's present message.
Mine(f, c) == f.by = c /\ f.id = call[c].id

Same(f, g) == f.by = g.by /\ f.id = g.id

\* The parts alternate, starting with the body of the header gopls has read.
PartsInv ==
  /\ got # None => got.part = "header"
  /\ \A i \in 1 .. Len(stdin) : stdin[i].part = "header" <=> ((i % 2 = 1) <=> got = None)
  /\ got # None /\ stdin # <<>> => Same(stdin[1], got)
  /\ \A i \in 1 .. Len(stdin) - 1 :
       stdin[i + 1].part = "body" => Same(stdin[i + 1], stdin[i])

\* The last part sent is a header exactly while a caller is between its two
\* writes, and then it is that caller's.
TailInv ==
  /\ gopls = "dead" => stdin = <<>> /\ got = None
  /\ gopls # "dead" =>
       /\ \A c \in Callers : call[c].pc = "body" =>
            IF stdin = <<>> THEN got # None /\ Mine(got, c)
            ELSE stdin[Len(stdin)].part = "header" /\ Mine(stdin[Len(stdin)], c)
       /\ (\A c \in Callers : call[c].pc # "body") =>
            IF stdin = <<>> THEN got = None ELSE stdin[Len(stdin)].part = "body"

IInv == TypeOK /\ MuInv /\ IdInv /\ PendingInv /\ PartsInv /\ TailInv

-----------------------------------------------------------------------------

LEMMA NumberFacts ==
  /\ MaxId \in Nat /\ MaxNotices \in Nat /\ Cap \in Nat /\ Cap > 0
  /\ NoId = 0 /\ Ids = 1 .. MaxId
  /\ None \notin Callers /\ None \notin Frame
<1>1. Ids = 1 .. MaxId /\ NoId = 0
  BY DEF NoId, Ids
<1>2. MaxId \in Nat /\ MaxNotices \in Nat /\ Cap \in Nat /\ Cap > 0
  BY GoplsProxyAssumption DEF GoplsProxyAssumption
<1>3. None \notin Callers /\ None \notin Frame
  BY GoplsProxyAssumption DEF GoplsProxyAssumption
<1> QED
  BY <1>1, <1>2, <1>3

LEMMA InitIInv == Init => IInv
<1> SUFFICES ASSUME Init PROVE IInv
  OBVIOUS
<1> USE NumberFacts
<1>1. TypeOK
  <2>1. call \in [Callers -> [pc : {"idle", "register", "lock", "header", "body", "wait", "forget"},
                              id : Ids \cup {NoId}]]
    BY DEF Init, Rest
  <2>2. reader \in [pc : {"read", "deliver", "ended"}, id : Ids \cup {NoId}]
    BY DEF Init
  <2>3. /\ stdin \in Seq(Frame) /\ Len(stdin) <= Cap
        /\ stdout \in Seq(Ids \cup {NoId}) /\ Len(stdout) <= Cap
    BY DEF Init
  <2>4. pending \subseteq Ids /\ chan \subseteq Ids /\ inbox \subseteq Ids
    BY DEF Init
  <2>5. nextID \in 0 .. MaxId /\ notices \in 0 .. MaxNotices
    BY DEF Init
  <2>6. closed \in BOOLEAN
    BY Zenon DEF Init
  <2>7. /\ mu \in Callers \cup {None} /\ got \in Frame \cup {None}
        /\ closer \in {"none", "closing", "kill", "done"} /\ gopls \in {"running", "hung", "dead"}
    BY DEF Init
  <2> QED
    BY <2>1, <2>2, <2>3, <2>4, <2>5, <2>6, <2>7 DEF TypeOK
<1>2. MuInv
  BY DEF Init, MuInv, Rest, Parts
<1>3. IdInv
  BY DEF Init, IdInv, Rest, NoId
<1>4. PendingInv
  BY DEF Init, PendingInv, Delivering, Rest, NoId
<1>5. PartsInv
  BY DEF Init, PartsInv
<1>6. TailInv
  BY DEF Init, TailInv, Rest
<1> QED
  BY <1>1, <1>2, <1>3, <1>4, <1>5, <1>6 DEF IInv

LEMMA CallType ==
  ASSUME NEW place \in {"idle", "register", "lock", "header", "body", "wait", "forget"},
         NEW id \in Ids \cup {NoId}
  PROVE  [pc |-> place, id |-> id] \in
           [pc : {"idle", "register", "lock", "header", "body", "wait", "forget"}, id : Ids \cup {NoId}]
  OBVIOUS

LEMMA ReaderType ==
  ASSUME NEW place \in {"read", "deliver", "ended"}, NEW id \in Ids \cup {NoId}
  PROVE  [pc |-> place, id |-> id] \in [pc : {"read", "deliver", "ended"}, id : Ids \cup {NoId}]
  OBVIOUS

LEMMA FrameType ==
  ASSUME NEW c \in Callers, NEW id \in Ids \cup {NoId}, NEW part \in Parts
  PROVE  [by |-> c, id |-> id, part |-> part] \in Frame
  BY DEF Frame

\* Every step is one of these.
LEMMA Steps ==
  ASSUME [Next]_vars
  PROVE  \/ UNCHANGED vars
         \/ \E c \in Callers : Request(c) \/ Notify(c) \/ Register(c) \/ Lock(c) \/ WriteHeader(c)
                               \/ WriteBody(c) \/ WriteFails(c) \/ Receive(c) \/ Timeout(c) \/ Forget(c)
         \/ ReadNotification \/ ReadAnswer \/ Deliver \/ ReadFails
         \/ Close \/ CloseMarks \/ CloseKills
         \/ GoplsReads \/ GoplsWrites \/ GoplsDies \/ GoplsHangs
  BY DEF Next, Progress, ReadLoop, Closing

LEMMA TypePreserved ==
  ASSUME IInv, [Next]_vars
  PROVE  TypeOK'
<1> USE NumberFacts DEF IInv
<1> DEFINE Pcs == {"idle", "register", "lock", "header", "body", "wait", "forget"}
<1>0. CASE UNCHANGED vars
  BY <1>0 DEF TypeOK, vars, proxy, process
<1>1. ASSUME NEW c \in Callers,
             Request(c) \/ Notify(c) \/ Register(c) \/ Lock(c) \/ WriteHeader(c)
             \/ WriteBody(c) \/ WriteFails(c) \/ Receive(c) \/ Timeout(c) \/ Forget(c)
      PROVE  TypeOK'
  <2>0. call[c] \in [pc : Pcs, id : Ids \cup {NoId}] /\ call[c].id \in Ids \cup {NoId}
    BY DEF TypeOK
  <2>1. Rest \in [pc : Pcs, id : Ids \cup {NoId}]
    BY DEF Rest
  <2>2. ASSUME NEW place \in Pcs, Goto(c, place)
        PROVE  call' \in [Callers -> [pc : Pcs, id : Ids \cup {NoId}]]
    <3>1. [pc |-> place, id |-> call[c].id] \in [pc : Pcs, id : Ids \cup {NoId}]
      BY <2>0, CallType
    <3> QED
      BY <2>2, <3>1 DEF Goto, TypeOK
  <2>3. ASSUME Failed(c)
        PROVE  call' \in [Callers -> [pc : Pcs, id : Ids \cup {NoId}]]
    <3>1. CASE call[c].id = NoId
      BY <2>1, <2>3, <3>1, ZenonT(30) DEF Failed, TypeOK
    <3>2. CASE call[c].id # NoId
      BY <2>2, <2>3, <3>2 DEF Failed
    <3> QED
      BY <3>1, <3>2
  <2>4. CASE Request(c)
    <3>1. nextID + 1 \in Ids
      BY <2>4 DEF Request, TypeOK, Ids
    <3>2. [pc |-> "register", id |-> nextID + 1] \in [pc : Pcs, id : Ids \cup {NoId}]
      BY <3>1, CallType
    <3>3. call' \in [Callers -> [pc : Pcs, id : Ids \cup {NoId}]]
      BY <2>4, <3>2 DEF Request, TypeOK
    <3>4. nextID' \in 0 .. MaxId
      BY <2>4, <3>1 DEF Request, TypeOK, Ids
    <3> QED
      BY <2>4, <3>3, <3>4 DEF Request, TypeOK, process
  <2>5. CASE Notify(c)
    BY <2>2, <2>5 DEF Notify, TypeOK, process
  <2>6. CASE Register(c)
    <3>1. call[c].id \in Ids
      BY <2>0, <2>6 DEF Register, IdInv
    <3> QED
      BY <2>2, <2>6, <3>1 DEF Register, TypeOK, process
  <2>7. CASE Lock(c)
    BY <2>2, <2>3, <2>7 DEF Lock, TypeOK, process
  <2>8. ASSUME NEW part \in Parts, Write(c, part)
        PROVE  /\ stdin' \in Seq(Frame) /\ Len(stdin') <= Cap
               /\ stdout' = stdout /\ got' = got /\ inbox' = inbox /\ gopls' = gopls
    BY <2>0, <2>8, FrameType DEF Write, TypeOK
  <2>9. CASE WriteHeader(c)
    BY <2>2, <2>8, <2>9 DEF WriteHeader, TypeOK, Parts
  <2>10. CASE WriteBody(c)
    <3>1. call' \in [Callers -> [pc : Pcs, id : Ids \cup {NoId}]]
      <4>1. CASE call[c].id = NoId
        BY <2>1, <2>10, <4>1 DEF WriteBody, TypeOK
      <4>2. CASE call[c].id # NoId
        BY <2>2, <2>10, <4>2 DEF WriteBody
      <4> QED
        BY <4>1, <4>2
    <3> QED
      BY <2>8, <2>10, <3>1 DEF WriteBody, TypeOK, Parts
  <2>11. CASE WriteFails(c)
    BY <2>3, <2>11 DEF WriteFails, TypeOK, process
  <2>12. CASE Receive(c)
    BY <2>1, <2>12 DEF Receive, TypeOK, process
  <2>13. CASE Timeout(c)
    BY <2>2, <2>13 DEF Timeout, TypeOK, process
  <2>14. CASE Forget(c)
    BY <2>1, <2>14 DEF Forget, TypeOK, process
  <2> QED
    BY <1>1, <2>4, <2>5, <2>6, <2>7, <2>9, <2>10, <2>11, <2>12, <2>13, <2>14
<1>2. CASE ReadNotification
  BY <1>2 DEF ReadNotification, TypeOK, proxy
<1>3. CASE ReadAnswer
  <2>1. Head(stdout) \in Ids /\ Tail(stdout) \in Seq(Ids \cup {NoId}) /\ Len(Tail(stdout)) <= Cap
    BY <1>3 DEF ReadAnswer, TypeOK
  <2>2. [pc |-> "deliver", id |-> Head(stdout)] \in [pc : {"read", "deliver", "ended"}, id : Ids \cup {NoId}]
    BY <2>1, ReaderType
  <2> QED
    BY <1>3, <2>1, <2>2 DEF ReadAnswer, TypeOK
<1>4. CASE Deliver
  <2>1. CASE WaitedFor(reader.id)
    <3>1. reader.id \in Ids
      BY <1>4 DEF Deliver, TypeOK, PendingInv
    <3>2. chan' = chan \cup {reader.id}
      BY <1>4, <2>1 DEF Deliver
    <3>0. chan \subseteq Ids
      BY DEF TypeOK
    <3>3. chan' \subseteq Ids
      BY ONLY <3>0, <3>1, <3>2
    <3>4. reader' \in [pc : {"read", "deliver", "ended"}, id : Ids \cup {NoId}]
      BY <1>4 DEF Deliver
    <3> QED
      BY <1>4, <3>3, <3>4 DEF Deliver, TypeOK, process
  <2>2. CASE ~WaitedFor(reader.id)
    BY <1>4, <2>2 DEF Deliver, TypeOK, process
  <2> QED
    BY <2>1, <2>2
<1>5. CASE ReadFails
  BY <1>5 DEF ReadFails, TypeOK, process
<1>6. CASE Close \/ CloseMarks
  BY <1>6 DEF Close, CloseMarks, TypeOK, process
<1>7. CASE CloseKills \/ GoplsDies
  <2>1. stdin' \in Seq(Frame) /\ Len(stdin') <= Cap /\ stdout' \in Seq(Ids \cup {NoId})
        /\ Len(stdout') <= Cap
    <3>1. <<>> \in Seq(Frame) /\ Len(<<>>) = 0 /\ <<>> \in Seq(Ids \cup {NoId})
      OBVIOUS
    <3>2. CASE CloseKills
      BY <3>1, <3>2 DEF CloseKills, Dies, TypeOK
    <3>3. CASE GoplsDies
      BY <3>1, <3>3 DEF GoplsDies, Dies, TypeOK
    <3> QED
      BY <1>7, <3>2, <3>3
  <2> QED
    BY <1>7, <2>1 DEF CloseKills, GoplsDies, Dies, TypeOK, proxy
<1>8. CASE GoplsReads
  <2>1. Head(stdin) \in Frame /\ Tail(stdin) \in Seq(Frame) /\ Len(Tail(stdin)) <= Cap
    BY <1>8 DEF GoplsReads, TypeOK
  <2>2. Head(stdin).id \in Ids \cup {NoId}
    BY <2>1 DEF Frame
  <2> QED
    BY <1>8, <2>1, <2>2 DEF GoplsReads, TypeOK, proxy
<1>9. CASE GoplsWrites
  <2>1. PICK id \in inbox \cup {NoId} : stdout' = Append(stdout, id) /\ inbox' = inbox \ {id}
    BY <1>9 DEF GoplsWrites
  <2>2. stdout' \in Seq(Ids \cup {NoId}) /\ Len(stdout') <= Cap
    BY <1>9, <2>1 DEF GoplsWrites, TypeOK
  <2> QED
    BY <1>9, <2>1, <2>2 DEF GoplsWrites, TypeOK, proxy
<1>10. CASE GoplsHangs
  BY <1>10 DEF GoplsHangs, TypeOK, proxy
<1> QED
  BY <1>0, <1>1, <1>2, <1>3, <1>4, <1>5, <1>6, <1>7, <1>8, <1>9, <1>10, Steps

-----------------------------------------------------------------------------
(* The mutex and the ids                                                   *)

LEMMA MuPreserved ==
  ASSUME IInv, [Next]_vars
  PROVE  MuInv'
<1> USE NumberFacts DEF IInv, MuInv
<1>0. CASE UNCHANGED vars
  BY <1>0 DEF vars, proxy
<1>1. ASSUME NEW c \in Callers,
             Request(c) \/ Notify(c) \/ Register(c) \/ Lock(c) \/ WriteHeader(c)
             \/ WriteBody(c) \/ WriteFails(c) \/ Receive(c) \/ Timeout(c) \/ Forget(c)
      PROVE  MuInv'
  <2>0. \A d \in Callers : call[d].pc \in Parts => mu = d
    OBVIOUS
  <2>1. ASSUME NEW place \in {"lock", "register", "wait", "forget", "idle"}, NEW id,
               call' = [call EXCEPT ![c] = [pc |-> place, id |-> id]]
        PROVE  /\ call'[c].pc \notin Parts
               /\ \A d \in Callers \ {c} : call'[d] = call[d]
    BY <2>1 DEF TypeOK, Parts
  <2>2. ASSUME Failed(c)
        PROVE  /\ call'[c].pc \notin Parts
               /\ \A d \in Callers \ {c} : call'[d] = call[d]
    BY <2>1, <2>2 DEF Failed, Goto, Rest
  <2>3. CASE Request(c) \/ Notify(c) \/ Register(c) \/ Receive(c) \/ Timeout(c) \/ Forget(c)
    <3>1. /\ call'[c].pc \notin Parts /\ call[c].pc \notin Parts
          /\ \A d \in Callers \ {c} : call'[d] = call[d]
          /\ mu' = mu /\ closed' = closed
      BY <2>1, <2>3 DEF Request, Notify, Register, Receive, Timeout, Forget, Goto, Rest, Parts
    <3> QED
      BY <3>1
  <2>4. CASE Lock(c)
    <3>1. CASE closed
      BY <2>2, <2>4, <3>1 DEF Lock, Parts
    <3>2. CASE ~closed
      BY <2>4, <3>2 DEF Lock, Goto, TypeOK, Parts
    <3> QED
      BY <3>1, <3>2
  <2>5. CASE WriteHeader(c)
    BY <2>5 DEF WriteHeader, Write, Goto, TypeOK, Parts
  <2>6. CASE WriteBody(c) \/ WriteFails(c)
    <3>1. /\ call'[c].pc \notin Parts /\ call[c].pc \in Parts
          /\ \A d \in Callers \ {c} : call'[d] = call[d]
          /\ mu' = None /\ closed' = closed
      BY <2>1, <2>2, <2>6 DEF WriteBody, WriteFails, Write, Goto, Rest, Parts
    <3> QED
      BY <2>0, <3>1
  <2> QED
    BY <1>1, <2>3, <2>4, <2>5, <2>6
<1>2. CASE ReadNotification \/ GoplsReads \/ GoplsWrites \/ GoplsDies \/ GoplsHangs
  BY <1>2 DEF ReadNotification, GoplsReads, GoplsWrites, GoplsDies, GoplsHangs, proxy
<1>3. CASE ReadAnswer \/ Deliver \/ ReadFails \/ Close \/ CloseMarks \/ CloseKills
  BY <1>3 DEF ReadAnswer, Deliver, ReadFails, Close, CloseMarks, CloseKills
<1> QED
  BY <1>0, <1>1, <1>2, <1>3, Steps

LEMMA IdPreserved ==
  ASSUME IInv, [Next]_vars
  PROVE  IdInv'
<1> USE NumberFacts DEF IInv, IdInv
<1> DEFINE Pcs == {"idle", "register", "lock", "header", "body", "wait", "forget"}
<1>0. CASE UNCHANGED <<nextID, call>>
  BY <1>0
<1>1. ASSUME NEW c \in Callers, NEW place \in Pcs,
             call' = [call EXCEPT ![c] = [pc |-> place, id |-> call[c].id]],
             nextID' = nextID,
             place \in {"register", "wait", "forget"} => call[c].id # NoId,
             place # "idle"
      PROVE  IdInv'
  BY <1>1 DEF TypeOK
<1>2. ASSUME NEW c \in Callers, call' = [call EXCEPT ![c] = Rest], nextID' = nextID
      PROVE  IdInv'
  BY <1>2 DEF TypeOK, Rest
<1>3. ASSUME NEW c \in Callers, Failed(c), nextID' = nextID
      PROVE  IdInv'
  <2>1. CASE call[c].id = NoId
    BY <1>2, <1>3, <2>1 DEF Failed
  <2>2. CASE call[c].id # NoId
    BY <1>1, <1>3, <2>2 DEF Failed, Goto
  <2> QED
    BY <2>1, <2>2
<1>4. ASSUME NEW c \in Callers, Request(c)
      PROVE  IdInv'
  <2>1. /\ call'[c] = [pc |-> "register", id |-> nextID + 1]
        /\ \A d \in Callers \ {c} : call'[d] = call[d]
        /\ nextID' = nextID + 1 /\ nextID \in Nat
    BY <1>4 DEF Request, TypeOK
  <2>2. \A d \in Callers : call[d].id \in Nat
    BY DEF TypeOK, Ids, NoId
  <2> QED
    BY <2>1, <2>2
<1>5. ASSUME NEW c \in Callers,
             Notify(c) \/ Register(c) \/ Lock(c) \/ WriteHeader(c) \/ Timeout(c)
      PROVE  IdInv'
  <2>1. CASE Notify(c)
    BY <1>1, <2>1 DEF Notify, Goto
  <2>2. CASE Register(c)
    BY <1>1, <2>2 DEF Register, Goto
  <2>3. CASE Lock(c)
    BY <1>1, <1>3, <2>3 DEF Lock, Goto
  <2>4. CASE WriteHeader(c)
    BY <1>1, <2>4 DEF WriteHeader, Goto
  <2>5. CASE Timeout(c)
    BY <1>1, <2>5 DEF Timeout, Goto
  <2> QED
    BY <1>5, <2>1, <2>2, <2>3, <2>4, <2>5
<1>6. ASSUME NEW c \in Callers, WriteBody(c) \/ WriteFails(c) \/ Receive(c) \/ Forget(c)
      PROVE  IdInv'
  <2>1. CASE WriteBody(c)
    BY <1>1, <1>2, <2>1 DEF WriteBody, Goto
  <2>2. CASE WriteFails(c)
    BY <1>3, <2>2 DEF WriteFails
  <2>3. CASE Receive(c) \/ Forget(c)
    BY <1>2, <2>3 DEF Receive, Forget
  <2> QED
    BY <1>6, <2>1, <2>2, <2>3
<1> QED
  BY <1>0, <1>4, <1>5, <1>6, Steps
     DEF vars, proxy, ReadNotification, ReadAnswer, Deliver, ReadFails, Close, CloseMarks,
         CloseKills, GoplsReads, GoplsWrites, GoplsDies, GoplsHangs

-----------------------------------------------------------------------------
(* Requests and answers                                                    *)

LEMMA PendingPreserved ==
  ASSUME IInv, [Next]_vars
  PROVE  PendingInv'
<1> USE NumberFacts DEF IInv, PendingInv, Delivering
<1> DEFINE Registered == Parts \cup {"lock", "wait"}
<1> DEFINE Given(id) == reader'.pc = "deliver" /\ reader'.id = id
<1>0. CASE UNCHANGED <<nextID, pending, chan, call, reader>>
  BY <1>0
<1>t. /\ \A d \in Callers : call[d].id \in Nat /\ (call[d].id # NoId => call[d].id \in Ids)
      /\ nextID \in Nat /\ reader.id \in Nat /\ NoId \notin pending /\ NoId \notin chan
      /\ DOMAIN call = Callers
  BY DEF TypeOK, Ids, NoId
\* A step that leaves the requests as they are and registers nobody.
<1>1. ASSUME NEW c \in Callers, NEW place, place \in Registered => call[c].pc \in Registered \cup {"idle"},
             place # "register",
             call' = [call EXCEPT ![c] = [pc |-> place, id |-> call[c].id]],
             UNCHANGED <<nextID, pending, chan, reader>>
      PROVE  PendingInv'
  <2>1. /\ \A d \in Callers : call'[d].id = call[d].id
        /\ \A d \in Callers \ {c} : call'[d] = call[d]
        /\ call'[c].pc = place
    BY <1>t, <1>1
  <2>2. call[c].pc = "idle" => call[c].id = NoId
    BY DEF IdInv
  <2> QED
    BY <1>1, <2>1, <2>2
\* A step after which c has no request, and none was pending or answered.
<1>2. ASSUME NEW c \in Callers, call' = [call EXCEPT ![c] = Rest],
             UNCHANGED <<nextID, reader>>,
             pending' = pending \ {call[c].id}, chan' = chan \ {call[c].id}
      PROVE  PendingInv'
  <2>1. /\ call'[c] = Rest /\ call'[c].id = NoId /\ call'[c].pc = "idle"
        /\ \A d \in Callers \ {c} : call'[d] = call[d]
    BY <1>t, <1>2 DEF Rest
  <2>2. \A d \in Callers \ {c} : call[d].id # NoId => call[d].id # call[c].id
    BY DEF IdInv
  <2>3. \A id \in pending' \cup chan' : \E d \in Callers : call'[d].id = id
    BY <1>2, <2>1
  <2>4. ASSUME NEW d \in Callers, call'[d].id # NoId
        PROVE  call'[d] = call[d] /\ call[d].id # call[c].id
    BY <2>1, <2>2, <2>4
  <2>5. \A d \in Callers : call'[d].id # NoId /\ call'[d].pc \in Registered =>
          call'[d].id \in pending' \/ call'[d].id \in chan' \/ Given(call'[d].id)
    BY <1>2, <2>4
  <2>6. pending' \cap chan' = {} /\ (reader'.pc = "deliver" => reader'.id \notin pending')
    BY <1>2
  <2>7. \A d \in Callers : call'[d].pc = "register" =>
          call'[d].id \notin pending' /\ call'[d].id \notin chan' /\ ~Given(call'[d].id)
    BY <1>2, <2>1
  <2> QED
    BY <1>2, <2>3, <2>5, <2>6, <2>7
<1>3. ASSUME NEW c \in Callers, Failed(c), UNCHANGED <<nextID, pending, chan, reader>>
      PROVE  PendingInv'
  <2>1. CASE call[c].id = NoId
    BY <1>1, <1>3, <2>1, ZenonT(30) DEF Failed, Rest, Parts
  <2>2. CASE call[c].id # NoId
    BY <1>1, <1>3, <2>2 DEF Failed, Goto, Parts
  <2> QED
    BY <2>1, <2>2
<1>4. ASSUME NEW c \in Callers, Request(c)
      PROVE  PendingInv'
  <2>1. /\ call'[c] = [pc |-> "register", id |-> nextID + 1]
        /\ call'[c].id = nextID + 1 /\ call'[c].pc = "register"
        /\ \A d \in Callers \ {c} : call'[d] = call[d]
        /\ nextID' = nextID + 1 /\ call[c].id = NoId
        /\ UNCHANGED <<pending, chan, reader>>
    BY <1>t, <1>4 DEF Request, IdInv
  <2>2. \A id \in pending \cup chan : \E d \in Callers \ {c} : call[d].id = id /\ id <= nextID
    BY <1>t, <2>1 DEF IdInv
  <2>3. \A id \in pending' \cup chan' : \E d \in Callers : call'[d].id = id
    BY <2>1, <2>2
  <2>4. nextID + 1 \notin pending /\ nextID + 1 \notin chan /\ reader.id # nextID + 1
        /\ reader.id <= nextID + 1
    BY <1>t, <2>2
  <2>5. \A d \in Callers : call'[d].id # NoId /\ call'[d].pc \in Registered =>
          call'[d].id \in pending' \/ call'[d].id \in chan' \/ Given(call'[d].id)
    <3>1. call'[c].pc \notin Registered
      BY <2>1 DEF Parts
    <3> QED
      BY <2>1, <3>1
  <2>6. ASSUME NEW d \in Callers, call'[d].pc = "register"
        PROVE  call'[d].id \notin pending' /\ call'[d].id \notin chan' /\ ~Given(call'[d].id)
    <3>1. CASE d = c
      BY <2>1, <2>4, <3>1
    <3>2. CASE d # c
      BY <2>1, <2>6, <3>2
    <3> QED
      BY <3>1, <3>2
  <2> QED
    BY <2>1, <2>3, <2>4, <2>5, <2>6
<1>5. ASSUME NEW c \in Callers, Register(c)
      PROVE  PendingInv'
  <2>1. /\ call'[c].pc = "lock" /\ call'[c].id = call[c].id /\ call[c].pc = "register"
        /\ \A d \in Callers \ {c} : call'[d] = call[d]
        /\ pending' = pending \cup {call[c].id} /\ UNCHANGED <<nextID, chan, reader>>
    BY <1>t, <1>5 DEF Register, Goto
  <2>2. call[c].id \notin chan /\ ~Delivering(call[c].id) /\ call[c].id # NoId
    BY <2>1 DEF IdInv
  <2>3. \A d \in Callers \ {c} : call[d].id # call[c].id
    BY <2>2 DEF IdInv
  <2> QED
    BY <2>1, <2>2, <2>3
<1>6. ASSUME NEW c \in Callers,
             Notify(c) \/ Lock(c) \/ WriteHeader(c) \/ WriteBody(c) \/ WriteFails(c) \/ Timeout(c)
      PROVE  PendingInv'
  <2>1. CASE Notify(c)
    BY <1>1, <2>1 DEF Notify, Goto, Parts
  <2>2. CASE Lock(c)
    BY <1>1, <1>3, <2>2 DEF Lock, Goto, Parts
  <2>3. CASE WriteHeader(c)
    BY <1>1, <2>3 DEF WriteHeader, Write, Goto, Parts
  <2>4. CASE WriteBody(c)
    <3>1. CASE call[c].id = NoId
      BY <1>1, <2>4, <3>1, ZenonT(30) DEF WriteBody, Rest, Parts
    <3>2. CASE call[c].id # NoId
      BY <1>1, <2>4, <3>2 DEF WriteBody, Write, Goto, Parts
    <3> QED
      BY <3>1, <3>2
  <2>5. CASE WriteFails(c)
    BY <1>3, <2>5 DEF WriteFails
  <2>6. CASE Timeout(c)
    BY <1>1, <2>6 DEF Timeout, Goto, Parts
  <2> QED
    BY <1>6, <2>1, <2>2, <2>3, <2>4, <2>5, <2>6
<1>7. ASSUME NEW c \in Callers, Receive(c)
      PROVE  PendingInv'
  <2>1. call[c].id \in chan /\ call[c].id \notin pending
    BY <1>7 DEF Receive
  <2>2. pending' = pending \ {call[c].id}
    BY <1>7, <2>1 DEF Receive
  <2> QED
    BY <1>2, <1>7, <2>2 DEF Receive
<1>8. ASSUME NEW c \in Callers, Forget(c)
      PROVE  PendingInv'
  BY <1>2, <1>8 DEF Forget
<1>9. CASE ReadAnswer
  <2> DEFINE h == Head(stdout)
  <2>1. UNCHANGED <<nextID, chan, call>> /\ pending' = pending \ {h} /\ reader.pc = "read" /\ h # NoId
    BY <1>9 DEF ReadAnswer
  <2>2. CASE h \in pending
    <3>1. reader'.pc = "deliver" /\ reader'.id = h
      BY <1>9, <2>2 DEF ReadAnswer
    <3>2. h <= nextID
      BY <2>2 DEF IdInv
    <3> QED
      BY <2>1, <2>2, <3>1, <3>2
  <2>3. CASE h \notin pending
    <3>1. reader' = reader /\ pending' = pending
      BY <1>9, <2>1, <2>3 DEF ReadAnswer
    <3> QED
      BY <2>1, <3>1
  <2> QED
    BY <2>2, <2>3
<1>10. CASE Deliver
  <2>1. /\ UNCHANGED <<nextID, pending, call>> /\ reader'.pc = "read" /\ reader'.id = NoId
        /\ reader.pc = "deliver"
    BY <1>10 DEF Deliver
  <2>2. CASE WaitedFor(reader.id)
    <3>1. chan' = chan \cup {reader.id}
      BY <1>10, <2>2 DEF Deliver
    <3> QED
      BY <1>t, <2>1, <2>2, <3>1 DEF WaitedFor
  <2>3. CASE ~WaitedFor(reader.id)
    <3>1. chan' = chan
      BY <1>10, <2>3 DEF Deliver
    <3> QED
      BY <1>t, <2>1, <2>3, <3>1 DEF WaitedFor
  <2> QED
    BY <2>2, <2>3
<1>11. CASE ReadFails
  <2>1. /\ UNCHANGED <<nextID, pending, chan, call>> /\ reader'.pc = "ended" /\ reader'.id = NoId
        /\ reader.pc = "read"
    BY <1>11 DEF ReadFails
  <2> QED
    BY <1>t, <2>1
<1> QED
  BY <1>0, <1>4, <1>5, <1>6, <1>7, <1>8, <1>9, <1>10, <1>11, Steps
     DEF vars, proxy, ReadNotification, Close, CloseMarks,
         CloseKills, GoplsReads, GoplsWrites, GoplsDies, GoplsHangs

-----------------------------------------------------------------------------
(* Framing                                                                 *)

LEMMA Parity ==
  ASSUME NEW i \in Nat
  PROVE  ((i + 1) % 2 = 1) <=> (i % 2 # 1)
  OBVIOUS

\* The pipe after one more part.
LEMMA AppendFacts ==
  ASSUME NEW f \in Frame, stdin \in Seq(Frame), stdin' = Append(stdin, f)
  PROVE  /\ Len(stdin) \in Nat /\ Len(stdin') = Len(stdin) + 1 /\ stdin' # <<>>
         /\ stdin'[Len(stdin) + 1] = f
         /\ \A i \in 1 .. Len(stdin) : stdin'[i] = stdin[i]
         /\ stdin = <<>> <=> Len(stdin) = 0
         /\ \A i \in 1 .. Len(stdin) : stdin[i] \in Frame
  OBVIOUS

\* The pipe after gopls has read a part of it.
LEMMA TailFacts ==
  ASSUME stdin \in Seq(Frame), stdin # <<>>, stdin' = Tail(stdin)
  PROVE  /\ Len(stdin) \in Nat \ {0} /\ Len(stdin') = Len(stdin) - 1
         /\ stdin' = <<>> <=> Len(stdin) = 1
         /\ \A i \in 1 .. Len(stdin') : stdin'[i] = stdin[i + 1]
         /\ \A i \in 1 .. Len(stdin) : stdin[i] \in Frame
         /\ Head(stdin) = stdin[1]
<1>1. Len(stdin) \in Nat /\ Len(stdin) # 0
  OBVIOUS
<1>6. \A i \in 1 .. Len(stdin) : stdin[i] \in Frame
  OBVIOUS
<1>2. stdin' \in Seq(Frame) /\ Len(stdin') = Len(stdin) - 1
  BY <1>1
<1>3. \A i \in 1 .. Len(stdin') : stdin'[i] = stdin[i + 1]
  BY <1>1, <1>2
<1>4. stdin' = <<>> <=> Len(stdin') = 0
  BY <1>2, EmptySeq
<1>5. Head(stdin) = stdin[1]
  OBVIOUS
<1> QED
  BY <1>1, <1>2, <1>3, <1>4, <1>5, <1>6

\* A step that sends nothing keeps the callers that are between two writes.
LEMMA SendsNothing ==
  ASSUME IInv, UNCHANGED <<stdin, got>>, gopls' = "dead" <=> gopls = "dead",
         gopls = "dead" \/ \A c \in Callers : 
           /\ call'[c].pc = "body" <=> call[c].pc = "body"
           /\ call[c].pc = "body" => call'[c].id = call[c].id
  PROVE  PartsInv' /\ TailInv'
<1>1. PartsInv'
  BY DEF IInv, PartsInv
<1>2. CASE gopls = "dead"
  BY <1>1, <1>2 DEF IInv, TailInv
<1>3. CASE gopls # "dead"
  <2>1. \A c \in Callers : call'[c].pc = "body" <=> call[c].pc = "body"
    BY <1>3
  <2>2. ASSUME NEW c \in Callers, call'[c].pc = "body"
        PROVE  IF stdin = <<>> THEN got # None /\ Mine(got, c)'
               ELSE stdin[Len(stdin)].part = "header" /\ Mine(stdin[Len(stdin)], c)'
    BY <1>3, <2>2 DEF IInv, TailInv, Mine
  <2> QED
    BY <1>1, <1>3, <2>1, <2>2 DEF IInv, TailInv, Mine
<1> QED
  BY <1>2, <1>3

LEMMA FramesPreserved ==
  ASSUME IInv, [Next]_vars
  PROVE  PartsInv' /\ TailInv'
<1> USE NumberFacts DEF IInv
<1>t. stdin \in Seq(Frame) /\ DOMAIN call = Callers /\ got \in Frame \cup {None}
  BY DEF TypeOK
<1>0. CASE UNCHANGED vars
  BY <1>0, SendsNothing DEF vars, proxy, process
<1>1. ASSUME NEW c \in Callers,
             Request(c) \/ Notify(c) \/ Register(c) \/ Lock(c) \/ WriteFails(c) \/ Receive(c)
             \/ Timeout(c) \/ Forget(c)
      PROVE  PartsInv' /\ TailInv'
  <2>1. UNCHANGED <<stdin, got, gopls>>
    BY <1>1 DEF Request, Notify, Register, Lock, WriteFails, Receive, Timeout, Forget, process
  <2>2. CASE WriteFails(c)
    BY <2>1, <2>2, SendsNothing DEF WriteFails
  <2>3. ASSUME NEW p, NEW id, p # "body", call[c].pc # "body",
               call' = [call EXCEPT ![c] = [pc |-> p, id |-> id]]
        PROVE  PartsInv' /\ TailInv'
    <3>1. call'[c].pc # "body" /\ \A d \in Callers \ {c} : call'[d] = call[d]
      BY <1>t, <2>3
    <3> QED
      BY <2>1, <2>3, <3>1, SendsNothing
  <2>4. CASE Request(c) \/ Notify(c) \/ Register(c) \/ Lock(c) \/ Receive(c) \/ Timeout(c) \/ Forget(c)
    BY <2>3, <2>4 DEF Request, Notify, Register, Lock, Receive, Timeout, Forget, Failed, Goto, Rest
  <2> QED
    BY <1>1, <2>2, <2>4
<1>2. ASSUME NEW c \in Callers, WriteHeader(c)
      PROVE  PartsInv' /\ TailInv'
  <2> DEFINE f == [by |-> c, id |-> call[c].id, part |-> "header"]
             n == Len(stdin)
  <2>1. /\ gopls # "dead" /\ gopls' = gopls /\ got' = got
        /\ stdin' = Append(stdin, f)
        /\ call[c].pc = "header"
        /\ call'[c].pc = "body" /\ call'[c].id = call[c].id
        /\ \A d \in Callers \ {c} : call'[d] = call[d]
    BY <1>t, <1>2 DEF WriteHeader, Write, Goto
  <2>2. f \in Frame
    BY FrameType DEF TypeOK, Parts
  <2>3. \A d \in Callers : call[d].pc # "body"
    BY <2>1 DEF MuInv, Parts
  <2>4. IF n = 0 THEN got = None ELSE stdin[n].part = "body"
    BY <1>t, <2>1, <2>2, <2>3, AppendFacts DEF TailInv
  <2>5. ((n + 1) % 2 = 1) <=> got = None
    <3>1. CASE n = 0
      BY <2>4, <3>1
    <3>2. CASE n # 0
      <4>1. ~((n % 2 = 1) <=> got = None)
        BY <1>t, <2>1, <2>2, <2>4, <3>2, AppendFacts DEF PartsInv
      <4> QED
        BY <1>t, <2>1, <2>2, <4>1, Parity, AppendFacts
    <3> QED
      BY <3>1, <3>2
  <2>6. PartsInv'
    <3>1. \A i \in 1 .. Len(stdin') : stdin'[i].part = "header" <=> ((i % 2 = 1) <=> got' = None)
      BY <1>t, <2>1, <2>2, <2>5, AppendFacts DEF PartsInv
    <3>2. got' # None => Same(stdin'[1], got')
      BY <1>t, <2>1, <2>2, <2>4, AppendFacts DEF PartsInv
    <3>3. \A i \in 1 .. Len(stdin') - 1 :
            stdin'[i + 1].part = "body" => Same(stdin'[i + 1], stdin'[i])
      BY <1>t, <2>1, <2>2, AppendFacts DEF PartsInv
    <3> QED
      BY <2>1, <3>1, <3>2, <3>3 DEF PartsInv, Same
  <2>7. \A d \in Callers : call'[d].pc = "body" => d = c
    BY <2>1, <2>3
  <2>8. stdin' # <<>> /\ stdin'[Len(stdin')] = f
    BY <1>t, <2>1, <2>2, AppendFacts
  <2> QED
    BY <2>1, <2>6, <2>7, <2>8 DEF TailInv, Mine
<1>3. ASSUME NEW c \in Callers, WriteBody(c)
      PROVE  PartsInv' /\ TailInv'
  <2> DEFINE f == [by |-> c, id |-> call[c].id, part |-> "body"]
             n == Len(stdin)
  <2>1. /\ gopls # "dead" /\ gopls' = gopls /\ got' = got
        /\ stdin' = Append(stdin, f)
        /\ call[c].pc = "body"
        /\ call'[c].pc # "body"
        /\ \A d \in Callers \ {c} : call'[d] = call[d]
    BY <1>t, <1>3 DEF WriteBody, Write, Goto, Rest
  <2>2. f \in Frame
    BY FrameType DEF TypeOK, Parts
  <2>3. \A d \in Callers : call'[d].pc # "body"
    BY <2>1 DEF MuInv, Parts
  <2>4. IF n = 0 THEN got # None /\ Same(f, got) ELSE stdin[n].part = "header" /\ Same(f, stdin[n])
    BY <1>t, <2>1, <2>2, AppendFacts DEF TailInv, Mine, Same
  <2>5. ~(((n + 1) % 2 = 1) <=> got = None)
    <3>1. CASE n = 0
      BY <2>4, <3>1
    <3>2. CASE n # 0
      <4>1. (n % 2 = 1) <=> got = None
        BY <1>t, <2>1, <2>2, <2>4, <3>2, AppendFacts DEF PartsInv
      <4> QED
        BY <1>t, <2>1, <2>2, <4>1, Parity, AppendFacts
    <3> QED
      BY <3>1, <3>2
  <2>6. PartsInv'
    <3>1. \A i \in 1 .. Len(stdin') : stdin'[i].part = "header" <=> ((i % 2 = 1) <=> got' = None)
      BY <1>t, <2>1, <2>2, <2>5, AppendFacts DEF PartsInv
    <3>2. got' # None => Same(stdin'[1], got')
      BY <1>t, <2>1, <2>2, <2>4, AppendFacts DEF PartsInv
    <3>3. \A i \in 1 .. Len(stdin') - 1 :
            stdin'[i + 1].part = "body" => Same(stdin'[i + 1], stdin'[i])
      BY <1>t, <2>1, <2>2, <2>4, AppendFacts DEF PartsInv
    <3> QED
      BY <2>1, <3>1, <3>2, <3>3 DEF PartsInv, Same
  <2>7. stdin' # <<>> /\ stdin'[Len(stdin')] = f
    BY <1>t, <2>1, <2>2, AppendFacts
  <2> QED
    BY <2>1, <2>3, <2>6, <2>7 DEF TailInv
<1>4. CASE ReadNotification \/ ReadAnswer \/ Deliver \/ ReadFails \/ Close \/ CloseMarks
           \/ GoplsWrites \/ GoplsHangs
  <2>1. UNCHANGED <<stdin, got, call>> /\ (gopls' = "dead" <=> gopls = "dead")
    BY <1>4 DEF ReadNotification, ReadAnswer, Deliver, ReadFails, Close, CloseMarks,
                GoplsWrites, GoplsHangs, proxy, process
  <2> QED
    BY <2>1, SendsNothing
<1>5. CASE CloseKills \/ GoplsDies
  <2>1. gopls' = "dead" /\ stdin' = <<>> /\ got' = None
    BY <1>5 DEF CloseKills, GoplsDies, Dies
  <2> QED
    BY <2>1 DEF PartsInv, TailInv
<1>6. CASE GoplsReads
  <2> DEFINE n == Len(stdin)
  <2>1. /\ gopls = "running" /\ gopls' = gopls /\ stdin # <<>> /\ stdin' = Tail(stdin) /\ call' = call
        /\ IF got = None THEN got' = stdin[1] ELSE got' = None
    BY <1>t, <1>6, TailFacts DEF GoplsReads, proxy
  <2>2. /\ n \in Nat \ {0} /\ Len(stdin') = n - 1
        /\ \A i \in 1 .. n - 1 : stdin'[i] = stdin[i + 1]
        /\ \A i \in 1 .. n : stdin[i] \in Frame
        /\ stdin' = <<>> <=> n = 1
    BY <1>t, <2>1, TailFacts
  <2>3. stdin[1].part = "header" <=> got = None
    BY <2>2 DEF PartsInv
  <2>4. got' # None <=> got = None
    BY <2>1, <2>2
  <2>5. PartsInv'
    <3>1. got' # None => got'.part = "header"
      BY <2>1, <2>3
    <3>2. ASSUME NEW i \in 1 .. n - 1
          PROVE  stdin'[i].part = "header" <=> ((i % 2 = 1) <=> got' = None)
      <4>1. stdin[i + 1].part = "header" <=> (((i + 1) % 2 = 1) <=> got = None)
        BY <2>2 DEF PartsInv
      <4> QED
        BY <2>2, <2>4, <4>1, Parity
    <3>3. ASSUME got' # None, stdin' # <<>>
          PROVE  Same(stdin'[1], got')
      <4>1. 2 \in 1 .. n /\ 1 \in 1 .. n - 1 /\ got = None
        BY <2>2, <2>4, <3>3
      <4>2. stdin[2].part # "header" /\ stdin[2] \in Frame
        BY <2>2, <4>1 DEF PartsInv
      <4>3. stdin[1 + 1].part = "body"
        BY <4>2 DEF Frame, Parts
      <4>4. Same(stdin[1 + 1], stdin[1])
        BY <4>1, <4>3 DEF PartsInv
      <4> QED
        BY <2>1, <2>2, <4>1, <4>4
    <3>4. \A i \in 1 .. n - 2 : stdin'[i + 1].part = "body" => Same(stdin'[i + 1], stdin'[i])
      BY <2>2, SMTT(30) DEF PartsInv
    <3> QED
      BY <2>2, <3>1, <3>2, <3>3, <3>4 DEF PartsInv, Same
  <2>6. TailInv'
    <3>1. CASE n = 1
      <4>1. ASSUME NEW d \in Callers, call[d].pc = "body"
            PROVE  got' # None /\ Mine(got', d)
        BY <2>1, <2>2, <2>3, <2>4, <3>1, <4>1 DEF TailInv
      <4>2. ASSUME \A d \in Callers : call[d].pc # "body"
            PROVE  got' = None
        BY <2>1, <2>2, <2>3, <2>4, <3>1, <4>2 DEF TailInv
      <4> QED
        BY <2>1, <2>2, <3>1, <4>1, <4>2 DEF TailInv, Mine
    <3>2. CASE n # 1
      <4>1. stdin' # <<>> /\ stdin'[Len(stdin')] = stdin[n]
        BY <2>2, <3>2
      <4> QED
        BY <2>1, <4>1 DEF TailInv, Mine
    <3> QED
      BY <3>1, <3>2
  <2> QED
    BY <2>5, <2>6
<1> QED
  BY <1>0, <1>1, <1>2, <1>3, <1>4, <1>5, <1>6, Steps

-----------------------------------------------------------------------------
(* The theorems                                                            *)

LEMMA IInvInvariant == Spec => []IInv
<1>1. IInv /\ [Next]_vars => IInv'
  <2> SUFFICES ASSUME IInv, [Next]_vars PROVE IInv'
    OBVIOUS
  <2> QED
    BY TypePreserved, MuPreserved, IdPreserved, PendingPreserved, FramesPreserved DEF IInv
<1> QED
  BY <1>1, InitIInv, PTL DEF Spec

\* Every variable of the proxy, the pipes and gopls keeps its type.
THEOREM TypeCorrect == Spec => []TypeOK
<1>1. IInv => TypeOK
  BY DEF IInv
<1> QED
  BY <1>1, IInvInvariant, PTL

\* Request and readLoop: a caller that waits is pending, being handed its answer
\* or answered, and nothing is pending that no caller waits for.
THEOREM NoneForgottenHolds == Spec => []NoneForgotten
<1>1. IInv => NoneForgotten
  <2> SUFFICES ASSUME IInv PROVE NoneForgotten
    OBVIOUS
  <2>1. ASSUME NEW c \in Callers, call[c].pc = "wait", Delivering(call[c].id)
        PROVE  reader = [pc |-> "deliver", id |-> call[c].id]
    BY <2>1 DEF IInv, TypeOK, Delivering
  <2>2. \A c \in Callers : call[c].pc = "wait" => call[c].id # NoId
    BY DEF IInv, IdInv
  <2> QED
    BY <2>1, <2>2 DEF IInv, PendingInv, NoneForgotten
<1> QED
  BY <1>1, IInvInvariant, PTL

LEMMA EvenIsTwo ==
  ASSUME NEW n \in Nat, NEW i \in 1 .. n, i % 2 = 0
  PROVE  i - 1 \in 1 .. n /\ (i - 1) + 1 = i /\ (i - 1) % 2 = 1
  OBVIOUS

\* writeMessage: gopls reads headers and bodies in turn, each body that of the
\* header before it, for any number of callers and any capacity of the pipe.
THEOREM FramedHolds == Spec => []Framed
<1>1. IInv => Framed
  <2> SUFFICES ASSUME IInv PROVE Framed
    OBVIOUS
  <2> USE NumberFacts
  <2>0. /\ stdin \in Seq(Frame) /\ Len(stdin) \in Nat /\ got \in Frame \cup {None} /\ PartsInv
        /\ \A i \in 1 .. Len(stdin) : stdin[i] \in Frame
    BY DEF IInv, TypeOK
  <2>1. CASE got = None
    <3>1. (IF got = None THEN <<>> ELSE <<got>>) \o stdin = stdin
      BY <2>0, <2>1, ConcatEmptySeq
    <3>2. ASSUME NEW i \in 1 .. Len(stdin)
          PROVE  stdin[i].part = "header" <=> i % 2 = 1
      BY <2>0, <2>1 DEF PartsInv
    <3>3. ASSUME NEW i \in 1 .. Len(stdin), i % 2 = 0
          PROVE  stdin[i].by = stdin[i - 1].by /\ stdin[i].id = stdin[i - 1].id
      <4>1. i - 1 \in 1 .. Len(stdin) - 1 /\ (i - 1) + 1 = i
        BY <2>0, <3>3, EvenIsTwo
      <4>2. stdin[i].part = "body"
        BY <2>0, <3>2, <3>3 DEF Frame, Parts
      <4> QED
        BY <2>0, <4>1, <4>2 DEF PartsInv, Same
    <3> QED
      BY <3>1, <3>2, <3>3 DEF Framed
  <2>2. CASE got # None
    <3> DEFINE sent == <<got>> \o stdin
    <3>1. /\ Len(sent) = Len(stdin) + 1 /\ sent[1] = got
          /\ \A i \in 1 .. Len(stdin) : sent[i + 1] = stdin[i]
      BY <2>0, <2>2
    <3>2. ASSUME NEW i \in 1 .. Len(sent)
          PROVE  sent[i].part = "header" <=> i % 2 = 1
      <4>1. CASE i = 1
        BY <2>0, <2>2, <3>1, <4>1 DEF PartsInv
      <4>2. CASE i # 1
        <5>1. i - 1 \in 1 .. Len(stdin) /\ i - 1 \in Nat /\ (i - 1) + 1 = i
          BY <2>0, <3>1, <4>2
        <5>2. sent[i] = stdin[i - 1]
          BY <3>1, <5>1
        <5>3. stdin[i - 1].part = "header" <=> (i - 1) % 2 # 1
          BY <2>0, <2>2, <5>1 DEF PartsInv
        <5> QED
          BY <5>1, <5>2, <5>3, Parity
      <4> QED
        BY <4>1, <4>2
    <3>3. ASSUME NEW i \in 1 .. Len(sent), i % 2 = 0
          PROVE  sent[i].by = sent[i - 1].by /\ sent[i].id = sent[i - 1].id
      <4>1. i - 1 \in 1 .. Len(stdin) /\ (i - 1) + 1 = i /\ Len(sent) \in Nat
        BY <2>0, <3>1, <3>3, EvenIsTwo
      <4>2. sent[i] = stdin[i - 1]
        BY <3>1, <4>1
      <4>3. stdin[i - 1].part = "body"
        BY <2>0, <3>2, <3>3, <4>1, <4>2 DEF Frame, Parts
      <4>4. CASE i = 2
        <5>1. stdin # <<>> /\ i - 1 = 1
          BY <2>0, <4>1, <4>4
        <5> QED
          BY <2>0, <2>2, <3>1, <4>2, <5>1 DEF PartsInv, Same
      <4>5. CASE i # 2
        <5>1. i - 2 \in 1 .. Len(stdin) - 1 /\ (i - 2) + 1 = i - 1
          BY <2>0, <4>1, <4>5
        <5>2. Same(stdin[i - 1], stdin[i - 2])
          BY <2>0, <4>3, <5>1 DEF PartsInv
        <5>3. sent[i - 1] = stdin[i - 2]
          BY <3>1, <5>1
        <5> QED
          BY <4>2, <5>2, <5>3 DEF Same
      <4> QED
        BY <4>4, <4>5
    <3> QED
      BY <2>2, <3>2, <3>3 DEF Framed
  <2> QED
    BY <2>1, <2>2
<1> QED
  BY <1>1, IInvInvariant, PTL

\* Close: a message is written under the mutex, and only while closed is FALSE.
THEOREM NothingAfterCloseHolds == Spec => NothingAfterClose
<1>1. IInv /\ [Next]_vars => [closed => Len(stdin') <= Len(stdin)]_vars
  <2> SUFFICES ASSUME IInv, [Next]_vars, closed
               PROVE  Len(stdin') <= Len(stdin)
    OBVIOUS
  <2>1. stdin \in Seq(Frame) /\ Len(stdin) \in Nat
    BY DEF IInv, TypeOK
  <2>2. \A c \in Callers : call[c].pc \notin Parts
    BY NumberFacts DEF IInv, MuInv
  <2>3. CASE GoplsReads
    <3>1. stdin # <<>> /\ stdin' = Tail(stdin)
      BY <2>3 DEF GoplsReads
    <3> QED
      BY <2>1, <3>1, TailFacts
  <2>4. CASE CloseKills \/ GoplsDies
    <3>1. stdin' = <<>> /\ Len(<<>>) = 0
      BY <2>4 DEF CloseKills, GoplsDies, Dies
    <3> QED
      BY <2>1, <3>1
  <2>5. CASE stdin' = stdin
    BY <2>1, <2>5
  <2>6. ~(\E c \in Callers : WriteHeader(c) \/ WriteBody(c))
    BY <2>2 DEF WriteHeader, WriteBody, Write, Parts
  <2> QED
    BY <2>3, <2>4, <2>5, <2>6, Steps
       DEF vars, proxy, process, Request, Notify, Register, Lock, WriteFails, Receive, Timeout,
           Forget, ReadNotification, ReadAnswer, Deliver, ReadFails, Close, CloseMarks,
           GoplsWrites, GoplsHangs
<1> QED
  BY <1>1, IInvInvariant, PTL DEF Spec, NothingAfterClose
=============================================================================
