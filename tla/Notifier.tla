------------------------------ MODULE Notifier ------------------------------
(***************************************************************************)
(* datastar.Notifier: the coalescing change signal.  Every subscription    *)
(* owns a channel of capacity one, so `pending[c]' says whether it holds a *)
(* signal.  Notify holds the mutex while it walks the subscriptions; a     *)
(* receive takes no lock and may fall between two of its sends.            *)
(*                                                                         *)
(* The module has no specification of its own: LivePages composes it with  *)
(* the goroutines that subscribe and the writers that call Notify.         *)
(***************************************************************************)
CONSTANTS Subscribers,  \* subscriptions, one per channel
          Writers,      \* goroutines that call Notify
          None          \* no goroutine

VARIABLES subs,         \* Notifier.subs, the channels Notify walks
          pending,      \* pending[c]: the 1-buffered channel c holds a value
          nmu,          \* the goroutine inside Notify, which holds Notifier.mu
          walk          \* the channels the Notify in progress has yet to visit

NotifierTypeOK ==
  /\ subs \in SUBSET Subscribers
  /\ pending \in [Subscribers -> BOOLEAN]
  /\ nmu \in Writers \cup {None}
  /\ walk \in SUBSET Subscribers

NotifierInit ==
  /\ subs = {}
  /\ pending = [c \in Subscribers |-> FALSE]
  /\ nmu = None
  /\ walk = {}

\* A new channel is empty.
Subscribe(c) ==
  /\ nmu = None
  /\ subs' = subs \cup {c}
  /\ pending' = [pending EXCEPT ![c] = FALSE]
  /\ UNCHANGED <<nmu, walk>>

\* cancel only unregisters the channel; a value in it is simply never read.
Cancel(c) ==
  /\ nmu = None
  /\ subs' = subs \ {c}
  /\ UNCHANGED <<pending, nmu, walk>>

NotifyLock(w) ==
  /\ nmu = None
  /\ nmu' = w
  /\ walk' = subs
  /\ UNCHANGED <<subs, pending>>

\* A channel that already holds a value keeps exactly one: the send never waits.
NotifySend(w, c) ==
  /\ nmu = w
  /\ c \in walk
  /\ walk' = walk \ {c}
  /\ pending' = [pending EXCEPT ![c] = TRUE]
  /\ UNCHANGED <<subs, nmu>>

NotifyUnlock(w) ==
  /\ nmu = w
  /\ walk = {}
  /\ nmu' = None
  /\ UNCHANGED <<subs, pending, walk>>

Receive(c) ==
  /\ pending[c]
  /\ pending' = [pending EXCEPT ![c] = FALSE]
  /\ UNCHANGED <<subs, nmu, walk>>

\* The non-blocking receive that empties the channel, whatever it held.
Drain(c) ==
  /\ pending' = [pending EXCEPT ![c] = FALSE]
  /\ UNCHANGED <<subs, nmu, walk>>
=============================================================================
