------------------------------ MODULE LiveView ------------------------------
(***************************************************************************)
(* What LivePages promises the browsers.  The application's state is a     *)
(* sequence of versions.  A browser follows one page as one caller (a key: *)
(* page URL, Host and forwarded headers) and sees frames of that key only, *)
(* of a version that existed, and never an older one after a newer one.    *)
(***************************************************************************)
EXTENDS Naturals

CONSTANTS Browsers, Keys, MaxVersion, None

VARIABLES version,  \* the newest version of the application's state
          following,\* following[b]: the key b's stream was opened with, or None
          view      \* view[b]: the frame b shows since it opened the stream

lvVars == <<version, following, view>>

Frame == [key : Keys, ver : 0 .. MaxVersion]

LVInit ==
  /\ version = 0
  /\ following = [b \in Browsers |-> None]
  /\ view = [b \in Browsers |-> None]

Change ==
  /\ version < MaxVersion
  /\ version' = version + 1
  /\ UNCHANGED <<following, view>>

Follow(b, k) ==
  /\ following[b] = None
  /\ following' = [following EXCEPT ![b] = k]
  /\ UNCHANGED <<version, view>>

Unfollow(b) ==
  /\ following[b] # None
  /\ following' = [following EXCEPT ![b] = None]
  /\ view' = [view EXCEPT ![b] = None]
  /\ UNCHANGED version

Show(b, f) ==
  /\ following[b] = f.key
  /\ f.ver <= version
  /\ view[b] # None => view[b].ver <= f.ver
  /\ view' = [view EXCEPT ![b] = f]
  /\ UNCHANGED <<version, following>>

LVNext ==
  \/ Change
  \/ \E b \in Browsers : \/ Unfollow(b)
                         \/ \E k \in Keys : Follow(b, k)
                         \/ \E f \in Frame : Show(b, f)

LVSpec == LVInit /\ [][LVNext]_lvVars
=============================================================================
