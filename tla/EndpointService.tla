--------------------------- MODULE EndpointService ---------------------------
(***************************************************************************)
(* What the provider promises its users about endpoints, without worker,   *)
(* queue, watchers or retries: Provider.Lister and GetAggregateInformer    *)
(* serve the endpoints of the slice as it was last looked at.  Endpoints   *)
(* come and go one by one, one that is listed is never taken away, and     *)
(* one that is not listed is never added.                                  *)
(***************************************************************************)
EXTENDS Sequences

CONSTANTS
  URLs,       \* endpoints
  UrlLists,   \* contents of a well-formed slice: sequences of URLs
  NoSlice,    \* there is no slice
  Malformed   \* there is a slice nobody can read

VARIABLES
  published,  \* the slice
  view,       \* the slice as it was last looked at
  served      \* the endpoints whose objects the provider serves

vars == <<published, view, served>>

Lists(slice, u) ==
  slice \in UrlLists /\ \E i \in DOMAIN slice : slice[i] = u

Init ==
  /\ published \in UrlLists \union {NoSlice, Malformed}
  /\ view = NoSlice
  /\ served = {}

\* Somebody changes the slice.
Publish ==
  /\ published' \in UrlLists \union {NoSlice, Malformed}
  /\ UNCHANGED <<view, served>>

Look ==
  /\ view' = published
  /\ UNCHANGED <<published, served>>

Serve(u) ==
  /\ Lists(view, u) /\ u \notin served
  /\ served' = served \union {u}
  /\ UNCHANGED <<published, view>>

\* A slice nobody can read takes no endpoint away.
Withdraw(u) ==
  /\ view # Malformed /\ ~Lists(view, u) /\ u \in served
  /\ served' = served \ {u}
  /\ UNCHANGED <<published, view>>

Next == Publish \/ Look \/ \E u \in URLs : Serve(u) \/ Withdraw(u)

Spec == Init /\ [][Next]_vars
=============================================================================
