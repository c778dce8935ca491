--------------------------- MODULE RemoteSession ---------------------------
(***************************************************************************)
(* What class drive promises to a tool, without packets, polls or ids on    *)
(* the wire: a session with a device that is told and asked one thing at a  *)
(* time.  As long as no call has been lost track of, the device does each   *)
(* call at most once, a call that ends has been done, and the client's      *)
(* picture of the session is exact between calls.  A lost call ends that    *)
(* knowledge; only a reset of the device gives it back.                     *)
(***************************************************************************)
CONSTANT Session      \* what a session is

VARIABLES known,      \* no call has been lost track of since the last reset
          call,       \* the outstanding call: "none", "asked" or "served"
          believed,   \* the session the client believes open: {} or {s}
          open        \* the session the device has open: {} or {s}

rvars == <<known, call, believed, open>>

AtMostOneOf(S) == S \subseteq Session /\ \A s, t \in S : s = t

Init ==
    /\ known = TRUE /\ call = "none"
    /\ believed = {} /\ open = {}

Call == call = "none" /\ call' = "asked" /\ UNCHANGED <<known, believed, open>>

\* The device acts only on behalf of a call, and opens a session only when it
\* has none.
Serve ==
    /\ call = "asked" /\ call' = "served"
    /\ open = {} \/ open' = {} \/ open' = open
    /\ AtMostOneOf(open')
    /\ UNCHANGED <<known, believed>>

\* A call that ends by its own answer leaves the client informed.
Return ==
    /\ known /\ call = "served" /\ call' = "none"
    /\ believed' = open
    /\ UNCHANGED <<known, open>>

\* The call is given up, or the client dies with a session or a call.
Lose ==
    /\ known' = FALSE /\ call' = "none"
    /\ AtMostOneOf(believed')
    /\ UNCHANGED open

\* Afterwards the device may serve what was given up, and the client may be
\* told what it did not ask.
Late ==
    /\ ~known /\ ~known'
    /\ open' = open \/ open = {} \/ open' = {}
    /\ AtMostOneOf(open') /\ AtMostOneOf(believed')
    /\ call' \in {"none", "asked", "served"}

Reset ==
    /\ known' = TRUE /\ call' = "none"
    /\ believed' = {} /\ open' = {}

Next == Call \/ Serve \/ Return \/ Lose \/ Late \/ Reset

Spec == Init /\ [][Next]_rvars
=============================================================================
