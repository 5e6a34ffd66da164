----------------------------- MODULE StreamSlot -----------------------------
(***************************************************************************)
(* What stream_handler.h promises of the streaming slot: "one stream       *)
(* client at a time".  A claim succeeds on a free slot only, every claim   *)
(* is taken up exactly once by the worker, and the slot is free again only *)
(* after the worker is done.                                               *)
(***************************************************************************)
CONSTANTS Conns, NoConn

VARIABLES holder,   \* the connection that has the slot
          stage     \* "free", "claimed" or "serving"

vars == <<holder, stage>>

Init == holder = NoConn /\ stage = "free"

Claim(c) ==
    /\ stage = "free"
    /\ holder' = c /\ stage' = "claimed"

Serve ==
    /\ stage = "claimed"
    /\ stage' = "serving"
    /\ UNCHANGED holder

Release ==
    /\ stage = "serving"
    /\ holder' = NoConn /\ stage' = "free"

Next == (\E c \in Conns : Claim(c)) \/ Serve \/ Release

Spec     == Init /\ [][Next]_vars
FairSpec == Spec /\ WF_vars(Serve)
=============================================================================
