---------------------------- MODULE MCOperations ----------------------------
(* Two requests: the first takes every way through the flags, the second is   *)
(* one whose completion is postponed, so that it competes for the one shadow  *)
(* thread.                                                                    *)
EXTENDS Operations

CONSTANTS r1, r2

Request(path, major, len, io) ==
  [path |-> path, major |-> major, len |-> len, io |-> io, shadowed |-> TRUE]

\* A device control has nothing to copy and is the one whose completion is
\* postponed; an empty write behaves like it in the minifilter.
Postponed == Request("device", "control", 0, "buffered")

AllRequests ==
  {Postponed, Request("device", "read", 1, "neither"),
   Request("device", "create", 0, "buffered"), Request("device", "write", 1, "direct"),
   Request("fsd", "read", 1, "neither"), Request("fsd", "write", 0, "direct"),
   Request("fsd", "create", 0, "buffered"), Request("fsd", "write", 1, "neither"),
   [Request("device", "read", 1, "direct") EXCEPT !.shadowed = FALSE]}

MCRequests == [r \in Irps |-> IF r = r1 THEN AllRequests ELSE {Postponed}]
MCFaults == [r \in Irps |-> IF r = r1 THEN {"buffer", "hook", "unload", "post", "create"} ELSE {}]

\* A create that the callbacks of a hooked file system driver refuse.
HookedCreates      == [r \in Irps |-> {Request("fsd", "create", 0, "buffered")}]
HookedCreateFaults == [r \in Irps |-> {"hookedcreate"}]
=============================================================================
