---------------------------- MODULE MCCoreDriver ----------------------------
EXTENDS CoreDriver
CONSTANTS r1, r2, d1, d2

Request(kind, high, logged, d) == [kind |-> kind, high |-> high, logged |-> logged, dev |-> d]

MCKinds ==
  [r \in Requests |->
     CASE r = r1 -> {Request("hook", TRUE, TRUE, d1), Request("pnp", FALSE, TRUE, d1)}
       [] r = r2 -> {Request("pnp", TRUE, FALSE, d1), Request("report", FALSE, FALSE, d2),
                     Request("remove", FALSE, FALSE, d1)}]
=============================================================================
