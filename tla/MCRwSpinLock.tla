---- MODULE MCRwSpinLock ----
(***************************************************************************)
(* RwSpinLock with four threads on machines of one to three processors:    *)
(* enough for a writer, a reader inside, a reader undoing a failed attempt *)
(* and a thread that waits for a processor.                                *)
(***************************************************************************)
EXTENDS RwSpinLock

CONSTANTS t1, t2, t3, t4

MCThreads == {t1, t2, t3, t4}
====
