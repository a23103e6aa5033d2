------------------------- MODULE AccountingPromise -------------------------
(***************************************************************************)
(* What traffic accounting promises, without files, batches or processes.  *)
(* A unit that passed is first volatile.  It becomes durable or is lost;   *)
(* what is durable is never lost, and is counted once: the total grows by  *)
(* exactly the units that become counted, and a counted unit stays so.     *)
(***************************************************************************)
EXTENDS Integers, FiniteSets

CONSTANT MaxUnits
Units == 1 .. MaxUnits

VARIABLES fate, total
promiseVars == <<fate, total>>

Fates == {"unseen", "volatile", "durable", "counted", "lost"}
Having(f) == {u \in Units : fate[u] = f}

PromiseTypeOK == fate \in [Units -> Fates] /\ total \in 0 .. MaxUnits

Moved(S, f) == [u \in Units |-> IF u \in S THEN f ELSE fate[u]]

PromiseInit == fate = [u \in Units |-> "unseen"] /\ total = 0

PassUnit ==
  \E u \in Having("unseen") :
    fate' = Moved({u}, "volatile") /\ UNCHANGED total

\* A directory fsync, a process exit or a crash settles volatile units.
Settle ==
  \E saved, gone \in SUBSET Having("volatile") :
    /\ saved \cap gone = {}
    /\ fate' = [u \in Units |-> IF u \in saved THEN "durable"
                                ELSE IF u \in gone THEN "lost" ELSE fate[u]]
    /\ UNCHANGED total

Count ==
  \E S \in SUBSET (Having("volatile") \cup Having("durable")) :
    fate' = Moved(S, "counted") /\ total' = total + Cardinality(S)

PromiseNext == PassUnit \/ Settle \/ Count

PromiseSpec == PromiseInit /\ [][PromiseNext]_promiseVars
=============================================================================
