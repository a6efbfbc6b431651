--------------------------- MODULE MCStagedPrintf ---------------------------
(* StagedPrintf instantiated for TLC; the constants come from the .cfg.    *)
EXTENDS StagedPrintf, TLC

(* Search constraint for a full staging area: the translator flushes only  *)
(* once all Depth slots are used, as it does with FLUSH_BARRIER = Depth.   *)
FlushOnlyWhenFull ==
    \A i \in DOMAIN code : code[i].op = "dump" => i = Depth + 1
=============================================================================
