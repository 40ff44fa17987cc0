----------------------- MODULE MCDynamicProfileCache -----------------------
(* A small instance: one preloaded document and three that compete for a   *)
(* cache smaller than their number.                                        *)
EXTENDS DynamicProfileCache
CONSTANTS r1, r2, r3, kp, ka, kb, kc
============================================================================
