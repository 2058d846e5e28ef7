---------------------------- MODULE MCEffectiveTime ----------------------------
(* Two researches that share the compute thread and the heartbeat: a is    *)
(* already started, so the slice of nobody is open when its tick begins.   *)
EXTENDS EffectiveTime
CONSTANTS a, b, c1
=============================================================================
