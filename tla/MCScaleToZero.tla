---------------------------- MODULE MCScaleToZero ----------------------------
(* Finite instances of ScaleToZero for TLC. *)
EXTENDS ScaleToZero

\* The deployed values, in ticks of five seconds: 10, 30, 60 seconds.
DeployedInterval == <<2, 6, 12>>

\* Compressed periods, same order as the deployed ones: an interval shorter
\* than the cool-down, a run that may outlast cool-down and grace together.
ShortInterval == <<1>>
=============================================================================
