------------------------------ MODULE MCHarness ------------------------------
(* Load tests whose requests fit their lanes or do not, and the evals over one *)
(* to three fixtures.                                                          *)
EXTENDS Harness

MCScript == {LoadTest(3, 1), LoadTest(3, 2), Layer1(3), RerankDelta(1), AssemblyTable(1)}
=============================================================================
