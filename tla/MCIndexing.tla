------------------------------ MODULE MCIndexing ------------------------------
(* The documents of MCChunking, embedded two chunks at a time.                *)
EXTENDS Indexing, MCChunking
=============================================================================
