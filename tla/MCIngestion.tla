----------------------------- MODULE MCIngestion -----------------------------
(***************************************************************************)
(* Finite instances of Ingestion for TLC.  Uploads a and b belong to one   *)
(* tenant and overlap: a's extraction may come out in two ways (OCR), b    *)
(* repeats one of a's chunks or has none.  x is out of contract, e has an  *)
(* empty body.                                                             *)
(***************************************************************************)
EXTENDS Ingestion

CONSTANTS a, b, x, e, acme, h1, h2

MCTenantOf == [d \in Document |-> acme]

MCExtractions ==
  [d \in Document |-> CASE d = a -> {{h1, h2}, {h1}}
                        [] d = b -> {{h2}, {}}
                        [] OTHER -> {{h1}}]

\* Beside a at most one of the other documents is uploaded: what two jobs can do
\* to each other, for each kind of the second.
Companions == {d \in {b, x, e} : request[d] # "none"}

MCNext == Next /\ \A d, o \in Companions' : d = o

MCSpec == Init /\ [][MCNext]_vars /\ Fairness
=============================================================================
