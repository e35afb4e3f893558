-------------------------- MODULE MCDocumentStores --------------------------
(* Small instances of DocumentStores.                                      *)
EXTENDS DocumentStores

\* Point ids are hashes: here the second chunk comes before the first.
mcOrder == [k \in Points |-> 2 * MaxChunks - k[2] + (IF k[1] = "faq" THEN 0 ELSE MaxChunks)]
=============================================================================
