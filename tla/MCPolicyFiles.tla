---------------------------- MODULE MCPolicyFiles ----------------------------
(* A small instance of PolicyFiles.                                        *)
EXTENDS PolicyFiles

CONSTANTS strict, lax, word, slow

Sets(k, v) == [n \in Knobs |-> IF n = k THEN v ELSE Unset]

mcSource == [n \in Knobs |-> IF n = "mode" THEN strict ELSE Unset]
\* an edit that loads, one that is not YAML
mcEdits == {Sets("mode", lax), Garbled}
\* a threshold that is set, or is no number; a domain list that is no list; a
\* pattern that the normaliser refuses, one that takes too long now and then
mcUpdates ==
    {Sets("mode", lax), Sets("mode", word), Sets("domains", "list?"),
     Sets("patterns", "(a+)+"), Sets("patterns", slow)}
==============================================================================
