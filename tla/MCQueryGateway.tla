--------------------------- MODULE MCQueryGateway ---------------------------
(* Small instances of QueryGateway.                                        *)
EXTENDS QueryGateway, TLC

CONSTANTS hr, staff, alice, bob, payroll, secret

mcGroups == {hr, staff}
mcGroupLists == {{hr}, {staff}}
mcAcls == {[u \in Users |-> {hr}], (alice :> {} @@ bob :> {hr})}

\* Findings that scanners make, and custom patterns of 0.795 and 0.805.
Found(scanner, severity) == [scanner |-> scanner, severity |-> severity]
mcFindings ==
    {Found("prompt_injection", 705), Found("prompt_injection", 750),
     Found("url_threat", 850), Found("injection_ml", 745),
     Found("pii", 300), Found("pii", 700), Found("custom_pattern", 795),
     Found("secrets", 805), Found("secrets", 950)}
mcTexts == UNION {[1..n -> mcFindings] : n \in 0..2}

\* What round(x, 2) does in binary: 0.705 + 0.1 goes down, 0.805 goes up.
mcHalvesUp ==
    {<<745, 150>>, <<795, 0>>, <<795, 100>>, <<795, 150>>,
     <<805, 0>>, <<805, 100>>, <<805, 150>>}

Clean == Profile(<<>>)
Pii == Profile(<<Found("pii", 700)>>)
Hard == Profile(<<Found("secrets", 950)>>)
mcProfiles == {Clean, Pii, Hard}

Quote(t) == [scan |-> Clean, quotes |-> t]
\* a long clean text, a short one that only a lax policy lets in, and one that
\* quotes the token of a canary, of a class the strict policy has no endpoint for
mcContents ==
    {[scan |-> Clean, class |-> payroll, parts |-> <<Quote({}), Quote({})>>],
     [scan |-> Pii, class |-> secret, parts |-> <<[scan |-> Pii, quotes |-> {}]>>],
     [scan |-> Clean, class |-> secret, parts |-> <<Quote(CanaryIds)>>]}

mcReplies == {[scan |-> 0, grounded |-> TRUE], [scan |-> 700, grounded |-> TRUE],
              [scan |-> 0, grounded |-> FALSE]}

Strict ==
    [challenge |-> 400, block |-> 800, mode |-> "block",
     out_challenge |-> 500, out_block |-> 850, out_mode |-> "block",
     canary |-> TRUE, backstop |-> TRUE, auditor_groups |-> {}, auditor_subjects |-> {},
     extraction |-> TRUE, action |-> "challenge",
     routing |-> TRUE, fail_closed |-> TRUE, rank |-> (payroll :> 1 @@ secret :> 0),
     mapped |-> {payroll}, route |-> [c \in Classes |-> "onprem"],
     endpoints |-> {"onprem"}, default_endpoint |-> "default"]
Lax == [Strict EXCEPT !.block = 805, !.mode = "allow", !.out_mode = "allow",
                      !.extraction = FALSE,
                      !.mapped = Classes, !.auditor_subjects = {alice},
                      !.route = (payroll :> "saas" @@ secret :> "onprem"),
                      !.endpoints = {"onprem", "saas"}]
mcPolicies == {Strict, Lax}
mcSymmetry == Permutations(Docs)
=============================================================================
