---------------------------- MODULE RiskScoring -----------------------------
(***************************************************************************)
(* From the findings of a text to its score, and from the score and the    *)
(* thresholds of a policy to a decision (guardrails/risk_scoring.py).      *)
(*                                                                         *)
(* Severities, scores and thresholds are in thousandths.  A score is       *)
(* rounded to two decimals; half a hundredth goes up or down with the      *)
(* binary fraction that the sum comes to, and HalvesUp says which go up.   *)
(***************************************************************************)
EXTENDS Naturals, Sequences, FiniteSets, FiniteSetsExt

CONSTANTS
    HalvesUp,   \* the <<severity, bump>> that round up
    Texts       \* what the scanners find in texts that the program may meet

Modes == {"allow", "block", "audit_only"}
Decisions == {"allow", "challenge", "block"}

Thousandths == 0..1000
Scanners ==
    {"prompt_injection", "injection_ml", "url_threat", "secrets", "pii", "pii_ner",
     "custom_pattern"}
Finding == [scanner : Scanners, severity : Thousandths]

ASSUME TextAssumption == Texts \subseteq Seq(Finding)

RedactAndPass == {"pii", "pii_ner", "custom_pattern"}
-----------------------------------------------------------------------------
(* aggregate_risk of the findings at the places S.                         *)

High == 700

Highs(fs, S) == {k \in S : fs[k].severity >= High}

Bump(n) == IF n <= 1 THEN 0 ELSE IF n = 2 THEN 100 ELSE 150

\* Mutant: the severity that was reported last, for that of the worst.
Worst_Last(fs, S) == fs[Max(S)].severity

Worst(fs, S) == Max({fs[k].severity : k \in S})

Score(worst, bump) ==
    LET sum == IF worst + bump < 1000 THEN worst + bump ELSE 1000
        up == sum % 10 > 5 \/ (sum % 10 = 5 /\ <<worst, bump>> \in HalvesUp)
    IN (sum - (sum % 10)) + (IF up THEN 10 ELSE 0)

Risk(fs, S) ==
    IF S = {} THEN 0 ELSE Score(Worst(fs, S), Bump(Cardinality(Highs(fs, S))))

\* Mutant: what is redacted may block as well.
Blockable_All(fs) == DOMAIN fs

\* findings_for_input_block
Blockable(fs) == {k \in DOMAIN fs : fs[k].scanner \notin RedactAndPass}

\* What the rest of the program knows of a text: the score of the findings that may
\* block an input, and the score of all.
Profile(fs) == [hard |-> Risk(fs, Blockable(fs)), all |-> Risk(fs, DOMAIN fs)]
-----------------------------------------------------------------------------
(* Decisions.                                                              *)

Decide(risk, challenge, block) ==
    IF risk >= block THEN "block" ELSE IF risk >= challenge THEN "challenge" ELSE "allow"

\* apply_challenge_mode, is_effective_block
IsEffectiveBlock(decision, mode) ==
    decision = "block" \/ (decision = "challenge" /\ mode = "block")

\* scan_input: BLOCK weighs injection, secret and URL findings alone; PII can
\* raise an ALLOW to CHALLENGE, never to BLOCK.  A request marked trusted, which no
\* caller here makes, would have a block reported as an allow.
ScanInput(f, p) ==
    LET d == Decide(f.hard, p.challenge, p.block)
    IN IF d # "block" /\ f.all >= p.challenge THEN "challenge" ELSE d

ScanOutput(risk, p) == Decide(risk, p.out_challenge, p.out_block)

BlocksInput(f, p) == IsEffectiveBlock(ScanInput(f, p), p.mode)
BlocksOutput(risk, p) == IsEffectiveBlock(ScanOutput(risk, p), p.out_mode)
=============================================================================
