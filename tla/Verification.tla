---------------------------- MODULE Verification ----------------------------
(***************************************************************************)
(* The verdicts of sentinel_core/verification.py, as operators.  An output *)
(* is a record of what the checks tell apart:                              *)
(*   parses    Python compiles it       length   characters, stripped      *)
(*   dangerous the patterns found in it                                    *)
(***************************************************************************)
EXTENDS Integers

Passed(checks) == IF \A c \in DOMAIN checks : checks[c] = "PASS" THEN "PASS" ELSE "FAILED"
Check(holds) == IF holds THEN "PASS" ELSE "FAIL"

\* verify_code: the text is compiled, searched and measured.
VerifyCode(output) ==
    Passed([schema |-> Check(output.parses /\ output.length >= 10),
            domain_validation |-> Check(output.dangerous = {})])

\* verify_export: an export without recalculation errors in its metadata.
VerifyExport(recalcErrors) == Passed([domain_validation |-> Check(recalcErrors = {})])

\* _basic_verify: what is done without a model.
BasicVerify(output) == Passed([schema |-> Check(output.length > 10)])

\* _parse_verdict: an answer that is no verdict, or has no status, passes.
ParseVerdict(answer) ==
    IF answer.kind = "verdict" /\ answer.status # "missing" THEN answer.status ELSE "PASS"

\* verify_text_output: by a model if one can be routed to and answers.
VerifyTextOutput(output, answer) ==
    IF answer.kind \in {"no model", "error"} THEN BasicVerify(output) ELSE ParseVerdict(answer)

ModelAnswers == [kind: {"no model", "error", "text", "verdict"},
                 status: {"PASS", "FAILED", "missing"}]
=============================================================================
