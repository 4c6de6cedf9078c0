-------------------------- MODULE AcceptanceReceipt --------------------------
(***************************************************************************)
(* The offline validation of an acceptance receipt.  A receipt is a        *)
(* function from its fields to what the validator can tell apart in them;  *)
(* an editor changes one field after another, starting from the receipt of *)
(* a preflight, of a whole run or of a run that stopped, and every version *)
(* is validated.                                                           *)
(***************************************************************************)
EXTENDS Naturals, FiniteSets

CONSTANT MaxEdits   \* bound on the edits of one receipt

VARIABLES
  doc,      \* the receipt and the binding it is validated against
  report,   \* the validator's report on it
  edits     \* edits so far

vars == <<doc, report, edits>>

-----------------------------------------------------------------------------
(***************************************************************************)
(* The document                                                            *)
(***************************************************************************)

\* An identifier of evidence: a real one, the word for "none", or a placeholder.
IdValues == {"opaque", "not_applicable", "REQUIRED"}

RequiredIds == {"preflight_evidence", "isolation", "namespace"}
RunIds      == {"overlay_identity", "provider_object", "runtime_receipt", "lifecycle", "guest",
                "cleanup_evidence"}
OptionalIds == RunIds \cup {"authorization"}

\* Values that have to agree with the binding the caller supplies.
Bound == {"repository", "binary", "tuple", "preflight_sha256", "base", "sha256_before", "sha256_after",
          "overlay_base", "cleanup_base"}

\* The binding itself: the frozen candidate, and well formed hashes.
Binding == {"candidate", "hashes"}

Contracts == {"request_schema", "contracts"}

Flags  == {"authorizing", "promotion", "status", "checkout_clean", "policy", "foreign_unchanged",
           "replayed", "cleanup_completed", "manual_review"}
Labels == {"result", "acceptance", "mode"}

Fields == RequiredIds \cup OptionalIds \cup Bound \cup Binding \cup Contracts \cup Flags \cup Labels
            \cup {"form", "cell_id"}

\* What reading the bytes may come to, before any field is looked at.
Forms == {"whole", "too_large", "invalid_utf8", "duplicate_key", "invalid_json", "disclosure", "limit",
          "nullable_missing", "mistyped"}

Results == {"PREFLIGHT_PASS", "PASS", "PARTIAL", "BLOCKED_EXTERNAL", "OWNER_DECISION_REQUIRED"}

Values(f) ==
  CASE f \in RequiredIds \cup OptionalIds -> IdValues
    [] f = "form"       -> Forms
    [] f = "cell_id"    -> {"null", "uuid", "nil"}
    [] f = "result"     -> Results
    [] f = "acceptance" -> {"pending", "completed"}
    [] f = "mode"       -> {"observe", "real"}
    [] OTHER            -> BOOLEAN

-----------------------------------------------------------------------------
(***************************************************************************)
(* Validation                                                              *)
(***************************************************************************)

is_opaque_id(v) == v = "opaque"

is_opaque_or_not_applicable(v) == v = "not_applicable" \/ is_opaque_id(v)

\* The code for a document that cannot be read as a request.
FormFinding(form) ==
  CASE form = "too_large"     -> "input_too_large"
    [] form = "invalid_utf8"  -> "invalid_utf8"
    [] form = "duplicate_key" -> "duplicate_key"
    [] form = "invalid_json"  -> "invalid_json"
    [] form = "disclosure"    -> "forbidden_disclosure"
    [] form = "limit"         -> "input_limit_exceeded"
    [] OTHER                  -> "invalid_document"

When(condition, code) == IF condition THEN {code} ELSE {}

ContractFindings(d) ==
  When(~d["request_schema"], "unsupported_schema") \cup When(~d["contracts"], "unsupported_contract")
    \cup When(d["authorizing"], "authorizing_claim")
    \cup When(d["promotion"], "support_promotion_claim")
    \cup When(d["status"], "support_status_mismatch")

validate_binding(d) ==
  When(~d["candidate"], "candidate_binding_mismatch") \cup When(~d["hashes"], "invalid_binding")

validate_receipt_ids(d) ==
  When(\/ \E f \in RequiredIds : ~is_opaque_id(d[f])
       \/ d["cell_id"] = "nil"
       \/ \E f \in OptionalIds : ~is_opaque_or_not_applicable(d[f]), "required_evidence_missing")

validate_cross_fields(d) ==
  When(~d["repository"], "candidate_binding_mismatch")
    \cup When(~d["checkout_clean"], "checkout_not_clean")
    \cup When(~d["binary"], "binary_binding_mismatch")
    \cup When(~d["tuple"], "tuple_binding_mismatch")
    \cup When(~d["preflight_sha256"], "preflight_binding_mismatch")
    \cup When(\E f \in {"base", "sha256_before", "sha256_after", "overlay_base", "cleanup_base"} : ~d[f],
              "base_binding_mismatch")
    \cup When(~d["policy"] \/ ~d["foreign_unchanged"] \/ d["replayed"], "state_contradiction")

\* Mutant: the labels and the cleanup are enough.
PassByLabel(d) ==
  /\ d["acceptance"] = "completed" /\ d["mode"] = "real"
  /\ d["cleanup_completed"] /\ ~d["manual_review"]

validate_pass_terminal_state(d) ==
  /\ d["acceptance"] = "completed" /\ d["mode"] = "real"
  /\ is_opaque_id(d["authorization"]) /\ d["cell_id"] # "null"
  /\ \A f \in RunIds : is_opaque_id(d[f])
  /\ d["cleanup_completed"] /\ ~d["manual_review"]

validate_preflight_terminal_state(d) ==
  /\ d["acceptance"] = "pending" /\ d["mode"] = "observe"
  /\ d["authorization"] = "not_applicable" /\ d["cell_id"] = "null"
  /\ \A f \in RunIds : d[f] = "not_applicable"
  /\ ~d["cleanup_completed"] /\ ~d["manual_review"]

Rejected(codes) == [disposition |-> "Rejected", valid |-> FALSE, findings |-> codes]

\* The verdict on a document without a rejecting finding.
Terminal(d) ==
  CASE d["result"] = "PASS" ->
         IF validate_pass_terminal_state(d)
         THEN [disposition |-> "Pass", valid |-> TRUE, findings |-> {}]
         ELSE Rejected({"state_contradiction"})
    [] d["result"] = "PREFLIGHT_PASS" ->
         IF validate_preflight_terminal_state(d)
         THEN [disposition |-> "PreflightOnly", valid |-> TRUE, findings |-> {"preflight_only"}]
         ELSE Rejected({"state_contradiction"})
    [] OTHER ->
         IF d["acceptance"] = "pending"
         THEN [disposition |-> "TerminalNotPass", valid |-> TRUE, findings |-> {"terminal_not_pass"}]
         ELSE Rejected({"state_contradiction"})

validate_acceptance_receipt_bytes(d) ==
  LET codes == ContractFindings(d) \cup validate_binding(d) \cup validate_receipt_ids(d)
                 \cup validate_cross_fields(d)
  IN  CASE d["form"] # "whole"               -> Rejected({FormFinding(d["form"])})
        [] d["form"] = "whole" /\ codes # {} -> Rejected(codes)
        [] OTHER                             -> Terminal(d)

-----------------------------------------------------------------------------
(***************************************************************************)
(* Receipts as they come                                                   *)
(***************************************************************************)

\* A whole, bound and truthful receipt, but for what the run brought.
Common(f) ==
  CASE f \in RequiredIds -> "opaque"
    [] f = "form"        -> "whole"
    [] f \in {"authorizing", "promotion", "status", "replayed", "manual_review"} -> FALSE
    [] OTHER             -> TRUE

Preflight == [f \in Fields |->
  CASE f \in OptionalIds -> "not_applicable"
    [] f = "cell_id" -> "null" [] f = "result" -> "PREFLIGHT_PASS" [] f = "acceptance" -> "pending"
    [] f = "mode" -> "observe" [] f = "cleanup_completed" -> FALSE [] OTHER -> Common(f)]

WholeRun == [f \in Fields |->
  CASE f \in OptionalIds -> "opaque"
    [] f = "cell_id" -> "uuid" [] f = "result" -> "PASS" [] f = "acceptance" -> "completed"
    [] f = "mode" -> "real" [] OTHER -> Common(f)]

\* A run whose cell was kept for review.
StoppedRun == [WholeRun EXCEPT !["result"] = "PARTIAL", !["acceptance"] = "pending",
                               !["cleanup_evidence"] = "not_applicable",
                               !["cleanup_completed"] = FALSE, !["manual_review"] = TRUE]

Edit(f) ==
  /\ edits < MaxEdits /\ edits' = edits + 1
  /\ \E v \in Values(f) \ {doc[f]} : doc' = [doc EXCEPT ![f] = v]
  /\ report' = validate_acceptance_receipt_bytes(doc')

Init ==
  /\ doc \in {Preflight, WholeRun, StoppedRun}
  /\ report = validate_acceptance_receipt_bytes(doc) /\ edits = 0

Next == \E f \in Fields : Edit(f)

Spec == Init /\ [][Next]_vars

-----------------------------------------------------------------------------
(***************************************************************************)
(* Properties                                                              *)
(***************************************************************************)

\* A receipt is read one way only.  No other result, state, mode or cleanup flag
\* turns a preflight, which lacks the evidence of a run, into a receipt that
\* passes; and whatever passes as a run, or as a preflight, is rejected when its
\* result says the other.
NoRelabelling ==
  /\ report.disposition = "PreflightOnly" =>
       \A r \in Results, a \in Values("acceptance"), m \in Values("mode"), c, k \in BOOLEAN :
         validate_acceptance_receipt_bytes(
           [doc EXCEPT !["result"] = r, !["acceptance"] = a, !["mode"] = m,
                       !["cleanup_completed"] = c, !["manual_review"] = k]).disposition # "Pass"
  /\ report.disposition = "Pass" =>
       validate_acceptance_receipt_bytes([doc EXCEPT !["result"] = "PREFLIGHT_PASS"]).disposition = "Rejected"
  /\ report.disposition = "PreflightOnly" =>
       validate_acceptance_receipt_bytes([doc EXCEPT !["result"] = "PASS"]).disposition = "Rejected"

=============================================================================
