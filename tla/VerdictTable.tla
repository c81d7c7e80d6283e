---------------------------- MODULE VerdictTable ----------------------------
(***************************************************************************)
(* What a candidate may be called on its way through the tuning loop: the  *)
(* worker's decision, the heuristic verdict (M4) and the arbiter's.        *)
(***************************************************************************)

Decision == {"accepted", "rejected", "error"}
M4 == {"promising", "suspicious", "rejected"}
Verdict == M4 \cup {"accepted", "suspicious_to_human"}

\* check_candidate, where flagged says that a heuristic raised a flag.
check_candidate(decision, flagged) ==
    CASE decision # "accepted" -> "rejected"
      [] decision = "accepted" /\ flagged -> "suspicious"
      [] decision = "accepted" /\ ~flagged -> "promising"

\* A suspicious candidate the LLM likes is taken without asking anyone.
ResolveTrustsLLM(m4, accept, gap) ==
    CASE m4 = "rejected" \/ ~accept -> "rejected"
      [] accept /\ ~gap -> "accepted"
      [] OTHER -> "suspicious_to_human"

\* Arbiter.resolve, where gap says that the two scores are too far apart.
resolve(m4, accept, gap) ==
    CASE m4 = "rejected" \/ ~accept -> "rejected"
      [] m4 = "promising" /\ accept /\ ~gap -> "accepted"
      [] OTHER -> "suspicious_to_human"
=============================================================================
