--------------------------- MODULE MCDraftDelivery ---------------------------
(* Small instances of DraftDelivery for TLC. *)
EXTENDS DraftDelivery

CONSTANTS d1

OneDraft == {d1}
===============================================================================
