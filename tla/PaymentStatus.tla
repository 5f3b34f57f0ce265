--------------------------- MODULE PaymentStatus ---------------------------
(***************************************************************************)
(* The payment status vocabulary of internal/oneclick/models.go: the       *)
(* canonical statuses a payment row can hold, the raw statuses of the      *)
(* 1-click API, the mapping between them and the terminal test that the    *)
(* poller's query and the cancel handler share.                            *)
(***************************************************************************)

PaymentStatuses ==
  {"PENDING", "AWAITING_DEPOSIT", "DETECTED", "PROCESSING", "COMPLETED",
   "EXPIRED", "REFUNDED", "FAILED", "INCOMPLETE"}

\* The values GET /v0/status answers with.
RawStatuses ==
  {"PENDING_DEPOSIT", "KNOWN_DEPOSIT_TX", "PROCESSING", "SUCCESS",
   "INCOMPLETE_DEPOSIT", "REFUNDED", "FAILED"}

\* What StatusResponse.Status holds after a 2xx answer with an empty body:
\* the transport decodes nothing and reports no error.
BlankStatus == ""

\* Faulty form of MapOneclickStatus: a status it does not list goes through.
MapUnlistedThrough(raw) ==
  CASE raw = "KNOWN_DEPOSIT_TX"   -> "DETECTED"
    [] raw = "PENDING_DEPOSIT"    -> "AWAITING_DEPOSIT"
    [] raw = "SUCCESS"            -> "COMPLETED"
    [] OTHER                      -> raw

\* Faulty form of MapOneclickStatus: a deposit known to the API ends the payment.
MapDepositAsCompleted(raw) ==
  CASE raw \in {"KNOWN_DEPOSIT_TX", "PROCESSING", "SUCCESS"} -> "COMPLETED"
    [] raw \in {"REFUNDED", "FAILED"}                        -> raw
    [] OTHER                                                 -> "AWAITING_DEPOSIT"

\* Everything the switch does not list is taken for a payment still waiting
\* for its deposit, as is PENDING_DEPOSIT itself.
MapOneclickStatus(raw) ==
  CASE raw = "KNOWN_DEPOSIT_TX"   -> "DETECTED"
    [] raw = "PROCESSING"         -> "PROCESSING"
    [] raw = "SUCCESS"            -> "COMPLETED"
    [] raw = "INCOMPLETE_DEPOSIT" -> "INCOMPLETE"
    [] raw = "REFUNDED"           -> "REFUNDED"
    [] raw = "FAILED"             -> "FAILED"
    [] OTHER                      -> "AWAITING_DEPOSIT"

IsTerminal(s) == s \in {"COMPLETED", "EXPIRED", "REFUNDED", "FAILED"}

\* Raw statuses the 1-click API never leaves.
FinalRawStatuses == {"SUCCESS", "REFUNDED", "FAILED"}
=============================================================================
