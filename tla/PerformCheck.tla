----------------------------- MODULE PerformCheck -----------------------------
(***************************************************************************)
(* One check of an endpoint (releasepulse/worker/check.py): what becomes   *)
(* of the ways a request may end.  The URL's validation and the request    *)
(* itself are the world's; error_detail is left out.                       *)
(***************************************************************************)
CONSTANT NULL  \* a column without a value

(* What validate_url says right before the request: SsrfResolutionError or *)
(* SsrfValidationError, or nothing.                                        *)
Validations == {"valid", "unresolved", "refused"}

(* client.request returns a response, or raises one of httpx's exceptions; *)
(* a ConnectError has a cause.                                             *)
Responses(statuses, latencies) ==
  [ended : {"response"}, status_code : statuses, latency_ms : latencies]
Exceptions ==
  [ended : {"TimeoutException", "HTTPError"}]
  \cup [ended : {"ConnectError"}, cause : {"SSLError", "gaierror", "other"}]

CheckResult(success, status_code, latency_ms, error_type) ==
  [success |-> success, status_code |-> status_code, latency_ms |-> latency_ms,
   error_type |-> error_type]

Unanswered(error_type) == CheckResult(FALSE, NULL, NULL, error_type)

ClassifyConnectError(cause) ==
  CASE cause = "SSLError" -> "tls_error"
    [] cause = "gaierror" -> "dns_error"
    [] OTHER -> "connection_refused"

(* A response of another status than expected is a failure with a latency. *)
Answered(response, expected_status) ==
  IF response.status_code = expected_status
    THEN CheckResult(TRUE, response.status_code, response.latency_ms, NULL)
    ELSE CheckResult(FALSE, response.status_code, response.latency_ms,
                     "unexpected_status")

Requested(fetch, expected_status) ==
  CASE fetch.ended = "TimeoutException" -> Unanswered("timeout")
    [] fetch.ended = "ConnectError" -> Unanswered(ClassifyConnectError(fetch.cause))
    [] fetch.ended = "HTTPError" -> Unanswered("internal_error")
    [] fetch.ended = "response" -> Answered(fetch, expected_status)

PerformCheck(validation, fetch, expected_status) ==
  CASE validation = "unresolved" -> Unanswered("dns_error")
    [] validation = "refused" -> Unanswered("internal_error")
    [] validation = "valid" -> Requested(fetch, expected_status)

(* The results of an endpoint's checks as the detector's query sees them.  *)
Samples(fetches, expected_status) ==
  {[success |-> r.success, latency_ms |-> r.latency_ms] :
     r \in {PerformCheck(v, f, expected_status) : v \in Validations, f \in fetches}}
=============================================================================
