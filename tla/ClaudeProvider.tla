--------------------------- MODULE ClaudeProvider ---------------------------
(***************************************************************************)
(* The provider adapter behind a smoke run: one request of the core        *)
(* library goes to one client, and a compact result says what came of it   *)
(* (kcs_adapters/claude_provider.py).  The library's own way to ask a      *)
(* provider is KcsDrafting's SubmitHandoff and SubmitDraftRequest.         *)
(***************************************************************************)
EXTENDS KcsContracts

\* A config as far as it decides anything: which provider over which
\* transport, and whether it names an endpoint and a source of credentials.
Profiles == {"fake_provider", "approved_provider"}
TransportModes == {"fake_provider", "direct_http", "internal_service", "mcp_client"}
ConfigRefs == {"", "named", "secret"}

ProfileFits(c) ==
  /\ c.mode = "fake_provider" => c.profile = "fake_provider"
  /\ c.mode = "direct_http" => c.profile = "approved_provider"

ProviderConfigs ==
  {c \in [profile : Profiles, mode : TransportModes,
          endpoint : ConfigRefs, credentials : ConfigRefs] :
     ProfileFits(c) /\ "secret" \notin {c.endpoint, c.credentials}}

-----------------------------------------------------------------------------
(* Preflight: runtime is whether the endpoint and its key are at hand       *)

TransportSupported(c, runtime) ==
  c.mode = "fake_provider" \/ (c.mode = "direct_http" /\ runtime)

PreflightFailedChecks(c, runtime) ==
  {code \in {"transport_not_supported", "runtime_config_missing",
             "endpoint_ref_missing", "credentials_source_ref_missing"} :
     \/ code = "transport_not_supported" /\ ~ TransportSupported(c, runtime)
     \/ /\ c.mode = "direct_http"
        /\ \/ code = "runtime_config_missing" /\ ~ runtime
           \/ code = "endpoint_ref_missing" /\ c.endpoint = ""
           \/ code = "credentials_source_ref_missing" /\ c.credentials = ""}

ReadyForLiveSmoke(c, runtime) == PreflightFailedChecks(c, runtime) = {}

\* A call is attempted whatever the preflight says.
ReadyForProviderCall(c) == c.mode \in {"fake_provider", "direct_http"}

-----------------------------------------------------------------------------
(* The client and what it delivers                                          *)

\* A client of another kind says what it likes, or fails when asked.
ClientModes == TransportModes \cup {""}

\* unsent: the payload is unsafe or too large; garbled: no JSON object of a
\* size that is read; lost: the transport fails or times out.
Delivered(how, answers) == {[how |-> how, answer |-> a] : a \in answers}

Undelivered(mode) ==
  Delivered("lost", {<<>>}) \cup Delivered("garbled", {<<>>})
    \cup IF mode = "direct_http" THEN Delivered("unsent", {<<>>}) ELSE {}

-----------------------------------------------------------------------------
(* The smoke run                                                            *)

AnswerValid(kind, answer, request) ==
  IF kind = "handoff" THEN AssistValid(answer, request)
  ELSE DraftWellFormed(answer) /\ DraftMatches(answer, request)

\* Mutant: a valid answer is taken for an accepted one.
AnswerAcceptedIfValid(kind, answer, request) == AnswerValid(kind, answer, request)

AnswerAccepted(kind, answer, request) ==
  AnswerValid(kind, answer, request) /\ ~ answer.error /\ answer.status = "accepted"

SmokeError(kind, request, c, client, delivery) ==
  IF ~ ReadyForProviderCall(c) \/ client # c.mode THEN "transport_not_supported"
  ELSE IF delivery.how = "lost" THEN "provider_failed"
  ELSE IF delivery.how \in {"garbled", "unsent"} THEN "provider_response_invalid"
  ELSE IF ~ AnswerAccepted(kind, delivery.answer[1], request)
  THEN "provider_response_invalid"
  ELSE "none"

SmokeResult(kind, error, delivery) ==
  [kind |-> kind, called |-> error # "transport_not_supported",
   valid |-> error = "none", status |-> IF error = "none" THEN "accepted" ELSE "failed",
   error |-> error, response |-> IF error = "none" THEN delivery.answer ELSE <<>>]

\* What a result must not say, checked wherever one is made or read back.
SmokeResultInvalid(result) ==
  IF result.valid
  THEN \/ ~ result.called \/ result.error # "none" \/ result.response = <<>>
       \/ result.response[1].error \/ result.response[1].status # result.status
  ELSE result.error = "none" \/ result.response # <<>>

\* The library's way, by the same client.
Submitted(kind, request, delivery) ==
  IF kind = "handoff" THEN SubmitHandoff(request, delivery.answer)
  ELSE SubmitDraftRequest(request, delivery.answer)
=============================================================================
