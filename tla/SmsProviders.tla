----------------------------- MODULE SmsProviders -----------------------------
(***************************************************************************)
(* The SMS providers as the notification consumer meets them: which one    *)
(* the environment selects, whether the API starts with it, and what a     *)
(* send comes to.  An environment is the value of SMS_PROVIDER with the    *)
(* variables that are set.                                                 *)
(***************************************************************************)
EXTENDS Naturals

(* Anything else than the two other names selects Twilio.                  *)
ProviderName(env) == IF env.provider \in {"dev", "termii"} THEN env.provider ELSE "twilio"
HasValue(env, name) == name \in env.set

(* Mutant of AssertProviderConfiguration: no sender is asked for.           *)
BugNoSenderCheck(env) ==
    \/ ProviderName(env) = "dev"
    \/ ProviderName(env) = "twilio" /\ HasValue(env, "TWILIO_ACCOUNT_SID") /\ HasValue(env, "TWILIO_AUTH_TOKEN")
    \/ ProviderName(env) = "termii" /\ HasValue(env, "TERMII_API_KEY")

(* onModuleInit: the API does not start without what its provider needs.   *)
AssertProviderConfiguration(env) ==
    CASE ProviderName(env) = "dev" -> TRUE
      [] ProviderName(env) = "twilio" ->
            /\ HasValue(env, "TWILIO_ACCOUNT_SID") /\ HasValue(env, "TWILIO_AUTH_TOKEN")
            /\ HasValue(env, "TWILIO_FROM") \/ HasValue(env, "TWILIO_MESSAGING_SERVICE_SID")
      [] ProviderName(env) = "termii" ->
            HasValue(env, "TERMII_API_KEY") /\ HasValue(env, "TERMII_SENDER_ID")

-----------------------------------------------------------------------------
(* A request ends with a status or, as NoStatus, with an error of the      *)
(* connection, when the message may have been taken or not.  Any status    *)
(* below 400 is an acceptance, whatever the body says or fails to say.     *)
NoStatus == 0
Status == {200, 302, 400, 503, NoStatus}
PostForm(status) == IF status = NoStatus THEN "unanswered" ELSE IF status >= 400 THEN "refused" ELSE "accepted"
PostJson(status) == PostForm(status)

Twilio(env) ==
    IF HasValue(env, "TWILIO_ACCOUNT_SID") /\ HasValue(env, "TWILIO_AUTH_TOKEN")
    THEN {PostForm(s) : s \in Status} ELSE {"refused"}
Termii(env) == IF HasValue(env, "TERMII_API_KEY") THEN {PostJson(s) : s \in Status} ELSE {"refused"}

(* What a send may come to.                                                *)
SendMessage(env) ==
    CASE ProviderName(env) = "dev" -> {"accepted"}
      [] ProviderName(env) = "twilio" ->
            IF HasValue(env, "TWILIO_FROM") \/ HasValue(env, "TWILIO_MESSAGING_SERVICE_SID")
            THEN Twilio(env) ELSE {"refused"}
      [] ProviderName(env) = "termii" ->
            IF HasValue(env, "TERMII_SENDER_ID") THEN Termii(env) ELSE {"refused"}
=============================================================================
