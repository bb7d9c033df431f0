------------------------ MODULE MCNotificationQueue ------------------------
(* Small instances of NotificationQueue.                                    *)
EXTENDS NotificationQueue, TLC

(* A provider, and one left half configured.  The developer's log accepts   *)
(* every message, which is among the things Twilio does.                    *)
MCEnvironments ==
    {[provider |-> "termii", set |-> {"TERMII_API_KEY"}],
     [provider |-> "", set |-> {"TWILIO_ACCOUNT_SID", "TWILIO_AUTH_TOKEN", "TWILIO_FROM"}]}

(* Consumers are interchangeable.                                           *)
Symmetric == Permutations(Worker)
=============================================================================
