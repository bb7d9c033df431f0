----------------------------- MODULE SignInScreens -----------------------------
(***************************************************************************)
(* The sign-in screens of the mobile app and the part of the API client    *)
(* they use: a code is requested for a phone number, requested again, and  *)
(* verified; every press of a button sends up to three attempts under one  *)
(* idempotency key, each with the identifier of the installation.  Answers *)
(* may be lost, the customer may leave a screen while its call is in       *)
(* flight, the store of the identifier may fail, and the app may be        *)
(* killed.  The server keeps the success of a key, decides a refused       *)
(* request again when it is repeated, and lets a code be used once.        *)
(***************************************************************************)
EXTENDS Naturals, FiniteSets

CONSTANTS
    Phone,         \* phone numbers, as buildOtpRequestInput normalises them
    Unset,
    MaxAttempts,   \* OTP_REQUEST_MAX_ATTEMPTS, OTP_VERIFY_MAX_ATTEMPTS
    MaxKeys,       \* idempotency keys drawn (presses of a button)
    MaxRestarts,
    Slot           \* calls that may be in flight at a time

VARIABLES
    screen,        \* "request", "verify", or "app" once signed in
    typed,         \* the number in the request form
    pending,       \* pendingPhone: the number a code was sent to
    cooling,       \* the resend countdown is running
    otp,           \* the code in the verify form
    attempt,       \* verificationAttempt: the identity it was drawn for, and its key
    inFlight,      \* requests in flight
    keys,          \* keys drawn so far
    device,        \* installation id: stored, cached, being loaded, made though one was stored
    sentAs,        \* installation ids that requests of this process carried
    restarts,
    dropped,       \* keys forgotten for another code, or with the answer to an earlier resend
    code, used,    \* server: the current code of a number, the key that used it
    answers        \* server: key -> the input it succeeded with

formVars == <<screen, typed, pending, cooling, otp, attempt, dropped>>
deviceVars == <<device, sentAs>>
otpServerVars == <<code, used, answers>>
signInVars == <<formVars, inFlight, keys, deviceVars, restarts, otpServerVars>>

-----------------------------------------------------------------------------
Code == 1..MaxKeys            \* a code is named by the key of its request
WrongCode == 0
Ids == 1..(MaxRestarts + 1)   \* identifiers that can be generated
NoCall == [kind |-> Unset]
Input(c) == [kind |-> c.kind, phone |-> c.phone, otp |-> c.otp]

Attempt == [identity : Phone \X (Code \cup {WrongCode}), key : Code]

ASSUME SignInAssumption ==
    /\ MaxKeys \in Nat /\ MaxAttempts \in Nat \ {0} /\ MaxRestarts \in Nat
    /\ Unset \notin Phone \cup {"request", "verify", "resend"}
    /\ Unset \notin Nat /\ Unset \notin Attempt

Fresh == [stored |-> Unset, cached |-> Unset, made |-> 0, loading |-> FALSE, misread |-> FALSE]

SignInInit ==
    /\ screen = "request" /\ typed = Unset /\ pending = Unset /\ cooling = FALSE
    /\ otp = Unset /\ attempt = Unset
    /\ inFlight = [s \in Slot |-> NoCall] /\ keys = 0
    /\ device = Fresh /\ sentAs = {} /\ restarts = 0 /\ dropped = {}
    /\ code = [p \in Phone |-> Unset] /\ used = [p \in Phone |-> Unset]
    /\ answers = <<>>

-----------------------------------------------------------------------------
(* A mutation of a mounted screen is pending.                              *)
Pending(kind) == \E s \in Slot : inFlight[s].kind = kind /\ inFlight[s].mounted

Start(kind, phone, entered, key) ==
    \E s \in Slot :
        /\ inFlight[s].kind = Unset
        /\ inFlight' = [inFlight EXCEPT ![s] =
               [kind |-> kind, phone |-> phone, otp |-> entered, key |-> key,
                at |-> "prepare", try |-> 1, mounted |-> TRUE]]

(* The request form.                                                       *)
TypePhone(p) ==
    /\ screen = "request" /\ ~ Pending("request") /\ typed # p
    /\ typed' = p
    /\ UNCHANGED <<screen, pending, cooling, otp, attempt, dropped>>
    /\ UNCHANGED <<inFlight, keys, deviceVars, restarts, otpServerVars>>

PressRequest ==
    /\ screen = "request" /\ typed # Unset /\ ~ Pending("request") /\ keys < MaxKeys
    /\ keys' = keys + 1
    /\ Start("request", typed, Unset, keys + 1)
    /\ UNCHANGED <<formVars, deviceVars, restarts, otpServerVars>>

(* The verify form.  The key belongs to the country, number and code it    *)
(* was drawn for; another press with the same ones uses it again.          *)
Received(p) == {k \in DOMAIN answers : answers[k].phone = p /\ answers[k].kind # "verify"}
TypeOtp(c) ==
    /\ screen = "verify" /\ otp # c /\ c \in Received(pending) \cup {WrongCode}
    /\ otp' = c
    /\ UNCHANGED <<screen, typed, pending, cooling, attempt, dropped>>
    /\ UNCHANGED <<inFlight, keys, deviceVars, restarts, otpServerVars>>

BugKeyKept(identity) == IF attempt = Unset THEN [identity |-> identity, key |-> keys + 1] ELSE attempt
BugKeyPerPress(identity) == [identity |-> identity, key |-> keys + 1]
VerificationAttempt(identity) ==
    IF attempt # Unset /\ attempt.identity = identity THEN attempt
    ELSE [identity |-> identity, key |-> keys + 1]

PressVerify ==
    /\ screen = "verify" /\ otp # Unset /\ ~ Pending("verify")
    /\ attempt' = VerificationAttempt(<<pending, otp>>)
    /\ attempt'.key <= MaxKeys
    /\ keys' = IF attempt'.key > keys THEN attempt'.key ELSE keys
    /\ dropped' = IF attempt # Unset /\ attempt.identity # <<pending, otp>> THEN dropped \cup {attempt.key}
                  ELSE dropped
    /\ Start("verify", pending, otp, attempt'.key)
    /\ UNCHANGED <<screen, typed, pending, cooling, otp, deviceVars, restarts, otpServerVars>>

PressResend ==
    /\ screen = "verify" /\ ~ cooling /\ ~ Pending("resend") /\ ~ Pending("verify") /\ keys < MaxKeys
    /\ keys' = keys + 1
    /\ Start("resend", pending, Unset, keys + 1)
    /\ UNCHANGED <<formVars, deviceVars, restarts, otpServerVars>>

CooldownOver ==
    /\ cooling /\ cooling' = FALSE
    /\ UNCHANGED <<screen, typed, pending, otp, attempt, dropped>>
    /\ UNCHANGED <<inFlight, keys, deviceVars, restarts, otpServerVars>>

(* Leaving the verify screen drops its state, not its calls: back to the   *)
(* form that is still there, or to a new one.                              *)
Unmount == [s \in Slot |->
    IF inFlight[s].kind \in {"verify", "resend"} THEN [inFlight[s] EXCEPT !.mounted = FALSE]
    ELSE inFlight[s]]
LeaveVerify ==
    /\ screen = "verify" /\ screen' = "request"
    /\ otp' = Unset /\ attempt' = Unset /\ inFlight' = Unmount

GoBack ==
    /\ LeaveVerify
    /\ UNCHANGED <<typed, pending, cooling, keys, deviceVars, restarts, dropped, otpServerVars>>

UseDifferentPhone ==
    /\ LeaveVerify
    /\ typed' = Unset /\ pending' = Unset /\ cooling' = FALSE
    /\ UNCHANGED <<keys, deviceVars, restarts, dropped, otpServerVars>>

-----------------------------------------------------------------------------
(* installationIdStore.getOrCreateId, by the request interceptor: the      *)
(* cached id, else one load for everybody that may be under way.           *)
Attach(s) ==
    /\ inFlight[s].kind # Unset
    /\ \/ inFlight[s].at = "prepare" /\ device.cached # Unset
       \/ inFlight[s].at = "await" /\ ~ device.loading
    /\ sentAs' = sentAs \cup {device.cached}
    /\ inFlight' = [inFlight EXCEPT ![s].at = "sent"]
    /\ UNCHANGED <<formVars, keys, device, restarts, otpServerVars>>

LoadId(s) ==
    /\ inFlight[s].kind # Unset /\ inFlight[s].at = "prepare" /\ device.cached = Unset
    /\ device' = [device EXCEPT !.loading = TRUE]
    /\ inFlight' = [inFlight EXCEPT ![s].at = "await"]
    /\ UNCHANGED <<formVars, keys, sentAs, restarts, otpServerVars>>

BugStoredIgnored ==
    /\ device.loading /\ device.cached = Unset
    /\ device' = [device EXCEPT !.made = @ + 1, !.cached = device.made + 1]
    /\ UNCHANGED <<formVars, inFlight, keys, sentAs, restarts, otpServerVars>>

(* loadOrCreateId: the stored id, else a new one, which is cached before   *)
(* it is stored; those who wait for the load go on once it is stored.  A   *)
(* read that is rejected, or gives what is no id, counts as nothing stored *)
(* and so may replace an id; one that cannot be written goes to the        *)
(* memory of the process, whose loads are over.                            *)
IdRead ==
    /\ device.loading /\ device.cached = Unset
    /\ \/ /\ device.stored # Unset
          /\ device' = [device EXCEPT !.cached = device.stored, !.loading = FALSE]
       \/ device' = [device EXCEPT !.made = @ + 1, !.cached = device.made + 1,
                                    !.misread = device.stored # Unset]
    /\ UNCHANGED <<formVars, inFlight, keys, sentAs, restarts, otpServerVars>>

IdStored ==
    /\ device.loading /\ device.cached # Unset
    /\ \E kept \in {device.cached, device.stored} :
           device' = [device EXCEPT !.stored = kept, !.loading = FALSE]
    /\ UNCHANGED <<formVars, inFlight, keys, sentAs, restarts, otpServerVars>>

-----------------------------------------------------------------------------
(* The server keeps what a key succeeded with, and answers the same        *)
(* request alike and another one with a conflict.  A key without a success *)
(* may be refused (a limit, a wrong or used code), which leaves nothing    *)
(* under it; a code can be used once, while it is the current one.         *)
AnswerOf(c) == [k \in DOMAIN answers \cup {c.key} |-> IF k = c.key THEN Input(c) ELSE answers[k]]

Decide(c) ==
    /\ \/ /\ c.kind # "verify"
          /\ code' = [code EXCEPT ![c.phone] = c.key]
          /\ used' = [used EXCEPT ![c.phone] = Unset]
       \/ /\ c.kind = "verify" /\ c.otp = code[c.phone] /\ used[c.phone] = Unset
          /\ used' = [used EXCEPT ![c.phone] = c.key]
          /\ UNCHANGED code
    /\ answers' = AnswerOf(c)

Serve(s) ==
    /\ inFlight[s].kind # Unset /\ inFlight[s].at = "sent"
    /\ \E outcome \in {"ok", "refused"} :
           /\ inFlight' = [inFlight EXCEPT ![s].at = outcome]
           /\ inFlight[s].key \in DOMAIN answers =>
                  (outcome = "ok" <=> answers[inFlight[s].key] = Input(inFlight[s]))
           /\ IF outcome = "ok" /\ inFlight[s].key \notin DOMAIN answers THEN Decide(inFlight[s])
              ELSE UNCHANGED otpServerVars
    /\ UNCHANGED <<formVars, keys, deviceVars, restarts>>

(* No answer, 408, 425 or a server error, before or after the server acted:*)
(* the same request again after a pause, three times in all.               *)
Lost(s) ==
    /\ inFlight[s].kind # Unset /\ inFlight[s].at \in {"sent", "ok", "refused"}
    /\ inFlight' = IF inFlight[s].try < MaxAttempts
                   THEN [inFlight EXCEPT ![s].try = @ + 1, ![s].at = "prepare"]
                   ELSE [inFlight EXCEPT ![s] = NoCall]
    /\ UNCHANGED <<formVars, keys, deviceVars, restarts, otpServerVars>>

(* Refused: the error is shown.                                            *)
ShowError(s) ==
    /\ inFlight[s].kind # Unset /\ inFlight[s].at = "refused"
    /\ inFlight' = [inFlight EXCEPT ![s] = NoCall]
    /\ UNCHANGED <<formVars, keys, deviceVars, restarts, otpServerVars>>

RequestSucceeded(s) ==
    /\ inFlight[s].kind = "request" /\ inFlight[s].at = "ok"
    /\ pending' = inFlight[s].phone /\ cooling' = TRUE
    /\ screen' = IF screen = "app" THEN "app" ELSE "verify"
    /\ inFlight' = [inFlight EXCEPT ![s] = NoCall]
    /\ UNCHANGED <<typed, otp, attempt, keys, deviceVars, restarts, dropped, otpServerVars>>

(* The key of a verification pressed while the resend was in flight is     *)
(* forgotten with the others.                                              *)
ResendSucceeded(s) ==
    /\ inFlight[s].kind = "resend" /\ inFlight[s].at = "ok"
    /\ attempt' = IF inFlight[s].mounted THEN Unset ELSE attempt
    /\ dropped' = IF attempt' # attempt /\ attempt.key > inFlight[s].key THEN dropped \cup {attempt.key}
                  ELSE dropped
    /\ cooling' = TRUE
    /\ inFlight' = [inFlight EXCEPT ![s] = NoCall]
    /\ UNCHANGED <<screen, typed, pending, otp, keys, deviceVars, restarts, otpServerVars>>

(* completeAuth, whichever screen is shown by then.                        *)
VerifySucceeded(s) ==
    /\ inFlight[s].kind = "verify" /\ inFlight[s].at = "ok"
    /\ screen' = "app" /\ typed' = Unset /\ pending' = Unset /\ cooling' = FALSE
    /\ otp' = Unset /\ attempt' = Unset
    /\ inFlight' = [Unmount EXCEPT ![s] = NoCall]
    /\ UNCHANGED <<keys, deviceVars, restarts, dropped, otpServerVars>>

(* The app is killed: only what is stored remains.                         *)
AppKilled ==
    /\ restarts < MaxRestarts /\ restarts' = restarts + 1
    /\ screen' = "request" /\ typed' = Unset /\ pending' = Unset /\ cooling' = FALSE
    /\ otp' = Unset /\ attempt' = Unset
    /\ inFlight' = [s \in Slot |-> NoCall]
    /\ device' = [device EXCEPT !.cached = Unset, !.loading = FALSE, !.misread = FALSE]
    /\ sentAs' = {}
    /\ UNCHANGED <<keys, dropped, otpServerVars>>

-----------------------------------------------------------------------------
Succeeded(s) == RequestSucceeded(s) \/ ResendSucceeded(s) \/ VerifySucceeded(s)
Advance(s) == Attach(s) \/ LoadId(s) \/ Serve(s) \/ Lost(s) \/ ShowError(s) \/ Succeeded(s)
Installation == IdRead \/ IdStored

SignInNext ==
    \/ \E p \in Phone : TypePhone(p)
    \/ \E c \in Code \cup {WrongCode} : TypeOtp(c)
    \/ PressRequest \/ PressVerify \/ PressResend \/ CooldownOver \/ GoBack \/ UseDifferentPhone
    \/ \E s \in Slot : Advance(s)
    \/ Installation \/ AppKilled

SignInSpec == SignInInit /\ [][SignInNext]_signInVars

-----------------------------------------------------------------------------
SignInTypeOK ==
    /\ screen \in {"request", "verify", "app"} /\ typed \in Phone \cup {Unset}
    /\ pending \in Phone \cup {Unset} /\ (screen = "verify" => pending # Unset)
    /\ otp \in Code \cup {WrongCode, Unset} /\ attempt \in Attempt \cup {Unset}
    /\ device.stored \in Ids \cup {Unset} /\ device.cached \in Ids \cup {Unset}
    /\ keys \in 0..MaxKeys /\ DOMAIN answers \subseteq 1..keys
    /\ \A s \in Slot : inFlight[s].kind # Unset =>
           inFlight[s].try \in 1..MaxAttempts /\ inFlight[s].key \in 1..keys

(* A key never comes with two inputs: whatever the customer edits, resends *)
(* or repeats between presses, every attempt under a key carries the same  *)
(* number and code, so the server never answers one verification with the  *)
(* outcome of another (verificationAttempt's identity).                    *)
KeyNamesOneInput ==
    \A s \in Slot : inFlight[s].kind # Unset =>
        /\ inFlight[s].key \in DOMAIN answers => answers[inFlight[s].key] = Input(inFlight[s])
        /\ \A t \in Slot : inFlight[t].kind # Unset /\ inFlight[t].key = inFlight[s].key =>
               Input(inFlight[t]) = Input(inFlight[s])
AttemptsSound == SignInTypeOK /\ KeyNamesOneInput

(* A code the customer entered correctly is not lost with an answer: while *)
(* it is the current code and was used by a press whose answer was lost,   *)
(* pressing Verify again finds the stored answer instead of an already     *)
(* used code (verificationAttempt is kept until a new code is requested).  *)
(* The exceptions are real: another code entered in between replaces the   *)
(* key, when the message of a resend arrives before the answer to it, that *)
(* answer drops the key the new code was already sent under, and a code    *)
(* nobody used may be refused by a limit.  Presses are within the ten      *)
(* minutes for which the server repeats a success.                         *)
OwnCodeNotRefused ==
    \A s \in Slot : inFlight[s].kind = "verify" /\ inFlight[s].at = "refused" =>
        \/ inFlight[s].otp # code[inFlight[s].phone]
        \/ used[inFlight[s].phone] \in dropped \cup {Unset}

(* All requests of a process carry one installation id, although several   *)
(* start before there is one and the store may fail, and what replaces the *)
(* stored id is the id that the requests of the process carry.  An id that *)
(* was stored stays and is what every later process sends, but for a       *)
(* process whose read of it was rejected or gave no id (getOrCreateId's    *)
(* pending load, loadOrCreateId).                                          *)
OneInstallationId ==
    [][/\ Cardinality(sentAs') <= 1
       /\ device'.stored # device.stored => sentAs' \subseteq {device'.stored}
       /\ device.stored # Unset /\ ~ device'.misread =>
              device'.stored = device.stored /\ sentAs' \subseteq {device.stored}]_signInVars
=============================================================================
