----------------------------- MODULE MobileSession -----------------------------
(***************************************************************************)
(* The session of the mobile app: the token store, the API client that     *)
(* refreshes an expired access token once for all the requests that need   *)
(* it, the auth provider's sign-in, sign-out and start-up, and the gate    *)
(* between the sign-in screens and the app.  JavaScript runs one           *)
(* continuation at a time; a step is what runs between two awaits.         *)
(*                                                                         *)
(* A token pair is <<family, generation>>; the server keeps, per family,   *)
(* the generation that is live.  Secure-store operations take effect in    *)
(* the order they are issued.                                              *)
(***************************************************************************)
EXTENDS Naturals, FiniteSets

CONSTANTS
    Request,       \* API requests in flight at a time
    None,
    MaxFamily,     \* sign-ins of the device
    MaxGen,        \* generations of a family
    MaxTrouble     \* lost answers and restarts of the app

VARIABLES
    mem, disk,     \* token store: [access, refresh] in memory and in the secure store
    ui,            \* AuthProvider's token state: what the gate and the screens see
    live,          \* sessionLiveRef
    allowed,       \* refreshAllowed
    epoch,         \* refreshEpoch
    refresh,       \* refreshInFlight
    call,          \* per request: where it is, the token it carried, whether a retry
    logout,        \* per caller of logout (a request's 401, the button): where it is
    signIn,        \* completeAuth
    gen, open,     \* server: the live generation of a family, whether it is open
    reused,        \* server: a used refresh token was presented
    expired,       \* server: access tokens it no longer accepts
    trouble,       \* lost answers and restarts so far
    crossed        \* a sign-out ran into a sign-in that was being stored

storeVars == <<mem, disk>>
flagVars == <<live, allowed, epoch>>
serverVars == <<gen, open, reused, expired>>
vars == <<storeVars, ui, flagVars, refresh, call, logout, signIn, serverVars, trouble, crossed>>

-----------------------------------------------------------------------------
Family == 1..MaxFamily
Token == Family \X (1..MaxGen)
MaybeToken == Token \cup {None}
Caller == Request \cup {"button"}
Empty == [access |-> None, refresh |-> None]
Pair(t) == [access |-> t, refresh |-> t]
Idle == [at |-> "idle"]

ASSUME SessionAssumption ==
    /\ MaxFamily \in Nat /\ MaxGen \in Nat \ {0}
    /\ None \notin Token /\ "button" \notin Request

(* getToken and getRefreshToken: memory first, then the secure store.      *)
Stored(field) == IF mem[field] # None THEN mem[field] ELSE disk[field]

Busy == {c \in Caller : logout[c] # Idle}

(* The process starts: nothing in memory, refreshes allowed, the session   *)
(* flag up; bootstrap shows what the secure store holds.                   *)
Started(store) ==
    /\ mem' = Empty /\ disk' = store /\ ui' = store.access
    /\ live' = TRUE /\ allowed' = TRUE /\ epoch' = 0
    /\ refresh' = Idle /\ signIn' = Idle
    /\ call' = [q \in Request |-> Idle]
    /\ logout' = [c \in Caller |-> Idle]

Init ==
    /\ mem = Empty /\ disk = Empty /\ ui = None
    /\ live = TRUE /\ allowed = TRUE /\ epoch = 0
    /\ refresh = Idle /\ signIn = Idle
    /\ call = [q \in Request |-> Idle]
    /\ logout = [c \in Caller |-> Idle]
    /\ gen = [f \in Family |-> 0] /\ open = {} /\ reused = FALSE /\ expired = {}
    /\ trouble = 0 /\ crossed = FALSE

-----------------------------------------------------------------------------
(* Sign-in.  The gate shows the OTP screens while there is no token; the   *)
(* server opens a family (and, on the same device, closes the customer's   *)
(* earlier one).  Entering a code takes longer than a sign-out needs to    *)
(* clear the store.                                                        *)
NewFamily == Cardinality({f \in Family : gen[f] > 0}) + 1

VerifyOtp ==
    /\ ui = None /\ signIn = Idle /\ NewFamily \in Family
    /\ \A c \in Caller : logout[c].at # "await"
    /\ gen' = [gen EXCEPT ![NewFamily] = 1]
    /\ open' \in {open \cup {NewFamily}, {NewFamily}}
    /\ signIn' = [at |-> "verified", tok |-> <<NewFamily, 1>>]
    /\ UNCHANGED <<storeVars, ui, flagVars, refresh, call, logout, reused, expired, trouble, crossed>>

(* setSession: both tokens in memory, then one after the other on disk.    *)
BugKeepsRefresh(t) ==
    /\ mem' = [access |-> t, refresh |-> IF Stored("refresh") = None THEN t ELSE Stored("refresh")]
    /\ disk' = [disk EXCEPT !.access = t]
BugRefreshNotStored(t) == UNCHANGED disk
SetSession(t) == mem' = Pair(t) /\ disk' = [disk EXCEPT !.access = t]
StoreRefresh(t) == disk' = [disk EXCEPT !.refresh = t]

CompleteAuth ==
    /\ signIn.at = "verified"
    /\ signIn' = [signIn EXCEPT !.at = "stored"]
    /\ SetSession(signIn.tok)
    /\ crossed' = (crossed \/ Busy # {})
    /\ UNCHANGED <<ui, flagVars, refresh, call, logout, serverVars, trouble>>

CompleteAuthRefresh ==
    /\ signIn.at = "stored"
    /\ signIn' = [signIn EXCEPT !.at = "complete"]
    /\ StoreRefresh(signIn.tok)
    /\ UNCHANGED <<mem, ui, flagVars, refresh, call, logout, serverVars, trouble, crossed>>

SignedIn ==
    /\ signIn.at = "complete"
    /\ signIn' = Idle
    /\ live' = TRUE /\ allowed' = TRUE /\ ui' = signIn.tok
    /\ UNCHANGED <<storeVars, epoch, refresh, call, logout, serverVars, trouble, crossed>>

-----------------------------------------------------------------------------
(* A screen calls the API: the request interceptor attaches what the store *)
(* holds.                                                                  *)
Send(q, retry) == call' = [call EXCEPT ![q] = [at |-> "sent", tok |-> Stored("access"), retry |-> retry]]

IssueCall(q) ==
    /\ ui # None /\ call[q] = Idle
    /\ Send(q, FALSE)
    /\ UNCHANGED <<storeVars, ui, flagVars, refresh, logout, signIn, serverVars, trouble, crossed>>

(* The server answers, the network fails, or the token is refused.         *)
Answered(q) ==
    /\ call[q].at = "sent"
    /\ call' = [call EXCEPT ![q] =
           IF call[q].tok = None \/ call[q].tok \in expired THEN [@ EXCEPT !.at = "denied"] ELSE Idle]
    /\ UNCHANGED <<storeVars, ui, flagVars, refresh, logout, signIn, serverVars, trouble, crossed>>

(* A request that carried no answer ends in an error on the screen.        *)
CallLost(q) ==
    /\ call[q].at = "sent" /\ trouble < MaxTrouble
    /\ call' = [call EXCEPT ![q] = Idle]
    /\ trouble' = trouble + 1
    /\ UNCHANGED <<storeVars, ui, flagVars, refresh, logout, signIn, serverVars, crossed>>

Expire(t) ==
    /\ gen[t[1]] >= t[2] /\ t \notin expired /\ t[2] < MaxGen
    /\ expired' = expired \cup {t}
    /\ UNCHANGED <<storeVars, ui, flagVars, refresh, call, logout, signIn, gen, open, reused, trouble, crossed>>

(* logout's first part: the flags, the refresh to wait for and the token   *)
(* to revoke.                                                              *)
BeginLogout(c) ==
    /\ live' = FALSE /\ allowed' = FALSE /\ epoch' = epoch + 1
    /\ logout' = [logout EXCEPT ![c] =
           [at |-> "await", tok |-> Stored("refresh"),
            epoch |-> IF refresh = Idle THEN None ELSE refresh.epoch]]
    /\ crossed' = (crossed \/ signIn.at \in {"stored", "complete"})

(* The response interceptor, on a 401: one refresh for everybody, unless   *)
(* this was the retry or refreshing is not allowed.                        *)
Denied(q) ==
    /\ call[q].at = "denied"
    /\ \/ /\ ~ call[q].retry /\ allowed
          /\ call' = [call EXCEPT ![q] = [at |-> "waits"]]
          /\ refresh' = IF refresh # Idle THEN refresh
                        ELSE [at |-> "read", tok |-> Stored("refresh"), epoch |-> epoch]
       \/ /\ call[q].retry \/ ~ allowed
          /\ call' = [call EXCEPT ![q] = [at |-> "expired"]]
          /\ UNCHANGED refresh
    /\ UNCHANGED <<storeVars, ui, flagVars, logout, signIn, serverVars, trouble, crossed>>

(* The refresh is over: those who waited retry with what is stored by      *)
(* then, or sign out.                                                      *)
Retry(q) ==
    /\ call[q].at = "retry"
    /\ Send(q, TRUE)
    /\ UNCHANGED <<storeVars, ui, flagVars, refresh, logout, signIn, serverVars, trouble, crossed>>

OnUnauthorized(q) ==
    /\ call[q].at = "expired"
    /\ BeginLogout(q)
    /\ call' = [call EXCEPT ![q] = [at |-> "leaving"]]
    /\ UNCHANGED <<storeVars, ui, refresh, signIn, serverVars, trouble>>

-----------------------------------------------------------------------------
(* rotateAccessToken                                                       *)
Current == allowed /\ refresh.epoch = epoch
Proceed(step) == refresh' = [refresh EXCEPT !.at = step] /\ UNCHANGED call
BugStaysInFlight(t) == UNCHANGED <<refresh, call>>
EndRefresh(t) ==
    /\ refresh' = Idle
    /\ call' = [q \in Request |-> IF call[q].at # "waits" THEN call[q]
                                 ELSE [at |-> IF t = None THEN "expired" ELSE "retry"]]

RefreshPost ==
    /\ refresh.at = "read"
    /\ IF Current /\ refresh.tok # None THEN Proceed("post") ELSE EndRefresh(None)
    /\ UNCHANGED <<storeVars, ui, flagVars, logout, signIn, serverVars, trouble, crossed>>

(* The server rotates the live token; a used one closes its family.        *)
ServerRefresh ==
    /\ refresh.at = "post"
    /\ LET f == refresh.tok[1]
           g == refresh.tok[2]
       IN  \/ /\ f \in open /\ g = gen[f] /\ g < MaxGen
              /\ gen' = [gen EXCEPT ![f] = g + 1]
              /\ refresh' = [refresh EXCEPT !.at = "reply", !.tok = <<f, g + 1>>]
              /\ UNCHANGED <<call, open, reused>>
           \/ /\ f \in open /\ g < gen[f]
              /\ open' = open \ {f} /\ reused' = TRUE
              /\ EndRefresh(None) /\ UNCHANGED gen
           \/ /\ f \notin open \/ (g = gen[f] /\ g = MaxGen)
              /\ EndRefresh(None) /\ UNCHANGED <<gen, open, reused>>
    /\ UNCHANGED <<storeVars, ui, flagVars, logout, signIn, expired, trouble, crossed>>

(* The answer is lost: the error is caught and counts as no token.         *)
RefreshLost ==
    /\ refresh.at = "reply" /\ trouble < MaxTrouble
    /\ trouble' = trouble + 1
    /\ EndRefresh(None)
    /\ UNCHANGED <<storeVars, ui, flagVars, logout, signIn, serverVars, crossed>>

(* An abandoned refresh is dropped; otherwise persistSession stores it.    *)
PersistSession ==
    /\ refresh.at = "reply"
    /\ IF Current /\ live
       THEN Proceed("access") /\ SetSession(refresh.tok)
       ELSE EndRefresh(None) /\ UNCHANGED storeVars
    /\ UNCHANGED <<ui, flagVars, logout, signIn, serverVars, trouble, crossed>>

PersistRefresh ==
    /\ refresh.at = "access"
    /\ Proceed("stored")
    /\ StoreRefresh(refresh.tok)
    /\ UNCHANGED <<mem, ui, flagVars, logout, signIn, serverVars, trouble, crossed>>

(* After the writes the session flag is looked at again.                   *)
PersistChecked ==
    /\ refresh.at = "stored"
    /\ IF live THEN ui' = refresh.tok /\ UNCHANGED storeVars
       ELSE mem' = Empty /\ disk' = Empty /\ UNCHANGED ui
    /\ EndRefresh(IF Current THEN refresh.tok ELSE None)
    /\ UNCHANGED <<flagVars, logout, signIn, serverVars, trouble, crossed>>

-----------------------------------------------------------------------------
(* logout, from the button or from onUnauthorized.                         *)
PressLogout ==
    /\ ui # None /\ logout["button"] = Idle
    /\ BeginLogout("button")
    /\ UNCHANGED <<storeVars, ui, refresh, call, signIn, serverVars, trouble>>

(* clearLocalSession, once the refresh that was in flight is over.         *)
BugClearsMemory(c) ==
    /\ logout[c].at = "await"
    /\ refresh # Idle => refresh.epoch # logout[c].epoch
    /\ logout' = [logout EXCEPT ![c].at = "revoke"]
    /\ ui' = None /\ mem' = Empty
    /\ crossed' = (crossed \/ signIn.at \in {"stored", "complete"})
    /\ UNCHANGED <<disk, flagVars, refresh, call, signIn, serverVars, trouble>>
ClearLocalSession(c) ==
    /\ logout[c].at = "await"
    /\ refresh # Idle => refresh.epoch # logout[c].epoch
    /\ logout' = [logout EXCEPT ![c].at = "revoke"]
    /\ ui' = None /\ mem' = Empty /\ disk' = Empty
    /\ crossed' = (crossed \/ signIn.at \in {"stored", "complete"})
    /\ UNCHANGED <<flagVars, refresh, call, signIn, serverVars, trouble>>

(* logoutSession closes the family of the token, used or not; an error is  *)
(* swallowed.  The query cache is cleared and the caller goes on.          *)
EndLogout(c) ==
    /\ logout' = [logout EXCEPT ![c] = Idle]
    /\ call' = IF c \in Request THEN [call EXCEPT ![c] = Idle] ELSE call
    /\ UNCHANGED <<storeVars, ui, flagVars, refresh, signIn, gen, reused, expired, crossed>>

RevokeSession(c) ==
    /\ logout[c].at = "revoke"
    /\ open' = IF logout[c].tok = None THEN open ELSE open \ {logout[c].tok[1]}
    /\ EndLogout(c) /\ UNCHANGED trouble

RevokeLost(c) ==
    /\ logout[c].at = "revoke" /\ trouble < MaxTrouble
    /\ trouble' = trouble + 1
    /\ EndLogout(c) /\ UNCHANGED open

(* The app is killed and started again.  A clear that was under way may    *)
(* have removed any of the two tokens.                                     *)
Restart ==
    /\ trouble < MaxTrouble
    /\ trouble' = trouble + 1
    /\ \E store \in {disk} \cup (IF Busy = {} THEN {} ELSE
                         {[disk EXCEPT !.access = None], [disk EXCEPT !.refresh = None], Empty}) :
          Started(store)
    /\ UNCHANGED <<serverVars, crossed>>

-----------------------------------------------------------------------------
StoreSignIn == CompleteAuth \/ CompleteAuthRefresh \/ SignedIn
HandleCall(q) == Answered(q) \/ Denied(q) \/ Retry(q) \/ OnUnauthorized(q)
RotateAccessToken ==
    RefreshPost \/ ServerRefresh \/ PersistSession \/ PersistRefresh \/ PersistChecked
LeaveSession(c) == ClearLocalSession(c) \/ RevokeSession(c)

Next ==
    \/ VerifyOtp \/ StoreSignIn \/ RotateAccessToken \/ RefreshLost \/ PressLogout \/ Restart
    \/ \E q \in Request : IssueCall(q) \/ HandleCall(q) \/ CallLost(q)
    \/ \E t \in Token : Expire(t)
    \/ \E c \in Caller : LeaveSession(c) \/ RevokeLost(c)

Spec == Init /\ [][Next]_vars

(* What is under way goes on: the event loop runs every continuation and   *)
(* a call ends, if only by the client's timeout.  The customer is not      *)
(* obliged to do anything.                                                 *)
FairSpec ==
    /\ Spec
    /\ WF_vars(StoreSignIn) /\ WF_vars(RotateAccessToken)
    /\ \A q \in Request : WF_vars(HandleCall(q) \/ LeaveSession(q))
    /\ WF_vars(LeaveSession("button"))

-----------------------------------------------------------------------------
TypeOK ==
    /\ mem \in [access : MaybeToken, refresh : MaybeToken]
    /\ disk \in [access : MaybeToken, refresh : MaybeToken]
    /\ ui \in MaybeToken /\ expired \subseteq Token /\ open \subseteq Family
    /\ gen \in [Family -> 0..MaxGen]
    /\ \A q \in Request : call[q].at \in {"idle", "sent", "denied", "waits", "retry", "expired", "leaving"}
    /\ refresh.at \in {"idle", "read", "post", "reply", "access", "stored"}

(* Nothing is under way.                                                   *)
AtRest == refresh = Idle /\ signIn = Idle /\ Busy = {} /\ \A q \in Request : call[q] = Idle

(* Signed out means no credentials: once everything has come to rest, an   *)
(* app that shows the sign-in screens has no token in memory or on disk,   *)
(* whichever refreshes and 401s were in flight when the customer left      *)
(* (abandonInFlightRefresh, logout's order).                               *)
SignedOutIsEmpty == AtRest /\ ui = None /\ trouble = 0 => mem = Empty /\ disk = Empty

(* Signed in means the store agrees with what is shown: the token of the   *)
(* screens is the one requests carry and the one a restart finds, with its *)
(* refresh token, unless a late 401 cleared the store under a sign-in      *)
(* (completeAuth, persistSession).                                         *)
StoreMatchesScreen ==
    AtRest /\ ui # None /\ trouble = 0 /\ ~ crossed => mem = Pair(ui) /\ disk = Pair(ui)

(* docs/auth-hardening.md: one shared refresh avoids accidental reuse.  As *)
(* long as no answer is lost, the app is not killed and no sign-out runs   *)
(* into a sign-in, the app never presents a refresh token twice, so it     *)
(* never has its own family closed (rotateAccessToken).                    *)
NoAccidentalReuse == reused => trouble > 0 \/ crossed

(* No session is left open behind the customer's back: at rest every open  *)
(* family of the device is the one the app holds the live token of, if     *)
(* every answer arrived (logout revokes what it drops, also when the token *)
(* was rotated meanwhile).                                                 *)
OpenIsHeld == AtRest /\ trouble = 0 /\ ~ crossed => \A f \in open : mem.refresh = <<f, gen[f]>>

(* At rest the device and the server agree on who is signed in.            *)
SessionSound == TypeOK /\ SignedOutIsEmpty /\ OpenIsHeld

(* Leaving takes effect: whoever signs out, by the button or by a 401, is  *)
(* shown the sign-in screens, also when a refresh is in flight that the    *)
(* sign-out has to wait for; only a restart of the app forgets it.         *)
LeavingEnds == \A c \in Caller : []<>(ui = None \/ logout[c] = Idle)

-----------------------------------------------------------------------------
(* The inductive invariant behind SessionSound, StoreMatchesScreen and      *)
(* NoAccidentalReuse.                                                       *)
SignIns == {Idle} \cup [at : {"verified", "stored", "complete"}, tok : Token]
Refreshes ==
    {Idle} \cup [at : {"read"}, tok : MaybeToken, epoch : Nat]
           \cup [at : {"post", "reply", "access", "stored"}, tok : Token, epoch : Nat]
Calls ==
    {Idle} \cup [at : {"sent", "denied"}, tok : MaybeToken, retry : BOOLEAN]
           \cup [at : {"waits", "retry", "expired", "leaving"}]
Logouts ==
    {Idle} \cup [at : {"await", "revoke"}, tok : MaybeToken, epoch : Nat \cup {None}]

StateTyped ==
    /\ live \in BOOLEAN /\ allowed = live /\ epoch \in Nat
    /\ reused \in BOOLEAN /\ crossed \in BOOLEAN /\ trouble \in Nat
    /\ signIn \in SignIns /\ refresh \in Refreshes
    /\ DOMAIN call = Request /\ \A q \in Request : call[q] \in Calls
    /\ DOMAIN logout = Caller /\ \A c \in Caller : logout[c] \in Logouts
    /\ \A q \in Request : logout[q] # Idle => call[q].at = "leaving"

(* The sign-in screens come with an empty store, or with a write that will  *)
(* be followed by what empties the store or leaves those screens.           *)
WritesPending ==
    ui = None => \/ mem = Empty /\ disk = Empty
                 \/ signIn.at \in {"stored", "complete"} \/ refresh.at \in {"access", "stored"}

(* Where the tokens are, as long as nothing went wrong: what is stored is   *)
(* what the screens show, ahead of it by what the refresh has written, or   *)
(* gone; the server is one generation ahead when its answer is under way    *)
(* or was dropped by a sign-out.                                            *)
Stores ==
    /\ ui = None /\ signIn.at \in {"idle", "verified"} => mem = Empty /\ disk = Empty
    /\ signIn.at = "stored" => mem = Pair(signIn.tok) /\ disk = [access |-> signIn.tok, refresh |-> None]
    /\ signIn.at = "complete" => mem = Pair(signIn.tok) /\ disk = Pair(signIn.tok)
    /\ signIn # Idle => gen[signIn.tok[1]] = signIn.tok[2]
    /\ ui # None /\ refresh = Idle =>
          \/ mem = Pair(ui) /\ disk = Pair(ui) /\ (allowed => gen[ui[1]] = ui[2])
          \/ ~ allowed /\ mem = Empty /\ disk = Empty
    /\ refresh.at \in {"read", "post"} =>
          mem = Pair(ui) /\ disk = Pair(ui) /\ refresh.tok = ui /\ gen[ui[1]] = ui[2]
    /\ refresh.at \in {"reply", "access", "stored"} =>
          refresh.tok[1] = ui[1] /\ gen[ui[1]] = refresh.tok[2]
    /\ refresh.at = "reply" => mem = Pair(ui) /\ disk = Pair(ui)
    /\ refresh.at = "access" =>
          mem = Pair(refresh.tok) /\ disk = [access |-> refresh.tok, refresh |-> ui]
    /\ refresh.at = "stored" => mem = Pair(refresh.tok) /\ disk = Pair(refresh.tok)

(* Who is at work: a refresh and a sign-in never at a time, a refresh that  *)
(* a sign-out overtook with everyone who leaves waiting for it.             *)
Phases ==
    /\ allowed => Busy = {}
    /\ signIn # Idle => ui = None
    /\ ui = None => refresh = Idle
    /\ ui = None /\ allowed => \A q \in Request : call[q] = Idle
    /\ signIn.at \in {"stored", "complete"} => Busy = {}
    /\ ui # None => \A c \in Busy : logout[c].at = "await"
    /\ refresh # Idle /\ allowed => refresh.epoch = epoch
    /\ refresh # Idle /\ ~ allowed => \A c \in Busy : logout[c].epoch = refresh.epoch

(* Whoever leaves will revoke the family, and no other one is open.         *)
Revokes(c, f) == logout[c].tok # None /\ logout[c].tok[1] = f
Held ==
    /\ ui # None /\ ~ allowed => \E c \in Busy : Revokes(c, ui[1])
    /\ \A f \in open : \/ ui # None /\ ui[1] = f
                       \/ signIn # Idle /\ signIn.tok[1] = f
                       \/ \E c \in Busy : Revokes(c, f)

Undisturbed == ~ reused /\ Stores /\ Phases /\ Held

IInv ==
    /\ TypeOK /\ StateTyped
    /\ trouble = 0 => WritesPending
    /\ trouble = 0 /\ ~ crossed => Undisturbed
=============================================================================
