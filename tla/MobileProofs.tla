------------------------------ MODULE MobileProofs ------------------------------
(***************************************************************************)
(* Proofs about the mobile app.  First the session, module MobileSession:  *)
(* what the store, the screens and the server agree on once everything has *)
(* come to rest, and that the app does not present a refresh token twice,  *)
(* for any number of requests, sign-ins and token generations.  Then the   *)
(* sign-in screens, module SignInScreens: that an idempotency key names    *)
(* one input, that a code the customer entered correctly is not refused,   *)
(* and that an installation has one identifier, for any number of presses, *)
(* attempts and restarts.  Last the screens of a signed-in customer,       *)
(* module CustomerScreens: that nobody sees another customer's answers,    *)
(* and that a change made on one screen reaches the others.                *)
(***************************************************************************)
EXTENDS MobileSession, SignInScreens, CustomerScreens, FiniteSetTheorems, TLAPS

-----------------------------------------------------------------------------
(* The session.                                                            *)


Typed == TypeOK /\ StateTyped

(* A token is no None, and its parts are a family and a generation.         *)
LEMMA Tokens ==
    ASSUME NEW t \in Token
    PROVE  /\ t # None /\ t[1] \in Family /\ t[2] \in 1..MaxGen /\ t = <<t[1], t[2]>>
           /\ Family \subseteq Nat /\ t[2] \in Nat
  BY SessionAssumption DEF Token, Family

(* What a record of each kind has, by where it is.                          *)
LEMMA RefreshShape ==
    ASSUME NEW r \in Refreshes
    PROVE  /\ r.at \in {"idle", "read", "post", "reply", "access", "stored"}
           /\ r = Idle <=> r.at = "idle"
           /\ r.at = "read" => r = [at |-> "read", tok |-> r.tok, epoch |-> r.epoch]
                               /\ r.tok \in MaybeToken /\ r.epoch \in Nat
           /\ r.at \in {"post", "reply", "access", "stored"} =>
                 r \in [at : {"post", "reply", "access", "stored"}, tok : Token, epoch : Nat]
           /\ r # Idle => r.epoch \in Nat
  <1>1. CASE r = Idle
    BY <1>1 DEF Idle
  <1>2. CASE r \in [at : {"read"}, tok : MaybeToken, epoch : Nat]
    BY <1>2 DEF Idle
  <1>3. CASE r \in [at : {"post", "reply", "access", "stored"}, tok : Token, epoch : Nat]
    BY <1>3 DEF Idle
  <1> QED
    BY <1>1, <1>2, <1>3 DEF Refreshes

(* A sign-in has a token from its verification on.                          *)
LEMMA SignInShape ==
    ASSUME NEW s \in SignIns
    PROVE  /\ s.at \in {"idle", "verified", "stored", "complete"}
           /\ s = Idle <=> s.at = "idle"
           /\ s # Idle => s \in [at : {"verified", "stored", "complete"}, tok : Token]
  BY DEF SignIns, Idle

(* A call carries the access token it was sent with.                        *)
LEMMA CallShape ==
    ASSUME NEW c \in Calls
    PROVE  /\ c.at \in {"idle", "sent", "denied", "waits", "retry", "expired", "leaving"}
           /\ c = Idle <=> c.at = "idle"
           /\ c.at \in {"sent", "denied"} =>
                 c \in [at : {"sent", "denied"}, tok : MaybeToken, retry : BOOLEAN]
  <1>1. CASE c = Idle
    BY <1>1 DEF Idle
  <1>2. CASE c \in [at : {"sent", "denied"}, tok : MaybeToken, retry : BOOLEAN]
    BY <1>2 DEF Idle
  <1>3. CASE c \in [at : {"waits", "retry", "expired", "leaving"}]
    BY <1>3 DEF Idle
  <1> QED
    BY <1>1, <1>2, <1>3 DEF Calls

(* A sign-out knows the token it revokes and the epoch it began in.         *)
LEMMA LogoutShape ==
    ASSUME NEW c \in Logouts
    PROVE  /\ c.at \in {"idle", "await", "revoke"}
           /\ c = Idle <=> c.at = "idle"
           /\ c # Idle => c \in [at : {"await", "revoke"}, tok : MaybeToken, epoch : Nat \cup {None}]
  BY DEF Logouts, Idle

(* What is stored is a token or nothing.                                    *)
LEMMA StoredTyped ==
    ASSUME Typed
    PROVE  Stored("access") \in MaybeToken /\ Stored("refresh") \in MaybeToken
  BY DEF Typed, TypeOK, Stored

(* TypeOK says nothing of the requests that StateTyped does not say.        *)
LEMMA TypedParts ==
    ASSUME mem' \in [access : MaybeToken, refresh : MaybeToken],
           disk' \in [access : MaybeToken, refresh : MaybeToken],
           ui' \in MaybeToken, expired' \subseteq Token, open' \subseteq Family,
           gen' \in [Family -> 0..MaxGen], StateTyped'
    PROVE  Typed'
  <1>1. \A q \in Request :
           call'[q].at \in {"idle", "sent", "denied", "waits", "retry", "expired", "leaving"}
    BY CallShape DEF StateTyped
  <1>2. refresh'.at \in {"idle", "read", "post", "reply", "access", "stored"}
    BY RefreshShape DEF StateTyped
  <1> QED
    BY <1>1, <1>2 DEF Typed, TypeOK

-----------------------------------------------------------------------------
(* Types.                                                                   *)

(* What no step but the named ones touches.                                 *)
StoresTyped ==
    /\ mem \in [access : MaybeToken, refresh : MaybeToken]
    /\ disk \in [access : MaybeToken, refresh : MaybeToken]
    /\ ui \in MaybeToken
ServerTyped ==
    /\ expired \subseteq Token /\ open \subseteq Family /\ gen \in [Family -> 0..MaxGen]
    /\ reused \in BOOLEAN
FlagsTyped ==
    /\ live \in BOOLEAN /\ allowed = live /\ epoch \in Nat
    /\ crossed \in BOOLEAN /\ trouble \in Nat
CallsTyped ==
    /\ DOMAIN call = Request /\ \A q \in Request : call[q] \in Calls
    /\ DOMAIN logout = Caller /\ \A c \in Caller : logout[c] \in Logouts
    /\ \A q \in Request : logout[q] # Idle => call[q].at = "leaving"

(* The parts of the types, before and after a step.                         *)
LEMMA TypesApart ==
    Typed => /\ StoresTyped /\ ServerTyped /\ FlagsTyped /\ CallsTyped
             /\ signIn \in SignIns /\ refresh \in Refreshes
  BY DEF Typed, TypeOK, StateTyped, StoresTyped, ServerTyped, FlagsTyped, CallsTyped
(* The types of the parts make the type of the whole.                       *)
LEMMA TypesTogether ==
    ASSUME StoresTyped', ServerTyped', FlagsTyped', CallsTyped',
           signIn' \in SignIns, refresh' \in Refreshes
    PROVE  Typed'
  BY TypedParts DEF StateTyped, StoresTyped, ServerTyped, FlagsTyped, CallsTyped

(* The app starts typed.                                                    *)
LEMMA InitTyped == Init => Typed
  <1> SUFFICES ASSUME Init PROVE Typed
    OBVIOUS
  <1>1. Empty \in [access : MaybeToken, refresh : MaybeToken] /\ None \in MaybeToken
    BY DEF Empty, MaybeToken
  <1>2. Idle \in SignIns /\ Idle \in Refreshes /\ Idle \in Calls /\ Idle \in Logouts /\ Idle.at = "idle"
    BY DEF SignIns, Refreshes, Calls, Logouts, Idle
  <1>3. gen \in [Family -> 0..MaxGen]
    BY SessionAssumption DEF Init
  <1> QED
    BY <1>1, <1>2, <1>3 DEF Init, Typed, TypeOK, StateTyped, Caller

(* One request moves on; a request that is leaving does not.                *)
LEMMA CallMoves ==
    ASSUME CallsTyped, NEW q \in Request, NEW v \in Calls, call' = [call EXCEPT ![q] = v],
           logout' = logout, logout[q] = Idle \/ v.at = "leaving"
    PROVE  CallsTyped'
  BY DEF CallsTyped

(* The requests that waited for the refresh go on.                          *)
LEMMA RefreshEnds ==
    ASSUME CallsTyped, NEW t, EndRefresh(t), logout' = logout
    PROVE  CallsTyped' /\ refresh' \in Refreshes
  <1>1. [at |-> "expired"] \in Calls /\ [at |-> "retry"] \in Calls /\ refresh' \in Refreshes
    BY DEF Calls, Refreshes, EndRefresh
  <1>2. DOMAIN call' = Request /\ \A q \in Request : call'[q] \in Calls
    BY <1>1 DEF EndRefresh, CallsTyped
  <1>3. \A q \in Request : logout[q] # Idle => call'[q] = call[q]
    BY DEF EndRefresh, CallsTyped
  <1> QED
    BY <1>1, <1>2, <1>3 DEF CallsTyped

(* A sign-out begins.                                                       *)
LEMMA LogoutBegins ==
    ASSUME Typed, NEW c \in Caller, BeginLogout(c), trouble' = trouble
    PROVE  FlagsTyped' /\ logout'[c] \in Logouts
  <1>1. Stored("refresh") \in MaybeToken
    BY StoredTyped
  <1>2. refresh \in Refreshes /\ FlagsTyped /\ CallsTyped
    BY TypesApart
  <1>3. (IF refresh = Idle THEN None ELSE refresh.epoch) \in Nat \cup {None}
    BY <1>2, RefreshShape
  <1>4. logout'[c] = [at |-> "await", tok |-> Stored("refresh"),
                      epoch |-> IF refresh = Idle THEN None ELSE refresh.epoch]
    BY <1>2 DEF BeginLogout, CallsTyped
  <1>5. logout'[c] \in Logouts
    BY <1>1, <1>3, <1>4 DEF Logouts
  <1>6. crossed' \in BOOLEAN
    BY <1>2 DEF BeginLogout, FlagsTyped
  <1>7. live' = FALSE /\ allowed' = FALSE /\ epoch' = epoch + 1 /\ epoch \in Nat
    BY <1>2 DEF BeginLogout, FlagsTyped
  <1>8. trouble' \in Nat
    BY <1>2 DEF FlagsTyped
  <1>9. live' \in BOOLEAN /\ allowed' = live'
    BY <1>7
  <1>10. epoch' \in Nat
    BY <1>7
  <1> QED
    BY <1>5, <1>6, <1>8, <1>9, <1>10 DEF FlagsTyped

(* verifyOtp and the storing of its tokens.                                 *)
LEMMA SignInTypes ==
    ASSUME Typed, VerifyOtp \/ StoreSignIn
    PROVE  Typed'
  <1>1. /\ StoresTyped /\ ServerTyped /\ FlagsTyped /\ CallsTyped
        /\ signIn \in SignIns /\ refresh \in Refreshes
    BY TypesApart
  <1>2. CASE VerifyOtp
    <2>1. <<NewFamily, 1>> \in Token /\ 1 \in 0..MaxGen
      BY <1>2, SessionAssumption DEF VerifyOtp, Token
    <2>2. signIn' \in SignIns
      BY <1>2, <2>1 DEF VerifyOtp, SignIns
    <2>3. ServerTyped'
      BY <1>1, <1>2, <2>1 DEF VerifyOtp, ServerTyped
    <2> QED
      BY <1>1, <1>2, <2>2, <2>3, TypesTogether
      DEF VerifyOtp, StoresTyped, FlagsTyped, CallsTyped, storeVars, flagVars
  <1>3. CASE StoreSignIn
    <2>1. signIn \in [at : {"verified", "stored", "complete"}, tok : Token] /\ signIn.tok \in MaybeToken
      BY <1>1, <1>3, SignInShape DEF StoreSignIn, CompleteAuth, CompleteAuthRefresh, SignedIn, MaybeToken
    <2>2. signIn' \in SignIns
      BY <1>1, <1>3, <2>1 DEF StoreSignIn, CompleteAuth, CompleteAuthRefresh, SignedIn, SignIns
    <2>3. StoresTyped'
      BY <1>1, <1>3, <2>1
      DEF StoreSignIn, CompleteAuth, CompleteAuthRefresh, SignedIn, SetSession, StoreRefresh, Pair,
          StoresTyped, storeVars
    <2>4. FlagsTyped'
      BY <1>1, <1>3 DEF StoreSignIn, CompleteAuth, CompleteAuthRefresh, SignedIn, FlagsTyped, flagVars
    <2> QED
      BY <1>1, <1>3, <2>2, <2>3, <2>4, TypesTogether
      DEF StoreSignIn, CompleteAuth, CompleteAuthRefresh, SignedIn, ServerTyped, CallsTyped, serverVars
  <1> QED
    BY <1>2, <1>3

(* Calls that are issued, answered, refused or lost.                        *)
LEMMA CallTypes ==
    ASSUME Typed, NEW q \in Request, IssueCall(q) \/ HandleCall(q) \/ CallLost(q)
    PROVE  Typed'
  <1>1. /\ StoresTyped /\ ServerTyped /\ FlagsTyped /\ CallsTyped
        /\ signIn \in SignIns /\ refresh \in Refreshes /\ call[q] \in Calls /\ q \in Caller
    BY TypesApart DEF CallsTyped, Caller
  <1>2. CASE IssueCall(q) \/ Retry(q)
    <2>1. PICK retry \in BOOLEAN :
             call' = [call EXCEPT ![q] = [at |-> "sent", tok |-> Stored("access"), retry |-> retry]]
      BY <1>2 DEF IssueCall, Retry, Send
    <2>2. [at |-> "sent", tok |-> Stored("access"), retry |-> retry] \in Calls
      BY StoredTyped DEF Calls
    <2>3. logout[q] = Idle
      BY <1>1, <1>2, CallShape DEF CallsTyped, IssueCall, Retry
    <2>4. CallsTyped'
      BY <1>1, <1>2, <2>1, <2>2, <2>3, CallMoves DEF IssueCall, Retry
    <2>5. UNCHANGED <<storeVars, ui, flagVars, refresh, signIn, serverVars, trouble, crossed>>
      BY <1>2 DEF IssueCall, Retry
    <2>6. StoresTyped' /\ ServerTyped' /\ FlagsTyped'
      BY <1>1, <2>5 DEF StoresTyped, ServerTyped, FlagsTyped, storeVars, serverVars, flagVars
    <2> QED
      BY <1>1, <2>4, <2>5, <2>6, TypesTogether
  <1>3. CASE Answered(q) \/ CallLost(q)
    <2>1. call[q] \in [at : {"sent", "denied"}, tok : MaybeToken, retry : BOOLEAN] /\ logout[q] = Idle
      BY <1>1, <1>3, CallShape DEF CallsTyped, Answered, CallLost
    <2>2. PICK v : /\ v = Idle \/ v = [call[q] EXCEPT !.at = "denied"]
                   /\ call' = [call EXCEPT ![q] = v]
      BY <1>1, <1>3 DEF Answered, CallLost, CallsTyped
    <2>3. v \in Calls
      BY <2>1, <2>2 DEF Calls
    <2>4. CallsTyped'
      BY <1>1, <1>3, <2>1, <2>2, <2>3, CallMoves DEF Answered, CallLost
    <2>5. FlagsTyped'
      BY <1>1, <1>3 DEF Answered, CallLost, FlagsTyped, flagVars
    <2> QED
      BY <1>1, <1>3, <2>4, <2>5, TypesTogether
      DEF Answered, CallLost, StoresTyped, ServerTyped, storeVars, serverVars
  <1>4. CASE Denied(q)
    <2>1. [at |-> "waits"] \in Calls /\ [at |-> "expired"] \in Calls
      BY DEF Calls
    <2>2. PICK v \in Calls : call' = [call EXCEPT ![q] = v]
      BY <1>4, <2>1 DEF Denied
    <2>3. CallsTyped'
      BY <1>1, <1>4, <2>2, CallMoves DEF CallsTyped, Denied
    <2>4. refresh' \in Refreshes
      BY <1>1, <1>4, StoredTyped DEF Denied, Refreshes, FlagsTyped
    <2> QED
      BY <1>1, <1>4, <2>3, <2>4, TypesTogether
      DEF Denied, StoresTyped, ServerTyped, FlagsTyped, storeVars, serverVars, flagVars
  <1>5. CASE OnUnauthorized(q)
    <2>1. [at |-> "leaving"] \in Calls
      BY DEF Calls
    <2>2. logout'[q] \in Logouts /\ FlagsTyped'
      BY <1>1, <1>5, LogoutBegins DEF OnUnauthorized
    <2>3. CallsTyped'
      BY <1>1, <1>5, <2>1, <2>2 DEF OnUnauthorized, BeginLogout, CallsTyped
    <2> QED
      BY <1>1, <1>5, <2>2, <2>3, TypesTogether
      DEF OnUnauthorized, StoresTyped, ServerTyped, storeVars, serverVars
  <1> QED
    BY <1>2, <1>3, <1>4, <1>5 DEF HandleCall

(* rotateAccessToken, statement by statement.                               *)
LEMMA RotationTypes ==
    ASSUME Typed, RotateAccessToken \/ RefreshLost
    PROVE  Typed'
  <1>1. /\ StoresTyped /\ ServerTyped /\ FlagsTyped /\ CallsTyped
        /\ signIn \in SignIns /\ refresh \in Refreshes
    BY TypesApart
  <1>2. UNCHANGED <<flagVars, logout, signIn, expired, crossed>> /\ trouble' \in Nat
    BY <1>1 DEF RotateAccessToken, RefreshPost, ServerRefresh, RefreshLost, PersistSession,
       PersistRefresh, PersistChecked, serverVars, FlagsTyped
  <1>3. FlagsTyped'
    BY <1>1, <1>2 DEF FlagsTyped, flagVars
  <1>4. refresh.at \in {"read", "post", "reply", "access", "stored"}
    BY DEF RotateAccessToken, RefreshPost, ServerRefresh, RefreshLost, PersistSession,
       PersistRefresh, PersistChecked
  <1>5. refresh.at # "read" =>
          refresh \in [at : {"post", "reply", "access", "stored"}, tok : Token, epoch : Nat]
    BY <1>1, <1>4, RefreshShape
  <1>6. StoresTyped' /\ ServerTyped' /\ CallsTyped' /\ refresh' \in Refreshes
    <2>1. CASE RefreshPost
      <3>1. refresh = [at |-> "read", tok |-> refresh.tok, epoch |-> refresh.epoch]
            /\ refresh.tok \in MaybeToken /\ refresh.epoch \in Nat
        BY <1>1, <2>1, RefreshShape DEF RefreshPost
      <3>2. StoresTyped' /\ ServerTyped'
        BY <1>1, <2>1 DEF RefreshPost, StoresTyped, ServerTyped, storeVars, serverVars
      <3>3. CASE Proceed("post") /\ refresh.tok # None
        <4>1. refresh' \in Refreshes
          BY <3>1, <3>3 DEF Proceed, Refreshes, MaybeToken
        <4> QED
          BY <1>1, <1>2, <3>2, <3>3, <4>1 DEF Proceed, CallsTyped
      <3> QED
        BY <1>1, <1>2, <2>1, <3>2, <3>3, RefreshEnds DEF RefreshPost
    <2>2. CASE ServerRefresh
      <3>1. refresh.tok \in Token /\ refresh.tok[1] \in Family /\ refresh.tok[2] \in Nat
        BY <1>5, <2>2, Tokens DEF ServerRefresh
      <3>2. StoresTyped'
        BY <1>1, <2>2 DEF ServerRefresh, StoresTyped, storeVars
      <3>3. CASE /\ refresh.tok[2] = gen[refresh.tok[1]] /\ refresh.tok[2] < MaxGen
                 /\ gen' = [gen EXCEPT ![refresh.tok[1]] = refresh.tok[2] + 1]
                 /\ refresh' = [refresh EXCEPT !.at = "reply", !.tok = <<refresh.tok[1], refresh.tok[2] + 1>>]
                 /\ UNCHANGED <<call, open, reused>>
        <4>1. refresh.tok[2] + 1 \in 1..MaxGen /\ refresh.tok[2] + 1 \in 0..MaxGen
          BY <3>1, <3>3, SessionAssumption
        <4>2. refresh' \in Refreshes
          BY <1>5, <2>2, <3>1, <3>3, <4>1 DEF ServerRefresh, Refreshes, Token
        <4>3. gen' \in [Family -> 0..MaxGen]
          BY <1>1, <3>3, <4>1 DEF ServerTyped
        <4> QED
          BY <1>1, <1>2, <3>2, <3>3, <4>2, <4>3 DEF ServerTyped, CallsTyped
      <3>4. CASE EndRefresh(None) /\ gen' = gen
        <4>1. open' \subseteq open /\ reused' \in BOOLEAN
          BY <1>1, <2>2, <3>4 DEF ServerRefresh, ServerTyped
        <4> QED
          BY <1>1, <1>2, <3>2, <3>4, <4>1, RefreshEnds DEF ServerTyped
      <3> QED
        BY <2>2, <3>3, <3>4 DEF ServerRefresh
    <2>3. CASE RefreshLost
      BY <1>1, <1>2, <2>3, RefreshEnds DEF RefreshLost, StoresTyped, ServerTyped, storeVars, serverVars
    <2>4. CASE PersistSession
      <3>1. ServerTyped' /\ refresh.tok \in MaybeToken
        BY <1>1, <1>5, <2>4 DEF PersistSession, ServerTyped, serverVars, MaybeToken
      <3>2. CASE Proceed("access") /\ SetSession(refresh.tok) /\ UNCHANGED ui
        <4>1. StoresTyped'
          BY <1>1, <3>1, <3>2 DEF SetSession, Pair, StoresTyped
        <4>2. refresh' \in Refreshes
          BY <1>5, <2>4, <3>2 DEF PersistSession, Proceed, Refreshes
        <4> QED
          BY <1>1, <1>2, <3>1, <3>2, <4>1, <4>2 DEF Proceed, CallsTyped
      <3> QED
        BY <1>1, <1>2, <2>4, <3>1, <3>2, RefreshEnds DEF PersistSession, StoresTyped, storeVars
    <2>5. CASE PersistRefresh
      <3>1. ServerTyped' /\ refresh.tok \in MaybeToken
        BY <1>1, <1>5, <2>5 DEF PersistRefresh, ServerTyped, serverVars, MaybeToken
      <3>2. StoresTyped'
        BY <1>1, <2>5, <3>1 DEF PersistRefresh, StoreRefresh, StoresTyped
      <3>3. refresh' \in Refreshes
        BY <1>5, <2>5 DEF PersistRefresh, Proceed, Refreshes
      <3> QED
        BY <1>1, <1>2, <2>5, <3>1, <3>2, <3>3 DEF PersistRefresh, Proceed, CallsTyped
    <2>6. CASE PersistChecked
      <3>1. ServerTyped' /\ refresh.tok \in MaybeToken
        BY <1>1, <1>5, <2>6 DEF PersistChecked, ServerTyped, serverVars, MaybeToken
      <3>2. StoresTyped'
        BY <1>1, <2>6, <3>1 DEF PersistChecked, StoresTyped, storeVars, Empty, MaybeToken
      <3> QED
        BY <1>1, <1>2, <2>6, <3>1, <3>2, RefreshEnds DEF PersistChecked
    <2> QED
      BY <2>1, <2>2, <2>3, <2>4, <2>5, <2>6 DEF RotateAccessToken
  <1> QED
    BY <1>1, <1>2, <1>3, <1>6, TypesTogether

(* Sign-out by the button or by a call that failed again.                   *)
LEMMA LeaveTypes ==
    ASSUME Typed, NEW c \in Caller, LeaveSession(c) \/ RevokeLost(c) \/ PressLogout
    PROVE  Typed'
  <1>1. /\ StoresTyped /\ ServerTyped /\ FlagsTyped /\ CallsTyped
        /\ signIn \in SignIns /\ refresh \in Refreshes
    BY TypesApart
  <1>2. CASE PressLogout
    <2>1. "button" \in Caller /\ "button" \notin Request
      BY SessionAssumption DEF Caller
    <2>2. logout'["button"] \in Logouts /\ FlagsTyped'
      BY <1>2, <2>1, LogoutBegins DEF PressLogout
    <2>3. CallsTyped'
      BY <1>1, <1>2, <2>1, <2>2 DEF PressLogout, BeginLogout, CallsTyped
    <2> QED
      BY <1>1, <1>2, <2>2, <2>3, TypesTogether
      DEF PressLogout, StoresTyped, ServerTyped, storeVars, serverVars
  <1>3. CASE ClearLocalSession(c)
    <2>1. logout[c] \in [at : {"await", "revoke"}, tok : MaybeToken, epoch : Nat \cup {None}]
      BY <1>1, <1>3, LogoutShape DEF ClearLocalSession, CallsTyped
    <2>2. logout' = [logout EXCEPT ![c] = [logout[c] EXCEPT !.at = "revoke"]] /\ call' = call
          /\ [logout[c] EXCEPT !.at = "revoke"] \in Logouts /\ logout[c] # Idle
      BY <1>3, <2>1, LogoutShape DEF ClearLocalSession, Logouts, Idle
    <2>3. CallsTyped'
      BY <1>1, <2>2 DEF CallsTyped
    <2>4. StoresTyped'
      BY <1>3 DEF ClearLocalSession, StoresTyped, Empty, MaybeToken
    <2>5. crossed' \in BOOLEAN
      BY <1>1, <1>3 DEF ClearLocalSession, FlagsTyped
    <2>6. FlagsTyped'
      BY <1>1, <1>3, <2>5 DEF ClearLocalSession, FlagsTyped, flagVars
    <2> QED
      BY <1>1, <1>3, <2>3, <2>4, <2>6, TypesTogether DEF ClearLocalSession, ServerTyped, serverVars
  <1>4. CASE RevokeSession(c) \/ RevokeLost(c)
    <2>1. EndLogout(c) /\ open' \subseteq open /\ trouble' \in Nat
      BY <1>1, <1>4 DEF RevokeSession, RevokeLost, FlagsTyped
    <2>2. Idle \in Calls /\ Idle \in Logouts
      BY DEF Calls, Logouts
    <2>3. CallsTyped'
      BY <1>1, <2>1, <2>2 DEF EndLogout, CallsTyped
    <2>4. FlagsTyped'
      BY <1>1, <2>1 DEF EndLogout, FlagsTyped, flagVars
    <2> QED
      BY <1>1, <2>1, <2>3, <2>4, TypesTogether DEF EndLogout, StoresTyped, ServerTyped, storeVars
  <1> QED
    BY <1>2, <1>3, <1>4 DEF LeaveSession

(* Restarts and access tokens that expire.                                  *)
LEMMA OtherTypes ==
    ASSUME Typed, \/ Restart \/ (\E t \in Token : Expire(t)) \/ UNCHANGED vars
    PROVE  Typed'
  <1>1. /\ StoresTyped /\ ServerTyped /\ FlagsTyped /\ CallsTyped
        /\ signIn \in SignIns /\ refresh \in Refreshes
    BY TypesApart
  <1>2. CASE Restart
    <2>1. PICK store \in [access : MaybeToken, refresh : MaybeToken] : Started(store)
      <3>1. /\ disk \in [access : MaybeToken, refresh : MaybeToken]
            /\ [disk EXCEPT !.access = None] \in [access : MaybeToken, refresh : MaybeToken]
            /\ [disk EXCEPT !.refresh = None] \in [access : MaybeToken, refresh : MaybeToken]
            /\ Empty \in [access : MaybeToken, refresh : MaybeToken]
        BY <1>1 DEF StoresTyped, Empty, MaybeToken
      <3> QED
        BY <1>2, <3>1 DEF Restart
    <2>2. Idle \in SignIns /\ Idle \in Refreshes /\ Idle \in Calls /\ Idle \in Logouts
      BY DEF SignIns, Refreshes, Calls, Logouts
    <2>3. StoresTyped'
      BY <2>1 DEF Started, StoresTyped, Empty, MaybeToken
    <2>4. FlagsTyped'
      BY <1>1, <1>2, <2>1 DEF Restart, Started, FlagsTyped
    <2>5. CallsTyped'
      BY <2>1, <2>2 DEF Started, CallsTyped, Caller
    <2> QED
      BY <1>1, <1>2, <2>1, <2>2, <2>3, <2>4, <2>5, TypesTogether
      DEF Restart, Started, ServerTyped, serverVars
  <1>3. ASSUME NEW t \in Token, Expire(t) PROVE Typed'
    BY <1>1, <1>3, TypesTogether
    DEF Expire, StoresTyped, ServerTyped, FlagsTyped, CallsTyped, storeVars, flagVars
  <1>4. CASE UNCHANGED vars
    BY <1>1, <1>4, TypesTogether
    DEF vars, StoresTyped, ServerTyped, FlagsTyped, CallsTyped, storeVars, flagVars, serverVars
  <1> QED
    BY <1>2, <1>3, <1>4

(* Every step keeps the types.                                              *)
LEMMA TypesKept == Typed /\ [Next]_vars => Typed'
  <1> SUFFICES ASSUME Typed, [Next]_vars PROVE Typed'
    OBVIOUS
  <1>1. CASE VerifyOtp \/ StoreSignIn
    BY <1>1, SignInTypes
  <1>2. CASE RotateAccessToken \/ RefreshLost
    BY <1>2, RotationTypes
  <1>3. CASE PressLogout
    BY <1>3, LeaveTypes DEF Caller
  <1>4. ASSUME NEW q \in Request, IssueCall(q) \/ HandleCall(q) \/ CallLost(q) PROVE Typed'
    BY <1>4, CallTypes
  <1>5. ASSUME NEW c \in Caller, LeaveSession(c) \/ RevokeLost(c) PROVE Typed'
    BY <1>5, LeaveTypes
  <1>6. CASE Restart \/ (\E t \in Token : Expire(t)) \/ UNCHANGED vars
    BY <1>6, OtherTypes
  <1> QED
    BY <1>1, <1>2, <1>3, <1>4, <1>5, <1>6 DEF Next

-----------------------------------------------------------------------------
(* Whatever is written under the sign-in screens has an end.                *)
LEMMA PendingKept ==
    ASSUME Typed, WritesPending, [Next]_vars, trouble = 0, trouble' = 0
    PROVE  WritesPending'
  <1>1. signIn \in SignIns /\ refresh \in Refreshes /\ ui \in MaybeToken
    BY TypesApart DEF StoresTyped
  <1>2. CASE UNCHANGED <<mem, disk, ui, signIn>> /\ (refresh' = refresh \/ refresh.at \notin {"access", "stored"})
    BY <1>2 DEF WritesPending
  <1>3. CASE VerifyOtp
    BY <1>1, <1>3, SignInShape DEF VerifyOtp, WritesPending, storeVars
  <1>4. CASE CompleteAuth \/ CompleteAuthRefresh
    <2>1. signIn # Idle /\ signIn \in [at : {"verified", "stored", "complete"}, tok : Token]
      BY <1>1, <1>4, SignInShape DEF CompleteAuth, CompleteAuthRefresh
    <2>2. signIn'.at \in {"stored", "complete"}
      BY <1>4, <2>1 DEF CompleteAuth, CompleteAuthRefresh
    <2> QED
      BY <2>2 DEF WritesPending
  <1>5. CASE SignedIn
    <2>1. signIn.tok \in Token
      BY <1>1, <1>5, SignInShape DEF SignedIn
    <2> QED
      BY <1>5, <2>1, Tokens DEF SignedIn, WritesPending
  <1>6. CASE PersistSession \/ PersistRefresh \/ PersistChecked
    <2>1. refresh \in [at : {"post", "reply", "access", "stored"}, tok : Token, epoch : Nat]
      BY <1>1, <1>6, RefreshShape DEF PersistSession, PersistRefresh, PersistChecked
    <2>2. CASE PersistSession
      BY <2>1, <2>2 DEF PersistSession, Proceed, WritesPending, storeVars
    <2>3. CASE PersistRefresh
      BY <2>1, <2>3 DEF PersistRefresh, Proceed, WritesPending
    <2>4. CASE PersistChecked
      BY <2>1, <2>4, Tokens DEF PersistChecked, WritesPending, storeVars
    <2> QED
      BY <1>6, <2>2, <2>3, <2>4
  <1>7. ASSUME NEW c \in Caller, ClearLocalSession(c) PROVE WritesPending'
    BY <1>7 DEF ClearLocalSession, WritesPending
  <1>8. CASE RefreshPost \/ ServerRefresh
    BY <1>2, <1>8 DEF RefreshPost, ServerRefresh, storeVars
  <1>9. ASSUME NEW q \in Request, IssueCall(q) \/ HandleCall(q) \/ CallLost(q) PROVE WritesPending'
    <2>1. UNCHANGED <<mem, disk, ui, signIn>>
      BY <1>9 DEF IssueCall, HandleCall, CallLost, Answered, Denied, Retry, OnUnauthorized, storeVars
    <2>2. refresh' = refresh \/ refresh.at \notin {"access", "stored"}
      BY <1>1, <1>9, RefreshShape
      DEF IssueCall, HandleCall, CallLost, Answered, Denied, Retry, OnUnauthorized
    <2> QED
      BY <1>2, <2>1, <2>2
  <1>10. ASSUME NEW c \in Caller, RevokeSession(c) PROVE WritesPending'
    BY <1>2, <1>10 DEF RevokeSession, EndLogout, storeVars
  <1>11. CASE PressLogout \/ (\E t \in Token : Expire(t)) \/ UNCHANGED vars
    BY <1>2, <1>11 DEF PressLogout, Expire, vars, storeVars
  <1>12. ~ RefreshLost /\ ~ Restart /\ \A c \in Caller : ~ RevokeLost(c)
    BY DEF RefreshLost, Restart, RevokeLost
  <1> QED
    BY <1>3, <1>4, <1>5, <1>6, <1>7, <1>8, <1>9, <1>10, <1>11, <1>12
    DEF Next, StoreSignIn, RotateAccessToken, LeaveSession

-----------------------------------------------------------------------------
(* As long as nothing goes wrong.                                           *)

(* Steps of the requests that touch neither tokens nor sign-outs.           *)
LEMMA QuietStep ==
    ASSUME Undisturbed,
           UNCHANGED <<mem, disk, ui, allowed, epoch, refresh, logout, signIn, gen, open, reused>>,
           \/ ui # None \/ ~ allowed
           \/ (\A q \in Request : call[q] = Idle) => \A q \in Request : call'[q] = Idle
    PROVE  Undisturbed'
  <1>1. Stores' /\ Held'
    BY DEF Undisturbed, Stores, Held, Busy, Revokes
  <1>2. Phases'
    BY DEF Undisturbed, Phases, Busy
  <1> QED
    BY <1>1, <1>2 DEF Undisturbed

(* A sign-in opens a family nobody has presented a token of.                *)
LEMMA SignInUndisturbed ==
    ASSUME Typed, Undisturbed, VerifyOtp \/ StoreSignIn, ~ crossed'
    PROVE  Undisturbed'
  <1>1. signIn \in SignIns /\ refresh \in Refreshes /\ ui \in MaybeToken /\ gen \in [Family -> 0..MaxGen]
    BY TypesApart DEF StoresTyped, ServerTyped
  <1>2. CASE VerifyOtp
    <2>1. /\ ui = None /\ signIn = Idle /\ NewFamily \in Family
          /\ \A c \in Caller : logout[c].at # "await"
          /\ gen' = [gen EXCEPT ![NewFamily] = 1] /\ open' \subseteq open \cup {NewFamily}
          /\ signIn' = [at |-> "verified", tok |-> <<NewFamily, 1>>]
          /\ UNCHANGED <<mem, disk, ui, allowed, epoch, refresh, call, logout, reused>>
      BY <1>2 DEF VerifyOtp, storeVars, flagVars
    <2>2. refresh = Idle /\ mem = Empty /\ disk = Empty /\ signIn' # Idle
      BY <1>1, <2>1, SignInShape DEF Undisturbed, Phases, Stores, Idle
    <2>3. Stores'
      BY <1>1, <2>1, <2>2 DEF Stores, Idle
    <2>4. Phases'
      BY <2>1, <2>2 DEF Undisturbed, Phases, Busy
    <2>5. Held'
      BY <2>1, <2>2 DEF Undisturbed, Held, Busy, Revokes
    <2> QED
      BY <2>1, <2>3, <2>4, <2>5 DEF Undisturbed
  <1>3. CASE StoreSignIn
    <2>1. signIn \in [at : {"verified", "stored", "complete"}, tok : Token] /\ signIn # Idle
      BY <1>1, <1>3, SignInShape DEF StoreSignIn, CompleteAuth, CompleteAuthRefresh, SignedIn
    <2>2. ui = None /\ refresh = Idle
      BY <2>1 DEF Undisturbed, Phases
    <2>3. refresh' = Idle /\ UNCHANGED <<epoch, logout, gen, open, reused, call>> /\ Idle.at = "idle"
      BY <1>3, <2>2 DEF StoreSignIn, CompleteAuth, CompleteAuthRefresh, SignedIn, flagVars, serverVars, Idle
    <2>4. Busy = {} /\ Busy' = Busy
      BY <1>3, <2>3
      DEF StoreSignIn, CompleteAuth, CompleteAuthRefresh, SignedIn, Undisturbed, Phases, Busy
    <2>5. CASE CompleteAuth
      <3>1. /\ signIn' = [at |-> "stored", tok |-> signIn.tok] /\ signIn' # Idle
            /\ mem' = Pair(signIn.tok) /\ disk' = [access |-> signIn.tok, refresh |-> None]
            /\ UNCHANGED <<ui, allowed>>
        BY <2>1, <2>2, <2>5 DEF CompleteAuth, SetSession, Undisturbed, Stores, Empty, Idle, flagVars
      <3>2. Stores'
        BY <2>1, <2>2, <2>3, <3>1 DEF Undisturbed, Stores
      <3>3. Phases' /\ Held'
        BY <2>1, <2>2, <2>3, <2>4, <3>1 DEF Undisturbed, Phases, Held, Busy
      <3> QED
        BY <2>3, <3>2, <3>3 DEF Undisturbed
    <2>6. CASE CompleteAuthRefresh
      <3>1. /\ signIn' = [at |-> "complete", tok |-> signIn.tok] /\ signIn' # Idle
            /\ mem' = Pair(signIn.tok) /\ disk' = Pair(signIn.tok)
            /\ UNCHANGED <<ui, allowed>>
        BY <2>1, <2>2, <2>6 DEF CompleteAuthRefresh, StoreRefresh, Pair, Undisturbed, Stores, Idle, flagVars
      <3>2. Stores'
        BY <2>1, <2>2, <2>3, <3>1 DEF Undisturbed, Stores
      <3>3. Phases' /\ Held'
        BY <2>1, <2>2, <2>3, <2>4, <3>1 DEF Undisturbed, Phases, Held, Busy
      <3> QED
        BY <2>3, <3>2, <3>3 DEF Undisturbed
    <2>7. CASE SignedIn
      <3>1. /\ signIn' = Idle /\ ui' = signIn.tok /\ allowed' = TRUE /\ UNCHANGED <<mem, disk>>
            /\ mem = Pair(signIn.tok) /\ disk = Pair(signIn.tok) /\ ui' # None
            /\ gen[signIn.tok[1]] = signIn.tok[2]
        BY <2>1, <2>2, <2>7, Tokens DEF SignedIn, Undisturbed, Stores, storeVars
      <3>2. Stores'
        BY <2>1, <2>3, <3>1 DEF Stores
      <3>3. Phases' /\ Held'
        BY <2>1, <2>2, <2>3, <2>4, <3>1 DEF Undisturbed, Phases, Held, Busy
      <3> QED
        BY <2>3, <3>2, <3>3 DEF Undisturbed
    <2> QED
      BY <1>3, <2>5, <2>6, <2>7 DEF StoreSignIn
  <1> QED
    BY <1>2, <1>3

(* A sign-out reads the refresh token of the family that is shown, wherever *)
(* a refresh stands.                                                        *)
LEMMA ReadToRevoke ==
    ASSUME Typed, Undisturbed, ui # None, allowed
    PROVE  Stored("refresh") # None /\ Stored("refresh")[1] = ui[1]
  <1>1. refresh \in Refreshes /\ ui \in Token
    BY TypesApart DEF StoresTyped, MaybeToken
  <1>2. refresh.at \in {"idle", "read", "post", "reply", "access", "stored"}
        /\ (refresh.at = "idle" => refresh = Idle)
        /\ (refresh.at \in {"access", "stored"} => refresh.tok \in Token)
    BY <1>1, RefreshShape
  <1>3. CASE refresh.at \in {"idle", "read", "post", "reply"}
    <2>1. mem.refresh = ui
      BY <1>2, <1>3 DEF Undisturbed, Stores, Pair
    <2> QED
      BY <1>1, <2>1, Tokens DEF Stored
  <1>4. CASE refresh.at \in {"access", "stored"}
    <2>1. mem.refresh = refresh.tok /\ refresh.tok[1] = ui[1]
      BY <1>4 DEF Undisturbed, Stores, Pair
    <2> QED
      BY <1>2, <1>4, <2>1, Tokens DEF Stored
  <1> QED
    BY <1>2, <1>3, <1>4

(* A sign-out begins: the epoch moves on and what is in flight is void.     *)
LEMMA BeginLogoutUndisturbed ==
    ASSUME Typed, Undisturbed, NEW c \in Caller, logout[c] = Idle, BeginLogout(c), ~ crossed',
           UNCHANGED <<mem, disk, ui, refresh, signIn, gen, open, reused>>
    PROVE  Undisturbed'
  <1>1. /\ refresh \in Refreshes /\ signIn \in SignIns /\ DOMAIN logout = Caller
    BY TypesApart DEF CallsTyped
  <1>2. /\ allowed' = FALSE /\ signIn.at \notin {"stored", "complete"}
        /\ logout'[c] = [at |-> "await", tok |-> Stored("refresh"),
                         epoch |-> IF refresh = Idle THEN None ELSE refresh.epoch]
        /\ \A d \in Caller \ {c} : logout'[d] = logout[d]
    BY <1>1 DEF BeginLogout
  <1>3. logout'[c] # Idle /\ logout'[c].at = "await" /\ Busy' = Busy \cup {c} /\ c \notin Busy
    BY <1>2 DEF Busy, Idle
  <1>4. refresh # Idle => logout'[c].epoch = refresh.epoch
    BY <1>2
  <1>5. Stores'
    BY <1>2 DEF Undisturbed, Stores
  <1>6. Phases'
    <2>1. ui # None => \A d \in Busy' : logout'[d].at = "await"
      BY <1>2, <1>3 DEF Undisturbed, Phases, Busy
    <2>2. refresh # Idle => \A d \in Busy' : logout'[d].epoch = refresh.epoch
      BY <1>2, <1>3, <1>4 DEF Undisturbed, Phases, Busy
    <2> QED
      BY <1>2, <2>1, <2>2 DEF Undisturbed, Phases
  <1>7. Held'
    <2>1. \A f \in Family : \A d \in Busy : Revokes(d, f) => d \in Busy' /\ Revokes(d, f)'
      BY <1>2, <1>3 DEF Busy, Revokes
    <2>2. ui # None => \E d \in Busy' : Revokes(d, ui[1])'
      <3>1. SUFFICES ASSUME ui # None PROVE \E d \in Busy' : Revokes(d, ui[1])'
        OBVIOUS
      <3>2. ui \in Token /\ ui[1] \in Family
        BY <3>1, TypesApart, Tokens DEF StoresTyped, MaybeToken
      <3>3. CASE allowed
        BY <1>2, <1>3, <3>1, <3>3, ReadToRevoke DEF Revokes
      <3>4. CASE ~ allowed
        BY <2>1, <3>1, <3>2, <3>4 DEF Undisturbed, Held
      <3> QED
        BY <3>3, <3>4
    <2>3. open \subseteq Family
      BY TypesApart DEF ServerTyped
    <2> QED
      BY <2>1, <2>2, <2>3 DEF Undisturbed, Held
  <1> QED
    BY <1>5, <1>6, <1>7 DEF Undisturbed

(* A call answered 401 joins the refresh in flight or starts one with the   *)
(* token stored.                                                            *)
LEMMA CallUndisturbed ==
    ASSUME Typed, Undisturbed, NEW q \in Request, IssueCall(q) \/ HandleCall(q), ~ crossed'
    PROVE  Undisturbed'
  <1>1. /\ refresh \in Refreshes /\ signIn \in SignIns /\ CallsTyped /\ call[q] \in Calls
        /\ q \in Caller /\ ui \in MaybeToken
    BY TypesApart DEF CallsTyped, Caller, StoresTyped
  <1>2. CASE IssueCall(q)
    BY <1>2, QuietStep DEF IssueCall, storeVars, flagVars, serverVars
  <1>3. CASE Answered(q) \/ Retry(q)
    <2>1. call[q] # Idle
      BY <1>1, <1>3, CallShape DEF Answered, Retry
    <2> QED
      BY <1>3, <2>1, QuietStep DEF Answered, Retry, storeVars, flagVars, serverVars
  <1>4. CASE Denied(q)
    <2>1. call[q] # Idle /\ (ui # None \/ ~ allowed)
      BY <1>1, <1>4, CallShape DEF Denied, Undisturbed, Phases
    <2>2. UNCHANGED <<mem, disk, ui, allowed, epoch, logout, signIn, gen, open, reused>>
      BY <1>4 DEF Denied, storeVars, flagVars, serverVars
    <2>3. CASE refresh' = refresh
      BY <2>1, <2>2, <2>3, QuietStep
    <2>4. CASE refresh = Idle /\ allowed /\ refresh' = [at |-> "read", tok |-> Stored("refresh"), epoch |-> epoch]
      <3>1. ui \in Token /\ ui # None
        BY <1>1, <2>1, <2>4 DEF MaybeToken
      <3>2. mem = Pair(ui) /\ disk = Pair(ui) /\ gen[ui[1]] = ui[2]
        BY <2>4, <3>1 DEF Undisturbed, Stores
      <3>3. Stored("refresh") = ui
        BY <3>1, <3>2 DEF Stored, Pair
      <3>4. signIn = Idle /\ signIn.at = "idle" /\ refresh' # Idle
        BY <2>4, <3>1 DEF Undisturbed, Phases, Idle
      <3>5. Stores'
        BY <2>2, <2>4, <3>1, <3>2, <3>3, <3>4 DEF Stores
      <3>6. Phases'
        BY <2>2, <2>4, <3>1, <3>4 DEF Undisturbed, Phases, Busy
      <3>7. Held'
        BY <2>2 DEF Undisturbed, Held, Busy, Revokes
      <3> QED
        BY <2>2, <3>5, <3>6, <3>7 DEF Undisturbed
    <2> QED
      BY <1>4, <2>3, <2>4 DEF Denied
  <1>5. CASE OnUnauthorized(q)
    <2>1. logout[q] = Idle
      BY <1>1, <1>5 DEF CallsTyped, OnUnauthorized
    <2> QED
      BY <1>1, <1>5, <2>1, BeginLogoutUndisturbed DEF OnUnauthorized, storeVars, serverVars
  <1> QED
    BY <1>2, <1>3, <1>4, <1>5 DEF HandleCall

(* The steps of a refresh: it stays one generation ahead of the screens     *)
(* until it ends.                                                           *)
LEMMA RotationUndisturbed ==
    ASSUME Typed, Undisturbed, RotateAccessToken
    PROVE  Undisturbed'
  <1>1. /\ refresh \in Refreshes /\ signIn \in SignIns /\ ui \in MaybeToken /\ allowed = live
        /\ gen \in [Family -> 0..MaxGen] /\ Idle.at = "idle" /\ live \in BOOLEAN
    BY TypesApart DEF StoresTyped, ServerTyped, FlagsTyped, Idle
  <1>2. refresh # Idle /\ refresh.at \in {"read", "post", "reply", "access", "stored"}
    BY DEF RotateAccessToken, RefreshPost, ServerRefresh, PersistSession, PersistRefresh,
       PersistChecked, Idle
  <1>3. UNCHANGED <<allowed, epoch, logout, signIn>> /\ open' \subseteq open /\ Busy' = Busy
    BY DEF RotateAccessToken, RefreshPost, ServerRefresh, PersistSession, PersistRefresh,
       PersistChecked, flagVars, serverVars, Busy
  <1>4. ui # None /\ ui \in Token /\ signIn = Idle /\ signIn.at = "idle"
    BY <1>1, <1>2 DEF Undisturbed, Phases, MaybeToken
  <1>5. refresh.at # "read" =>
          refresh \in [at : {"post", "reply", "access", "stored"}, tok : Token, epoch : Nat]
    BY <1>1, <1>2, RefreshShape
  <1>6. Held' \/ ui' # ui
    BY <1>3 DEF Undisturbed, Held, Revokes
  <1>7. Phases' \/ ui' = None \/ (refresh' # Idle /\ refresh'.epoch # refresh.epoch)
    BY <1>2, <1>3, <1>4 DEF Undisturbed, Phases
  <1>8. CASE /\ UNCHANGED <<mem, disk, ui, gen, reused>> /\ refresh.at \in {"read", "post"}
             /\ refresh' = Idle
    BY <1>1, <1>3, <1>4, <1>6, <1>7, <1>8 DEF Undisturbed, Stores
  <1>9. CASE RefreshPost
    <2>1. refresh = [at |-> "read", tok |-> refresh.tok, epoch |-> refresh.epoch]
      BY <1>1, <1>9, RefreshShape DEF RefreshPost
    <2>2. CASE Proceed("post")
      <3>1. refresh' = [at |-> "post", tok |-> refresh.tok, epoch |-> refresh.epoch]
        BY <2>1, <2>2 DEF Proceed
      <3>2. Stores'
        BY <1>3, <1>4, <1>9, <3>1 DEF RefreshPost, Undisturbed, Stores, storeVars, serverVars, Idle
      <3> QED
        BY <1>4, <1>6, <1>7, <1>9, <3>1, <3>2 DEF RefreshPost, Undisturbed, serverVars
    <2> QED
      BY <1>8, <1>9, <2>2 DEF RefreshPost, EndRefresh, storeVars, serverVars
  <1>10. CASE ServerRefresh
    <2>1. refresh.tok = ui /\ gen[ui[1]] = ui[2] /\ ui[1] \in Family /\ ui[2] \in Nat
      BY <1>4, <1>10, Tokens DEF ServerRefresh, Undisturbed, Stores
    <2>2. UNCHANGED <<mem, disk, ui>>
      BY <1>10 DEF ServerRefresh, storeVars
    <2>3. CASE /\ gen' = [gen EXCEPT ![ui[1]] = ui[2] + 1] /\ reused' = reused
               /\ refresh' = [refresh EXCEPT !.at = "reply", !.tok = <<ui[1], ui[2] + 1>>]
      <3>1. refresh' = [at |-> "reply", tok |-> <<ui[1], ui[2] + 1>>, epoch |-> refresh.epoch]
        BY <1>5, <1>10, <2>3 DEF ServerRefresh
      <3>2. gen'[ui[1]] = ui[2] + 1 /\ refresh' # Idle
        BY <1>1, <2>1, <2>3, <3>1 DEF Idle
      <3>3. Stores'
        BY <1>3, <1>4, <1>10, <2>2, <3>1, <3>2 DEF ServerRefresh, Undisturbed, Stores
      <3> QED
        BY <1>4, <1>6, <1>7, <2>2, <2>3, <3>1, <3>3 DEF Undisturbed
    <2>4. CASE EndRefresh(None) /\ gen' = gen /\ reused' = reused
      BY <1>8, <1>10, <2>2, <2>4 DEF ServerRefresh, EndRefresh
    <2> QED
      BY <1>10, <2>1, <2>3, <2>4 DEF ServerRefresh
  <1>11. CASE PersistSession
    <2>1. /\ refresh.at = "reply" /\ mem = Pair(ui) /\ disk = Pair(ui) /\ refresh.tok \in Token
          /\ refresh.tok[1] = ui[1] /\ gen[ui[1]] = refresh.tok[2]
          /\ UNCHANGED <<ui, gen, reused>>
      BY <1>5, <1>11 DEF PersistSession, Undisturbed, Stores, serverVars
    <2>2. CASE Proceed("access") /\ SetSession(refresh.tok)
      <3>1. /\ refresh' = [at |-> "access", tok |-> refresh.tok, epoch |-> refresh.epoch]
            /\ refresh' # Idle
        BY <1>5, <2>1, <2>2 DEF Proceed, Idle
      <3>2. mem' = Pair(refresh.tok) /\ disk' = [access |-> refresh.tok, refresh |-> ui]
        BY <2>1, <2>2 DEF SetSession, Pair
      <3>3. Stores'
        BY <1>3, <1>4, <2>1, <3>1, <3>2 DEF Stores
      <3> QED
        BY <1>4, <1>6, <1>7, <2>1, <3>1, <3>3 DEF Undisturbed
    <2>3. CASE ~ Current \/ ~ live
      <3>1. ~ allowed /\ refresh' = Idle /\ UNCHANGED <<mem, disk>>
        BY <1>1, <1>2, <1>11, <2>3
        DEF PersistSession, Undisturbed, Phases, Current, EndRefresh, storeVars
      <3>2. Stores'
        BY <1>1, <1>3, <1>4, <2>1, <3>1 DEF Stores
      <3> QED
        BY <1>4, <1>6, <1>7, <2>1, <3>1, <3>2 DEF Undisturbed
    <2> QED
      BY <1>11, <2>2, <2>3 DEF PersistSession
  <1>12. CASE PersistRefresh
    <2>1. /\ refresh.at = "access" /\ mem = Pair(refresh.tok) /\ refresh.tok \in Token
          /\ disk = [access |-> refresh.tok, refresh |-> ui]
          /\ refresh.tok[1] = ui[1] /\ gen[ui[1]] = refresh.tok[2]
          /\ UNCHANGED <<mem, ui, gen, reused>>
      BY <1>5, <1>12 DEF PersistRefresh, Undisturbed, Stores, serverVars
    <2>2. /\ refresh' = [at |-> "stored", tok |-> refresh.tok, epoch |-> refresh.epoch]
          /\ refresh' # Idle
      BY <1>5, <1>12, <2>1 DEF PersistRefresh, Proceed, Idle
    <2>3. disk' = Pair(refresh.tok)
      BY <1>12, <2>1 DEF PersistRefresh, StoreRefresh, Pair
    <2>4. Stores'
      BY <1>3, <1>4, <2>1, <2>2, <2>3 DEF Stores
    <2> QED
      BY <1>4, <1>6, <1>7, <2>1, <2>2, <2>4 DEF Undisturbed
  <1>13. CASE PersistChecked
    <2>1. /\ mem = Pair(refresh.tok) /\ disk = Pair(refresh.tok) /\ refresh.tok \in Token
          /\ refresh.tok[1] = ui[1] /\ gen[ui[1]] = refresh.tok[2] /\ refresh.tok # None
          /\ refresh' = Idle /\ UNCHANGED <<gen, reused, open>>
      BY <1>5, <1>13, Tokens DEF PersistChecked, Undisturbed, Stores, serverVars, EndRefresh
    <2>2. CASE live
      <3>1. ui' = refresh.tok /\ UNCHANGED <<mem, disk>> /\ allowed
        BY <1>1, <1>13, <2>2 DEF PersistChecked, storeVars
      <3>2. Stores'
        BY <1>1, <1>3, <1>4, <2>1, <3>1 DEF Stores
      <3>3. Held'
        BY <1>3, <1>4, <2>1, <3>1 DEF Undisturbed, Held, Revokes
      <3> QED
        BY <1>7, <2>1, <3>1, <3>2, <3>3 DEF Undisturbed
    <2>3. CASE ~ live
      <3>1. ui' = ui /\ mem' = Empty /\ disk' = Empty /\ ~ allowed
        BY <1>1, <1>13, <2>3 DEF PersistChecked
      <3>2. Stores'
        BY <1>1, <1>3, <1>4, <2>1, <3>1 DEF Stores
      <3> QED
        BY <1>4, <1>6, <1>7, <2>1, <3>1, <3>2 DEF Undisturbed
    <2> QED
      BY <2>2, <2>3
  <1> QED
    BY <1>9, <1>10, <1>11, <1>12, <1>13 DEF RotateAccessToken

(* A sign-out revokes the family it took the token of.                      *)
LEMMA LeaveUndisturbed ==
    ASSUME Typed, Undisturbed, NEW c \in Caller, LeaveSession(c)
    PROVE  Undisturbed'
  <1>1. /\ refresh \in Refreshes /\ signIn \in SignIns /\ ui \in MaybeToken /\ CallsTyped
        /\ logout[c] \in Logouts /\ open \subseteq Family
    BY TypesApart DEF StoresTyped, CallsTyped, ServerTyped
  <1>2. logout[c] # Idle /\ c \in Busy /\ logout[c].at \in {"await", "revoke"}
        /\ logout[c] \in [at : {"await", "revoke"}, tok : MaybeToken, epoch : Nat \cup {None}]
    BY <1>1, LogoutShape DEF LeaveSession, ClearLocalSession, RevokeSession, Busy
  <1>3. ~ allowed /\ (refresh # Idle => logout[c].epoch = refresh.epoch)
        /\ signIn.at \notin {"stored", "complete"}
    BY <1>2 DEF Undisturbed, Phases
  <1>4. CASE ClearLocalSession(c)
    <2>1. refresh = Idle
      BY <1>3, <1>4 DEF ClearLocalSession
    <2>2. /\ ui' = None /\ mem' = Empty /\ disk' = Empty
          /\ UNCHANGED <<allowed, epoch, refresh, call, signIn, gen, open, reused>>
          /\ logout' = [logout EXCEPT ![c] = [logout[c] EXCEPT !.at = "revoke"]]
      BY <1>4 DEF ClearLocalSession, flagVars, serverVars
    <2>3. /\ Busy' = Busy
          /\ \A d \in Busy : \A f \in Family : Revokes(d, f) => Revokes(d, f)'
      <3>1. logout'[c] = [logout[c] EXCEPT !.at = "revoke"] /\ logout'[c].tok = logout[c].tok
            /\ logout'[c] # Idle
        BY <1>1, <1>2, <2>2 DEF CallsTyped, Idle
      <3>2. \A d \in Caller \ {c} : logout'[d] = logout[d]
        BY <1>1, <2>2 DEF CallsTyped
      <3> QED
        BY <1>2, <3>1, <3>2 DEF Busy, Revokes
    <2>4. Stores'
      BY <1>1, <1>3, <2>1, <2>2, SignInShape DEF Undisturbed, Stores, Idle
    <2>5. Phases'
      BY <1>3, <2>1, <2>2 DEF Undisturbed, Phases
    <2>6. Held'
      BY <1>1, <1>3, <2>2, <2>3 DEF Undisturbed, Held
    <2> QED
      BY <2>2, <2>4, <2>5, <2>6 DEF Undisturbed
  <1>5. CASE RevokeSession(c)
    <2>1. ui = None
      BY <1>2, <1>5 DEF RevokeSession, Undisturbed, Phases
    <2>2. refresh = Idle
      BY <2>1 DEF Undisturbed, Phases
    <2>3. /\ UNCHANGED <<ui, mem, disk, allowed, epoch, refresh, signIn, gen, reused>>
          /\ open' = IF logout[c].tok = None THEN open ELSE open \ {logout[c].tok[1]}
          /\ logout'[c] = Idle /\ \A d \in Caller \ {c} : logout'[d] = logout[d]
      BY <1>1, <1>5 DEF RevokeSession, EndLogout, flagVars, storeVars, CallsTyped
    <2>4. Busy' = Busy \ {c}
      BY <2>3 DEF Busy
    <2>5. Stores'
      BY <2>3 DEF Undisturbed, Stores
    <2>6. Phases'
      BY <1>3, <2>1, <2>2, <2>3, <2>4 DEF Undisturbed, Phases
    <2>7. Held'
      BY <2>1, <2>3, <2>4 DEF Undisturbed, Held, Revokes, Busy
    <2> QED
      BY <2>3, <2>5, <2>6, <2>7 DEF Undisturbed
  <1> QED
    BY <1>4, <1>5 DEF LeaveSession

(* With no answer lost and no sign-out running into a sign-in, the token    *)
(* stored stays the one the server expects.                                 *)
LEMMA UndisturbedKept ==
    ASSUME Typed, Undisturbed, [Next]_vars, trouble = 0, trouble' = 0, ~ crossed'
    PROVE  Undisturbed'
  <1>1. ~ RefreshLost /\ ~ Restart /\ (\A c \in Caller : ~ RevokeLost(c))
        /\ \A q \in Request : ~ CallLost(q)
    BY DEF RefreshLost, Restart, RevokeLost, CallLost
  <1>2. CASE VerifyOtp \/ StoreSignIn
    BY <1>2, SignInUndisturbed
  <1>3. CASE RotateAccessToken
    BY <1>3, RotationUndisturbed
  <1>4. CASE PressLogout
    BY <1>4, BeginLogoutUndisturbed DEF PressLogout, Caller, storeVars, serverVars
  <1>5. ASSUME NEW q \in Request, IssueCall(q) \/ HandleCall(q) PROVE Undisturbed'
    BY <1>5, CallUndisturbed
  <1>6. ASSUME NEW c \in Caller, LeaveSession(c) PROVE Undisturbed'
    BY <1>6, LeaveUndisturbed
  <1>7. CASE (\E t \in Token : Expire(t)) \/ UNCHANGED vars
    BY <1>7, QuietStep DEF Expire, vars, storeVars, flagVars, serverVars
  <1> QED
    BY <1>1, <1>2, <1>3, <1>4, <1>5, <1>6, <1>7 DEF Next

(* A lost answer, a restart and a crossing are never forgotten.             *)
LEMMA NeverForgotten ==
    ASSUME Typed, [Next]_vars
    PROVE  (trouble' = 0 => trouble = 0) /\ (~ crossed' => ~ crossed)
  <1>1. trouble \in Nat
    BY TypesApart DEF FlagsTyped
  <1>2. trouble' = trouble \/ trouble' = trouble + 1
    BY DEF Next, VerifyOtp, StoreSignIn, CompleteAuth, CompleteAuthRefresh, SignedIn,
       RotateAccessToken, RefreshPost, ServerRefresh, PersistSession, PersistRefresh,
       PersistChecked, RefreshLost, PressLogout, BeginLogout, Restart, IssueCall, HandleCall,
       Answered, Denied, Retry, OnUnauthorized, CallLost, Expire, LeaveSession,
       ClearLocalSession, RevokeSession, RevokeLost, EndLogout, vars
  <1>3. crossed => crossed'
    BY DEF Next, VerifyOtp, StoreSignIn, CompleteAuth, CompleteAuthRefresh, SignedIn,
       RotateAccessToken, RefreshPost, ServerRefresh, PersistSession, PersistRefresh,
       PersistChecked, RefreshLost, PressLogout, BeginLogout, Restart, IssueCall, HandleCall,
       Answered, Denied, Retry, OnUnauthorized, CallLost, Expire, LeaveSession,
       ClearLocalSession, RevokeSession, RevokeLost, EndLogout, vars
  <1> QED
    BY <1>1, <1>2, <1>3

-----------------------------------------------------------------------------
(* The app starts signed out, with an empty store.                          *)
LEMMA InitInvariant == Init => IInv
  <1> SUFFICES ASSUME Init PROVE IInv
    OBVIOUS
  <1>1. Typed
    BY InitTyped
  <1>2. Busy = {} /\ Idle.at = "idle"
    BY DEF Init, Busy, Idle
  <1>3. Stores /\ Phases /\ Held
    BY <1>2 DEF Init, Stores, Phases, Held
  <1> QED
    BY <1>1, <1>3 DEF IInv, Typed, Undisturbed, WritesPending, Init

(* Every step keeps the invariant.                                          *)
LEMMA NextInvariant == IInv /\ [Next]_vars => IInv'
  BY TypesKept, PendingKept, UndisturbedKept, NeverForgotten DEF IInv, Typed

(* The inductive invariant: what is stored is what the screens show, ahead  *)
(* of it by what a refresh has written, or gone; whoever leaves will revoke *)
(* the family that is open.                                                 *)
THEOREM Invariance == Spec => []IInv
  BY InitInvariant, NextInvariant, PTL DEF Spec

(* SessionSound: once everything has come to rest, an app that shows the    *)
(* sign-in screens holds no credentials, and every session that the server  *)
(* still has open is the one the app holds the live token of (logout's      *)
(* order of clearing and revoking, abandonInFlightRefresh).                 *)
THEOREM SessionsStaySound == Spec => []SessionSound
  <1>1. IInv => SessionSound
    <2> SUFFICES ASSUME IInv PROVE SessionSound
      OBVIOUS
    <2>1. TypeOK
      BY DEF IInv
    <2>2. SignedOutIsEmpty
      BY DEF IInv, SignedOutIsEmpty, AtRest, WritesPending, Idle
    <2>3. OpenIsHeld
      <3> SUFFICES ASSUME AtRest, trouble = 0, ~ crossed, NEW f \in open
                   PROVE  mem.refresh = <<f, gen[f]>>
        BY DEF OpenIsHeld
      <3>1. Undisturbed /\ refresh = Idle /\ signIn = Idle /\ Busy = {}
        BY DEF IInv, AtRest
      <3>2. ui # None /\ ui[1] = f /\ allowed
        BY <3>1 DEF Undisturbed, Held
      <3>3. mem = Pair(ui) /\ gen[ui[1]] = ui[2]
        BY <3>1, <3>2 DEF Undisturbed, Stores
      <3>4. ui \in Token
        BY <2>1, <3>2 DEF TypeOK, MaybeToken
      <3> QED
        BY <3>2, <3>3, <3>4, Tokens DEF Pair
    <2> QED
      BY <2>1, <2>2, <2>3 DEF SessionSound
  <1> QED
    BY <1>1, Invariance, PTL

(* StoreMatchesScreen: at rest the token of the screens is the one that     *)
(* requests carry and that a restart finds (completeAuth, persistSession).  *)
THEOREM StoreStaysWithScreen == Spec => []StoreMatchesScreen
  <1>1. IInv => StoreMatchesScreen
    BY DEF IInv, StoreMatchesScreen, AtRest, Undisturbed, Stores, Held
  <1> QED
    BY <1>1, Invariance, PTL

(* NoAccidentalReuse: with every answer received and no sign-out across a   *)
(* sign-in, rotateAccessToken presents no refresh token twice.              *)
THEOREM TokensArePresentedOnce == Spec => []NoAccidentalReuse
  <1>1. IInv => NoAccidentalReuse
    BY DEF IInv, NoAccidentalReuse, Undisturbed, StateTyped
  <1> QED
    BY <1>1, Invariance, PTL

-----------------------------------------------------------------------------
(* The sign-in screens.                                                    *)

(* What a request in flight is.                                            *)
InFlightCall ==
    [kind : {"request", "resend", "verify"}, phone : Phone, otp : Code \cup {WrongCode, Unset},
     key : Code, at : {"prepare", "await", "sent", "ok", "refused"}, try : 1..MaxAttempts,
     mounted : BOOLEAN]
InputSet == [kind : {"request", "resend", "verify"}, phone : Phone, otp : Code \cup {WrongCode, Unset}]

Flying(s) == inFlight[s].kind # Unset
Verifying(s) == inFlight[s].kind = "verify"

SignInTyped ==
    /\ SignInTypeOK
    /\ cooling \in BOOLEAN
    /\ inFlight \in [Slot -> InFlightCall \cup {NoCall}]
    /\ \A s \in Slot : Verifying(s) => inFlight[s].otp # Unset
    /\ attempt # Unset => attempt.key <= keys
    /\ dropped \subseteq 1..keys
    /\ code \in [Phone -> Code \cup {Unset}] /\ used \in [Phone -> Code \cup {Unset}]
    /\ answers \in [DOMAIN answers -> InputSet]

DeviceSet == [stored : Ids \cup {Unset}, cached : Ids \cup {Unset}, made : Nat, loading : BOOLEAN, misread : BOOLEAN]
DeviceTyped ==
    /\ device \in DeviceSet
    /\ restarts \in 0..MaxRestarts
    /\ device.made <= restarts + (IF device.cached = Unset THEN 0 ELSE 1)

OneId ==
    /\ sentAs \subseteq {device.cached}
    /\ sentAs # {} => device.cached # Unset
    /\ device.stored # Unset /\ device.cached # Unset /\ ~ device.misread => device.stored = device.cached
    /\ \A s \in Slot : Flying(s) /\ inFlight[s].at = "await" /\ ~ device.loading => device.cached # Unset

(* The screen that a call belongs to, while it is mounted.                 *)
CallsOfScreens ==
    /\ screen # "verify" => attempt = Unset /\ otp = Unset
    /\ \A s \in Slot : inFlight[s].kind = "request" => screen # "verify" /\ inFlight[s].mounted
    /\ \A s, t \in Slot : inFlight[s].kind = "request" /\ inFlight[t].kind = "request" => s = t
    /\ \A s \in Slot : inFlight[s].kind \in {"verify", "resend"} /\ inFlight[s].mounted =>
           screen = "verify" /\ inFlight[s].phone = pending

AttemptNamesCall ==
    attempt # Unset =>
        /\ attempt.identity[1] = pending
        /\ \A s \in Slot : Flying(s) /\ inFlight[s].key = attempt.key =>
              Input(inFlight[s]) = [kind |-> "verify", phone |-> pending, otp |-> attempt.identity[2]]
        /\ attempt.key \in DOMAIN answers =>
              answers[attempt.key] = [kind |-> "verify", phone |-> pending, otp |-> attempt.identity[2]]

(* Every code that was entered was sent, and so was the current one.       *)
Sent == DOMAIN answers \cup {WrongCode}
CodesSent ==
    /\ otp \in Sent \cup {Unset}
    /\ attempt # Unset => attempt.identity[2] \in Sent
    /\ \A s \in Slot : Verifying(s) => inFlight[s].otp \in Sent
    /\ \A p \in Phone : code[p] \in DOMAIN answers \cup {Unset}

(* What succeeded is kept, and what was refused used no code.              *)
AnswersKept ==
    /\ \A s \in Slot : Flying(s) /\ inFlight[s].at = "ok" => inFlight[s].key \in DOMAIN answers
    /\ \A s \in Slot : Flying(s) /\ inFlight[s].at = "refused" => \A p \in Phone : used[p] # inFlight[s].key
    /\ \A p \in Phone : used[p] # Unset => used[p] \in DOMAIN answers

EntersCurrent(s) == Verifying(s) /\ inFlight[s].otp = code[inFlight[s].phone]
Accepted(s) == Flying(s) /\ inFlight[s].key \in DOMAIN answers

NewCodeUntouched ==
    \A s \in Slot : inFlight[s].kind = "request" /\ Accepted(s) =>
        /\ used[inFlight[s].phone] = Unset
        /\ \A t \in Slot : EntersCurrent(t) => inFlight[t].phone # inFlight[s].phone

ResentCode ==
    \A s \in Slot : inFlight[s].kind = "resend" /\ inFlight[s].mounted /\ Accepted(s) =>
        (attempt # Unset /\ attempt.key < inFlight[s].key => attempt.identity[2] # code[pending])

OldCalls ==
    \A s \in Slot : EntersCurrent(s) /\ ~ inFlight[s].mounted => screen # "verify" \/ inFlight[s].phone # pending

MountedCurrent ==
    \A s \in Slot : EntersCurrent(s) /\ inFlight[s].mounted =>
        \/ inFlight[s].key \in dropped
        \/ attempt # Unset /\ attempt.key = inFlight[s].key

OneCurrent ==
    \A s, t \in Slot : EntersCurrent(s) /\ EntersCurrent(t) /\ inFlight[s].phone = inFlight[t].phone => s = t

UsedByCurrent ==
    \A s \in Slot : EntersCurrent(s) =>
        used[inFlight[s].phone] \in {Unset, inFlight[s].key} \cup dropped

UsedByAttempt ==
    screen = "verify" =>
        \/ used[pending] \in {Unset} \cup dropped
        \/ attempt # Unset /\ attempt.identity = <<pending, code[pending]>> /\ attempt.key = used[pending]

Codes == /\ NewCodeUntouched /\ ResentCode /\ OldCalls /\ MountedCurrent
         /\ OneCurrent /\ UsedByCurrent /\ UsedByAttempt
Screens == CallsOfScreens /\ AttemptNamesCall /\ KeyNamesOneInput /\ CodesSent /\ Codes
SignInInv == SignInTyped /\ DeviceTyped /\ OneId /\ AnswersKept /\ Screens

(* The steps as the calls and the screens see them.  A call in flight      *)
(* after the step was in flight before it, and still mounted or not.       *)
SameCall(s) ==
    /\ Flying(s) /\ inFlight'[s].kind = inFlight[s].kind /\ inFlight'[s].phone = inFlight[s].phone
    /\ inFlight'[s].otp = inFlight[s].otp /\ inFlight'[s].key = inFlight[s].key
Carried == \A s \in Slot : Flying(s)' => SameCall(s)
StillMounted == \A s \in Slot : Flying(s)' => inFlight'[s].mounted = inFlight[s].mounted

QuietSignIn ==
    /\ Carried /\ StillMounted
    /\ UNCHANGED <<screen, pending, attempt, dropped, otpServerVars>>
    /\ \/ otp' = otp
       \/ screen = "verify" /\ otp' \in Received(pending) \cup {WrongCode}
AnswerStep(s) ==
    /\ Carried /\ StillMounted /\ Flying(s) /\ inFlight[s].key \notin DOMAIN answers /\ Decide(inFlight[s])
    /\ UNCHANGED <<screen, pending, attempt, dropped, otp>>
LeavingStep ==
    /\ Carried
    /\ \A s \in Slot : Flying(s)' => inFlight'[s].mounted = (inFlight[s].kind = "request" /\ inFlight[s].mounted)
    /\ screen' # "verify" /\ attempt' = Unset /\ otp' = Unset
    /\ UNCHANGED <<dropped, otpServerVars>>

(* Only a call in flight has more than a kind.                             *)
LEMMA CallsInFlight ==
    ASSUME inFlight \in [Slot -> InFlightCall \cup {NoCall}], NEW s \in Slot
    PROVE  /\ Flying(s) <=> inFlight[s] \in InFlightCall
           /\ Flying(s) <=> inFlight[s].kind \in {"request", "resend", "verify"}
           /\ ~ Flying(s) <=> inFlight[s] = NoCall
           /\ ~ Flying(s) => inFlight[s].kind \notin {"request", "resend", "verify"}
  BY SignInAssumption DEF Flying, InFlightCall, NoCall

(* The values that mark nothing, and the wrong code, are no codes.         *)
LEMMA SignInValues ==
    /\ Unset \notin Phone /\ Unset \notin {"request", "verify", "resend"}
    /\ Code \subseteq Nat /\ Unset \notin Code \cup {WrongCode} /\ WrongCode \notin Code
    /\ \A k \in Code : k >= 1 /\ k <= MaxKeys
  BY SignInAssumption DEF Code, WrongCode

(* A started call is a call, in a place that was empty.                    *)
LEMMA StartTyped ==
    ASSUME inFlight \in [Slot -> InFlightCall \cup {NoCall}],
           NEW kind \in {"request", "resend", "verify"}, NEW phone \in Phone,
           NEW entered \in Code \cup {WrongCode, Unset}, NEW key \in Code,
           Start(kind, phone, entered, key)
    PROVE  /\ inFlight' \in [Slot -> InFlightCall \cup {NoCall}]
           /\ \E s \in Slot : 
                /\ inFlight[s] = NoCall
                /\ inFlight'[s] = [kind |-> kind, phone |-> phone, otp |-> entered, key |-> key,
                              at |-> "prepare", try |-> 1, mounted |-> TRUE]
                /\ \A t \in Slot \ {s} : inFlight'[t] = inFlight[t]
  <1>1. PICK s \in Slot :
            /\ inFlight[s].kind = Unset
            /\ inFlight' = [inFlight EXCEPT ![s] =
               [kind |-> kind, phone |-> phone, otp |-> entered, key |-> key,
                at |-> "prepare", try |-> 1, mounted |-> TRUE]]
    BY DEF Start
  <1>2. inFlight[s] = NoCall
    BY <1>1, CallsInFlight DEF Flying
  <1>3. [kind |-> kind, phone |-> phone, otp |-> entered, key |-> key,
                at |-> "prepare", try |-> 1, mounted |-> TRUE] \in InFlightCall
    BY SignInAssumption DEF InFlightCall
  <1> QED
    BY <1>1, <1>2, <1>3

(* Calls of the verify screen lose it, and change in nothing else.         *)
LEMMA UnmountTyped ==
    ASSUME inFlight \in [Slot -> InFlightCall \cup {NoCall}]
    PROVE  /\ Unmount \in [Slot -> InFlightCall \cup {NoCall}]
           /\ \A s \in Slot :
                IF Flying(s)
                THEN /\ Unmount[s].kind = inFlight[s].kind /\ Unmount[s].phone = inFlight[s].phone
                     /\ Unmount[s].otp = inFlight[s].otp /\ Unmount[s].key = inFlight[s].key
                     /\ Unmount[s].at = inFlight[s].at /\ Unmount[s].try = inFlight[s].try
                     /\ inFlight[s].kind \in {"verify", "resend"} => Unmount[s].mounted = FALSE
                     /\ inFlight[s].kind = "request" => Unmount[s] = inFlight[s]
                ELSE Unmount[s] = NoCall
  <1> SUFFICES ASSUME NEW s \in Slot
               PROVE  /\ Unmount[s] \in InFlightCall \cup {NoCall}
                      /\ IF Flying(s)
                         THEN /\ Unmount[s].kind = inFlight[s].kind /\ Unmount[s].phone = inFlight[s].phone
                              /\ Unmount[s].otp = inFlight[s].otp /\ Unmount[s].key = inFlight[s].key
                              /\ Unmount[s].at = inFlight[s].at /\ Unmount[s].try = inFlight[s].try
                              /\ inFlight[s].kind \in {"verify", "resend"} => Unmount[s].mounted = FALSE
                              /\ inFlight[s].kind = "request" => Unmount[s] = inFlight[s]
                         ELSE Unmount[s] = NoCall
    BY DEF Unmount
  <1>1. CASE Flying(s)
    <2>1. inFlight[s] \in InFlightCall
      BY <1>1, CallsInFlight
    <2> QED
      BY <1>1, <2>1, SignInValues DEF Unmount, InFlightCall
  <1>2. CASE ~ Flying(s)
    BY <1>2, CallsInFlight DEF Unmount
  <1> QED
    BY <1>1, <1>2

(* An answer is added; the others stay.                                    *)
LEMMA AnsweredTyped ==
    ASSUME answers \in [DOMAIN answers -> InputSet],
           NEW c \in InFlightCall
    PROVE  /\ DOMAIN AnswerOf(c) = DOMAIN answers \cup {c.key}
           /\ AnswerOf(c) \in [DOMAIN answers \cup {c.key} -> InputSet]
           /\ AnswerOf(c)[c.key] = Input(c)
           /\ \A k \in DOMAIN answers : k # c.key => AnswerOf(c)[k] = answers[k]
  <1>1. Input(c) \in InputSet
    BY DEF Input, InputSet, InFlightCall
  <1> QED
    BY <1>1 DEF AnswerOf

(* The calls of the screens stay calls.                                    *)
LEMMA SignInCallsTyped ==
    ASSUME SignInTyped, DeviceTyped, [SignInNext]_signInVars
    PROVE  /\ inFlight' \in [Slot -> InFlightCall \cup {NoCall}]
           /\ keys' \in 0..MaxKeys /\ keys <= keys'
           /\ \A s \in Slot : Flying(s)' => inFlight'[s].key \in 1..keys' /\ inFlight'[s].try \in 1..MaxAttempts
           /\ \A s \in Slot : Verifying(s)' => inFlight'[s].otp # Unset
           /\ attempt' \in Attempt \cup {Unset} /\ (attempt' # Unset => attempt'.key <= keys')
           /\ dropped' \subseteq 1..keys'
  <1> DEFINE Shaped == /\ inFlight' \in [Slot -> InFlightCall \cup {NoCall}]
                       /\ \A s \in Slot : Flying(s)' => inFlight'[s].key \in 1..keys' /\ inFlight'[s].try \in 1..MaxAttempts
                       /\ \A s \in Slot : Verifying(s)' => inFlight'[s].otp # Unset
  <1>0. /\ inFlight \in [Slot -> InFlightCall \cup {NoCall}] /\ keys \in 0..MaxKeys /\ keys \in Nat
        /\ MaxKeys \in Nat /\ MaxAttempts \in Nat \ {0}
        /\ \A s \in Slot : Flying(s) => inFlight[s].key \in 1..keys /\ inFlight[s].try \in 1..MaxAttempts
        /\ \A s \in Slot : Verifying(s) => inFlight[s].otp # Unset
        /\ attempt \in Attempt \cup {Unset} /\ (attempt # Unset => attempt.key <= keys /\ attempt.key \in 1..keys)
        /\ dropped \subseteq 1..keys
    BY SignInAssumption DEF SignInTyped, SignInTypeOK, Flying, Attempt, Code
  <1>1. ASSUME UNCHANGED inFlight, keys <= keys', keys' \in Nat PROVE Shaped
    BY <1>0, <1>1, SMT DEF Flying, Verifying
  <1>2. ASSUME NEW s \in Slot, Flying(s), keys' = keys,
               inFlight' = [inFlight EXCEPT ![s] = NoCall] PROVE Shaped
    BY <1>0, <1>2, CallsInFlight, SignInValues DEF Flying, Verifying, NoCall
  <1>3. ASSUME NEW s \in Slot, Flying(s), keys' = keys,
               NEW at \in {"prepare", "await", "sent", "ok", "refused"},
               inFlight' = [inFlight EXCEPT ![s].at = at] PROVE Shaped
    <2>1. inFlight[s] \in InFlightCall
      BY <1>0, <1>3, CallsInFlight
    <2>2. /\ inFlight'[s] \in InFlightCall /\ inFlight'[s].key = inFlight[s].key /\ inFlight'[s].try = inFlight[s].try
          /\ inFlight'[s].otp = inFlight[s].otp /\ inFlight'[s].kind = inFlight[s].kind
      BY <1>0, <1>3, <2>1 DEF InFlightCall
    <2>3. \A t \in Slot \ {s} : inFlight'[t] = inFlight[t]
      BY <1>0, <1>3
    <2>4. inFlight' \in [Slot -> InFlightCall \cup {NoCall}]
      BY <1>0, <1>3, <2>2, <2>3
    <2> QED
      BY <1>0, <1>3, <2>2, <2>3, <2>4, SignInValues DEF Flying, Verifying
  <1>4. ASSUME keys' = keys, inFlight' = Unmount PROVE Shaped
    BY <1>0, <1>4, UnmountTyped, CallsInFlight, SignInValues DEF Flying, Verifying, NoCall
  <1>5. ASSUME NEW kind \in {"request", "resend", "verify"}, NEW phone \in Phone,
               NEW entered \in Code \cup {WrongCode, Unset}, NEW key \in Code,
               Start(kind, phone, entered, key), kind = "verify" => entered # Unset,
               keys <= keys', key <= keys', keys' \in Nat
        PROVE Shaped
    <2>1. key \in 1..keys' /\ 1 \in 1..MaxAttempts
      BY <1>0, <1>5, SignInValues
    <2>2. PICK s \in Slot :
                /\ inFlight'[s] = [kind |-> kind, phone |-> phone, otp |-> entered, key |-> key,
                              at |-> "prepare", try |-> 1, mounted |-> TRUE]
                /\ \A t \in Slot \ {s} : inFlight'[t] = inFlight[t]
      BY <1>0, <1>5, StartTyped
    <2>3. inFlight' \in [Slot -> InFlightCall \cup {NoCall}]
      BY <1>0, <1>5, StartTyped
    <2> QED
      BY <1>0, <1>5, <2>1, <2>2, <2>3 DEF Flying, Verifying
  <1> DEFINE Rest == /\ keys' \in 0..MaxKeys /\ keys <= keys'
                     /\ attempt' \in Attempt \cup {Unset} /\ (attempt' # Unset => attempt'.key <= keys')
                     /\ dropped' \subseteq 1..keys'
  <1>6. ASSUME UNCHANGED keys, attempt' \in {attempt, Unset}, UNCHANGED dropped PROVE Rest
    BY <1>0, <1>6
  <1> SUFFICES Shaped /\ Rest
    OBVIOUS
  <1> HIDE DEF Shaped, Rest
  <1>7. ASSUME NEW p \in Phone, TypePhone(p) PROVE Shaped /\ Rest
    BY <1>0, <1>1, <1>6, <1>7 DEF TypePhone
  <1>8. ASSUME NEW c \in Code \cup {WrongCode}, TypeOtp(c) PROVE Shaped /\ Rest
    BY <1>0, <1>1, <1>6, <1>8 DEF TypeOtp
  <1>9. ASSUME PressRequest PROVE Shaped /\ Rest
    <2>1. typed \in Phone /\ keys + 1 \in Code /\ keys' = keys + 1
      BY <1>0, <1>9 DEF PressRequest, SignInTyped, SignInTypeOK, Code
    <2>2. Start("request", typed, Unset, keys + 1) /\ keys + 1 <= keys' /\ keys <= keys' /\ keys' \in Nat
      BY <1>0, <1>9, <2>1 DEF PressRequest
    <2>4. Shaped
      BY <1>5, <2>1, <2>2
    <2>3. Rest
      BY <1>0, <1>9, <2>1 DEF PressRequest, formVars, Code, Rest
    <2> QED
      BY <2>3, <2>4
  <1>10. ASSUME PressResend PROVE Shaped /\ Rest
    <2>1. pending \in Phone /\ keys + 1 \in Code /\ keys' = keys + 1
      BY <1>0, <1>10 DEF PressResend, SignInTyped, SignInTypeOK, Code
    <2>2. Start("resend", pending, Unset, keys + 1) /\ keys + 1 <= keys' /\ keys <= keys' /\ keys' \in Nat
      BY <1>0, <1>10, <2>1 DEF PressResend
    <2>3. Shaped
      BY <1>5, <2>1, <2>2
    <2>4. Rest
      BY <1>0, <1>10, <2>1 DEF PressResend, formVars, Code, Rest
    <2> QED
      BY <2>3, <2>4
  <1>11. ASSUME PressVerify PROVE Shaped /\ Rest
    <2>1. pending \in Phone /\ otp \in Code \cup {WrongCode}
      BY <1>11 DEF PressVerify, SignInTyped, SignInTypeOK
    <2>2. /\ attempt' \in Attempt /\ attempt'.key \in 1..MaxKeys
          /\ keys' \in 0..MaxKeys /\ keys <= keys' /\ attempt'.key <= keys'
      <3>1. CASE attempt # Unset /\ attempt.identity = <<pending, otp>>
        BY <1>0, <1>11, <3>1 DEF PressVerify, VerificationAttempt, Attempt, Code
      <3>2. CASE ~ (attempt # Unset /\ attempt.identity = <<pending, otp>>)
        <4>1. attempt' = [identity |-> <<pending, otp>>, key |-> keys + 1]
          BY <1>11, <3>2 DEF PressVerify, VerificationAttempt
        <4>2. keys + 1 <= MaxKeys /\ keys' = keys + 1
          BY <1>0, <1>11, <4>1 DEF PressVerify
        <4> QED
          BY <1>0, <2>1, <4>1, <4>2 DEF Attempt, Code
      <3> QED
        BY <3>1, <3>2
    <2>3. Shaped
      <3>1. /\ Start("verify", pending, otp, attempt'.key)
            /\ otp # Unset /\ keys' \in Nat /\ attempt'.key \in Code
        BY <1>11, <2>1, <2>2, SignInValues DEF PressVerify, Code
      <3> QED
        BY <1>5, <2>1, <2>2, <3>1
    <2>4. dropped' \subseteq 1..keys'
      <3>1. dropped' \subseteq dropped \cup IF attempt # Unset THEN {attempt.key} ELSE {}
        BY <1>11 DEF PressVerify
      <3>2. 1..keys \subseteq 1..keys'
        BY <1>0, <2>2
      <3> QED
        BY <1>0, <3>1, <3>2
    <2> QED
      BY <2>2, <2>3, <2>4 DEF Rest
  <1>12. ASSUME CooldownOver PROVE Shaped /\ Rest
    BY <1>0, <1>1, <1>6, <1>12 DEF CooldownOver
  <1>13. ASSUME GoBack \/ UseDifferentPhone PROVE Shaped /\ Rest
    BY <1>4, <1>6, <1>13 DEF GoBack, UseDifferentPhone, LeaveVerify
  <1>14. ASSUME NEW s \in Slot, Attach(s) PROVE Shaped /\ Rest
    BY <1>3, <1>6, <1>14 DEF Attach, Flying, formVars
  <1>15. ASSUME NEW s \in Slot, LoadId(s) PROVE Shaped /\ Rest
    BY <1>3, <1>6, <1>15 DEF LoadId, Flying, formVars
  <1>16. ASSUME NEW s \in Slot, Serve(s) PROVE Shaped /\ Rest
    BY <1>3, <1>6, <1>16 DEF Serve, Flying, formVars
  <1>17. ASSUME NEW s \in Slot, Lost(s) PROVE Shaped /\ Rest
    <2>1. Flying(s) /\ inFlight[s] \in InFlightCall
      BY <1>0, <1>17, CallsInFlight DEF Lost, Flying
    <2>2. CASE inFlight[s].try < MaxAttempts
      <3>1. inFlight' = [inFlight EXCEPT ![s].try = @ + 1, ![s].at = "prepare"]
        BY <1>0, <1>17, <2>2 DEF Lost
      <3>2. /\ inFlight'[s] \in InFlightCall /\ inFlight'[s].key = inFlight[s].key
            /\ inFlight'[s].try \in 1..MaxAttempts
            /\ inFlight'[s].otp = inFlight[s].otp /\ inFlight'[s].kind = inFlight[s].kind
        <4>1. inFlight'[s] = [inFlight[s] EXCEPT !.try = inFlight[s].try + 1, !.at = "prepare"]
          BY <1>0, <2>1, <3>1 DEF InFlightCall
        <4>2. inFlight[s].try \in 1..MaxAttempts /\ inFlight[s].try + 1 \in 1..MaxAttempts
          BY <1>0, <2>1, <2>2
        <4> QED
          BY <2>1, <4>1, <4>2 DEF InFlightCall
      <3>3. \A t \in Slot \ {s} : inFlight'[t] = inFlight[t]
        BY <1>0, <3>1
      <3>4. inFlight' \in [Slot -> InFlightCall \cup {NoCall}]
        BY <1>0, <3>1, <3>2, <3>3
      <3>5. keys' = keys
        BY <1>17 DEF Lost
      <3> QED
        BY <1>0, <1>6, <1>17, <2>1, <3>2, <3>3, <3>4, <3>5 DEF Lost, Shaped, Flying, Verifying, formVars
    <2>3. CASE ~ inFlight[s].try < MaxAttempts
      BY <1>2, <1>6, <1>17, <2>1, <2>3 DEF Lost, formVars
    <2> QED
      BY <2>2, <2>3
  <1>18. ASSUME NEW s \in Slot, ShowError(s) PROVE Shaped /\ Rest
    BY <1>2, <1>6, <1>18 DEF ShowError, Flying, formVars
  <1>19. ASSUME NEW s \in Slot, RequestSucceeded(s) PROVE Shaped /\ Rest
    BY <1>2, <1>6, <1>19, SignInValues DEF RequestSucceeded, Flying
  <1>20. ASSUME NEW s \in Slot, ResendSucceeded(s) PROVE Shaped /\ Rest
    <2>1. Shaped
      BY <1>2, <1>20, SignInValues DEF ResendSucceeded, Flying
    <2>2. attempt' \in {attempt, Unset} /\ keys' = keys
      BY <1>20 DEF ResendSucceeded
    <2>3. dropped' \subseteq 1..keys
      BY <1>0, <1>20 DEF ResendSucceeded
    <2> QED
      BY <1>0, <2>1, <2>2, <2>3 DEF Rest
  <1>21. ASSUME NEW s \in Slot, VerifySucceeded(s) PROVE Shaped /\ Rest
    <2>1. inFlight' = [Unmount EXCEPT ![s] = NoCall] /\ keys' = keys
      BY <1>21 DEF VerifySucceeded
    <2>2. Shaped
      BY <1>0, <2>1, UnmountTyped, CallsInFlight, SignInValues DEF Flying, Verifying, NoCall, Shaped
    <2> QED
      BY <1>6, <1>21, <2>2 DEF VerifySucceeded
  <1>22. ASSUME IdRead \/ IdStored PROVE Shaped /\ Rest
    BY <1>0, <1>1, <1>6, <1>22 DEF IdRead, IdStored, formVars
  <1>23. ASSUME AppKilled PROVE Shaped /\ Rest
    <2>1. Shaped
      BY <1>23, SignInValues DEF AppKilled, Shaped, NoCall, Flying, Verifying
    <2> QED
      BY <1>6, <1>23, <2>1 DEF AppKilled
  <1>24. ASSUME UNCHANGED signInVars PROVE Shaped /\ Rest
    BY <1>0, <1>1, <1>6, <1>24 DEF signInVars, formVars
  <1> QED
    BY <1>7, <1>8, <1>9, <1>10, <1>11, <1>12, <1>13, <1>14, <1>15, <1>16, <1>17, <1>18, <1>19, <1>20,
       <1>21, <1>22, <1>23, <1>24
       DEF SignInNext, Advance, Succeeded, Installation

(* Only an answer changes what the server has.                             *)
LEMMA OtpServerSteps ==
    ASSUME [SignInNext]_signInVars
    PROVE  UNCHANGED otpServerVars \/ \E s \in Slot : Serve(s) /\ inFlight[s].key \notin DOMAIN answers /\ Decide(inFlight[s])
  BY DEF SignInNext, signInVars, Advance, Succeeded, Installation, otpServerVars,
         TypePhone, PressRequest, TypeOtp, PressVerify, PressResend, CooldownOver, GoBack, UseDifferentPhone,
         Attach, LoadId, IdRead, IdStored, Serve, Lost, ShowError, RequestSucceeded, ResendSucceeded,
         VerifySucceeded, AppKilled

(* What a success is, by the kind of call.                                 *)
LEMMA Decisions ==
    ASSUME SignInTyped, NEW s \in Slot, Flying(s), inFlight[s].key \notin DOMAIN answers, Decide(inFlight[s])
    PROVE  /\ DOMAIN answers' = DOMAIN answers \cup {inFlight[s].key}
           /\ answers' \in [DOMAIN answers' -> InputSet]
           /\ answers'[inFlight[s].key] = Input(inFlight[s])
           /\ \A k \in DOMAIN answers : answers'[k] = answers[k]
           /\ \/ /\ inFlight[s].kind # "verify"
                 /\ code' = [code EXCEPT ![inFlight[s].phone] = inFlight[s].key]
                 /\ used' = [used EXCEPT ![inFlight[s].phone] = Unset]
              \/ /\ EntersCurrent(s) /\ used[inFlight[s].phone] = Unset
                 /\ used' = [used EXCEPT ![inFlight[s].phone] = inFlight[s].key]
                 /\ UNCHANGED code
  <1> DEFINE c == inFlight[s]
  <1>1. c \in InFlightCall /\ answers \in [DOMAIN answers -> InputSet] /\ answers' = AnswerOf(c)
    BY CallsInFlight DEF SignInTyped, Decide
  <1>2. /\ DOMAIN answers' = DOMAIN answers \cup {c.key}
        /\ answers' \in [DOMAIN answers' -> InputSet]
        /\ answers'[c.key] = Input(c)
        /\ \A k \in DOMAIN answers : answers'[k] = answers[k]
    BY <1>1, AnsweredTyped
  <1> QED
    BY <1>2 DEF Decide, EntersCurrent, Verifying

(* The server keeps its types, and the answers it has given.               *)
LEMMA SignInServerTyped ==
    ASSUME SignInTyped, DeviceTyped, [SignInNext]_signInVars
    PROVE  /\ DOMAIN answers' \subseteq 1..keys'
           /\ answers' \in [DOMAIN answers' -> InputSet]
           /\ code' \in [Phone -> Code \cup {Unset}] /\ used' \in [Phone -> Code \cup {Unset}]
           /\ \A k \in DOMAIN answers : k \in DOMAIN answers' /\ answers'[k] = answers[k]
  <1>1. keys \in Nat /\ keys' \in Nat /\ keys <= keys' /\ DOMAIN answers \subseteq 1..keys
    BY SignInCallsTyped, SignInAssumption DEF SignInTyped, SignInTypeOK
  <1>2. CASE UNCHANGED otpServerVars
    BY <1>1, <1>2 DEF otpServerVars, SignInTyped
  <1>3. ASSUME NEW s \in Slot, Serve(s), inFlight[s].key \notin DOMAIN answers, Decide(inFlight[s])
        PROVE  /\ DOMAIN answers' \subseteq 1..keys'
               /\ answers' \in [DOMAIN answers' -> InputSet]
               /\ code' \in [Phone -> Code \cup {Unset}] /\ used' \in [Phone -> Code \cup {Unset}]
               /\ \A k \in DOMAIN answers : k \in DOMAIN answers' /\ answers'[k] = answers[k]
    <2>1. Flying(s) /\ inFlight[s] \in InFlightCall /\ inFlight[s].key \in 1..keys
      BY <1>3, CallsInFlight DEF Serve, Flying, SignInTyped, SignInTypeOK
    <2>2. inFlight[s].key \in Code /\ inFlight[s].phone \in Phone
      BY <2>1 DEF InFlightCall
    <2>3. /\ DOMAIN answers' = DOMAIN answers \cup {inFlight[s].key}
          /\ answers' \in [DOMAIN answers' -> InputSet]
          /\ \A k \in DOMAIN answers : answers'[k] = answers[k]
          /\ \/ /\ code' = [code EXCEPT ![inFlight[s].phone] = inFlight[s].key]
                /\ used' = [used EXCEPT ![inFlight[s].phone] = Unset]
             \/ /\ used' = [used EXCEPT ![inFlight[s].phone] = inFlight[s].key]
                /\ UNCHANGED code
      BY <1>3, <2>1, Decisions
    <2>4. code \in [Phone -> Code \cup {Unset}] /\ used \in [Phone -> Code \cup {Unset}]
      BY DEF SignInTyped
    <2>5. code' \in [Phone -> Code \cup {Unset}] /\ used' \in [Phone -> Code \cup {Unset}]
      BY <2>2, <2>3, <2>4
    <2>6. DOMAIN answers' \subseteq 1..keys'
      BY <1>1, <2>1, <2>3
    <2> QED
      BY <2>3, <2>5, <2>6
  <1> QED
    BY <1>2, <1>3, OtpServerSteps

(* Every step keeps the types, and no more identifiers are made than there *)
(* were processes.                                                         *)
LEMMA SignInTypedStep ==
    ASSUME SignInTyped, DeviceTyped, [SignInNext]_signInVars
    PROVE  SignInTyped' /\ DeviceTyped'
  <1> DEFINE Forms == /\ screen \in {"request", "verify", "app"} /\ typed \in Phone \cup {Unset}
                      /\ pending \in Phone \cup {Unset} /\ (screen = "verify" => pending # Unset)
                      /\ otp \in Code \cup {WrongCode, Unset} /\ cooling \in BOOLEAN
  <1>1. Forms
    BY DEF SignInTyped, SignInTypeOK
  <1>2. \A s \in Slot : Flying(s) => inFlight[s].phone \in Phone
    BY CallsInFlight DEF SignInTyped, InFlightCall
  <1>3. Forms'
    <2>1. ASSUME NEW s \in Slot, Advance(s) PROVE Forms'
      <3>1. CASE RequestSucceeded(s)
        BY <1>1, <1>2, <3>1, SignInValues DEF RequestSucceeded, Flying
      <3>2. CASE ResendSucceeded(s)
        BY <1>1, <3>2 DEF ResendSucceeded
      <3>3. CASE VerifySucceeded(s)
        BY <3>3 DEF VerifySucceeded
      <3>4. CASE Attach(s) \/ LoadId(s) \/ Serve(s) \/ Lost(s) \/ ShowError(s)
        BY <1>1, <3>4 DEF Attach, LoadId, Serve, Lost, ShowError, formVars
      <3> QED
        BY <2>1, <3>1, <3>2, <3>3, <3>4 DEF Advance, Succeeded
    <2>2. CASE \E p \in Phone : TypePhone(p)
      BY <1>1, <2>2 DEF TypePhone
    <2>3. CASE \E c \in Code \cup {WrongCode} : TypeOtp(c)
      BY <1>1, <2>3 DEF TypeOtp
    <2>4. CASE PressRequest \/ PressResend \/ PressVerify \/ CooldownOver
      BY <1>1, <2>4 DEF PressRequest, PressResend, PressVerify, CooldownOver, formVars
    <2>5. CASE GoBack \/ UseDifferentPhone
      BY <1>1, <2>5 DEF GoBack, UseDifferentPhone, LeaveVerify
    <2>6. CASE IdRead \/ IdStored
      BY <1>1, <2>6 DEF IdRead, IdStored, formVars
    <2>7. CASE AppKilled
      BY <2>7 DEF AppKilled
    <2>8. CASE UNCHANGED signInVars
      BY <1>1, <2>8 DEF signInVars, formVars
    <2> QED
      BY <2>1, <2>2, <2>3, <2>4, <2>5, <2>6, <2>7, <2>8 DEF SignInNext, Installation
  <1>4. DeviceTyped'
    <2>0. /\ device \in DeviceSet
          /\ restarts \in 0..MaxRestarts /\ MaxRestarts \in Nat /\ Unset \notin Nat
          /\ device.made <= restarts + (IF device.cached = Unset THEN 0 ELSE 1)
      BY SignInAssumption DEF DeviceTyped
    <2>1. CASE UNCHANGED <<device, restarts>>
      BY <2>1 DEF DeviceTyped
    <2>2. ASSUME NEW s \in Slot, LoadId(s) PROVE DeviceTyped'
      BY <2>0, <2>2 DEF LoadId, DeviceTyped, DeviceSet
    <2>3. CASE IdRead
      <3>1. device.made <= restarts /\ device.loading /\ device.cached = Unset /\ UNCHANGED restarts
        BY <2>0, <2>3 DEF IdRead
      <3>2. CASE device.stored # Unset /\ device' = [device EXCEPT !.cached = device.stored, !.loading = FALSE]
        <4>1. device.stored \in Ids /\ device.stored # Unset
          BY <2>0, <3>2 DEF DeviceSet
        <4>2. device' \in DeviceSet /\ device'.made = device.made /\ device'.cached = device.stored
          BY <2>0, <3>2, <4>1 DEF DeviceSet
        <4>3. device'.made <= restarts' + (IF device'.cached = Unset THEN 0 ELSE 1)
          BY <2>0, <3>1, <4>1, <4>2 DEF DeviceSet
        <4> QED
          BY <2>0, <3>1, <4>2, <4>3 DEF DeviceTyped
      <3>3. CASE device' = [device EXCEPT !.made = @ + 1, !.cached = device.made + 1, !.misread = device.stored # Unset]
        <4>1. device.made \in Nat /\ device.made + 1 \in Ids /\ device.made + 1 \in Nat /\ device.made + 1 # Unset
          BY <2>0, <3>1 DEF DeviceSet, Ids
        <4>2. (device.stored # Unset) \in BOOLEAN
          OBVIOUS
        <4>3. device' \in DeviceSet /\ device'.made = device.made + 1 /\ device'.cached = device.made + 1
          BY <2>0, <3>3, <4>1, <4>2 DEF DeviceSet
        <4>4. device'.made <= restarts' + (IF device'.cached = Unset THEN 0 ELSE 1)
          BY <2>0, <3>1, <4>1, <4>3
        <4> QED
          BY <2>0, <3>1, <4>3, <4>4 DEF DeviceTyped
      <3> QED
        BY <2>3, <3>2, <3>3 DEF IdRead
    <2>4. CASE IdStored
      <3>1. PICK kept \in {device.cached, device.stored} : device' = [device EXCEPT !.stored = kept, !.loading = FALSE]
        BY <2>4 DEF IdStored
      <3>2. device' \in DeviceSet /\ device'.made = device.made /\ device'.cached = device.cached
        BY <2>0, <3>1 DEF DeviceSet
      <3> QED
        BY <2>0, <2>4, <3>2 DEF IdStored, DeviceTyped
    <2>5. CASE AppKilled
      <3>1. restarts' = restarts + 1 /\ restarts < MaxRestarts
        BY <2>5 DEF AppKilled
      <3>2. device'.cached = Unset /\ device'.made = device.made
            /\ device' \in DeviceSet
        BY <2>0, <2>5 DEF AppKilled, DeviceSet
      <3>3. device'.made <= restarts' + (IF device'.cached = Unset THEN 0 ELSE 1) /\ restarts' \in 0..MaxRestarts
        <4>1. device.made <= restarts + 1 /\ device.made \in Nat
          BY <2>0 DEF DeviceSet
        <4> QED
          BY <2>0, <3>1, <3>2, <4>1
      <3> QED
        BY <3>2, <3>3 DEF DeviceTyped
    <2> QED
      BY <2>1, <2>2, <2>3, <2>4, <2>5
         DEF SignInNext, signInVars, deviceVars, Advance, Succeeded, Installation,
             TypePhone, PressRequest, TypeOtp, PressVerify, PressResend, CooldownOver, GoBack, UseDifferentPhone,
             Attach, Serve, Lost, ShowError, RequestSucceeded, ResendSucceeded, VerifySucceeded
  <1>5. \A s \in Slot : inFlight'[s].kind # Unset => inFlight'[s].try \in 1..MaxAttempts /\ inFlight'[s].key \in 1..keys'
    BY SignInCallsTyped DEF Flying
  <1>6. device'.stored \in Ids \cup {Unset} /\ device'.cached \in Ids \cup {Unset}
    BY <1>4 DEF DeviceTyped, DeviceSet
  <1> QED
    BY <1>3, <1>4, <1>5, <1>6, SignInCallsTyped, SignInServerTyped DEF SignInTyped, SignInTypeOK

(* How a call comes to wait for the identifier, or to be answered.         *)
Moved(s) == /\ Flying(s) /\ inFlight'[s].key = inFlight[s].key
            /\ \/ inFlight'[s].at = inFlight[s].at
               \/ inFlight'[s].at = "await" /\ LoadId(s)
               \/ Serve(s)

(* Only LoadId makes a call wait for the identifier, and only the server   *)
(* answers one.                                                            *)
LEMMA Moves ==
    ASSUME SignInTyped, [SignInNext]_signInVars,
           NEW s \in Slot, Flying(s)', inFlight'[s].at \notin {"prepare", "sent"}
    PROVE  Moved(s)
  <1>0. inFlight \in [Slot -> InFlightCall \cup {NoCall}]
    BY DEF SignInTyped
  <1>1. NoCall.kind = Unset
    BY DEF NoCall
  <1>2. ASSUME NEW t \in Slot, inFlight' = [inFlight EXCEPT ![t] = NoCall] PROVE Moved(s)
    BY <1>0, <1>1, <1>2 DEF Flying, Moved
  <1>3. ASSUME NEW t \in Slot, Flying(t), NEW at, inFlight' = [inFlight EXCEPT ![t].at = at]
        PROVE  /\ s # t => Moved(s)
               /\ s = t => inFlight'[s].at = at /\ inFlight'[s].key = inFlight[s].key
    <2>1. inFlight[t] \in InFlightCall
      BY <1>0, <1>3, CallsInFlight
    <2>2. inFlight'[t].at = at /\ inFlight'[t].key = inFlight[t].key
      BY <1>0, <1>3, <2>1 DEF InFlightCall
    <2> QED
      BY <1>0, <1>3, <2>2 DEF Flying, Moved
  <1>4. ASSUME inFlight' = Unmount PROVE Moved(s)
    <2>1. Flying(s)
      <3> SUFFICES ASSUME ~ Flying(s) PROVE FALSE
        OBVIOUS
      <3> QED
        BY <1>0, <1>1, <1>4, UnmountTyped DEF Flying
    <2> QED
      BY <1>0, <1>4, <2>1, UnmountTyped DEF Moved
  <1>5. ASSUME NEW kind, NEW phone, NEW entered, NEW key, Start(kind, phone, entered, key)
        PROVE  Moved(s)
    <2>1. PICK t \in Slot : inFlight' = [inFlight EXCEPT ![t] =
               [kind |-> kind, phone |-> phone, otp |-> entered, key |-> key,
                at |-> "prepare", try |-> 1, mounted |-> TRUE]]
      BY <1>5 DEF Start
    <2>2. s # t
      BY <1>0, <2>1
    <2> QED
      BY <1>0, <2>1, <2>2 DEF Flying, Moved
  <1>6. CASE PressRequest
    BY <1>5, <1>6 DEF PressRequest
  <1>7. CASE PressVerify
    BY <1>5, <1>7 DEF PressVerify
  <1>8. CASE PressResend
    BY <1>5, <1>8 DEF PressResend
  <1>9. CASE GoBack \/ UseDifferentPhone
    BY <1>4, <1>9 DEF GoBack, UseDifferentPhone, LeaveVerify
  <1>10. ASSUME NEW t \in Slot, Attach(t) PROVE Moved(s)
    BY <1>3, <1>10 DEF Attach, Flying
  <1>11. ASSUME NEW t \in Slot, LoadId(t) PROVE Moved(s)
    BY <1>3, <1>11 DEF LoadId, Flying, Moved
  <1>12. ASSUME NEW t \in Slot, Serve(t) PROVE Moved(s)
    <2>1. Flying(t) /\ \E at : inFlight' = [inFlight EXCEPT ![t].at = at]
      BY <1>12 DEF Serve, Flying
    <2>2. CASE s # t
      BY <1>3, <2>1, <2>2
    <2>3. CASE s = t
      BY <1>3, <1>12, <2>1, <2>3 DEF Moved
    <2> QED
      BY <2>2, <2>3
  <1>13. ASSUME NEW t \in Slot, Lost(t) PROVE Moved(s)
    <2>1. CASE inFlight' = [inFlight EXCEPT ![t] = NoCall]
      BY <1>2, <2>1
    <2>2. CASE inFlight' = [inFlight EXCEPT ![t].try = @ + 1, ![t].at = "prepare"]
      <3>1. inFlight[t] \in InFlightCall
        BY <1>0, <1>13, CallsInFlight DEF Lost, Flying
      <3>2. inFlight'[t].at = "prepare"
        BY <1>0, <2>2, <3>1 DEF InFlightCall
      <3> QED
        BY <1>0, <2>2, <3>2 DEF Flying, Moved
    <2> QED
      BY <1>13, <2>1, <2>2 DEF Lost
  <1>14. ASSUME NEW t \in Slot, ShowError(t) \/ RequestSucceeded(t) \/ ResendSucceeded(t) PROVE Moved(s)
    BY <1>2, <1>14 DEF ShowError, RequestSucceeded, ResendSucceeded
  <1>15. ASSUME NEW t \in Slot, VerifySucceeded(t) PROVE Moved(s)
    <2>1. inFlight' = [Unmount EXCEPT ![t] = NoCall]
      BY <1>15 DEF VerifySucceeded
    <2>2. inFlight'[s] = Unmount[s]
      BY <1>0, <1>1, <2>1, UnmountTyped DEF Flying
    <2>3. Flying(s)
      <3> SUFFICES ASSUME ~ Flying(s) PROVE FALSE
        OBVIOUS
      <3> QED
        BY <1>0, <1>1, <2>2, UnmountTyped DEF Flying
    <2> QED
      BY <1>0, <2>2, <2>3, UnmountTyped DEF Moved
  <1>16. CASE AppKilled
    BY <1>1, <1>16 DEF AppKilled, Flying
  <1>17. CASE UNCHANGED inFlight
    BY <1>17 DEF Flying, Moved
  <1> QED
    BY <1>6, <1>7, <1>8, <1>9, <1>10, <1>11, <1>12, <1>13, <1>14, <1>15, <1>16, <1>17
       DEF SignInNext, signInVars, Advance, Succeeded, Installation, TypePhone, TypeOtp, CooldownOver, IdRead, IdStored

(* Every step keeps the identifier that was sent or stored.                *)
LEMMA OneIdStep ==
    ASSUME SignInTyped, DeviceTyped, OneId, [SignInNext]_signInVars
    PROVE  /\ OneId'
           /\ device'.stored # device.stored => sentAs' \subseteq {device'.stored}
           /\ device.stored # Unset /\ ~ device'.misread =>
                  device'.stored = device.stored /\ sentAs' \subseteq {device.stored}
  <1> DEFINE Kept == /\ OneId'
                     /\ device'.stored # device.stored => sentAs' \subseteq {device'.stored}
                     /\ device.stored # Unset /\ ~ device'.misread =>
                            device'.stored = device.stored /\ sentAs' \subseteq {device.stored}
  <1>0. device \in DeviceSet /\ Unset \notin Nat
    BY SignInAssumption DEF DeviceTyped
  <1>1. ASSUME NEW s \in Slot, LoadId(s) PROVE Kept
    <2>1. device' = [device EXCEPT !.loading = TRUE] /\ sentAs' = sentAs
      BY <1>1 DEF LoadId
    <2> QED
      BY <1>0, <2>1 DEF OneId, DeviceSet
  <1>2. ASSUME \A s \in Slot : ~ LoadId(s) PROVE Kept
    <2>0. \A s \in Slot : Flying(s)' /\ inFlight'[s].at = "await" => Flying(s) /\ inFlight[s].at = "await"
      <3>1. \A s \in Slot : Serve(s) => inFlight'[s].at # "await"
        BY CallsInFlight DEF Serve, Flying, SignInTyped, InFlightCall
      <3> QED
        BY <1>2, <3>1, Moves DEF Moved
    <2>1. ASSUME NEW s \in Slot, Attach(s) PROVE Kept
      BY <2>0, <2>1 DEF Attach, OneId, Flying
    <2>2. CASE IdRead
      <3>0. device.loading /\ device.cached = Unset /\ sentAs = {} /\ sentAs' = sentAs
        BY <2>2 DEF IdRead, OneId
      <3>1. CASE device.stored # Unset /\ device' = [device EXCEPT !.cached = device.stored, !.loading = FALSE]
        BY <1>0, <3>0, <3>1 DEF OneId, DeviceSet
      <3>2. CASE device' = [device EXCEPT !.made = @ + 1, !.cached = device.made + 1, !.misread = device.stored # Unset]
        <4>1. /\ device'.cached = device.made + 1 /\ device'.stored = device.stored /\ device'.loading
              /\ device'.misread = (device.stored # Unset)
          BY <1>0, <3>0, <3>2 DEF DeviceSet
        <4>2. device.made + 1 # Unset
          BY <1>0 DEF DeviceSet
        <4> QED
          BY <3>0, <4>1, <4>2 DEF OneId
      <3> QED
        BY <2>2, <3>1, <3>2 DEF IdRead
    <2>3. CASE IdStored
      <3>1. PICK kept \in {device.cached, device.stored} :
               device' = [device EXCEPT !.stored = kept, !.loading = FALSE]
        BY <2>3 DEF IdStored
      <3>2. /\ device.cached # Unset /\ sentAs' = sentAs /\ device'.stored = kept
            /\ device'.cached = device.cached /\ device'.misread = device.misread
        BY <1>0, <2>3, <3>1 DEF IdStored, DeviceSet
      <3> QED
        BY <3>1, <3>2 DEF OneId
    <2>4. CASE AppKilled
      <3>1. /\ device'.cached = Unset /\ device'.stored = device.stored /\ sentAs' = {}
        BY <1>0, <2>4 DEF AppKilled, DeviceSet
      <3>2. \A s \in Slot : ~ Flying(s)'
        BY <2>4 DEF AppKilled, Flying, NoCall
      <3> QED
        BY <3>1, <3>2 DEF OneId
    <2>5. CASE UNCHANGED deviceVars
      BY <2>0, <2>5 DEF OneId, deviceVars
    <2> QED
      BY <1>2, <2>1, <2>2, <2>3, <2>4, <2>5
         DEF SignInNext, signInVars, Advance, Succeeded, Installation,
             TypePhone, PressRequest, TypeOtp, PressVerify, PressResend, CooldownOver, GoBack, UseDifferentPhone,
             Serve, Lost, ShowError, RequestSucceeded, ResendSucceeded, VerifySucceeded
  <1> QED
    BY <1>1, <1>2

(* A call that is removed, that moves on, or that loses its screen is      *)
(* otherwise the call it was.                                              *)
LEMMA CallsCarried ==
    ASSUME inFlight \in [Slot -> InFlightCall \cup {NoCall}]
    PROVE  /\ UNCHANGED inFlight => Carried /\ StillMounted
           /\ \A s \in Slot : inFlight' = [inFlight EXCEPT ![s] = NoCall] => Carried /\ StillMounted
           /\ \A s \in Slot, at \in {"prepare", "await", "sent", "ok", "refused"} :
                 Flying(s) /\ inFlight' = [inFlight EXCEPT ![s].at = at] => Carried /\ StillMounted
  <1>1. ASSUME UNCHANGED inFlight PROVE Carried /\ StillMounted
    BY <1>1 DEF Carried, StillMounted, SameCall, Flying
  <1>2. ASSUME NEW s \in Slot, inFlight' = [inFlight EXCEPT ![s] = NoCall] PROVE Carried /\ StillMounted
    BY <1>2 DEF Carried, StillMounted, SameCall, Flying, NoCall
  <1>3. ASSUME NEW s \in Slot, NEW at \in {"prepare", "await", "sent", "ok", "refused"}, Flying(s),
               inFlight' = [inFlight EXCEPT ![s].at = at]
        PROVE  Carried /\ StillMounted
    <2>1. inFlight[s] \in InFlightCall
      BY <1>3, CallsInFlight
    <2>2. inFlight'[s] = [inFlight[s] EXCEPT !.at = at] /\ \A t \in Slot \ {s} : inFlight'[t] = inFlight[t]
      BY <1>3
    <2>3. SameCall(s) /\ inFlight'[s].mounted = inFlight[s].mounted
      BY <1>3, <2>1, <2>2 DEF SameCall, InFlightCall
    <2> QED
      BY <2>2, <2>3 DEF Carried, StillMounted, SameCall, Flying
  <1> QED
    BY <1>1, <1>2, <1>3

(* A call that loses its screen is carried.                                *)
LEMMA UnmountCarries ==
    ASSUME inFlight \in [Slot -> InFlightCall \cup {NoCall}],
           \A s \in Slot : Flying(s)' => inFlight'[s] = Unmount[s]
    PROVE  /\ Carried
           /\ \A s \in Slot : Flying(s)' => inFlight'[s].mounted = (inFlight[s].kind = "request" /\ inFlight[s].mounted)
  <1> SUFFICES ASSUME NEW s \in Slot, Flying(s)'
               PROVE  SameCall(s) /\ inFlight'[s].mounted = (inFlight[s].kind = "request" /\ inFlight[s].mounted)
    BY DEF Carried
  <1>1. inFlight'[s] = Unmount[s]
    OBVIOUS
  <1>2. Flying(s)
    <2> SUFFICES ASSUME ~ Flying(s) PROVE FALSE
      OBVIOUS
    <2>1. Unmount[s] = NoCall
      BY UnmountTyped
    <2> QED
      BY <1>1, <2>1 DEF Flying, NoCall
  <1>3. SameCall(s)
    BY <1>1, <1>2, UnmountTyped DEF SameCall
  <1>4. inFlight'[s].mounted = (inFlight[s].kind = "request" /\ inFlight[s].mounted)
    <2>1. inFlight[s] \in InFlightCall
      BY <1>2, CallsInFlight
    <2>2. CASE inFlight[s].kind = "request"
      BY <1>1, <1>2, <2>1, <2>2, UnmountTyped DEF InFlightCall
    <2>3. CASE inFlight[s].kind \in {"verify", "resend"}
      BY <1>1, <1>2, <2>3, UnmountTyped
    <2> QED
      BY <2>1, <2>2, <2>3 DEF InFlightCall
  <1> QED
    BY <1>3, <1>4

(* Every step is quiet, leaves the screens, gives an answer, or is a press *)
(* or the end of a call that the screens see.                              *)
LEMMA SignInSteps ==
    ASSUME SignInTyped, DeviceTyped, [SignInNext]_signInVars
    PROVE  \/ QuietSignIn \/ LeavingStep
           \/ PressRequest \/ PressVerify \/ PressResend
           \/ \E s \in Slot : AnswerStep(s) \/ RequestSucceeded(s) \/ ResendSucceeded(s)
  <1>0. inFlight \in [Slot -> InFlightCall \cup {NoCall}]
    BY DEF SignInTyped
  <1>1. CASE \E p \in Phone : TypePhone(p)
    BY <1>0, <1>1, CallsCarried DEF TypePhone, QuietSignIn, otpServerVars
  <1>2. CASE \E c \in Code \cup {WrongCode} : TypeOtp(c)
    BY <1>0, <1>2, CallsCarried DEF TypeOtp, QuietSignIn, otpServerVars
  <1>3. CASE CooldownOver
    BY <1>0, <1>3, CallsCarried DEF CooldownOver, QuietSignIn, otpServerVars
  <1>4. CASE GoBack \/ UseDifferentPhone
    <2>1. screen' = "request" /\ otp' = Unset /\ attempt' = Unset /\ inFlight' = Unmount
      BY <1>4 DEF GoBack, UseDifferentPhone, LeaveVerify
    <2>2. UNCHANGED <<dropped, otpServerVars>>
      BY <1>4 DEF GoBack, UseDifferentPhone
    <2>3. Carried
      BY <1>0, <2>1, UnmountCarries
    <2>4. \A s \in Slot : Flying(s)' => inFlight'[s].mounted = (inFlight[s].kind = "request" /\ inFlight[s].mounted)
      BY <1>0, <2>1, UnmountCarries
    <2> QED
      BY <2>1, <2>2, <2>3, <2>4 DEF LeavingStep
  <1>5. CASE AppKilled
    BY <1>5, SignInValues DEF AppKilled, LeavingStep, Carried, Flying, NoCall
  <1>6. ASSUME NEW s \in Slot, Attach(s) \/ LoadId(s) PROVE QuietSignIn
    <2>1. /\ Flying(s)
          /\ \E at \in {"prepare", "await", "sent", "ok", "refused"} : inFlight' = [inFlight EXCEPT ![s].at = at]
      BY <1>6 DEF Attach, LoadId, Flying
    <2> QED
      BY <1>0, <1>6, <2>1, CallsCarried DEF Attach, LoadId, QuietSignIn, formVars
  <1>7. ASSUME NEW s \in Slot, Serve(s) PROVE QuietSignIn \/ AnswerStep(s)
    <2>1. /\ Flying(s)
          /\ \E at \in {"prepare", "await", "sent", "ok", "refused"} : inFlight' = [inFlight EXCEPT ![s].at = at]
      BY <1>7 DEF Serve, Flying
    <2>2. Carried /\ StillMounted
      BY <1>0, <2>1, CallsCarried
    <2> QED
      BY <1>7, <2>1, <2>2 DEF Serve, QuietSignIn, AnswerStep, formVars
  <1>8. ASSUME NEW s \in Slot, Lost(s) PROVE QuietSignIn
    <2>1. Flying(s) /\ inFlight[s] \in InFlightCall
      BY <1>0, <1>8, CallsInFlight DEF Lost, Flying
    <2>2. CASE inFlight' = [inFlight EXCEPT ![s].try = @ + 1, ![s].at = "prepare"]
      <3>1. /\ inFlight'[s] = [inFlight[s] EXCEPT !.try = inFlight[s].try + 1, !.at = "prepare"]
            /\ \A t \in Slot \ {s} : inFlight'[t] = inFlight[t]
        BY <1>0, <2>1, <2>2 DEF InFlightCall
      <3>2. SameCall(s) /\ inFlight'[s].mounted = inFlight[s].mounted
        BY <2>1, <3>1 DEF SameCall, InFlightCall
      <3>3. Carried /\ StillMounted
        BY <3>1, <3>2 DEF Carried, StillMounted, SameCall, Flying
      <3> QED
        BY <1>8, <3>3 DEF Lost, QuietSignIn, formVars
    <2>3. CASE inFlight' = [inFlight EXCEPT ![s] = NoCall]
      BY <1>0, <1>8, <2>3, CallsCarried DEF Lost, QuietSignIn, formVars
    <2> QED
      BY <1>8, <2>2, <2>3 DEF Lost
  <1>9. ASSUME NEW s \in Slot, ShowError(s) PROVE QuietSignIn
    BY <1>0, <1>9, CallsCarried DEF ShowError, QuietSignIn, formVars
  <1>10. ASSUME NEW s \in Slot, VerifySucceeded(s) PROVE LeavingStep
    <2>1. screen' = "app" /\ otp' = Unset /\ attempt' = Unset /\ inFlight' = [Unmount EXCEPT ![s] = NoCall]
      BY <1>10 DEF VerifySucceeded
    <2>2. UNCHANGED <<dropped, otpServerVars>>
      BY <1>10 DEF VerifySucceeded
    <2>3. \A t \in Slot : Flying(t)' => inFlight'[t] = Unmount[t]
      BY <1>0, <2>1, UnmountTyped DEF Flying, NoCall
    <2>4. Carried
      BY <1>0, <2>3, UnmountCarries
    <2>5. \A t \in Slot : Flying(t)' => inFlight'[t].mounted = (inFlight[t].kind = "request" /\ inFlight[t].mounted)
      BY <1>0, <2>3, UnmountCarries
    <2> QED
      BY <2>1, <2>2, <2>4, <2>5 DEF LeavingStep
  <1>11. CASE IdRead \/ IdStored
    BY <1>0, <1>11, CallsCarried DEF IdRead, IdStored, QuietSignIn, formVars
  <1>12. CASE UNCHANGED signInVars
    BY <1>0, <1>12, CallsCarried DEF signInVars, QuietSignIn, formVars
  <1> QED
    BY <1>1, <1>2, <1>3, <1>4, <1>5, <1>6, <1>7, <1>8, <1>9, <1>10, <1>11, <1>12
       DEF SignInNext, Advance, Succeeded, Installation

(* What is known of a call by its kind.                                    *)
LEMMA FlyingKinds ==
    ASSUME SignInTyped, NEW s \in Slot
    PROVE  /\ inFlight[s].kind \in {"request", "resend", "verify"} => Flying(s) /\ inFlight[s] \in InFlightCall
           /\ EntersCurrent(s) => Verifying(s)
           /\ Verifying(s) => Flying(s) /\ inFlight[s].phone \in Phone /\ inFlight[s].otp \in Code \cup {WrongCode}
           /\ Accepted(s) => Flying(s)
  <1>1. inFlight \in [Slot -> InFlightCall \cup {NoCall}]
    BY DEF SignInTyped
  <1>2. inFlight[s].kind \in {"request", "resend", "verify"} => Flying(s) /\ inFlight[s] \in InFlightCall
    BY <1>1, CallsInFlight
  <1>3. Verifying(s) => inFlight[s].otp # Unset
    BY DEF SignInTyped
  <1> QED
    BY <1>2, <1>3 DEF EntersCurrent, Verifying, Accepted, InFlightCall

(* Quiet steps keep what the screens, the calls and the server agree on.   *)
LEMMA QuietKeepsScreens ==
    ASSUME AnswersKept, Screens, QuietSignIn
    PROVE  Screens'
  <1>0. /\ Carried /\ StillMounted /\ UNCHANGED <<screen, pending, attempt, dropped, code, used, answers>>
        /\ Unset \notin {"request", "verify", "resend"}
    BY SignInValues DEF QuietSignIn, otpServerVars
  <1>2. CallsOfScreens'
    <2>1. screen' # "verify" => attempt' = Unset /\ otp' = Unset
      BY DEF QuietSignIn, Screens, CallsOfScreens
    <2> QED
      BY <1>0, <2>1 DEF Screens, CallsOfScreens, StillMounted, Carried, SameCall, Flying
  <1>3. AttemptNamesCall'
    BY <1>0 DEF Screens, AttemptNamesCall, Carried, SameCall, Flying, Input
  <1>4. KeyNamesOneInput'
    BY <1>0 DEF Screens, KeyNamesOneInput, Carried, SameCall, Flying, Input
  <1>5. CodesSent'
    <2>1. otp' \in Sent' \cup {Unset}
      BY <1>0 DEF QuietSignIn, Screens, CodesSent, Sent, Received
    <2> QED
      BY <1>0, <2>1 DEF Screens, CodesSent, Sent, Verifying, Carried, SameCall, Flying
  <1>6. NewCodeUntouched'
    BY <1>0 DEF Screens, Codes, NewCodeUntouched, Accepted, EntersCurrent, Verifying, Carried, SameCall, Flying
  <1>7. ResentCode'
    BY <1>0 DEF Screens, Codes, ResentCode, StillMounted, Accepted, Carried, SameCall, Flying
  <1>8. OldCalls'
    BY <1>0 DEF Screens, Codes, OldCalls, StillMounted, EntersCurrent, Verifying, Carried, SameCall, Flying
  <1>9. MountedCurrent'
    BY <1>0 DEF Screens, Codes, MountedCurrent, StillMounted, EntersCurrent, Verifying, Carried, SameCall, Flying
  <1>10. OneCurrent'
    BY <1>0 DEF Screens, Codes, OneCurrent, EntersCurrent, Verifying, Carried, SameCall, Flying
  <1>11. UsedByCurrent'
    BY <1>0 DEF Screens, Codes, UsedByCurrent, EntersCurrent, Verifying, Carried, SameCall, Flying
  <1>12. UsedByAttempt'
    BY <1>0 DEF Screens, Codes, UsedByAttempt
  <1> QED
    BY <1>2, <1>3, <1>4, <1>5, <1>6, <1>7, <1>8, <1>9, <1>10, <1>11, <1>12 DEF Screens, Codes

(* So does leaving the verify screen, in whatever way.                     *)
LEMMA LeavingKeepsScreens ==
    ASSUME AnswersKept, Screens, LeavingStep
    PROVE  Screens'
  <1>0. /\ Carried /\ UNCHANGED <<dropped, code, used, answers>>
        /\ screen' # "verify" /\ attempt' = Unset /\ otp' = Unset
        /\ \A s \in Slot : Flying(s)' => inFlight'[s].mounted = (inFlight[s].kind = "request" /\ inFlight[s].mounted)
        /\ Unset \notin {"request", "verify", "resend"}
    BY SignInValues DEF LeavingStep, otpServerVars
  <1>2. CallsOfScreens'
    BY <1>0 DEF Screens, CallsOfScreens, Carried, SameCall, Flying
  <1>3. AttemptNamesCall'
    BY <1>0 DEF AttemptNamesCall
  <1>4. KeyNamesOneInput'
    BY <1>0 DEF Screens, KeyNamesOneInput, Carried, SameCall, Flying, Input
  <1>5. CodesSent'
    BY <1>0 DEF Screens, CodesSent, Sent, Verifying, Carried, SameCall, Flying
  <1>6. NewCodeUntouched'
    BY <1>0 DEF Screens, Codes, NewCodeUntouched, Accepted, EntersCurrent, Verifying, Carried, SameCall, Flying
  <1>7. ResentCode'
    BY <1>0 DEF ResentCode
  <1>8. OldCalls'
    BY <1>0 DEF OldCalls
  <1>9. MountedCurrent'
    BY <1>0 DEF MountedCurrent, EntersCurrent, Verifying, Carried, SameCall, Flying
  <1>10. OneCurrent'
    BY <1>0 DEF Screens, Codes, OneCurrent, EntersCurrent, Verifying, Carried, SameCall, Flying
  <1>11. UsedByCurrent'
    BY <1>0 DEF Screens, Codes, UsedByCurrent, EntersCurrent, Verifying, Carried, SameCall, Flying
  <1>12. UsedByAttempt'
    BY <1>0 DEF UsedByAttempt
  <1> QED
    BY <1>2, <1>3, <1>4, <1>5, <1>6, <1>7, <1>8, <1>9, <1>10, <1>11, <1>12 DEF Screens, Codes

(* So does an answer: a new code was entered nowhere yet, and a code is    *)
(* used by the call that the form still names, or by one whose key was     *)
(* dropped.                                                                *)
LEMMA AnswerKeepsScreens ==
    ASSUME SignInTyped, AnswersKept, Screens, NEW s \in Slot, AnswerStep(s)
    PROVE  Screens'
  <1> DEFINE k == inFlight[s].key
             p == inFlight[s].phone
  <1>0. /\ Carried /\ StillMounted /\ UNCHANGED <<screen, pending, attempt, dropped, otp>>
        /\ Unset \notin {"request", "verify", "resend"} /\ Unset \notin Code /\ WrongCode \notin Code
        /\ Flying(s) /\ k \notin DOMAIN answers /\ Decide(inFlight[s])
    BY SignInValues DEF AnswerStep
  <1>1. /\ DOMAIN answers' = DOMAIN answers \cup {k}
        /\ answers'[k] = Input(inFlight[s])
        /\ \A j \in DOMAIN answers : answers'[j] = answers[j]
        /\ \/ /\ inFlight[s].kind # "verify"
              /\ code' = [code EXCEPT ![p] = k]
              /\ used' = [used EXCEPT ![p] = Unset]
           \/ /\ EntersCurrent(s) /\ used[p] = Unset
              /\ used' = [used EXCEPT ![p] = k]
              /\ UNCHANGED code
    BY <1>0, Decisions
  <1>2. p \in Phone /\ k \in Code /\ code \in [Phone -> Code \cup {Unset}] /\ used \in [Phone -> Code \cup {Unset}]
    BY <1>0, CallsInFlight DEF SignInTyped, InFlightCall
  <1>3. \A t \in Slot : Verifying(t) => inFlight[t].phone \in Phone
    BY FlyingKinds
  (* An answer does not make a code entered before it the current one.     *)
  <1>4. \A q \in Phone, c \in Sent : c = code'[q] => c = code[q]
    BY <1>0, <1>1, <1>2 DEF Sent
  <1>5. \A t \in Slot : EntersCurrent(t)' => EntersCurrent(t)
    <2> SUFFICES ASSUME NEW t \in Slot, EntersCurrent(t)' PROVE EntersCurrent(t)
      OBVIOUS
    <2>1. /\ Verifying(t) /\ inFlight'[t].otp = inFlight[t].otp /\ inFlight'[t].phone = inFlight[t].phone
          /\ inFlight'[t].otp = code'[inFlight'[t].phone]
      BY <1>0 DEF EntersCurrent, Verifying, Carried, SameCall, Flying
    <2>2. inFlight[t].otp \in Sent
      BY <2>1 DEF Screens, CodesSent
    <2> QED
      BY <1>3, <1>4, <2>1, <2>2 DEF EntersCurrent
  <1>6. \A t \in Slot : Accepted(t)' => Accepted(t) \/ inFlight[t].key = k
    BY <1>0, <1>1 DEF Accepted, Carried, SameCall, Flying
  <1>7. CallsOfScreens'
    BY <1>0 DEF Screens, CallsOfScreens, StillMounted, Carried, SameCall, Flying
  <1>8. AttemptNamesCall'
    <2> SUFFICES ASSUME attempt # Unset PROVE AttemptNamesCall'
      BY <1>0 DEF AttemptNamesCall
    <2> DEFINE named == [kind |-> "verify", phone |-> pending, otp |-> attempt.identity[2]]
    <2>1. /\ attempt.identity[1] = pending
          /\ \A t \in Slot : Flying(t) /\ inFlight[t].key = attempt.key => Input(inFlight[t]) = named
          /\ attempt.key \in DOMAIN answers => answers[attempt.key] = named
      BY DEF Screens, AttemptNamesCall
    <2>2. attempt.key \in DOMAIN answers' => answers'[attempt.key] = named
      BY <1>0, <1>1, <2>1
    <2>3. \A t \in Slot : Flying(t)' /\ inFlight'[t].key = attempt.key => Input(inFlight'[t]) = named
      BY <1>0, <2>1 DEF Carried, SameCall, Input
    <2> QED
      BY <1>0, <2>1, <2>2, <2>3 DEF AttemptNamesCall
  <1>9. KeyNamesOneInput'
    <2> SUFFICES ASSUME NEW t \in Slot, Flying(t)'
                 PROVE  /\ inFlight'[t].key \in DOMAIN answers' => answers'[inFlight'[t].key] = Input(inFlight'[t])
                        /\ \A u \in Slot : Flying(u)' /\ inFlight'[u].key = inFlight'[t].key =>
                               Input(inFlight'[u]) = Input(inFlight'[t])
      BY DEF KeyNamesOneInput, Flying
    <2>1. \A u \in Slot : Flying(u)' => /\ Flying(u) /\ inFlight'[u].key = inFlight[u].key
                                         /\ Input(inFlight'[u]) = Input(inFlight[u])
      BY <1>0 DEF Carried, SameCall, Input
    <2>2. inFlight[t].key \in DOMAIN answers => answers[inFlight[t].key] = Input(inFlight[t])
      BY <2>1 DEF Screens, KeyNamesOneInput, Flying
    <2>3. \A u \in Slot : Flying(u) /\ inFlight[u].key = inFlight[t].key => Input(inFlight[u]) = Input(inFlight[t])
      BY <2>1 DEF Screens, KeyNamesOneInput, Flying
    <2>4. inFlight[t].key = k => answers'[k] = Input(inFlight[t])
      BY <1>0, <1>1, <2>3
    <2> QED
      BY <1>1, <2>1, <2>2, <2>3, <2>4
  <1>10. CodesSent'
    <2>1. Sent \subseteq Sent' /\ k \in Sent' /\ DOMAIN answers \subseteq DOMAIN answers' /\ k \in DOMAIN answers'
      BY <1>1 DEF Sent
    <2>2. \A q \in Phone : code'[q] \in DOMAIN answers' \cup {Unset}
      BY <1>1, <1>2, <2>1 DEF Screens, CodesSent
    <2> QED
      BY <1>0, <2>1, <2>2 DEF Screens, CodesSent, Verifying, Carried, SameCall, Flying
  (* A new code was entered nowhere yet.                                   *)
  <1>11. ASSUME inFlight[s].kind # "verify"
         PROVE  /\ code'[p] = k /\ used'[p] = Unset /\ k \notin Sent
                /\ \A t \in Slot : EntersCurrent(t)' => inFlight[t].phone # p
    <2>1. k \notin Sent
      BY <1>0, <1>2 DEF Sent
    <2>2. code'[p] = k /\ used'[p] = Unset
      BY <1>1, <1>2, <1>11 DEF EntersCurrent, Verifying
    <2> QED
      BY <1>0, <2>1, <2>2 DEF Screens, CodesSent, EntersCurrent, Verifying, Carried, SameCall, Flying
  <1>12. ASSUME NEW t \in Slot, Flying(t), inFlight[t].key = k
         PROVE  inFlight[t].kind = inFlight[s].kind /\ inFlight[t].phone = p
    <2>1. Input(inFlight[t]) = Input(inFlight[s])
      BY <1>0, <1>12 DEF Screens, KeyNamesOneInput, Flying
    <2> QED
      BY <2>1 DEF Input
  <1>13. NewCodeUntouched'
    <2> SUFFICES ASSUME NEW t \in Slot, inFlight'[t].kind = "request", Accepted(t)'
                 PROVE  /\ used'[inFlight'[t].phone] = Unset
                        /\ \A u \in Slot : EntersCurrent(u)' => inFlight'[u].phone # inFlight'[t].phone
      BY DEF NewCodeUntouched
    <2>1. /\ Flying(t) /\ inFlight[t].kind = "request" /\ inFlight'[t].phone = inFlight[t].phone
          /\ inFlight[t].phone \in Phone
          /\ \A u \in Slot : EntersCurrent(u)' => inFlight'[u].phone = inFlight[u].phone
      <3>1. Flying(t)' /\ \A u \in Slot : EntersCurrent(u)' => Flying(u)'
        BY <1>0 DEF Accepted, EntersCurrent, Verifying, Flying
      <3> QED
        BY <1>0, <3>1, CallsInFlight DEF Carried, SameCall, SignInTyped, InFlightCall
    <2>2. CASE Accepted(t)
      <3>1. used[inFlight[t].phone] = Unset /\ \A u \in Slot : EntersCurrent(u) => inFlight[u].phone # inFlight[t].phone
        BY <2>1, <2>2 DEF Screens, Codes, NewCodeUntouched
      <3>2. used'[inFlight[t].phone] = Unset
        BY <1>1, <1>2, <2>1, <3>1
      <3> QED
        BY <1>5, <2>1, <3>1, <3>2
    <2>3. CASE inFlight[t].key = k
      BY <1>11, <1>12, <2>1, <2>3
    <2> QED
      BY <1>6, <2>2, <2>3
  <1>14. ASSUME attempt # Unset
         PROVE  screen = "verify" /\ pending \in Phone /\ attempt.identity[2] \in Sent /\ attempt \in Attempt
    BY <1>14 DEF Screens, CallsOfScreens, CodesSent, SignInTyped, SignInTypeOK
  <1>15. ResentCode'
    <2> SUFFICES ASSUME NEW t \in Slot, inFlight'[t].kind = "resend", inFlight'[t].mounted, Accepted(t)',
                        attempt # Unset, attempt.key < inFlight'[t].key
                 PROVE  attempt.identity[2] # code'[pending]
      BY <1>0 DEF ResentCode
    <2>1. /\ Flying(t) /\ inFlight[t].kind = "resend" /\ inFlight[t].mounted /\ inFlight[t].phone = pending
          /\ attempt.key < inFlight[t].key
      BY <1>0 DEF Screens, CallsOfScreens, Accepted, Carried, SameCall, StillMounted, Flying
    <2>2. CASE Accepted(t)
      BY <1>4, <1>14, <2>1, <2>2 DEF Screens, Codes, ResentCode
    <2>3. CASE inFlight[t].key = k
      BY <1>11, <1>12, <1>14, <2>1, <2>3
    <2> QED
      BY <1>6, <2>2, <2>3
  <1>16. OldCalls'
    BY <1>0, <1>5 DEF Screens, Codes, OldCalls, StillMounted, EntersCurrent, Verifying, Carried, SameCall, Flying
  <1>17. MountedCurrent'
    BY <1>0, <1>5 DEF Screens, Codes, MountedCurrent, StillMounted, EntersCurrent, Verifying, Carried, SameCall, Flying
  <1>18. OneCurrent'
    BY <1>0, <1>5 DEF Screens, Codes, OneCurrent, EntersCurrent, Verifying, Carried, SameCall, Flying
  <1>19. UsedByCurrent'
    <2> SUFFICES ASSUME NEW t \in Slot, EntersCurrent(t)'
                 PROVE  used'[inFlight'[t].phone] \in {Unset, inFlight'[t].key} \cup dropped
      BY <1>0 DEF UsedByCurrent
    <2>1. /\ EntersCurrent(t) /\ inFlight'[t].phone = inFlight[t].phone /\ inFlight'[t].key = inFlight[t].key
          /\ inFlight[t].phone \in Phone
      BY <1>0, <1>3, <1>5 DEF EntersCurrent, Verifying, Carried, SameCall, Flying
    <2>2. used[inFlight[t].phone] \in {Unset, inFlight[t].key} \cup dropped
      BY <2>1 DEF Screens, Codes, UsedByCurrent
    <2>3. CASE EntersCurrent(s) /\ used' = [used EXCEPT ![p] = k]
      <3>1. inFlight[t].phone = p => t = s
        BY <2>1, <2>3 DEF Screens, Codes, OneCurrent
      <3> QED
        BY <1>2, <2>1, <2>2, <2>3, <3>1
    <2>4. CASE used' = [used EXCEPT ![p] = Unset]
      BY <1>2, <2>1, <2>2, <2>4
    <2> QED
      BY <1>1, <2>3, <2>4
  <1>20. UsedByAttempt'
    <2> SUFFICES ASSUME screen = "verify"
                 PROVE  \/ used'[pending] \in {Unset} \cup dropped
                        \/ /\ attempt # Unset /\ attempt.identity = <<pending, code'[pending]>>
                           /\ attempt.key = used'[pending]
      BY <1>0 DEF UsedByAttempt
    <2>1. pending \in Phone
      BY DEF SignInTyped, SignInTypeOK
    <2>2. \/ used[pending] \in {Unset} \cup dropped
          \/ attempt # Unset /\ attempt.identity = <<pending, code[pending]>> /\ attempt.key = used[pending]
      BY DEF Screens, Codes, UsedByAttempt
    <2>3. CASE inFlight[s].kind # "verify" /\ code' = [code EXCEPT ![p] = k] /\ used' = [used EXCEPT ![p] = Unset]
      BY <1>2, <2>1, <2>2, <2>3
    <2>4. CASE EntersCurrent(s) /\ used' = [used EXCEPT ![p] = k] /\ code' = code
      <3>1. CASE pending # p
        BY <1>2, <2>1, <2>2, <2>4, <3>1
      <3>2. CASE pending = p
        <4>1. used'[pending] = k
          BY <1>2, <2>1, <2>4, <3>2
        <4>2. k \in dropped \/ (attempt # Unset /\ attempt.key = k)
          BY <2>4, <3>2 DEF Screens, Codes, OldCalls, MountedCurrent
        <4>3. ASSUME attempt # Unset, attempt.key = k
              PROVE  attempt.identity = <<pending, code'[pending]>> /\ attempt.key = used'[pending]
          <5>1. Input(inFlight[s]) = [kind |-> "verify", phone |-> pending, otp |-> attempt.identity[2]]
                /\ attempt.identity[1] = pending
            BY <1>0, <4>3 DEF Screens, AttemptNamesCall
          <5>2. attempt.identity[2] = code'[pending]
            BY <2>4, <3>2, <5>1 DEF Input, EntersCurrent
          <5>3. attempt.identity = <<attempt.identity[1], attempt.identity[2]>>
            BY <1>14, <4>3 DEF Attempt
          <5> QED
            BY <4>1, <4>3, <5>1, <5>2, <5>3
        <4> QED
          BY <4>1, <4>2, <4>3
      <3> QED
        BY <3>1, <3>2
    <2> QED
      BY <1>1, <2>3, <2>4
  <1> QED
    BY <1>7, <1>8, <1>9, <1>10, <1>13, <1>15, <1>16, <1>17, <1>18, <1>19, <1>20 DEF Screens, Codes

(* A press puts one new call in an empty place.                            *)
LEMMA PressedCall ==
    ASSUME SignInTyped, NEW kind \in {"request", "resend", "verify"}, NEW phone \in Phone,
           NEW entered \in Code \cup {WrongCode, Unset}, NEW key \in Code,
           Start(kind, phone, entered, key)
    PROVE  \E s \in Slot :
             /\ ~ Flying(s) /\ Flying(s)' /\ inFlight'[s].kind = kind /\ inFlight'[s].phone = phone
             /\ inFlight'[s].otp = entered /\ inFlight'[s].key = key /\ inFlight'[s].mounted
             /\ Input(inFlight'[s]) = [kind |-> kind, phone |-> phone, otp |-> entered]
             /\ \A t \in Slot \ {s} : inFlight'[t] = inFlight[t]
  <1>0. inFlight \in [Slot -> InFlightCall \cup {NoCall}]
    BY DEF SignInTyped
  <1>1. PICK s \in Slot :
                /\ inFlight[s] = NoCall
                /\ inFlight'[s] = [kind |-> kind, phone |-> phone, otp |-> entered, key |-> key,
                              at |-> "prepare", try |-> 1, mounted |-> TRUE]
                /\ \A t \in Slot \ {s} : inFlight'[t] = inFlight[t]
    BY <1>0, StartTyped
  <1> QED
    BY <1>1, SignInValues DEF Flying, NoCall, Input

(* A new code is asked for under a key that nothing has yet.               *)
LEMMA AskingKeepsScreens ==
    ASSUME SignInTyped, AnswersKept, Screens, NEW kind \in {"request", "resend"}, NEW phone \in Phone,
           keys + 1 \in Code, Start(kind, phone, Unset, keys + 1),
           UNCHANGED <<formVars, otpServerVars>>, ~ Pending(kind),
           kind = "request" => screen # "verify",
           kind = "resend" => screen = "verify" /\ phone = pending
    PROVE  Screens'
  <1>0. /\ UNCHANGED <<screen, pending, otp, attempt, dropped, code, used, answers>>
        /\ Unset \notin {"request", "verify", "resend"} /\ keys \in Nat
        /\ DOMAIN answers \subseteq 1..keys /\ \A t \in Slot : Flying(t) => inFlight[t].key \in 1..keys
        /\ attempt # Unset => attempt.key <= keys /\ attempt.key \in Nat
    BY SignInValues, SignInAssumption
       DEF formVars, otpServerVars, SignInTyped, SignInTypeOK, Flying, Attempt
  <1>1. PICK s \in Slot :
             /\ ~ Flying(s) /\ Flying(s)' /\ inFlight'[s].kind = kind /\ inFlight'[s].phone = phone
             /\ inFlight'[s].key = keys + 1 /\ inFlight'[s].mounted
             /\ \A t \in Slot \ {s} : inFlight'[t] = inFlight[t]
    <2>1. kind \in {"request", "resend", "verify"} /\ Unset \in Code \cup {WrongCode, Unset}
      OBVIOUS
    <2>2. \E s \in Slot :
             /\ ~ Flying(s) /\ Flying(s)' /\ inFlight'[s].kind = kind /\ inFlight'[s].phone = phone
             /\ inFlight'[s].otp = Unset /\ inFlight'[s].key = keys + 1 /\ inFlight'[s].mounted
             /\ Input(inFlight'[s]) = [kind |-> kind, phone |-> phone, otp |-> Unset]
             /\ \A t \in Slot \ {s} : inFlight'[t] = inFlight[t]
      <3>1. CASE kind = "request"
        BY <2>1, <3>1, PressedCall
      <3>2. CASE kind = "resend"
        BY <2>1, <3>2, PressedCall
      <3> QED
        BY <3>1, <3>2
    <2> QED
      BY <2>2
  <1>2. ~ Verifying(s)' /\ ~ Accepted(s)'
    BY <1>0, <1>1 DEF Verifying, Accepted
  <1>3. \A t \in Slot : Verifying(t)' => t # s
    BY <1>2
  <1>4. \A t \in Slot : Accepted(t)' => t # s
    BY <1>2
  <1>5. CallsOfScreens'
    BY <1>0, <1>1 DEF Screens, CallsOfScreens, Pending
  <1>6. AttemptNamesCall'
    BY <1>0, <1>1 DEF Screens, AttemptNamesCall, Flying
  <1>7. KeyNamesOneInput'
    BY <1>0, <1>1 DEF Screens, KeyNamesOneInput, Flying
  <1>8. CodesSent'
    BY <1>0, <1>1, <1>3 DEF Screens, CodesSent, Sent, Verifying
  <1>9. NewCodeUntouched'
    BY <1>0, <1>1, <1>3, <1>4 DEF Screens, Codes, NewCodeUntouched, Accepted, EntersCurrent, Verifying, Flying
  <1>10. ResentCode'
    BY <1>0, <1>1, <1>4 DEF Screens, Codes, ResentCode, Accepted, Flying
  <1>11. OldCalls'
    BY <1>0, <1>1, <1>3 DEF Screens, Codes, OldCalls, EntersCurrent, Verifying
  <1>12. MountedCurrent'
    BY <1>0, <1>1, <1>3 DEF Screens, Codes, MountedCurrent, EntersCurrent, Verifying
  <1>13. OneCurrent'
    BY <1>0, <1>1, <1>3 DEF Screens, Codes, OneCurrent, EntersCurrent, Verifying
  <1>14. UsedByCurrent'
    BY <1>0, <1>1, <1>3 DEF Screens, Codes, UsedByCurrent, EntersCurrent, Verifying
  <1>15. UsedByAttempt'
    BY <1>0 DEF Screens, Codes, UsedByAttempt
  <1> QED
    BY <1>5, <1>6, <1>7, <1>8, <1>9, <1>10, <1>11, <1>12, <1>13, <1>14, <1>15 DEF Screens, Codes

(* So does a press of Verify: the key of the attempt names the number and  *)
(* the code in the form, or is new.                                        *)
LEMMA PressVerifyKeepsScreens ==
    ASSUME SignInTyped, SignInTyped', AnswersKept, Screens, PressVerify
    PROVE  Screens'
  <1>0. /\ UNCHANGED <<screen, pending, otp, code, used, answers>> /\ screen = "verify" /\ otp # Unset
        /\ Unset \notin {"request", "verify", "resend"} /\ keys \in Nat /\ pending \in Phone
        /\ otp \in Code \cup {WrongCode} /\ attempt' = VerificationAttempt(<<pending, otp>>)
        /\ ~ Pending("verify") /\ Start("verify", pending, otp, attempt'.key)
        /\ DOMAIN answers \subseteq 1..keys /\ \A t \in Slot : Flying(t) => inFlight[t].key \in 1..keys
        /\ dropped' = IF attempt # Unset /\ attempt.identity # <<pending, otp>> THEN dropped \cup {attempt.key}
                      ELSE dropped
    BY SignInValues, SignInAssumption
       DEF PressVerify, otpServerVars, SignInTyped, SignInTypeOK, Flying
  <1> DEFINE named == [kind |-> "verify", phone |-> pending, otp |-> otp]
  <1>1. \/ attempt' = attempt /\ attempt # Unset /\ attempt.identity = <<pending, otp>> /\ dropped' = dropped
        \/ attempt' = [identity |-> <<pending, otp>>, key |-> keys + 1]
    BY <1>0 DEF VerificationAttempt
  <1>2. /\ attempt'.identity = <<pending, otp>>
        /\ attempt'.key = keys + 1 \/ (attempt' = attempt /\ attempt # Unset)
    BY <1>1
  <1>3. attempt' # Unset /\ attempt'.key \in Code
    <2>1. attempt' # Unset
      <3>1. CASE attempt' = attempt /\ attempt # Unset
        BY <3>1
      <3>2. CASE attempt' = [identity |-> <<pending, otp>>, key |-> keys + 1]
        <4>1. keys + 1 \in Code
          BY <1>0, <3>2, SignInAssumption DEF PressVerify, Code
        <4>2. attempt' \in Attempt
          BY <1>0, <3>2, <4>1 DEF Attempt
        <4> QED
          BY <4>2, SignInAssumption
      <3> QED
        BY <1>1, <3>1, <3>2
    <2> QED
      BY <2>1 DEF SignInTyped, SignInTypeOK, Attempt
  <1>4. PICK s \in Slot :
             /\ ~ Flying(s) /\ Flying(s)' /\ inFlight'[s].kind = "verify" /\ inFlight'[s].phone = pending
             /\ inFlight'[s].otp = otp /\ inFlight'[s].key = attempt'.key /\ inFlight'[s].mounted
             /\ Input(inFlight'[s]) = named
             /\ \A t \in Slot \ {s} : inFlight'[t] = inFlight[t]
    BY <1>0, <1>3, PressedCall
  (* The key is new, or names this very input already.                     *)
  <1>5. /\ attempt'.key \in DOMAIN answers => answers[attempt'.key] = named
        /\ \A t \in Slot : Flying(t) /\ inFlight[t].key = attempt'.key => Input(inFlight[t]) = named
    <2>1. CASE attempt'.key = keys + 1
      BY <1>0, <2>1
    <2>2. CASE attempt' = attempt /\ attempt # Unset
      <3>1. attempt.identity[2] = otp
        BY <1>2, <2>2
      <3> QED
        BY <2>2, <3>1 DEF Screens, AttemptNamesCall
    <2> QED
      BY <1>2, <2>1, <2>2
  <1>6. CallsOfScreens'
    BY <1>0, <1>4 DEF Screens, CallsOfScreens
  <1>7. AttemptNamesCall'
    <2>1. attempt'.identity[1] = pending /\ attempt'.identity[2] = otp
      BY <1>2
    <2>2. \A t \in Slot : Flying(t)' /\ inFlight'[t].key = attempt'.key => Input(inFlight'[t]) = named
      BY <1>4, <1>5 DEF Flying
    <2> QED
      BY <1>0, <1>5, <2>1, <2>2 DEF AttemptNamesCall
  <1>8. KeyNamesOneInput'
    BY <1>0, <1>4, <1>5 DEF Screens, KeyNamesOneInput, Flying
  <1>9. CodesSent'
    <2>1. otp \in Sent /\ attempt'.identity[2] = otp
      BY <1>0, <1>2 DEF Screens, CodesSent
    <2> QED
      BY <1>0, <1>4, <2>1 DEF Screens, CodesSent, Sent, Verifying
  <1>10. NewCodeUntouched'
    BY <1>0, <1>6 DEF CallsOfScreens, NewCodeUntouched
  <1>11. ResentCode'
    <2> SUFFICES ASSUME NEW t \in Slot, inFlight'[t].kind = "resend", inFlight'[t].mounted, Accepted(t)',
                        attempt'.key < inFlight'[t].key
                 PROVE  attempt'.identity[2] # code'[pending']
      BY DEF ResentCode
    <2>1. inFlight'[t] = inFlight[t] /\ Flying(t) /\ Accepted(t)
      BY <1>0, <1>4 DEF Accepted, Flying
    <2>2. attempt' = attempt /\ attempt # Unset
      BY <1>0, <1>2, <2>1
    <2> QED
      BY <1>0, <2>1, <2>2 DEF Screens, Codes, ResentCode
  <1>12. \A t \in Slot : Verifying(t) /\ t # s => ~ inFlight[t].mounted
    BY <1>0 DEF Pending, Verifying
  <1>13. OldCalls'
    BY <1>0, <1>4 DEF Screens, Codes, OldCalls, EntersCurrent, Verifying
  <1>14. MountedCurrent'
    BY <1>3, <1>4, <1>12 DEF MountedCurrent, EntersCurrent, Verifying
  <1>15. \A t \in Slot \ {s} : EntersCurrent(t)' => EntersCurrent(t) /\ inFlight[t].phone # pending
    BY <1>0, <1>4, <1>12 DEF Screens, Codes, OldCalls, EntersCurrent, Verifying
  <1>16. OneCurrent'
    BY <1>0, <1>4, <1>15 DEF Screens, Codes, OneCurrent
  <1>17. dropped \subseteq dropped'
    BY <1>0
  <1>18. UsedByAttempt'
    <2>1. CASE used[pending] \in {Unset} \cup dropped
      BY <1>0, <1>17, <2>1 DEF UsedByAttempt
    <2>2. CASE attempt # Unset /\ attempt.identity = <<pending, code[pending]>> /\ attempt.key = used[pending]
      <3>1. CASE attempt.identity = <<pending, otp>>
        BY <1>0, <2>2, <3>1 DEF UsedByAttempt, VerificationAttempt
      <3>2. CASE attempt.identity # <<pending, otp>>
        BY <1>0, <2>2, <3>2 DEF UsedByAttempt
      <3> QED
        BY <3>1, <3>2
    <2> QED
      BY <1>0, <2>1, <2>2 DEF Screens, Codes, UsedByAttempt
  <1>19. UsedByCurrent'
    <2> SUFFICES ASSUME NEW t \in Slot, EntersCurrent(t)'
                 PROVE  used[inFlight'[t].phone] \in {Unset, inFlight'[t].key} \cup dropped'
      BY <1>0 DEF UsedByCurrent
    <2>1. CASE t # s
      BY <1>4, <1>15, <1>17, <2>1 DEF Screens, Codes, UsedByCurrent
    <2>2. CASE t = s
      <3>1. otp = code[pending] /\ inFlight'[t].phone = pending /\ inFlight'[t].key = attempt'.key
        BY <1>0, <1>4, <2>2 DEF EntersCurrent
      <3>2. CASE used[pending] \in {Unset} \cup dropped
        BY <1>17, <3>1, <3>2
      <3>3. CASE attempt # Unset /\ attempt.identity = <<pending, code[pending]>> /\ attempt.key = used[pending]
        BY <1>0, <3>1, <3>3 DEF VerificationAttempt
      <3> QED
        BY <1>0, <3>2, <3>3 DEF Screens, Codes, UsedByAttempt
    <2> QED
      BY <2>1, <2>2
  <1> QED
    BY <1>6, <1>7, <1>8, <1>9, <1>10, <1>11, <1>13, <1>14, <1>16, <1>18, <1>19 DEF Screens, Codes

(* So does the answer to a request, which opens the verify screen: the     *)
(* code it announces was entered nowhere and used by nothing.              *)
LEMMA RequestKeepsScreens ==
    ASSUME SignInTyped, AnswersKept, Screens, NEW s \in Slot, RequestSucceeded(s)
    PROVE  Screens'
  <1>0. /\ inFlight[s].kind = "request" /\ Flying(s) /\ inFlight[s].at = "ok"
        /\ pending' = inFlight[s].phone /\ screen' \in {"app", "verify"}
        /\ inFlight' = [inFlight EXCEPT ![s] = NoCall]
        /\ UNCHANGED <<otp, attempt, dropped, code, used, answers>>
        /\ Unset \notin {"request", "verify", "resend"} /\ inFlight \in [Slot -> InFlightCall \cup {NoCall}]
    BY SignInValues DEF RequestSucceeded, Flying, otpServerVars, SignInTyped
  <1>1. Carried /\ StillMounted /\ ~ Flying(s)'
    BY <1>0, CallsCarried DEF Flying, NoCall
  <1>2. screen # "verify" /\ attempt = Unset /\ otp = Unset
    BY <1>0 DEF Screens, CallsOfScreens
  <1>3. \A t \in Slot : Flying(t)' => t # s /\ inFlight'[t].kind # "request" /\ ~ inFlight'[t].mounted
    <2> SUFFICES ASSUME NEW t \in Slot, Flying(t)'
                 PROVE  t # s /\ inFlight'[t].kind # "request" /\ ~ inFlight'[t].mounted
      OBVIOUS
    <2>1. t # s /\ Flying(t) /\ inFlight'[t].kind = inFlight[t].kind /\ inFlight'[t].mounted = inFlight[t].mounted
      BY <1>1 DEF Carried, SameCall, StillMounted
    <2>2. inFlight[t].kind # "request"
      BY <1>0, <2>1 DEF Screens, CallsOfScreens
    <2>3. inFlight[t].kind \in {"verify", "resend"} /\ inFlight[t].mounted \in BOOLEAN
      BY <1>0, <2>1, <2>2, CallsInFlight DEF InFlightCall
    <2> QED
      BY <1>2, <2>1, <2>2, <2>3 DEF Screens, CallsOfScreens
  <1>4. CallsOfScreens'
    BY <1>0, <1>2, <1>3 DEF CallsOfScreens, Flying
  <1>5. AttemptNamesCall'
    BY <1>0, <1>2 DEF AttemptNamesCall
  <1>6. KeyNamesOneInput'
    BY <1>0, <1>1 DEF Screens, KeyNamesOneInput, Carried, SameCall, Flying, Input
  <1>7. CodesSent'
    BY <1>0, <1>1 DEF Screens, CodesSent, Sent, Verifying, Carried, SameCall, Flying
  <1>8. NewCodeUntouched'
    BY <1>0, <1>3 DEF NewCodeUntouched, Flying
  <1>9. ResentCode'
    BY <1>0, <1>2 DEF ResentCode
  (* The code of the number is the one just sent, and was entered nowhere. *)
  <1>10. used[inFlight[s].phone] = Unset /\ \A t \in Slot : EntersCurrent(t) => inFlight[t].phone # inFlight[s].phone
    <2>1. Accepted(s)
      BY <1>0 DEF AnswersKept, Accepted
    <2> QED
      BY <1>0, <2>1 DEF Screens, Codes, NewCodeUntouched
  <1>11. OldCalls'
    BY <1>0, <1>1, <1>10 DEF OldCalls, EntersCurrent, Verifying, Carried, SameCall, Flying
  <1>12. MountedCurrent'
    BY <1>0, <1>3 DEF MountedCurrent, EntersCurrent, Verifying, Flying
  <1>13. OneCurrent'
    BY <1>0, <1>1 DEF Screens, Codes, OneCurrent, EntersCurrent, Verifying, Carried, SameCall, Flying
  <1>14. UsedByCurrent'
    BY <1>0, <1>1 DEF Screens, Codes, UsedByCurrent, EntersCurrent, Verifying, Carried, SameCall, Flying
  <1>15. UsedByAttempt'
    BY <1>0, <1>10 DEF UsedByAttempt
  <1> QED
    BY <1>4, <1>5, <1>6, <1>7, <1>8, <1>9, <1>11, <1>12, <1>13, <1>14, <1>15 DEF Screens, Codes

(* So does the answer to a resend, which forgets the attempt: it was for   *)
(* an older code, or its key is dropped.                                   *)
LEMMA ResendKeepsScreens ==
    ASSUME SignInTyped, AnswersKept, Screens, NEW s \in Slot, ResendSucceeded(s)
    PROVE  Screens'
  <1>0. /\ inFlight[s].kind = "resend" /\ Flying(s) /\ inFlight[s].at = "ok"
        /\ inFlight' = [inFlight EXCEPT ![s] = NoCall]
        /\ UNCHANGED <<screen, pending, otp, code, used, answers>>
        /\ attempt' = IF inFlight[s].mounted THEN Unset ELSE attempt
        /\ dropped' = IF attempt' # attempt /\ attempt.key > inFlight[s].key THEN dropped \cup {attempt.key}
                      ELSE dropped
        /\ Unset \notin {"request", "verify", "resend"} /\ inFlight \in [Slot -> InFlightCall \cup {NoCall}]
    BY SignInValues DEF ResendSucceeded, Flying, otpServerVars, SignInTyped
  <1>1. Carried /\ StillMounted /\ dropped \subseteq dropped' /\ attempt' \in {attempt, Unset}
    BY <1>0, CallsCarried
  (* The answer drops what it must: the attempt is for the new code, and   *)
  (* its key is dropped, or it is for an old one.                          *)
  <1>2. ASSUME attempt' # attempt
        PROVE  attempt.key \in dropped' \/ attempt.identity[2] # code[pending]
    <2>1. inFlight[s].mounted /\ attempt # Unset /\ Accepted(s)
      BY <1>0, <1>2 DEF AnswersKept, Accepted
    <2>2. attempt.key # inFlight[s].key
      BY <1>0, <2>1 DEF Screens, AttemptNamesCall, Input
    <2>3. attempt.key \in Nat /\ inFlight[s].key \in Nat
      BY <1>0, <2>1, SignInValues, CallsInFlight DEF SignInTyped, SignInTypeOK, Attempt, InFlightCall
    <2>4. CASE attempt.key > inFlight[s].key
      BY <1>0, <1>2, <2>4
    <2>5. CASE attempt.key < inFlight[s].key
      BY <1>0, <2>1, <2>5 DEF Screens, Codes, ResentCode
    <2> QED
      BY <2>2, <2>3, <2>4, <2>5
  <1>3. CallsOfScreens'
    BY <1>0, <1>1 DEF Screens, CallsOfScreens, StillMounted, Carried, SameCall, Flying
  <1>4. AttemptNamesCall'
    BY <1>0, <1>1 DEF Screens, AttemptNamesCall, Carried, SameCall, Flying, Input
  <1>5. KeyNamesOneInput'
    BY <1>0, <1>1 DEF Screens, KeyNamesOneInput, Carried, SameCall, Flying, Input
  <1>6. CodesSent'
    BY <1>0, <1>1 DEF Screens, CodesSent, Sent, Verifying, Carried, SameCall, Flying
  <1>7. NewCodeUntouched'
    BY <1>0, <1>1 DEF Screens, Codes, NewCodeUntouched, Accepted, EntersCurrent, Verifying, Carried, SameCall, Flying
  <1>8. ResentCode'
    BY <1>0, <1>1 DEF Screens, Codes, ResentCode, StillMounted, Accepted, Carried, SameCall, Flying
  <1>9. OldCalls'
    BY <1>0, <1>1 DEF Screens, Codes, OldCalls, StillMounted, EntersCurrent, Verifying, Carried, SameCall, Flying
  <1>10. MountedCurrent'
    <2> SUFFICES ASSUME NEW t \in Slot, EntersCurrent(t)', inFlight'[t].mounted
                 PROVE  \/ inFlight'[t].key \in dropped'
                        \/ attempt' # Unset /\ attempt'.key = inFlight'[t].key
      BY DEF MountedCurrent
    <2>1. /\ EntersCurrent(t) /\ Flying(t) /\ inFlight[t].mounted /\ inFlight'[t].key = inFlight[t].key
      BY <1>0, <1>1 DEF EntersCurrent, Verifying, Carried, SameCall, StillMounted, Flying
    <2>2. inFlight[t].key \in dropped \/ (attempt # Unset /\ attempt.key = inFlight[t].key)
      BY <2>1 DEF Screens, Codes, MountedCurrent
    <2>3. CASE attempt # Unset /\ attempt.key = inFlight[t].key /\ attempt' # attempt
      <3>1. inFlight[t].otp = attempt.identity[2] /\ inFlight[t].phone = pending
        BY <2>1, <2>3 DEF Screens, AttemptNamesCall, Input
      <3>2. inFlight[t].otp = code[pending]
        BY <2>1, <3>1 DEF EntersCurrent
      <3> QED
        BY <1>2, <2>1, <2>3, <3>1, <3>2
    <2> QED
      BY <1>1, <2>1, <2>2, <2>3
  <1>11. OneCurrent'
    BY <1>0, <1>1 DEF Screens, Codes, OneCurrent, EntersCurrent, Verifying, Carried, SameCall, Flying
  <1>12. UsedByCurrent'
    BY <1>0, <1>1 DEF Screens, Codes, UsedByCurrent, EntersCurrent, Verifying, Carried, SameCall, Flying
  <1>13. UsedByAttempt'
    <2>1. CASE attempt' = attempt
      BY <1>0, <1>1, <2>1 DEF Screens, Codes, UsedByAttempt
    <2>2. CASE attempt' # attempt
      <3>1. attempt.identity = <<pending, code[pending]>> => attempt.identity[2] = code[pending]
        OBVIOUS
      <3> QED
        BY <1>0, <1>1, <1>2, <2>2, <3>1 DEF Screens, Codes, UsedByAttempt
    <2> QED
      BY <2>1, <2>2
  <1> QED
    BY <1>3, <1>4, <1>5, <1>6, <1>7, <1>8, <1>9, <1>10, <1>11, <1>12, <1>13 DEF Screens, Codes

(* Successes stay, and a key that was refused uses no code: only one call  *)
(* enters the current code (OneCurrent).                                   *)
LEMMA AnswersKeptStep ==
    ASSUME SignInTyped, DeviceTyped, AnswersKept, Screens, [SignInNext]_signInVars
    PROVE  AnswersKept'
  <1>0. /\ used \in [Phone -> Code \cup {Unset}] /\ Unset \notin Code
        /\ \A s \in Slot : Flying(s) => inFlight[s].key \in Code
    BY SignInValues, CallsInFlight DEF SignInTyped, InFlightCall
  <1>1. \A k \in DOMAIN answers : k \in DOMAIN answers' /\ answers'[k] = answers[k]
    BY SignInServerTyped
  (* How a code comes to be used, or a use forgotten.                      *)
  <1>2. ASSUME NEW p \in Phone, used'[p] # used[p], used'[p] # Unset
        PROVE  /\ used'[p] \in DOMAIN answers' /\ used'[p] \notin DOMAIN answers
               /\ \E s \in Slot : Serve(s) /\ EntersCurrent(s) /\ inFlight[s].key = used'[p] /\ inFlight'[s].at = "ok"
    <2>1. PICK s \in Slot : Serve(s) /\ inFlight[s].key \notin DOMAIN answers /\ Decide(inFlight[s])
      BY <1>2, OtpServerSteps DEF otpServerVars
    <2>2. Flying(s)
      BY <2>1 DEF Serve, Flying
    <2>3. /\ DOMAIN answers' = DOMAIN answers \cup {inFlight[s].key}
          /\ \/ used' = [used EXCEPT ![inFlight[s].phone] = Unset]
             \/ EntersCurrent(s) /\ used' = [used EXCEPT ![inFlight[s].phone] = inFlight[s].key]
      BY <2>1, <2>2, Decisions
    <2>4. EntersCurrent(s) /\ used'[p] = inFlight[s].key
      BY <1>0, <1>2, <2>3
    <2>5. inFlight'[s].at = "ok"
      <3>1. PICK outcome \in {"ok", "refused"} :
               /\ inFlight' = [inFlight EXCEPT ![s].at = outcome]
               /\ IF outcome = "ok" /\ inFlight[s].key \notin DOMAIN answers THEN Decide(inFlight[s])
                  ELSE UNCHANGED otpServerVars
        BY <2>1 DEF Serve
      <3>2. outcome = "ok"
        BY <1>2, <3>1 DEF otpServerVars
      <3> QED
        BY <2>2, <3>1, <3>2, CallsInFlight DEF SignInTyped, InFlightCall
    <2> QED
      BY <2>1, <2>3, <2>4, <2>5
  <1>3. ASSUME NEW s \in Slot, Flying(s)', inFlight'[s].at = "ok" PROVE inFlight'[s].key \in DOMAIN answers'
    <2>1. Moved(s)
      BY <1>3, Moves
    <2>2. CASE inFlight'[s].at = inFlight[s].at
      BY <1>1, <1>3, <2>1, <2>2 DEF Moved, AnswersKept
    <2>3. CASE Serve(s)
      <3>1. Flying(s)
        BY <2>3 DEF Serve, Flying
      <3>2. PICK outcome \in {"ok", "refused"} :
               /\ inFlight' = [inFlight EXCEPT ![s].at = outcome]
               /\ IF outcome = "ok" /\ inFlight[s].key \notin DOMAIN answers THEN Decide(inFlight[s])
                  ELSE UNCHANGED otpServerVars
        BY <2>3 DEF Serve
      <3>3. outcome = "ok"
        BY <1>3, <3>1, <3>2, CallsInFlight DEF SignInTyped, InFlightCall
      <3>4. inFlight[s].key \in DOMAIN answers'
        BY <1>1, <3>1, <3>2, <3>3, Decisions
      <3> QED
        BY <2>1, <3>4 DEF Moved
    <2> QED
      BY <1>3, <2>1, <2>2, <2>3 DEF Moved
  <1>4. ASSUME NEW s \in Slot, Flying(s)', inFlight'[s].at = "refused", NEW p \in Phone
        PROVE  used'[p] # inFlight'[s].key
    <2> SUFFICES ASSUME used'[p] = inFlight'[s].key PROVE FALSE
      OBVIOUS
    <2>1. Moved(s) /\ Flying(s) /\ inFlight'[s].key = inFlight[s].key /\ inFlight[s].key # Unset
      BY <1>0, <1>4, Moves DEF Moved
    <2>2. CASE used'[p] = used[p]
      <3>1. inFlight[s].key \in DOMAIN answers
        BY <2>1, <2>2 DEF AnswersKept
      <3>2. CASE inFlight'[s].at = inFlight[s].at
        BY <1>4, <2>1, <2>2, <3>2 DEF AnswersKept
      <3>3. CASE Serve(s)
        <4>1. answers[inFlight[s].key] = Input(inFlight[s])
          BY <2>1, <3>1 DEF Screens, KeyNamesOneInput, Flying
        <4>2. inFlight' = [inFlight EXCEPT ![s].at = "ok"]
          BY <1>4, <2>1, <3>1, <3>3, <4>1 DEF Serve
        <4> QED
          BY <1>4, <2>1, <4>2, CallsInFlight DEF SignInTyped, InFlightCall
      <3> QED
        BY <1>4, <2>1, <3>2, <3>3 DEF Moved
    <2>3. CASE used'[p] # used[p]
      <3>1. PICK t \in Slot : Serve(t) /\ EntersCurrent(t) /\ inFlight[t].key = used'[p] /\ inFlight'[t].at = "ok"
        BY <1>2, <2>1, <2>3
      <3>2. Input(inFlight[s]) = Input(inFlight[t])
        BY <2>1, <3>1 DEF Screens, KeyNamesOneInput, Flying, Serve
      <3>3. EntersCurrent(s) /\ inFlight[s].phone = inFlight[t].phone
        BY <3>1, <3>2 DEF Input, EntersCurrent, Verifying
      <3>4. s = t
        BY <3>1, <3>3 DEF Screens, Codes, OneCurrent
      <3> QED
        BY <1>4, <3>1, <3>4
    <2> QED
      BY <2>2, <2>3
  <1>5. ASSUME NEW p \in Phone, used'[p] # Unset PROVE used'[p] \in DOMAIN answers'
    <2>1. CASE used'[p] = used[p]
      BY <1>1, <1>5, <2>1 DEF AnswersKept
    <2>2. CASE used'[p] # used[p]
      BY <1>2, <1>5, <2>2
    <2> QED
      BY <2>1, <2>2
  <1> QED
    BY <1>3, <1>4, <1>5 DEF AnswersKept

(* The app starts in a sound state.                                        *)
LEMMA SignInStarts == SignInInit => SignInInv
  <1> SUFFICES ASSUME SignInInit PROVE SignInInv
    OBVIOUS
  <1>0. /\ \A s \in Slot : inFlight[s] = NoCall /\ inFlight[s].kind = Unset
        /\ DOMAIN answers = {} /\ Unset \notin {"request", "verify", "resend"}
    BY SignInAssumption DEF SignInInit, NoCall
  <1>1. SignInTyped
    <2>1. SignInTypeOK
      BY <1>0, SignInAssumption DEF SignInInit, SignInTypeOK, Fresh
    <2>2. answers \in [DOMAIN answers -> InputSet]
      BY <1>0 DEF SignInInit
    <2> QED
      BY <1>0, <2>1, <2>2 DEF SignInInit, SignInTyped, Verifying
  <1>2. DeviceTyped
    BY SignInAssumption DEF SignInInit, DeviceTyped, DeviceSet, Fresh
  <1>3. OneId
    BY <1>0 DEF SignInInit, OneId, Flying, Fresh
  <1>4. AnswersKept
    BY <1>0 DEF SignInInit, AnswersKept, Flying
  <1>5. CallsOfScreens /\ AttemptNamesCall /\ KeyNamesOneInput
    BY <1>0 DEF SignInInit, CallsOfScreens, AttemptNamesCall, KeyNamesOneInput
  <1>6. CodesSent
    BY <1>0 DEF SignInInit, CodesSent, Verifying, Sent
  <1>7. Codes
    BY <1>0 DEF SignInInit, Codes, NewCodeUntouched, ResentCode, OldCalls, MountedCurrent, OneCurrent,
                UsedByCurrent, UsedByAttempt, EntersCurrent, Verifying
  <1> QED
    BY <1>1, <1>2, <1>3, <1>4, <1>5, <1>6, <1>7 DEF SignInInv, Screens

(* Every step of the sign-in screens keeps the invariant.                  *)
LEMMA SignInStep ==
    ASSUME SignInInv, [SignInNext]_signInVars
    PROVE  SignInInv'
  <1>1. SignInTyped /\ DeviceTyped /\ OneId /\ AnswersKept /\ Screens
    BY DEF SignInInv
  <1>2. SignInTyped' /\ DeviceTyped'
    BY <1>1, SignInTypedStep
  <1>3. OneId'
    BY <1>1, OneIdStep
  <1>4. AnswersKept'
    BY <1>1, AnswersKeptStep
  <1>5. Screens'
    <2>1. CASE QuietSignIn
      BY <1>1, <2>1, QuietKeepsScreens
    <2>2. CASE LeavingStep
      BY <1>1, <2>2, LeavingKeepsScreens
    <2>3. CASE PressRequest
      <3>1. /\ typed \in Phone /\ keys + 1 \in Code /\ Start("request", typed, Unset, keys + 1)
            /\ UNCHANGED <<formVars, otpServerVars>> /\ ~ Pending("request") /\ screen # "verify"
        BY <1>1, <2>3, SignInAssumption DEF PressRequest, SignInTyped, SignInTypeOK, Code
      <3>2. "request" \in {"request", "resend"} /\ "request" # "resend"
        OBVIOUS
      <3> QED
        BY <1>1, <3>1, <3>2, AskingKeepsScreens
    <2>4. CASE PressResend
      <3>1. /\ pending \in Phone /\ keys + 1 \in Code /\ Start("resend", pending, Unset, keys + 1)
            /\ UNCHANGED <<formVars, otpServerVars>> /\ ~ Pending("resend") /\ screen = "verify"
        BY <1>1, <2>4, SignInAssumption DEF PressResend, SignInTyped, SignInTypeOK, Code
      <3>2. "resend" \in {"request", "resend"} /\ "request" # "resend"
        OBVIOUS
      <3> QED
        BY <1>1, <3>1, <3>2, AskingKeepsScreens
    <2>5. CASE PressVerify
      BY <1>1, <1>2, <2>5, PressVerifyKeepsScreens
    <2>6. ASSUME NEW s \in Slot, AnswerStep(s) \/ RequestSucceeded(s) \/ ResendSucceeded(s) PROVE Screens'
      BY <1>1, <2>6, AnswerKeepsScreens, RequestKeepsScreens, ResendKeepsScreens
    <2> QED
      BY <1>1, <2>1, <2>2, <2>3, <2>4, <2>5, <2>6, SignInSteps
  <1> QED
    BY <1>2, <1>3, <1>4, <1>5 DEF SignInInv

(* What the screens, their calls and the server agree on, for any number   *)
(* of telephone numbers, presses, attempts and restarts.                   *)
THEOREM SignInInvariance == SignInSpec => []SignInInv
  <1>1. SignInInit => SignInInv
    BY SignInStarts
  <1>2. SignInInv /\ [SignInNext]_signInVars => SignInInv'
    BY SignInStep
  <1> QED
    BY <1>1, <1>2, PTL DEF SignInSpec

(* A key never comes with two inputs: every attempt under a key of         *)
(* request-otp.tsx and verify-otp.tsx carries the same number and code.    *)
THEOREM AttemptsStaySound == SignInSpec => []AttemptsSound
  <1>1. SignInInv => AttemptsSound
    BY DEF SignInInv, SignInTyped, Screens, AttemptsSound
  <1> QED
    BY <1>1, SignInInvariance, PTL

(* A current code that was entered is refused only when its use is unknown *)
(* to the form because the key was dropped (verificationAttempt).          *)
THEOREM OwnCodesAreTaken == SignInSpec => []OwnCodeNotRefused
  <1>1. ASSUME SignInInv, NEW s \in Slot, Verifying(s), inFlight[s].at = "refused",
               inFlight[s].otp = code[inFlight[s].phone],
               used[inFlight[s].phone] \notin dropped \cup {Unset}
        PROVE  FALSE
    <2>1. SignInTyped /\ AnswersKept /\ Screens
      BY <1>1 DEF SignInInv
    <2>2. EntersCurrent(s) /\ Flying(s) /\ inFlight[s].phone \in Phone
      BY <1>1, <2>1, FlyingKinds DEF EntersCurrent
    <2>3. used[inFlight[s].phone] = inFlight[s].key
      BY <1>1, <2>1, <2>2 DEF Screens, Codes, UsedByCurrent
    <2> QED
      BY <1>1, <2>1, <2>2, <2>3 DEF AnswersKept
  <1>2. SignInInv => OwnCodeNotRefused
    BY <1>1 DEF OwnCodeNotRefused, Verifying
  <1> QED
    BY <1>2, SignInInvariance, PTL

(* All requests of a process carry one installation id, what is stored is  *)
(* what they carry, and a stored id stays in every process that could read *)
(* it (installationIdStore.getOrCreateId, loadOrCreateId).                 *)
THEOREM InstallationsAreOne == SignInSpec => OneInstallationId
  <1> DEFINE Same == /\ Cardinality(sentAs') <= 1
                     /\ device'.stored # device.stored => sentAs' \subseteq {device'.stored}
                     /\ device.stored # Unset /\ ~ device'.misread =>
                            device'.stored = device.stored /\ sentAs' \subseteq {device.stored}
  <1>1. SignInInv /\ [SignInNext]_signInVars => Same
    <2> SUFFICES ASSUME SignInInv, [SignInNext]_signInVars PROVE Same
      OBVIOUS
    <2>1. /\ OneId'
          /\ device'.stored # device.stored => sentAs' \subseteq {device'.stored}
          /\ device.stored # Unset /\ ~ device'.misread =>
                 device'.stored = device.stored /\ sentAs' \subseteq {device.stored}
      BY OneIdStep DEF SignInInv
    <2>2. sentAs' = {} \/ sentAs' = {device'.cached}
      BY <2>1 DEF OneId
    <2>3. Cardinality({}) = 0 /\ Cardinality({device'.cached}) = 1
      BY FS_EmptySet, FS_Singleton
    <2> QED
      BY <2>1, <2>2, <2>3
  <1>2. SignInInv /\ [SignInNext]_signInVars => [Same]_signInVars
    BY <1>1
  <1> QED
    BY <1>2, SignInInvariance, PTL DEF SignInSpec, OneInstallationId

-----------------------------------------------------------------------------
(* The screens.                                                            *)

(* The tokens so far, and the keys under them.                             *)
Issued == User \X (1..issued)
SessionKey == Topic \X Issued
NoChange == [op |-> Nil]
ChangeSent ==
    [op : Operation, at : {"sent", "reply", "refresh", "await"}, tok : Issued, mounted : BOOLEAN,
     fresh : BOOLEAN, todo : Seq(SUBSET Topic)]

ScreensTyped ==
    /\ ScreensTypeOK
    /\ scope \in Visits /\ issued \in 1..scope.tokens /\ token \in Issued \cup {Nil}
    /\ leaving \in Nat /\ adrift \subseteq opened
    /\ DOMAIN cache \subseteq SessionKey /\ DOMAIN fetch \subseteq SessionKey
    /\ cache \in [DOMAIN cache -> [of : User, current : BOOLEAN, stale : BOOLEAN]]
    /\ fetch \in [DOMAIN fetch -> [of : User, early : BOOLEAN]]
    /\ change \in [1..MaxCalls -> ChangeSent \cup {NoChange}]

(* Answers are kept and fetched under the token of their customer.         *)
KeptForOwner ==
    /\ \A k \in DOMAIN cache : cache[k].of = k[2][1]
    /\ \A k \in DOMAIN fetch : fetch[k].of = k[2][1]

Making(i) == change[i].op # Nil

(* A change has its groups before it until it invalidates them.            *)
Planned(c) ==
    c.op # Nil => /\ c.at \in {"sent", "reply"} => c.todo = Invalidates(c.op)
                  /\ c.at \in {"refresh", "await"} => c.todo # <<>>
PlanKept == \A i \in DOMAIN change : Planned(change[i])

(* What a change has yet to put into the cache or invalidate.              *)
Groups(todo, from) == UNION {todo[n] : n \in from..Len(todo)}
Due(i) ==
    CASE change[i].at = "reply" -> Affects(change[i].op)
      [] change[i].at = "refresh" -> Groups(change[i].todo, 1)
      [] change[i].at = "await" -> Groups(change[i].todo, 2)
      [] OTHER -> {}
Reaches(i) == change[i].at = "reply" \/ ByPrefix(change[i].op) \/ change[i].tok = token
Owes(i, t) == Making(i) /\ Reaches(i) /\ t \in Due(i)
Owed(t) == \E i \in DOMAIN change : Owes(i, t)

(* A fetch that a write has overtaken, and an answer that it has outdated, *)
(* is somebody's business.                                                 *)
FetchesSettled ==
    \A t \in Topic :
        LET k == Key(t, token)
        IN  k \in DOMAIN fetch /\ fetch[k].early /\ k \notin excused => Owed(t)
AnswersSettled ==
    \A t \in Topic :
        LET k == Key(t, token)
        IN  k \in DOMAIN cache /\ ~ cache[k].current /\ k \notin excused \cup failed =>
                \/ Owed(t)
                \/ k \in DOMAIN fetch
                \/ cache[k].stale /\ k \notin Visible
Settled == token # Nil => FetchesSettled /\ AnswersSettled

ScreensInv == ScreensTyped /\ KeptForOwner /\ PlanKept /\ Settled

SameChange(i) ==
    /\ Making(i)' = Making(i)
    /\ Making(i) => /\ change'[i].op = change[i].op /\ change'[i].at = change[i].at
                    /\ change'[i].tok = change[i].tok /\ change'[i].todo = change[i].todo

(* What the seven screens read.                                            *)
LEMMA ScreenReads ==
    /\ Screen = {"dashboard", "goal", "transactions", "add", "import", "alerts", "account"}
    /\ \A s \in Screen : Reads[s] = App[s].reads
    /\ Reads["dashboard"] = {"dashboard"} /\ Reads["goal"] = {"goal", "history"}
    /\ Reads["transactions"] = {"entries", "goal"} /\ Reads["add"] = {"goal"} /\ Reads["import"] = {"goal"}
    /\ Reads["alerts"] = {"alerts"} /\ Reads["account"] = {"account"}
  <1>1. Screen = {"dashboard", "goal", "transactions", "add", "import", "alerts", "account"}
    BY DEF Screen, App
  <1>2. \A s \in Screen : Reads[s] = App[s].reads
    BY DEF Reads
  <1>3. /\ App["dashboard"].reads = {"dashboard"} /\ App["goal"].reads = {"goal", "history"}
        /\ App["transactions"].reads = {"entries", "goal"} /\ App["add"].reads = {"goal"}
        /\ App["import"].reads = {"goal"}
        /\ App["alerts"].reads = {"alerts"} /\ App["account"].reads = {"account"}
    BY DEF App, DashboardScreen, GoalScreen, TransactionsScreen, AddTransactionScreen,
           ImportTransactionsScreen, AlertsScreen, AccountScreen
  <1> QED
    BY <1>1, <1>2, <1>3

(* What there is to read.                                                  *)
LEMMA Topics == Topic = {"dashboard", "goal", "history", "entries", "alerts", "account"}
  BY ScreenReads DEF Topic

(* Changes affect, put and invalidate what screens read.                   *)
LEMMA TopicsAffected ==
    ASSUME NEW op
    PROVE  /\ Affects(op) \subseteq Topic /\ Puts(op) \subseteq Topic
           /\ Invalidates(op) \in Seq(SUBSET Topic)
  <1>1. Affects(op) \subseteq Topic
    BY Topics DEF Affects
  <1>2. Puts(op) \subseteq Topic
    BY Topics DEF Puts
  <1>3. Invalidates(op) \in Seq(SUBSET Topic)
    <2>1. /\ {"dashboard"} \in SUBSET Topic /\ {"goal"} \in SUBSET Topic /\ {"entries"} \in SUBSET Topic
          /\ {"entries", "dashboard", "goal"} \in SUBSET Topic /\ {"entries", "dashboard"} \in SUBSET Topic
          /\ {"goal", "history", "dashboard"} \in SUBSET Topic
      BY Topics
    <2>2. /\ <<{"dashboard"}, {"goal"}, {"entries"}>> \in Seq(SUBSET Topic)
          /\ <<{"entries", "dashboard", "goal"}>> \in Seq(SUBSET Topic)
          /\ <<{"entries", "dashboard"}>> \in Seq(SUBSET Topic)
          /\ <<{"goal", "history", "dashboard"}>> \in Seq(SUBSET Topic)
          /\ <<>> \in Seq(SUBSET Topic)
      BY <2>1
    <2> QED
      BY <2>2 DEF Invalidates
  <1> QED
    BY <1>1, <1>2, <1>3

(* Whatever a change affects is put into the cache or invalidated.         *)
LEMMA AllCovered ==
    ASSUME NEW op
    PROVE  /\ Invalidates(op) = <<>> => Affects(op) \subseteq Puts(op) /\ op # "editEntry"
           /\ Invalidates(op) # <<>> => Affects(op) \cup Puts(op) \subseteq Groups(Invalidates(op), 1)
  <1>1. CASE op = "addEntry"
    BY <1>1 DEF Affects, Puts, Invalidates, Groups
  <1>2. CASE op \in {"editEntry", "removeEntry"}
    BY <1>2 DEF Affects, Puts, Invalidates, Groups
  <1>3. CASE op = "importRows"
    BY <1>3 DEF Affects, Puts, Invalidates, Groups
  <1>4. CASE op \in {"saveGoal", "endGoal"}
    BY <1>4 DEF Affects, Puts, Invalidates, Groups
  <1>5. CASE op \notin {"addEntry", "editEntry", "removeEntry", "importRows", "saveGoal", "endGoal"}
    BY <1>5 DEF Affects, Puts, Invalidates, Groups
  <1> QED
    BY <1>1, <1>2, <1>3, <1>4, <1>5

(* A place is empty or holds a change that was sent.                       *)
LEMMA ChangesMade ==
    ASSUME change \in [1..MaxCalls -> ChangeSent \cup {NoChange}], NEW i \in 1..MaxCalls
    PROVE  /\ Making(i) <=> change[i] \in ChangeSent
           /\ ~ Making(i) <=> change[i] = NoChange
           /\ Making(i) => change[i].op \in Operation
  BY ScreensAssumption DEF Making, ChangeSent, NoChange

(* Fetches that are there stay or are sent again.                          *)
LEMMA Fetched ==
    ASSUME NEW ks, NEW cancel, fetch' = Fetching(ks, cancel)
    PROVE  /\ DOMAIN fetch' = DOMAIN fetch \cup ks
           /\ \A k \in DOMAIN fetch \ ks : fetch'[k] = fetch[k]
           /\ \A k \in Joined(ks, cancel) : fetch'[k] = fetch[k]
           /\ \A k \in ks \ Joined(ks, cancel) : fetch'[k] = Asked(token[1])
           /\ Joined(ks, cancel) \subseteq ks \cap DOMAIN fetch
           /\ fetch' = [k \in DOMAIN fetch \cup ks |-> fetch'[k]]
           /\ \A k \in DOMAIN fetch \cup ks :
                 \/ (k \in ks /\ fetch'[k] = Asked(token[1]))
                 \/ (k \in DOMAIN fetch /\ fetch'[k] = fetch[k])
  BY DEF Fetching, Joined, Updated

(* What ScreensTyped and KeptForOwner say of the fetches.                  *)
FetchTyped ==
    /\ DOMAIN fetch \subseteq SessionKey
    /\ fetch \in [DOMAIN fetch -> [of : User, early : BOOLEAN]]
    /\ \A k \in DOMAIN fetch : fetch[k].of = k[2][1]
CacheTyped ==
    /\ DOMAIN cache \subseteq SessionKey
    /\ cache \in [DOMAIN cache -> [of : User, current : BOOLEAN, stale : BOOLEAN]]
    /\ \A k \in DOMAIN cache : cache[k].of = k[2][1]

(* Keys under a token that was issued.                                     *)
LEMMA TokenKeys ==
    ASSUME NEW tok \in Issued, NEW topics \in SUBSET Topic
    PROVE  /\ Keys(topics, tok) \subseteq SessionKey
           /\ \A k \in Keys(topics, tok) : k[2] = tok /\ k[1] \in topics
           /\ tok[1] \in User /\ tok[2] \in 1..issued
           /\ \A k \in SessionKey : k \in Keys(topics, tok) <=> k[1] \in topics /\ k[2] = tok
           /\ \A t \in Topic : Key(t, tok) \in Keys(topics, tok) <=> t \in topics
  BY DEF Issued, SessionKey, Keys, Key

(* Fetches for keys of the token are fetches for its customer.             *)
LEMMA FetchingTyped ==
    ASSUME FetchTyped, token \in Issued, NEW ks, NEW cancel,
           ks \subseteq Keys(Topic, token), fetch' = Fetching(ks, cancel), UNCHANGED issued
    PROVE  FetchTyped'
  <1>1. /\ Keys(Topic, token) \subseteq SessionKey
        /\ \A k \in Keys(Topic, token) : k[2] = token
        /\ token[1] \in User
    BY TokenKeys
  <1>2. SessionKey' = SessionKey
    BY DEF SessionKey, Issued
  <1>3. Asked(token[1]) \in [of : User, early : BOOLEAN] /\ Asked(token[1]).of = token[1]
    BY <1>1 DEF Asked
  <1>4. \A k \in DOMAIN fetch \cup ks :
            \/ (k \in ks /\ fetch'[k] = Asked(token[1]))
            \/ (k \in DOMAIN fetch /\ fetch'[k] = fetch[k])
    BY Fetched
  <1>5. DOMAIN fetch' = DOMAIN fetch \cup ks /\ fetch' = [k \in DOMAIN fetch \cup ks |-> fetch'[k]]
    BY Fetched
  <1>6. \A k \in DOMAIN fetch' : fetch'[k] \in [of : User, early : BOOLEAN] /\ fetch'[k].of = k[2][1]
    BY <1>1, <1>3, <1>4, <1>5 DEF FetchTyped
  <1> QED
    BY <1>1, <1>2, <1>5, <1>6 DEF FetchTyped

(* What is on screen is kept under the session's token.                    *)
LEMMA VisibleKeys ==
    ASSUME token \in Issued \cup {Nil}, opened \subseteq Screen
    PROVE  /\ ReadBy(opened) \subseteq Topic /\ ReadBy(Watching) \subseteq Topic
           /\ token # Nil => Visible \subseteq Keys(Topic, token) /\ token \in Issued
           /\ token = Nil => Visible = {}
  BY DEF ReadBy, Watching, Visible, Topic, Keys

(* The screens go, their changes stay.                                     *)
LEMMA UnmountedSame ==
    ASSUME change \in [1..MaxCalls -> ChangeSent \cup {NoChange}], NEW i \in 1..MaxCalls, NEW screens
    PROVE  /\ Unmounted(i, screens) \in ChangeSent \cup {NoChange}
           /\ Unmounted(i, screens).op = change[i].op
           /\ Making(i) => /\ Unmounted(i, screens).at = change[i].at
                           /\ Unmounted(i, screens).tok = change[i].tok
                           /\ Unmounted(i, screens).todo = change[i].todo
  <1>1. CASE Making(i)
    <2>1. change[i] \in ChangeSent
      BY <1>1, ChangesMade
    <2> QED
      BY <1>1, <2>1 DEF Unmounted, ChangeSent, Making
  <1>2. CASE ~ Making(i)
    BY <1>2, ChangesMade DEF Unmounted, Making, NoChange
  <1> QED
    BY <1>1, <1>2

(* The queries' part of the invariant.                                     *)
SessionTyped ==
    /\ scope \in Visits /\ issued \in 1..scope.tokens /\ token \in Issued \cup {Nil}
    /\ opened \subseteq scope.screens \cup {"dashboard"}
    /\ leaving \in Nat /\ adrift \subseteq opened
ChangesTyped == change \in [1..MaxCalls -> ChangeSent \cup {NoChange}]

(* The parts of the types, and the owners of answers.                      *)
LEMMA ScreensParts ==
    ScreensTyped /\ KeptForOwner <=> SessionTyped /\ ChangesTyped /\ CacheTyped /\ FetchTyped
  <1>1. ASSUME ScreensTyped, KeptForOwner PROVE SessionTyped /\ ChangesTyped /\ CacheTyped /\ FetchTyped
    BY <1>1 DEF ScreensTyped, ScreensTypeOK, KeptForOwner, SessionTyped, ChangesTyped, CacheTyped, FetchTyped
  <1>2. ASSUME SessionTyped, ChangesTyped, CacheTyped, FetchTyped PROVE ScreensTyped /\ KeptForOwner
    <2>1. \A i \in DOMAIN change : change[i].op # Nil =>
              change[i].op \in Operation /\ change[i].at \in {"sent", "reply", "refresh", "await"}
      BY <1>2, ChangesMade DEF ChangesTyped, Making, ChangeSent
    <2>2. token \in (User \X (1..scope.tokens)) \cup {Nil}
      BY <1>2, ScreensAssumption DEF SessionTyped, Issued
    <2> QED
      BY <1>2, <2>1, <2>2
         DEF ScreensTyped, ScreensTypeOK, KeptForOwner, SessionTyped, ChangesTyped, CacheTyped, FetchTyped
  <1> QED
    BY <1>1, <1>2

(* What the bounds of a visit are.                                         *)
LEMMA VisitBounds ==
    ASSUME SessionTyped
    PROVE  /\ opened \subseteq Screen /\ scope.calls \in 0..MaxCalls /\ scope.tokens \in Nat \ {0}
           /\ issued \in Nat /\ token \in Issued \cup {Nil}
  <1>1. scope \in [screens : SUBSET Screen, tokens : Nat \ {0}, calls : 0..MaxCalls, trouble : Nat]
    BY ScreensAssumption DEF SessionTyped
  <1> QED
    BY <1>1, ScreenReads DEF SessionTyped

(* Keys that are dropped leave the others alone.                           *)
LEMMA TablesShrink ==
    ASSUME SessionKey \subseteq SessionKey', NEW g
    PROVE  /\ CacheTyped /\ cache' = Without(cache, g) => CacheTyped'
           /\ FetchTyped /\ fetch' = Without(fetch, g) => FetchTyped'
  BY DEF CacheTyped, FetchTyped, Without

(* What is left of a sequence after its head.                              *)
LEMMA TailOf ==
    ASSUME NEW S, NEW s \in Seq(S), s # <<>>
    PROVE  /\ Tail(s) \in Seq(S) /\ Len(s) \in Nat /\ Len(s) >= 1 /\ Len(Tail(s)) = Len(s) - 1
           /\ \A n \in 1..Len(s) - 1 : Tail(s)[n] = s[n + 1]
           /\ Len(s) # 1 => Tail(s) # <<>>
           /\ Head(s) = s[1] /\ Head(s) \in S
  <1>1. Len(s) \in Nat /\ Len(s) >= 1
    OBVIOUS
  <1>2. Tail(s) \in Seq(S) /\ Len(Tail(s)) = Len(s) - 1 /\ \A n \in 1..Len(s) - 1 : Tail(s)[n] = s[n + 1]
    BY <1>1
  <1>3. Len(s) # 1 => Tail(s) # <<>>
    <2>1. Len(s) # 1 => Len(Tail(s)) # 0
      BY <1>1, <1>2
    <2>2. Len(<<>>) = 0
      OBVIOUS
    <2>3. ASSUME NEW t, t = <<>> PROVE Len(t) = 0
      BY <2>2, <2>3
    <2> QED
      BY <2>1, <2>3
  <1>4. Head(s) = s[1] /\ Head(s) \in S
    BY <1>1
  <1> QED
    BY <1>1, <1>2, <1>3, <1>4

(* How an action edits a change that was sent.                             *)
LEMMA EditedChange ==
    ASSUME NEW c \in ChangeSent, Planned(c)
    PROVE  /\ [c EXCEPT !.mounted = FALSE] \in ChangeSent /\ Planned([c EXCEPT !.mounted = FALSE])
           /\ [c EXCEPT !.fresh = FALSE] \in ChangeSent /\ Planned([c EXCEPT !.fresh = FALSE])
           /\ c.at = "sent" => /\ [c EXCEPT !.at = "reply", !.fresh = TRUE] \in ChangeSent
                               /\ Planned([c EXCEPT !.at = "reply", !.fresh = TRUE])
           /\ c.todo # <<>> => /\ [c EXCEPT !.at = "refresh"] \in ChangeSent
                               /\ Planned([c EXCEPT !.at = "refresh"])
                               /\ [c EXCEPT !.at = "await"] \in ChangeSent
                               /\ Planned([c EXCEPT !.at = "await"])
           /\ c.todo # <<>> /\ Len(c.todo) # 1 =>
                  /\ [c EXCEPT !.at = "refresh", !.todo = Tail(c.todo)] \in ChangeSent
                  /\ Planned([c EXCEPT !.at = "refresh", !.todo = Tail(c.todo)])
           /\ \A tok \in Issued : [c EXCEPT !.tok = tok] \in ChangeSent /\ Planned([c EXCEPT !.tok = tok])
  <1>1. c.todo \in Seq(SUBSET Topic)
    BY DEF ChangeSent
  <1>2. c.todo # <<>> /\ Len(c.todo) # 1 => Tail(c.todo) \in Seq(SUBSET Topic) /\ Tail(c.todo) # <<>>
    BY <1>1, TailOf
  <1> QED
    BY <1>1, <1>2 DEF ChangeSent, Planned

(* An empty place has no groups before it.                                 *)
LEMMA EmptyPlace == NoChange.op = Nil /\ Planned(NoChange)
  BY DEF NoChange, Planned

(* Every change may be edited.                                             *)
LEMMA AllEdited ==
    ASSUME ChangeSent \subseteq ChangeSent', DOMAIN change' = 1..MaxCalls,
           change' = [i \in 1..MaxCalls |-> change'[i]],
           \A i \in 1..MaxCalls : change'[i] \in ChangeSent' \cup {NoChange} /\ Planned(change'[i])
    PROVE  ChangesTyped' /\ PlanKept'
  <1>1. change' \in [1..MaxCalls -> ChangeSent' \cup {NoChange}]
    OBVIOUS
  <1> QED
    BY <1>1 DEF ChangesTyped, PlanKept, Planned, NoChange

(* Changes stay what they are, with their groups before them.              *)
LEMMA ChangesStep ==
    ASSUME SessionTyped, ChangesTyped, PlanKept, Issued \subseteq Issued', [ScreensNext]_screensVars
    PROVE  ChangesTyped' /\ PlanKept'
  <1>0. /\ \A i \in 1..MaxCalls : change[i] \in ChangeSent \cup {NoChange} /\ Planned(change[i])
        /\ \A i \in 1..MaxCalls : change[i].op # Nil <=> change[i] \in ChangeSent
        /\ DOMAIN change = 1..MaxCalls
        /\ change = [i \in 1..MaxCalls |-> change[i]]
        /\ ChangeSent \subseteq ChangeSent'
    <2>1. \A i \in 1..MaxCalls : change[i].op # Nil <=> change[i] \in ChangeSent
      BY ChangesMade DEF ChangesTyped, Making
    <2>2. ChangeSent \subseteq ChangeSent'
      BY DEF ChangeSent
    <2> QED
      BY <2>1, <2>2 DEF ChangesTyped, PlanKept
  <1>1. ASSUME UNCHANGED change PROVE ChangesTyped' /\ PlanKept'
    <2>1. \A i \in 1..MaxCalls : change'[i] \in ChangeSent' \cup {NoChange} /\ Planned(change'[i])
      BY <1>0, <1>1
    <2> QED
      BY <1>0, <1>1, <2>1, AllEdited
  <1>2. ASSUME NEW i \in 1..MaxCalls, NEW c \in ChangeSent \cup {NoChange}, Planned(c),
               change' = [change EXCEPT ![i] = c]
        PROVE  ChangesTyped' /\ PlanKept'
    <2>1. \A j \in 1..MaxCalls : change'[j] \in ChangeSent' \cup {NoChange} /\ Planned(change'[j])
      BY <1>0, <1>2
    <2>2. DOMAIN change' = 1..MaxCalls /\ change' = [j \in 1..MaxCalls |-> change'[j]]
      BY <1>0, <1>2
    <2> QED
      BY <1>0, <2>1, <2>2, AllEdited
  <1>3. ASSUME NEW i \in 1..MaxCalls, change' = End(i) PROVE ChangesTyped' /\ PlanKept'
    BY <1>2, <1>3, EmptyPlace DEF End, NoChange
  <1>4. ASSUME NEW op \in Operation, Press(op) PROVE ChangesTyped' /\ PlanKept'
    <2>1. PICK i \in 1..scope.calls :
              change' = [change EXCEPT ![i] = [op |-> op, at |-> "sent", tok |-> token, mounted |-> TRUE,
                                               fresh |-> FALSE, todo |-> Invalidates(op)]]
      BY <1>4 DEF Press
    <2>2. i \in 1..MaxCalls /\ token \in Issued
      BY <1>4, VisitBounds, ScreensAssumption DEF Press
    <2> DEFINE c == [op |-> op, at |-> "sent", tok |-> token, mounted |-> TRUE,
                     fresh |-> FALSE, todo |-> Invalidates(op)]
    <2>3. c \in ChangeSent /\ Planned(c)
      BY <2>2, TopicsAffected DEF ChangeSent, Planned
    <2> QED
      BY <1>2, <2>1, <2>2, <2>3
  <1>5. ASSUME NEW i \in DOMAIN change, Served(i) PROVE ChangesTyped' /\ PlanKept'
    <2>1. \A j \in 1..MaxCalls : change'[j] \in ChangeSent \cup {NoChange} /\ Planned(change'[j])
      <3> TAKE j \in 1..MaxCalls
      <3>1. CASE j = i
        <4>1. change'[j] = [change[i] EXCEPT !.at = "reply", !.fresh = TRUE]
          BY <1>0, <1>5, <3>1 DEF Served
        <4>2. change[i] \in ChangeSent /\ Planned(change[i]) /\ change[i].at = "sent"
          BY <1>0, <1>5 DEF Served
        <4> QED
          BY <4>1, <4>2, EditedChange
      <3>2. CASE j # i
        <4>1. \/ change'[j] = change[j]
              \/ change[j] \in ChangeSent /\ change'[j] = [change[j] EXCEPT !.fresh = FALSE]
          BY <1>0, <1>5, <3>2 DEF Served
        <4> QED
          BY <1>0, <4>1, EditedChange
      <3> QED
        BY <3>1, <3>2
    <2>2. DOMAIN change' = 1..MaxCalls /\ change' = [j \in 1..MaxCalls |-> change'[j]]
      BY <1>0, <1>5 DEF Served
    <2> QED
      BY <1>0, <2>1, <2>2, AllEdited
  <1>6. ASSUME NEW i \in DOMAIN change, OnSuccess(i) PROVE ChangesTyped' /\ PlanKept'
    <2>1. change[i] \in ChangeSent /\ Planned(change[i])
      BY <1>0, <1>6 DEF OnSuccess
    <2>2. CASE change[i].todo = <<>>
      BY <1>0, <1>3, <1>6, <2>2 DEF OnSuccess
    <2>3. CASE change[i].todo # <<>>
      <3>1. change' = [change EXCEPT ![i] = [change[i] EXCEPT !.at = "refresh"]]
        BY <1>6, <2>3 DEF OnSuccess
      <3> QED
        BY <1>0, <1>2, <2>1, <2>3, <3>1, EditedChange
    <2> QED
      BY <2>2, <2>3
  <1>7. ASSUME NEW i \in DOMAIN change, Invalidate(i) PROVE ChangesTyped' /\ PlanKept'
    <2>1. change[i] \in ChangeSent /\ Planned(change[i]) /\ change[i].todo # <<>>
      BY <1>0, <1>7 DEF Invalidate, Planned
    <2>2. change' = [change EXCEPT ![i] = [change[i] EXCEPT !.at = "await"]]
      BY <1>7 DEF Invalidate
    <2> QED
      BY <1>0, <1>2, <2>1, <2>2, EditedChange
  <1>8. ASSUME NEW i \in DOMAIN change, Refreshed(i) PROVE ChangesTyped' /\ PlanKept'
    <2>1. change[i] \in ChangeSent /\ Planned(change[i]) /\ change[i].todo # <<>>
      BY <1>0, <1>8 DEF Refreshed, Planned
    <2>2. CASE Len(change[i].todo) = 1
      BY <1>0, <1>3, <1>8, <2>2 DEF Refreshed
    <2>3. CASE Len(change[i].todo) # 1
      <3>1. change' = [change EXCEPT ![i] = [change[i] EXCEPT !.at = "refresh", !.todo = Tail(change[i].todo)]]
        BY <1>0, <1>8, <2>1, <2>3 DEF Refreshed, ChangeSent
      <3> QED
        BY <1>0, <1>2, <2>1, <2>3, <3>1, EditedChange
    <2> QED
      BY <2>2, <2>3
  <1>9. ASSUME Rotate PROVE ChangesTyped' /\ PlanKept'
    <2>1. token' \in Issued'
      BY <1>9, VisitBounds DEF Rotate, Issued
    <2>2. \A j \in 1..MaxCalls : change'[j] \in ChangeSent' \cup {NoChange} /\ Planned(change'[j])
      <3> TAKE j \in 1..MaxCalls
      <3>1. \/ change'[j] = change[j]
            \/ change[j] \in ChangeSent /\ change'[j] = [change[j] EXCEPT !.tok = token']
        BY <1>0, <1>9 DEF Rotate
      <3>2. ASSUME change[j] \in ChangeSent, change'[j] = [change[j] EXCEPT !.tok = token']
            PROVE  change'[j] \in ChangeSent' /\ Planned(change'[j])
        <4>1. change[j] \in ChangeSent'
          BY <1>0, <3>2
        <4> QED
          BY <1>0, <2>1, <3>2, <4>1 DEF ChangeSent, Planned
      <3> QED
        BY <1>0, <3>1, <3>2
    <2>3. DOMAIN change' = 1..MaxCalls /\ change' = [j \in 1..MaxCalls |-> change'[j]]
      BY <1>0, <1>9 DEF Rotate
    <2> QED
      BY <1>0, <2>2, <2>3, AllEdited
  <1>10. ASSUME NEW screens, change' = [i \in DOMAIN change |-> Unmounted(i, screens)]
         PROVE  ChangesTyped' /\ PlanKept'
    <2>1. \A j \in 1..MaxCalls : change'[j] \in ChangeSent \cup {NoChange} /\ Planned(change'[j])
      <3> TAKE j \in 1..MaxCalls
      <3>1. \/ change'[j] = change[j]
            \/ change[j] \in ChangeSent /\ change'[j] = [change[j] EXCEPT !.mounted = FALSE]
        BY <1>0, <1>10 DEF Unmounted
      <3> QED
        BY <1>0, <3>1, EditedChange
    <2> QED
      BY <1>0, <1>10, <2>1, AllEdited
  <1>11. ASSUME NEW i \in DOMAIN change, AccountDeleted(i) PROVE ChangesTyped' /\ PlanKept'
    <2>1. \A j \in 1..MaxCalls : change'[j] \in ChangeSent \cup {NoChange} /\ Planned(change'[j])
      <3> TAKE j \in 1..MaxCalls
      <3>1. \/ change'[j] = change[j]
            \/ change'[j] = NoChange
            \/ change[j] \in ChangeSent /\ change'[j] = [change[j] EXCEPT !.mounted = FALSE]
        BY <1>0, <1>11 DEF AccountDeleted, Unmounted, NoChange
      <3> QED
        BY <1>0, <3>1, EditedChange, EmptyPlace
    <2> QED
      BY <1>0, <1>11, <2>1, AllEdited DEF AccountDeleted
  <1>12. CASE UNCHANGED screensVars
    BY <1>1, <1>12 DEF screensVars
  <1>13. ASSUME NEW s \in Screen, OpenScreen(s) \/ CloseScreen(s) \/ Rendered(s)
         PROVE  ChangesTyped' /\ PlanKept'
    BY <1>1, <1>10, <1>13 DEF OpenScreen, CloseScreen, Rendered
  <1>14. CASE FocusDashboard \/ ClearSessionQueryCache
    BY <1>1, <1>14 DEF FocusDashboard, ClearSessionQueryCache
  <1>15. CASE SignOut
    BY <1>10, <1>15 DEF SignOut
  <1>16. ASSUME NEW k, Refetch(k) \/ FetchAnswered(k) \/ FetchFailed(k) PROVE ChangesTyped' /\ PlanKept'
    BY <1>1, <1>16 DEF Refetch, FetchAnswered, FetchFailed, sessionVars
  <1>17. ASSUME NEW i \in DOMAIN change, Refused(i) \/ AnswerLost(i) \/ DeletedAfterLeaving(i)
         PROVE  ChangesTyped' /\ PlanKept'
    BY <1>0, <1>3, <1>17 DEF Refused, AnswerLost, DeletedAfterLeaving
  <1>18. ASSUME NEW u \in User, SignedInAs(u) PROVE ChangesTyped' /\ PlanKept'
    BY <1>1, <1>18 DEF SignedInAs
  <1> QED
    BY <1>4, <1>5, <1>6, <1>7, <1>8, <1>9, <1>11, <1>12, <1>13, <1>14, <1>15, <1>16, <1>17, <1>18
       DEF ScreensNext

(* Every token was issued.                                                 *)
LEMMA SessionStep ==
    ASSUME SessionTyped, [ScreensNext]_screensVars
    PROVE  SessionTyped' /\ Issued \subseteq Issued' /\ SessionKey \subseteq SessionKey'
  <1>1. ASSUME UNCHANGED <<token, issued, scope, opened, adrift, leaving>> PROVE SessionTyped' /\ Issued \subseteq Issued'
    BY <1>1 DEF SessionTyped, Issued
  <1>2. ASSUME NEW s \in Screen, OpenScreen(s) \/ CloseScreen(s) \/ Rendered(s)
        PROVE  SessionTyped' /\ Issued \subseteq Issued'
    <2>1. UNCHANGED <<token, issued, scope, leaving>> /\ opened' \subseteq opened \cup scope.screens
      BY <1>2 DEF OpenScreen, CloseScreen, Rendered
    <2>2. adrift' \subseteq opened'
      BY <1>2 DEF OpenScreen, CloseScreen, Rendered, SessionTyped
    <2> QED
      BY <2>1, <2>2 DEF SessionTyped, Issued
  <1>3. ASSUME Leave PROVE SessionTyped' /\ Issued \subseteq Issued'
    BY <1>3 DEF Leave, SessionTyped, Issued
  <1>4. ASSUME ClearSessionQueryCache PROVE SessionTyped' /\ Issued \subseteq Issued'
    BY <1>4 DEF ClearSessionQueryCache, SessionTyped, Issued
  <1>5. ASSUME issued < scope.tokens, issued' = issued + 1, NEW u \in User, token' = <<u, issued + 1>>,
               opened' \subseteq scope.screens \cup {"dashboard"}, leaving' = leaving, adrift' = {}, UNCHANGED scope
        PROVE  SessionTyped' /\ Issued \subseteq Issued'
    <2>1. issued + 1 \in 1..scope.tokens /\ issued \in Nat /\ scope.tokens \in Nat
      BY <1>5, VisitBounds DEF SessionTyped
    <2>2. Issued \subseteq Issued' /\ token' \in Issued'
      BY <1>5, <2>1 DEF Issued
    <2> QED
      BY <1>5, <2>1, <2>2 DEF SessionTyped
  <1>6. ASSUME Rotate PROVE SessionTyped' /\ Issued \subseteq Issued'
    <2>1. token[1] \in User /\ opened' \subseteq scope.screens \cup {"dashboard"}
      BY <1>6, VisitBounds DEF Rotate, SessionTyped, Issued
    <2> QED
      BY <1>5, <1>6, <2>1 DEF Rotate
  <1>7. ASSUME NEW u \in User, SignedInAs(u) PROVE SessionTyped' /\ Issued \subseteq Issued'
    BY <1>5, <1>7 DEF SignedInAs
  <1>8. ASSUME UNCHANGED screensVars PROVE SessionTyped' /\ Issued \subseteq Issued'
    BY <1>1, <1>8 DEF screensVars
  <1>9. ASSUME FocusDashboard PROVE SessionTyped' /\ Issued \subseteq Issued'
    BY <1>9 DEF FocusDashboard, SessionTyped, Issued
  <1>10. ASSUME NEW k, Refetch(k) \/ FetchAnswered(k) \/ FetchFailed(k)
         PROVE  SessionTyped' /\ Issued \subseteq Issued'
    BY <1>1, <1>10 DEF Refetch, FetchAnswered, FetchFailed, sessionVars
  <1>11. ASSUME NEW op \in Operation, Press(op) PROVE SessionTyped' /\ Issued \subseteq Issued'
    BY <1>1, <1>11 DEF Press, sessionVars
  <1>12. ASSUME NEW i \in DOMAIN change,
                \/ Served(i) \/ Refused(i) \/ AnswerLost(i) \/ OnSuccess(i) \/ Invalidate(i) \/ Refreshed(i)
                \/ DeletedAfterLeaving(i)
         PROVE  SessionTyped' /\ Issued \subseteq Issued'
    BY <1>1, <1>12 DEF Served, Refused, AnswerLost, OnSuccess, Invalidate, Refreshed, DeletedAfterLeaving, sessionVars
  <1>13. ASSUME NEW i \in DOMAIN change, AccountDeleted(i) PROVE SessionTyped' /\ Issued \subseteq Issued'
    BY <1>3, <1>13 DEF AccountDeleted
  <1>14. ASSUME SignOut PROVE SessionTyped' /\ Issued \subseteq Issued'
    BY <1>3, <1>14 DEF SignOut
  <1>15. SessionTyped' /\ Issued \subseteq Issued'
    BY <1>2, <1>4, <1>6, <1>7, <1>8, <1>9, <1>10, <1>11, <1>12, <1>13, <1>14 DEF ScreensNext
  <1> QED
    BY <1>15 DEF SessionKey

Answer == [of : User, current : BOOLEAN, stale : BOOLEAN]
Query == [of : User, early : BOOLEAN]

(* Entries of the right owner are added to the tables.                     *)
LEMMA CacheUpdated ==
    ASSUME CacheTyped, SessionKey \subseteq SessionKey', NEW f, DOMAIN f \subseteq SessionKey',
           \A k \in DOMAIN f : f[k] \in Answer /\ f[k].of = k[2][1],
           cache' = Updated(cache, f)
    PROVE  CacheTyped'
  BY DEF CacheTyped, Updated, Answer

(* Fetches of the right owner are added, others are dropped.               *)
LEMMA FetchUpdated ==
    ASSUME FetchTyped, SessionKey \subseteq SessionKey', NEW f, NEW g, DOMAIN f \subseteq SessionKey',
           \A k \in DOMAIN f : f[k] \in Query /\ f[k].of = k[2][1],
           fetch' = Updated(Without(fetch, g), f)
    PROVE  FetchTyped'
  BY DEF FetchTyped, Updated, Without, Query

(* Nothing is dropped.                                                     *)
LEMMA FetchWhole == FetchTyped => fetch = Without(fetch, {})
  BY DEF FetchTyped, Without

(* Keys of the topics a change puts or affects, under the token it answers to. *)
LEMMA ChangeKeys ==
    ASSUME ChangesTyped, NEW i \in 1..MaxCalls, change[i].op # Nil
    PROVE  /\ change[i] \in ChangeSent /\ change[i].tok \in Issued /\ change[i].tok[1] \in User
           /\ Keys(Puts(change[i].op), change[i].tok) \subseteq SessionKey
           /\ \A k \in Keys(Puts(change[i].op), change[i].tok) : k[2] = change[i].tok
  <1>1. change[i] \in ChangeSent
    BY ChangesMade DEF ChangesTyped, Making
  <1>2. change[i].tok \in Issued /\ Puts(change[i].op) \subseteq Topic
    BY <1>1, TopicsAffected DEF ChangeSent
  <1> QED
    BY <1>1, <1>2, TokenKeys

(* The tables keep answers and fetches under their customer's token.       *)
LEMMA TablesStep ==
    ASSUME SessionTyped, ChangesTyped, CacheTyped, FetchTyped, SessionTyped',
           SessionKey \subseteq SessionKey', [ScreensNext]_screensVars
    PROVE  CacheTyped' /\ FetchTyped'
  <1>1. ASSUME UNCHANGED <<cache, fetch>> PROVE CacheTyped' /\ FetchTyped'
    BY <1>1 DEF CacheTyped, FetchTyped
  <1>2. ASSUME UNCHANGED <<cache, token, issued>>, token # Nil, NEW ks, NEW cancel, ks \subseteq Keys(Topic, token),
               fetch' = Fetching(ks, cancel)
        PROVE  CacheTyped' /\ FetchTyped'
    <2>1. token \in Issued
      BY <1>2 DEF SessionTyped
    <2>2. FetchTyped'
      BY <1>2, <2>1, FetchingTyped
    <2> QED
      BY <1>2, <2>2 DEF CacheTyped
  <1>3. token # Nil => /\ Visible \subseteq Keys(Topic, token)
                       /\ \A topics \in SUBSET Topic : Keys(topics, token) \subseteq Keys(Topic, token)
    BY VisibleKeys, VisitBounds DEF Keys
  <1>4. ASSUME NEW s \in Screen, OpenScreen(s) \/ Rendered(s) PROVE CacheTyped' /\ FetchTyped'
    <2>1. Reads[s] \in SUBSET Topic
      BY DEF Topic
    <2>2. \E ks \in SUBSET Keys(Reads[s], token) : fetch' = Fetching(ks, FALSE)
      BY <1>4 DEF OpenScreen, Rendered, Watches
    <2>3. token # Nil /\ UNCHANGED <<cache, token, issued>>
      BY <1>4 DEF OpenScreen, Rendered
    <2> QED
      BY <1>2, <1>3, <2>1, <2>2, <2>3
  <1>5. ASSUME FocusDashboard PROVE CacheTyped' /\ FetchTyped'
    <2>1. {"dashboard"} \in SUBSET Topic
      BY Topics
    <2>2. token # Nil /\ UNCHANGED <<cache, token, issued>> /\ fetch' = Fetching(Keys({"dashboard"}, token), FALSE)
      BY <1>5 DEF FocusDashboard
    <2> QED
      BY <1>2, <1>3, <2>1, <2>2
  <1>6. ASSUME NEW k \in Visible, Refetch(k) PROVE CacheTyped' /\ FetchTyped'
    <2>1. UNCHANGED <<cache, token, issued>> /\ fetch' = Fetching({k}, TRUE)
      BY <1>6 DEF Refetch, sessionVars
    <2>2. token # Nil
      BY DEF Visible
    <2> QED
      BY <1>2, <1>3, <2>1, <2>2
  <1>7. ASSUME NEW k \in DOMAIN fetch, FetchAnswered(k) PROVE CacheTyped' /\ FetchTyped'
    <2> DEFINE answer == [of |-> fetch[k].of, current |-> ~ fetch[k].early, stale |-> FALSE]
    <2>1. answer \in Answer /\ answer.of = k[2][1] /\ k \in SessionKey
      BY DEF FetchTyped, Answer
    <2>2. cache' = Updated(cache, [q \in {k} |-> answer]) /\ fetch' = Without(fetch, {k})
      BY <1>7 DEF FetchAnswered
    <2> HIDE DEF answer
    <2>3. CacheTyped'
      BY <2>1, <2>2, CacheUpdated
    <2> QED
      BY <2>2, <2>3, TablesShrink
  <1>8. ASSUME NEW k \in DOMAIN fetch, FetchFailed(k) PROVE CacheTyped' /\ FetchTyped'
    <2>1. UNCHANGED cache /\ fetch' = Without(fetch, {k})
      BY <1>8 DEF FetchFailed
    <2>2. CacheTyped'
      BY <2>1 DEF CacheTyped
    <2> QED
      BY <2>1, <2>2, TablesShrink
  <1>9. ASSUME NEW i \in DOMAIN change, Served(i) PROVE CacheTyped' /\ FetchTyped'
    <2>1. PICK before \in SUBSET Touched(i, fetch) :
              fetch' = Updated(fetch, [k \in before |-> [fetch[k] EXCEPT !.early = TRUE]])
      BY <1>9 DEF Served, Applied
    <2>2. cache' = Updated(cache, [k \in Touched(i, cache) |-> [cache[k] EXCEPT !.current = FALSE]])
      BY <1>9 DEF Served, Applied
    <2>3. /\ before \subseteq DOMAIN fetch /\ Touched(i, cache) \subseteq DOMAIN cache
          /\ fetch = Without(fetch, {})
      BY FetchWhole DEF Touched
    <2>4. CacheTyped'
      <3>1. \A k \in DOMAIN cache : LET a == [cache[k] EXCEPT !.current = FALSE] IN a \in Answer /\ a.of = k[2][1]
        BY DEF CacheTyped, Answer
      <3> QED
        BY <2>2, <2>3, <3>1, CacheUpdated DEF CacheTyped
    <2>5. FetchTyped'
      <3>1. \A k \in DOMAIN fetch : LET a == [fetch[k] EXCEPT !.early = TRUE] IN a \in Query /\ a.of = k[2][1]
        BY DEF FetchTyped, Query
      <3> DEFINE f == [k \in before |-> [fetch[k] EXCEPT !.early = TRUE]]
      <3>2. DOMAIN f \subseteq SessionKey' /\ \A k \in DOMAIN f : f[k] \in Query /\ f[k].of = k[2][1]
        BY <2>3, <3>1 DEF FetchTyped
      <3>3. fetch' = Updated(Without(fetch, {}), f)
        BY <2>1, <2>3
      <3> HIDE DEF f
      <3> QED
        BY <3>2, <3>3, FetchUpdated
    <2> QED
      BY <2>4, <2>5
  <1>10. ASSUME NEW i \in DOMAIN change, OnSuccess(i) PROVE CacheTyped' /\ FetchTyped'
    <2>1. i \in 1..MaxCalls /\ change[i].op # Nil
      BY <1>10 DEF OnSuccess, ChangesTyped
    <2> DEFINE at == Keys(Puts(change[i].op), change[i].tok)
               f == [k \in at |-> [of |-> change[i].tok[1], stale |-> FALSE,
                                   current |-> change[i].fresh /\ change[i].op # "editEntry"]]
    <2>2. cache' = Updated(cache, f) /\ UNCHANGED fetch
      BY <1>10 DEF OnSuccess, PutInCache
    <2>3. DOMAIN f \subseteq SessionKey' /\ \A k \in DOMAIN f : f[k] \in Answer /\ f[k].of = k[2][1]
      <3>1. (change[i].fresh /\ change[i].op # "editEntry") \in BOOLEAN
        OBVIOUS
      <3> QED
        BY <2>1, <3>1, ChangeKeys DEF Answer
    <2> HIDE DEF f
    <2>4. CacheTyped'
      BY <2>2, <2>3, CacheUpdated
    <2> QED
      BY <2>2, <2>4 DEF FetchTyped
  <1>11. ASSUME NEW i \in DOMAIN change, Invalidate(i) PROVE CacheTyped' /\ FetchTyped'
    <2>1. /\ cache' = Updated(cache, [k \in (Group(i) \cap DOMAIN cache) \ Visible |-> [cache[k] EXCEPT !.stale = TRUE]])
          /\ fetch' = Fetching(Group(i) \cap Visible, TRUE) /\ UNCHANGED issued
      BY <1>11 DEF Invalidate, sessionVars
    <2>2. CacheTyped'
      <3>1. \A k \in DOMAIN cache : LET a == [cache[k] EXCEPT !.stale = TRUE] IN a \in Answer /\ a.of = k[2][1]
        BY DEF CacheTyped, Answer
      <3> DEFINE f == [k \in (Group(i) \cap DOMAIN cache) \ Visible |-> [cache[k] EXCEPT !.stale = TRUE]]
      <3>2. DOMAIN f \subseteq SessionKey' /\ \A k \in DOMAIN f : f[k] \in Answer /\ f[k].of = k[2][1]
        BY <3>1 DEF CacheTyped
      <3>3. cache' = Updated(cache, f)
        BY <2>1
      <3> HIDE DEF f
      <3> QED
        BY <3>2, <3>3, CacheUpdated
    <2>3. CASE token # Nil
      BY <1>3, <2>1, <2>2, <2>3, FetchingTyped DEF SessionTyped
    <2>4. CASE token = Nil
      <3>1. Visible = {}
        BY <2>4 DEF Visible
      <3>2. DOMAIN fetch' = DOMAIN fetch /\ \A k \in DOMAIN fetch : fetch'[k] = fetch[k]
        BY <2>1, <3>1 DEF Fetching, Updated
      <3>3. fetch' = [k \in DOMAIN fetch \cup (Group(i) \cap Visible) |-> fetch'[k]]
        BY <2>1, Fetched
      <3>4. fetch' = fetch
        BY <3>1, <3>2, <3>3 DEF FetchTyped
      <3> QED
        BY <2>2, <3>4 DEF FetchTyped
    <2> QED
      BY <2>3, <2>4
  <1>12. ASSUME Rotate PROVE CacheTyped' /\ FetchTyped'
    <2>1. token' \in Issued' /\ ReadBy(opened) \subseteq Topic
      BY <1>12, VisibleKeys, VisitBounds DEF Rotate, Issued
    <2>2. token'[1] = token[1] /\ token[1] \in User
      BY <1>12, TokenKeys DEF Rotate, SessionTyped
    <2> DEFINE f == [k \in Keys(ReadBy(opened), token') |-> Asked(token[1])]
    <2>3. DOMAIN f \subseteq SessionKey' /\ \A k \in DOMAIN f : f[k] \in Query /\ f[k].of = k[2][1]
      <3>1. \A k \in Keys(ReadBy(opened), token') : k \in SessionKey' /\ k[2] = token'
        BY <2>1 DEF Keys, Key, SessionKey
      <3>2. Asked(token[1]) \in Query /\ Asked(token[1]).of = token[1]
        BY <2>2 DEF Asked, Query
      <3> QED
        BY <2>2, <3>1, <3>2
    <2>4. /\ cache' = Without(cache, Keys(Topic, token))
          /\ fetch' = Updated(Without(fetch, Keys(Topic, token)), f)
      BY <1>12 DEF Rotate
    <2> HIDE DEF f
    <2> QED
      BY <2>3, <2>4, TablesShrink, FetchUpdated
  <1>13. ASSUME NEW u \in User, SignedInAs(u) PROVE CacheTyped' /\ FetchTyped'
    <2>1. token' \in Issued' /\ token'[1] = u /\ cache' = <<>>
      BY <1>13, VisitBounds DEF SignedInAs, Issued
    <2>2. fetch' = [k \in Keys({"dashboard"}, token') |-> Asked(u)]
      BY <1>13 DEF SignedInAs
    <2>3. CacheTyped'
      BY <2>1 DEF CacheTyped
    <2>4. \A k \in Keys({"dashboard"}, token') : k \in SessionKey' /\ k[2] = token'
      <3>1. "dashboard" \in Topic
        BY Topics
      <3> QED
        BY <2>1, <3>1 DEF Keys, Key, SessionKey
    <2>5. FetchTyped'
      <3>1. Asked(u) \in [of : User, early : BOOLEAN] /\ Asked(u).of = u
        BY DEF Asked
      <3> QED
        BY <2>1, <2>2, <2>4, <3>1 DEF FetchTyped
    <2> QED
      BY <2>3, <2>5
  <1>14. ASSUME ClearSessionQueryCache PROVE CacheTyped' /\ FetchTyped'
    BY <1>14 DEF ClearSessionQueryCache, CacheTyped, FetchTyped
  <1>15. ASSUME UNCHANGED screensVars PROVE CacheTyped' /\ FetchTyped'
    BY <1>1, <1>15 DEF screensVars
  <1>16. ASSUME NEW s \in Screen, CloseScreen(s) PROVE CacheTyped' /\ FetchTyped'
    BY <1>1, <1>16 DEF CloseScreen, queryVars
  <1>17. ASSUME NEW i \in DOMAIN change,
                \/ Refused(i) \/ AnswerLost(i) \/ Refreshed(i) \/ AccountDeleted(i) \/ DeletedAfterLeaving(i)
         PROVE  CacheTyped' /\ FetchTyped'
    BY <1>1, <1>17 DEF Refused, AnswerLost, Refreshed, AccountDeleted, DeletedAfterLeaving, Leave, queryVars
  <1>18. ASSUME SignOut PROVE CacheTyped' /\ FetchTyped'
    BY <1>1, <1>18 DEF SignOut, Leave, queryVars
  <1>19. ASSUME NEW op \in Operation, Press(op) PROVE CacheTyped' /\ FetchTyped'
    BY <1>1, <1>19 DEF Press, queryVars
  <1> QED
    BY <1>4, <1>5, <1>6, <1>7, <1>8, <1>9, <1>10, <1>11, <1>12, <1>13, <1>14, <1>15, <1>16, <1>17, <1>18, <1>19
       DEF ScreensNext

(* A change that stays what it is owes what it owed.                       *)
LEMMA SameOwes ==
    ASSUME NEW j, NEW t, SameChange(j), token' = token
    PROVE  Owes(j, t) => Owes(j, t)'
  <1> SUFFICES ASSUME Owes(j, t) PROVE Owes(j, t)'
    OBVIOUS
  <1>1. Making(j) /\ Making(j)'
    BY DEF Owes, SameChange
  <1>2. /\ change'[j].op = change[j].op /\ change'[j].at = change[j].at
        /\ change'[j].tok = change[j].tok /\ change'[j].todo = change[j].todo
    BY <1>1 DEF SameChange
  <1>3. Reaches(j)'
    BY <1>2 DEF Owes, Reaches
  <1>4. Due(j)' = Due(j)
    BY <1>2 DEF Due
  <1> QED
    BY <1>1, <1>3, <1>4 DEF Owes

(* What one change owed is all that an edit of it can take away.           *)
LEMMA OthersOwe ==
    ASSUME ChangesTyped, ChangesTyped', token' = token, NEW i \in 1..MaxCalls, NEW t,
           \A j \in 1..MaxCalls : j # i => SameChange(j), Owed(t)
    PROVE  Owed(t)' \/ Owes(i, t)
  <1>1. PICK j \in 1..MaxCalls : Owes(j, t)
    BY DEF Owed, ChangesTyped
  <1>2. CASE j = i
    BY <1>1, <1>2
  <1>3. CASE j # i
    <2>1. SameChange(j)
      BY <1>3
    <2>2. Owes(j, t)'
      BY <1>1, <2>1, SameOwes
    <2> QED
      BY <2>2 DEF Owed, ChangesTyped
  <1> QED
    BY <1>2, <1>3

(* Changes that all stay what they are owe what they owed.                 *)
LEMMA AllOwe ==
    ASSUME ChangesTyped, ChangesTyped', token' = token, NEW t, \A j \in 1..MaxCalls : SameChange(j), Owed(t)
    PROVE  Owed(t)'
  <1>1. PICK j \in 1..MaxCalls : Owes(j, t)
    BY DEF Owed, ChangesTyped
  <1>2. SameChange(j)
    OBVIOUS
  <1>3. Owes(j, t)'
    BY <1>1, <1>2, SameOwes
  <1> QED
    BY <1>3 DEF Owed, ChangesTyped

(* A change that is not edited.                                            *)
LEMMA UnchangedSame ==
    ASSUME NEW j, change'[j] = change[j]
    PROVE  SameChange(j)
  BY DEF SameChange, Making

(* What is owed hangs on the token and the changes alone.                  *)
LEMMA OwedStays ==
    ASSUME ChangesTyped, UNCHANGED <<token, change>>, NEW t
    PROVE  Owed(t)' = Owed(t)
  BY DEF Owed, Owes, Making, Reaches, Due

(* A step that leaves the queries alone and mounts nothing.                *)
LEMMA QuietSettled ==
    ASSUME Settled, UNCHANGED <<token, cache, fetch, failed, excused>>, Watching' \subseteq Watching,
           \A t \in Topic : Owed(t) => Owed(t)'
    PROVE  Settled'
  <1>1. Visible' \subseteq Visible
    BY DEF Visible, ReadBy, Keys
  <1> SUFFICES ASSUME token # Nil PROVE FetchesSettled' /\ AnswersSettled'
    BY DEF Settled
  <1>2. FetchesSettled /\ AnswersSettled
    BY DEF Settled
  <1>3. FetchesSettled'
    BY <1>2 DEF FetchesSettled
  <1>4. AnswersSettled'
    BY <1>1, <1>2 DEF AnswersSettled
  <1> QED
    BY <1>3, <1>4

(* Fetches are added or sent again: what was early is asked for anew.      *)
LEMMA FetchingSettled ==
    ASSUME Settled, ChangesTyped, UNCHANGED <<token, cache, change, failed, excused>>,
           NEW ks, NEW cancel, fetch' = Fetching(ks, cancel),
           \A k \in (Visible' \ Visible) \cap DOMAIN cache : cache[k].stale => k \in DOMAIN fetch'
    PROVE  Settled'
  <1> SUFFICES ASSUME token # Nil PROVE FetchesSettled' /\ AnswersSettled'
    BY DEF Settled
  <1>2. FetchesSettled /\ AnswersSettled
    BY DEF Settled
  <1>3. \A t \in Topic : Owed(t)' = Owed(t)
    BY OwedStays
  <1>4. /\ DOMAIN fetch' = DOMAIN fetch \cup ks
        /\ \A k \in DOMAIN fetch \cup ks :
              \/ (k \in ks /\ fetch'[k] = Asked(token[1]))
              \/ (k \in DOMAIN fetch /\ fetch'[k] = fetch[k])
    BY Fetched
  <1>5. ~ Asked(token[1]).early
    BY DEF Asked
  <1>6. FetchesSettled'
    BY <1>2, <1>3, <1>4, <1>5 DEF FetchesSettled
  <1>7. AnswersSettled'
    BY <1>2, <1>3, <1>4 DEF AnswersSettled
  <1> QED
    BY <1>6, <1>7

(* An answer that a write has overtaken is owed by the change that wrote.  *)
LEMMA FetchAnsweredSettled ==
    ASSUME Settled, ChangesTyped, NEW q \in DOMAIN fetch, FetchAnswered(q)
    PROVE  Settled'
  <1>1. /\ UNCHANGED <<token, opened, adrift, change>>
        /\ cache' = Updated(cache, [k \in {q} |-> [of |-> fetch[q].of, current |-> ~ fetch[q].early, stale |-> FALSE]])
        /\ excused' = IF fetch[q].early THEN excused ELSE excused \ {q}
        /\ fetch' = Without(fetch, {q}) /\ failed' = failed \ {q}
    BY DEF FetchAnswered, sessionVars
  <1> SUFFICES ASSUME token # Nil PROVE FetchesSettled' /\ AnswersSettled'
    BY <1>1 DEF Settled
  <1>2. FetchesSettled /\ AnswersSettled
    BY DEF Settled
  <1>3. \A t \in Topic : Owed(t)' = Owed(t)
    BY <1>1, OwedStays
  <1>4. DOMAIN fetch' = DOMAIN fetch \ {q} /\ \A k \in DOMAIN fetch \ {q} : fetch'[k] = fetch[k]
    BY <1>1 DEF Without
  <1>5. /\ DOMAIN cache' = DOMAIN cache \cup {q}
        /\ \A k \in DOMAIN cache \ {q} : cache'[k] = cache[k]
        /\ cache'[q].current = ~ fetch[q].early
    BY <1>1 DEF Updated
  <1>6. Visible' = Visible
    BY <1>1 DEF Visible, Watching, ReadBy
  <1>7. FetchesSettled'
    BY <1>1, <1>2, <1>3, <1>4 DEF FetchesSettled
  <1>8. AnswersSettled'
    <2> SUFFICES ASSUME NEW t \in Topic, Key(t, token) \in DOMAIN cache', ~ cache'[Key(t, token)].current,
                        Key(t, token) \notin excused' \cup failed'
                 PROVE  \/ Owed(t)
                        \/ Key(t, token) \in DOMAIN fetch'
                        \/ cache'[Key(t, token)].stale /\ Key(t, token) \notin Visible
      BY <1>1, <1>3, <1>6 DEF AnswersSettled
    <2>1. CASE Key(t, token) = q
      BY <1>1, <1>2, <1>5, <2>1 DEF FetchesSettled
    <2>2. CASE Key(t, token) # q
      BY <1>1, <1>2, <1>4, <1>5, <2>2 DEF AnswersSettled
    <2> QED
      BY <2>1, <2>2
  <1> QED
    BY <1>7, <1>8

(* A fetch that fails leaves its screen with a warning.                    *)
LEMMA FetchFailedSettled ==
    ASSUME Settled, ChangesTyped, NEW q \in DOMAIN fetch, FetchFailed(q)
    PROVE  Settled'
  <1>1. /\ UNCHANGED <<token, opened, adrift, change, cache, excused>>
        /\ fetch' = Without(fetch, {q}) /\ failed' = failed \cup {q}
    BY DEF FetchFailed, sessionVars
  <1> SUFFICES ASSUME token # Nil PROVE FetchesSettled' /\ AnswersSettled'
    BY <1>1 DEF Settled
  <1>2. FetchesSettled /\ AnswersSettled
    BY DEF Settled
  <1>3. \A t \in Topic : Owed(t)' = Owed(t)
    BY <1>1, OwedStays
  <1>4. DOMAIN fetch' = DOMAIN fetch \ {q} /\ \A k \in DOMAIN fetch \ {q} : fetch'[k] = fetch[k]
    BY <1>1 DEF Without
  <1>6. Visible' = Visible
    BY <1>1 DEF Visible, Watching, ReadBy
  <1>7. FetchesSettled'
    BY <1>1, <1>2, <1>3, <1>4 DEF FetchesSettled
  <1>8. AnswersSettled'
    BY <1>1, <1>2, <1>3, <1>4, <1>6 DEF AnswersSettled
  <1> QED
    BY <1>7, <1>8

(* A write outdates only what it now owes.                                 *)
LEMMA ServedSettled ==
    ASSUME Settled, SessionTyped, ChangesTyped, ChangesTyped', NEW i \in 1..MaxCalls, Served(i)
    PROVE  Settled'
  <1>1. /\ UNCHANGED <<token, opened, adrift, failed, excused>>
        /\ change[i].op # Nil /\ change[i].at = "sent" /\ change[i] \in ChangeSent
        /\ \A j \in 1..MaxCalls : change'[j] =
             (IF j = i THEN [change[i] EXCEPT !.at = "reply", !.fresh = TRUE]
              ELSE IF change[j].op # Nil /\ Puts(change[j].op) \cap Affects(change[i].op) # {}
                   THEN [change[j] EXCEPT !.fresh = FALSE] ELSE change[j])
    BY ChangeKeys DEF Served, sessionVars, ChangesTyped
  <1> SUFFICES ASSUME token # Nil PROVE FetchesSettled' /\ AnswersSettled'
    BY <1>1 DEF Settled
  <1>2. FetchesSettled /\ AnswersSettled
    BY DEF Settled
  <1>3. \A t \in Affects(change[i].op) : Owed(t)'
    <2>1. change'[i].op = change[i].op /\ change'[i].at = "reply"
      BY <1>1 DEF ChangeSent
    <2>2. \A t \in Affects(change[i].op) : Owes(i, t)'
      BY <1>1, <2>1 DEF Owes, Making, Reaches, Due
    <2> QED
      BY <2>2 DEF Owed, ChangesTyped
  <1>4. ASSUME NEW t \in Topic, Owed(t) PROVE Owed(t)'
    <2>1. \A j \in 1..MaxCalls : j # i => SameChange(j)
      <3> TAKE j \in 1..MaxCalls
      <3> HAVE j # i
      <3>1. change'[j] = change[j] \/ (change[j].op # Nil /\ change'[j] = [change[j] EXCEPT !.fresh = FALSE])
        BY <1>1
      <3>2. change[j].op # Nil => change[j] \in ChangeSent
        BY ChangeKeys
      <3> QED
        BY <3>1, <3>2 DEF SameChange, Making, ChangeSent
    <2>2. ~ Owes(i, t)
      BY <1>1 DEF Owes, Due
    <2> QED
      BY <1>1, <1>4, <2>1, <2>2, OthersOwe
  <1>5. \A f : \A k \in Touched(i, f) : k \in DOMAIN f /\ k[1] \in Affects(change[i].op)
    BY DEF Touched
  <1>6. Visible' = Visible
    BY <1>1 DEF Visible, Watching, ReadBy
  <1>7. \A t : Key(t, token)[1] = t
    BY DEF Key
  <1>8. FetchesSettled'
    <2>1. PICK before \in SUBSET Touched(i, fetch) :
              fetch' = Updated(fetch, [k \in before |-> [fetch[k] EXCEPT !.early = TRUE]])
      BY DEF Served, Applied
    <2>2. DOMAIN fetch' = DOMAIN fetch /\ \A k \in DOMAIN fetch \ before : fetch'[k] = fetch[k]
      BY <1>5, <2>1 DEF Updated
    <2>3. \A k \in before : k[1] \in Affects(change[i].op)
      BY <1>5
    <2> SUFFICES ASSUME NEW t \in Topic, Key(t, token) \in DOMAIN fetch', fetch'[Key(t, token)].early,
                        Key(t, token) \notin excused'
                 PROVE  Owed(t)'
      BY <1>1 DEF FetchesSettled
    <2>4. CASE Key(t, token) \in before
      BY <1>3, <1>7, <2>3, <2>4
    <2>5. CASE Key(t, token) \notin before
      <3>1. Owed(t)
        BY <1>1, <1>2, <2>2, <2>5 DEF FetchesSettled
      <3> QED
        BY <1>4, <3>1
    <2> QED
      BY <2>4, <2>5
  <1>9. AnswersSettled'
    <2>1. cache' = Updated(cache, [k \in Touched(i, cache) |-> [cache[k] EXCEPT !.current = FALSE]])
      BY DEF Served, Applied
    <2>2. DOMAIN cache' = DOMAIN cache /\ \A k \in DOMAIN cache \ Touched(i, cache) : cache'[k] = cache[k]
      BY <1>5, <2>1 DEF Updated
    <2>3. \A k \in Touched(i, cache) : k[1] \in Affects(change[i].op)
      BY <1>5
    <2>4. DOMAIN fetch' = DOMAIN fetch
      <3>1. PICK before \in SUBSET Touched(i, fetch) :
              fetch' = Updated(fetch, [k \in before |-> [fetch[k] EXCEPT !.early = TRUE]])
        BY DEF Served, Applied
      <3> QED
        BY <1>5, <3>1 DEF Updated
    <2> SUFFICES ASSUME NEW t \in Topic, Key(t, token) \in DOMAIN cache', ~ cache'[Key(t, token)].current,
                        Key(t, token) \notin excused' \cup failed'
                 PROVE  \/ Owed(t)'
                        \/ Key(t, token) \in DOMAIN fetch'
                        \/ cache'[Key(t, token)].stale /\ Key(t, token) \notin Visible'
      BY <1>1 DEF AnswersSettled
    <2>5. CASE Key(t, token) \in Touched(i, cache)
      BY <1>3, <1>7, <2>3, <2>5
    <2>6. CASE Key(t, token) \notin Touched(i, cache)
      <3>1. \/ Owed(t)
            \/ Key(t, token) \in DOMAIN fetch
            \/ cache[Key(t, token)].stale /\ Key(t, token) \notin Visible
        BY <1>1, <1>2, <2>2, <2>6 DEF AnswersSettled
      <3> QED
        BY <1>4, <1>6, <2>2, <2>4, <2>6, <3>1
    <2> QED
      BY <2>5, <2>6
  <1> QED
    BY <1>8, <1>9

(* An edit of one change leaves the others what they are.                  *)
LEMMA OthersSame ==
    ASSUME ChangesTyped, NEW i \in 1..MaxCalls, NEW c, change' = [change EXCEPT ![i] = c]
    PROVE  /\ change'[i] = c
           /\ \A j \in 1..MaxCalls : j # i => SameChange(j)
  <1>1. change'[i] = c /\ \A j \in 1..MaxCalls : j # i => change'[j] = change[j]
    BY DEF ChangesTyped
  <1> QED
    BY <1>1, UnchangedSame

(* A lost answer takes with it what the change owed.                       *)
LEMMA AnswerLostSettled ==
    ASSUME Settled, ChangesTyped, ChangesTyped', NEW i \in 1..MaxCalls, AnswerLost(i)
    PROVE  Settled'
  <1>1. /\ UNCHANGED <<token, opened, adrift, cache, fetch, failed>>
        /\ change[i].at = "reply" /\ change' = [change EXCEPT ![i] = [op |-> Nil]]
        /\ excused' = excused \cup (IF token = Nil THEN {} ELSE Keys(Affects(change[i].op), token))
    BY DEF AnswerLost, sessionVars, End
  <1> SUFFICES ASSUME token # Nil PROVE FetchesSettled' /\ AnswersSettled'
    BY <1>1 DEF Settled
  <1>2. FetchesSettled /\ AnswersSettled
    BY DEF Settled
  <1>3. \A j \in 1..MaxCalls : j # i => SameChange(j)
    BY <1>1, OthersSame
  <1>4. ASSUME NEW t \in Topic, Owed(t), Key(t, token) \notin excused' PROVE Owed(t)'
    <2>1. t \notin Affects(change[i].op)
      BY <1>1, <1>4 DEF Keys
    <2>2. ~ Owes(i, t)
      BY <1>1, <2>1 DEF Owes, Due
    <2> QED
      BY <1>1, <1>3, <1>4, <2>2, OthersOwe
  <1>5. Visible' = Visible
    BY <1>1 DEF Visible, Watching, ReadBy
  <1>6. excused \subseteq excused'
    BY <1>1
  <1>7. FetchesSettled'
    BY <1>1, <1>2, <1>4, <1>6 DEF FetchesSettled
  <1>8. AnswersSettled'
    BY <1>1, <1>2, <1>4, <1>5, <1>6 DEF AnswersSettled
  <1> QED
    BY <1>7, <1>8

(* What a change owed is in the cache, or is to be invalidated.            *)
LEMMA OnSuccessSettled ==
    ASSUME Settled, ChangesTyped, ChangesTyped', PlanKept, NEW i \in 1..MaxCalls, OnSuccess(i)
    PROVE  Settled'
  <1> DEFINE c == change[i]
             at == Keys(Puts(c.op), c.tok)
  <1>1. /\ UNCHANGED <<token, opened, adrift, fetch>> /\ failed' = failed \ at
        /\ c.op # Nil /\ c.at = "reply" /\ c \in ChangeSent
        /\ excused' = excused \cup Missed(i) \cup Crossed(i) \cup Overtaken(at)
        /\ change' = IF c.todo = <<>> THEN [change EXCEPT ![i] = [op |-> Nil]]
                     ELSE [change EXCEPT ![i] = [c EXCEPT !.at = "refresh"]]
    BY ChangeKeys DEF OnSuccess, sessionVars, End
  <1>2. c.todo = Invalidates(c.op)
    BY <1>1 DEF PlanKept, Planned, ChangesTyped
  <1>3. /\ DOMAIN cache' = DOMAIN cache \cup at
        /\ \A k \in DOMAIN cache \ at : cache'[k] = cache[k]
        /\ \A k \in at : cache'[k].current = (c.fresh /\ c.op # "editEntry")
    BY DEF OnSuccess, PutInCache, Updated
  <1> SUFFICES ASSUME token # Nil PROVE FetchesSettled' /\ AnswersSettled'
    BY <1>1 DEF Settled
  <1>4. FetchesSettled /\ AnswersSettled
    BY DEF Settled
  <1>5. \A j \in 1..MaxCalls : j # i => SameChange(j)
    <2>1. PICK d : change' = [change EXCEPT ![i] = d]
      BY <1>1
    <2> QED
      BY <2>1, OthersSame
  <1>6. Visible' = Visible
    BY <1>1 DEF Visible, Watching, ReadBy
  <1>7. \A t \in Topic : Key(t, token) \in at <=> token = c.tok /\ t \in Puts(c.op)
    BY DEF Keys, Key
  <1>8. ASSUME c.todo # <<>>, token = c.tok \/ ByPrefix(c.op), NEW t \in Affects(c.op) \cup Puts(c.op)
        PROVE  Owed(t)'
    <2>1. change'[i] = [c EXCEPT !.at = "refresh"]
      BY <1>1, <1>8 DEF ChangesTyped
    <2>2. /\ change'[i].op = c.op /\ change'[i].at = "refresh" /\ change'[i].tok = c.tok
          /\ change'[i].todo = Invalidates(c.op)
      BY <1>1, <1>2, <2>1 DEF ChangeSent
    <2>3. t \in Groups(Invalidates(c.op), 1)
      BY <1>2, <1>8, AllCovered
    <2>4. Owes(i, t)'
      BY <1>1, <1>8, <2>2, <2>3 DEF Owes, Making, Reaches, Due
    <2> QED
      BY <2>4 DEF Owed, ChangesTyped
  <1>9. ASSUME NEW t \in Topic, Owed(t), Key(t, token) \notin excused', Key(t, token) \notin at
        PROVE  Owed(t)'
    <2>1. CASE ~ Owes(i, t)
      BY <1>1, <1>5, <1>9, <2>1, OthersOwe
    <2>2. CASE Owes(i, t)
      <3>1. t \in Affects(c.op)
        BY <1>1, <2>2 DEF Owes, Due
      <3>2. token = c.tok \/ ByPrefix(c.op)
        <4>1. Key(t, token) \in Keys(Affects(c.op), token)
          BY <3>1 DEF Keys
        <4> QED
          BY <1>1, <1>9, <4>1 DEF Missed
      <3>3. CASE c.todo # <<>>
        BY <1>8, <3>1, <3>2, <3>3
      <3>4. CASE c.todo = <<>>
        <4>1. ~ ByPrefix(c.op)
          <5>1. \A op \in Offers["goal"] : op \in {"saveGoal", "endGoal"}
            BY DEF Offers, App, GoalScreen, Screen
          <5>2. \A op \in {"saveGoal", "endGoal"} : Invalidates(op) # <<>>
            BY DEF Invalidates
          <5> QED
            BY <1>2, <3>4, <5>1, <5>2 DEF ByPrefix
        <4>2. t \in Puts(c.op)
          BY <1>2, <3>1, <3>4, AllCovered
        <4> QED
          BY <1>7, <1>9, <3>2, <4>1, <4>2
      <3> QED
        BY <3>3, <3>4
    <2> QED
      BY <2>1, <2>2
  <1>10. FetchesSettled'
    <2> SUFFICES ASSUME NEW t \in Topic, Key(t, token) \in DOMAIN fetch, fetch[Key(t, token)].early,
                        Key(t, token) \notin excused'
                 PROVE  Owed(t)'
      BY <1>1 DEF FetchesSettled
    <2>1. Owed(t)
      BY <1>1, <1>4 DEF FetchesSettled
    <2>2. Key(t, token) \notin at
      BY <1>1 DEF Overtaken
    <2> QED
      BY <1>9, <2>1, <2>2
  <1>11. AnswersSettled'
    <2> SUFFICES ASSUME NEW t \in Topic, Key(t, token) \in DOMAIN cache', ~ cache'[Key(t, token)].current,
                        Key(t, token) \notin excused' \cup failed'
                 PROVE  \/ Owed(t)'
                        \/ Key(t, token) \in DOMAIN fetch
                        \/ cache'[Key(t, token)].stale /\ Key(t, token) \notin Visible
      BY <1>1, <1>6 DEF AnswersSettled
    <2>1. CASE Key(t, token) \in at
      <3>1. ~ (c.fresh /\ c.op # "editEntry")
        BY <1>3, <2>1
      <3>2. token = c.tok /\ t \in Puts(c.op)
        BY <1>7, <2>1
      <3>3. CASE c.todo = <<>>
        <4>1. ~ c.fresh
          BY <1>2, <3>1, <3>3, AllCovered
        <4>2. Key(t, token) \in Crossed(i)
          BY <2>1, <3>3, <4>1 DEF Crossed
        <4> QED
          BY <1>1, <4>2
      <3>4. CASE c.todo # <<>>
        BY <1>8, <3>2, <3>4
      <3> QED
        BY <3>3, <3>4
    <2>2. CASE Key(t, token) \notin at
      <3>1. \/ Owed(t)
            \/ Key(t, token) \in DOMAIN fetch
            \/ cache[Key(t, token)].stale /\ Key(t, token) \notin Visible
        BY <1>1, <1>3, <1>4, <2>2 DEF AnswersSettled
      <3> QED
        BY <1>3, <1>9, <2>2, <3>1
    <2> QED
      BY <2>1, <2>2
  <1> QED
    BY <1>10, <1>11

(* Invalidated answers keep what they say.                                 *)
LEMMA MarkedStale ==
    ASSUME CacheTyped, NEW g \in SUBSET DOMAIN cache,
           cache' = Updated(cache, [k \in g |-> [cache[k] EXCEPT !.stale = TRUE]])
    PROVE  /\ DOMAIN cache' = DOMAIN cache
           /\ \A k \in DOMAIN cache \ g : cache'[k] = cache[k]
           /\ \A k \in g : cache'[k].stale
  <1>1. DOMAIN cache' = DOMAIN cache /\ \A k \in DOMAIN cache \ g : cache'[k] = cache[k]
    BY DEF Updated
  <1>2. ASSUME NEW k \in g PROVE cache'[k].stale
    <2>1. cache'[k] = [cache[k] EXCEPT !.stale = TRUE]
      BY DEF Updated
    <2>2. cache[k] \in Answer
      BY DEF CacheTyped, Answer
    <2> QED
      BY <2>1, <2>2 DEF Answer
  <1> QED
    BY <1>1, <1>2

(* An invalidated group is fetched again or out of date when it is looked at. *)
LEMMA InvalidateSettled ==
    ASSUME Settled, ChangesTyped, CacheTyped, ChangesTyped', PlanKept, NEW i \in 1..MaxCalls, Invalidate(i)
    PROVE  Settled'
  <1> DEFINE c == change[i]
             group == Group(i)
  <1>1. /\ UNCHANGED <<token, opened, adrift, failed>>
        /\ c.op # Nil /\ c.at = "refresh" /\ c \in ChangeSent
        /\ excused' = excused \cup Overtaken((group \ Visible) \cup Joined(group \cap Visible, TRUE))
        /\ change' = [change EXCEPT ![i] = [c EXCEPT !.at = "await"]]
        /\ fetch' = Fetching(group \cap Visible, TRUE)
        /\ cache' = Updated(cache, [k \in (group \cap DOMAIN cache) \ Visible |-> [cache[k] EXCEPT !.stale = TRUE]])
    BY ChangeKeys DEF Invalidate, sessionVars
  <1>2. c.todo # <<>> /\ c.todo \in Seq(SUBSET Topic)
    BY <1>1 DEF PlanKept, Planned, ChangesTyped, ChangeSent
  <1>3. /\ DOMAIN cache' = DOMAIN cache
        /\ \A k \in DOMAIN cache \ (group \ Visible) : cache'[k] = cache[k]
        /\ \A k \in (group \cap DOMAIN cache) \ Visible : cache'[k].stale
    <2> DEFINE g == (group \cap DOMAIN cache) \ Visible
    <2>1. g \in SUBSET DOMAIN cache /\ DOMAIN cache \ (group \ Visible) = DOMAIN cache \ g
      OBVIOUS
    <2>2. cache' = Updated(cache, [k \in g |-> [cache[k] EXCEPT !.stale = TRUE]])
      BY <1>1
    <2> HIDE DEF g
    <2>3. /\ DOMAIN cache' = DOMAIN cache
          /\ \A k \in DOMAIN cache \ g : cache'[k] = cache[k]
          /\ \A k \in g : cache'[k].stale
      BY <2>1, <2>2, MarkedStale
    <2> QED
      BY <2>1, <2>3 DEF g
  <1>4. /\ DOMAIN fetch' = DOMAIN fetch \cup (group \cap Visible)
        /\ \A k \in DOMAIN fetch \ (group \cap Visible) : fetch'[k] = fetch[k]
        /\ \A k \in (group \cap Visible) \ Joined(group \cap Visible, TRUE) : fetch'[k] = Asked(token[1])
        /\ \A k \in Joined(group \cap Visible, TRUE) : fetch'[k] = fetch[k] /\ k \in DOMAIN fetch
    <2> DEFINE ks == group \cap Visible
    <2>1. fetch' = Fetching(ks, TRUE)
      BY <1>1
    <2> HIDE DEF ks
    <2> DEFINE cancel == TRUE
    <2> HIDE DEF cancel
    <2>2. fetch' = Fetching(ks, cancel)
      BY <2>1 DEF cancel
    <2>3. DOMAIN fetch' = DOMAIN fetch \cup ks
      BY <2>2, Fetched
    <2>4. \A k \in DOMAIN fetch \ ks : fetch'[k] = fetch[k]
      BY <2>2, Fetched
    <2>5. \A k \in Joined(ks, cancel) : fetch'[k] = fetch[k]
      BY <2>2, Fetched
    <2>6. \A k \in ks \ Joined(ks, cancel) : fetch'[k] = Asked(token[1])
      BY <2>2 DEF Fetching, Updated
    <2>7. Joined(ks, cancel) \subseteq ks \cap DOMAIN fetch
      BY <2>2, Fetched
    <2> QED
      BY <2>3, <2>4, <2>5, <2>6, <2>7 DEF ks, cancel
  <1> SUFFICES ASSUME token # Nil PROVE FetchesSettled' /\ AnswersSettled'
    BY <1>1 DEF Settled
  <1>5. FetchesSettled /\ AnswersSettled
    BY DEF Settled
  <1>6. \A j \in 1..MaxCalls : j # i => SameChange(j)
    BY <1>1, OthersSame
  <1>7. Visible' = Visible
    BY <1>1 DEF Visible, Watching, ReadBy
  <1>8. ASSUME NEW t \in Topic, Owed(t), Key(t, token) \notin group PROVE Owed(t)'
    <2>1. CASE ~ Owes(i, t)
      BY <1>1, <1>6, <1>8, <2>1, OthersOwe
    <2>2. CASE Owes(i, t)
      <3>1. t \in Groups(c.todo, 1) /\ Reaches(i)
        BY <1>1, <2>2 DEF Owes, Due
      <3>2. ByPrefix(c.op) \/ c.tok = token
        BY <1>1, <3>1 DEF Reaches
      <3>3. group = Keys(Head(c.todo), token)
        BY <3>2 DEF Group
      <3>4. t \notin Head(c.todo)
        BY <1>8, <3>3 DEF Keys
      <3>5. t \in Groups(c.todo, 2)
        <4>1. Head(c.todo) = c.todo[1] /\ Len(c.todo) \in Nat
          BY <1>2, TailOf
        <4>2. PICK n \in 1..Len(c.todo) : t \in c.todo[n]
          BY <3>1 DEF Groups
        <4>3. n \in 2..Len(c.todo)
          BY <3>4, <4>1, <4>2
        <4> QED
          BY <4>2, <4>3 DEF Groups
      <3>6. change'[i] = [c EXCEPT !.at = "await"]
        BY <1>1 DEF ChangesTyped
      <3>7. /\ change'[i].op = c.op /\ change'[i].at = "await" /\ change'[i].tok = c.tok
            /\ change'[i].todo = c.todo
        BY <1>1, <3>6 DEF ChangeSent
      <3>8. Owes(i, t)'
        BY <1>1, <3>2, <3>5, <3>7 DEF Owes, Making, Reaches, Due
      <3> QED
        BY <3>8 DEF Owed, ChangesTyped
    <2> QED
      BY <2>1, <2>2
  <1>9. FetchesSettled'
    <2> SUFFICES ASSUME NEW t \in Topic, Key(t, token) \in DOMAIN fetch', fetch'[Key(t, token)].early,
                        Key(t, token) \notin excused'
                 PROVE  Owed(t)'
      BY <1>1 DEF FetchesSettled
    <2> DEFINE k == Key(t, token)
    <2>1. ~ Asked(token[1]).early
      BY DEF Asked
    <2>2. k \in DOMAIN fetch /\ fetch[k].early /\ (k \in group \cap Visible => k \in Joined(group \cap Visible, TRUE))
      BY <1>4, <2>1
    <2>3. k \notin group
      BY <1>1, <2>2 DEF Overtaken
    <2>4. Owed(t)
      BY <1>1, <1>5, <2>2 DEF FetchesSettled
    <2> QED
      BY <1>8, <2>3, <2>4
  <1>10. AnswersSettled'
    <2> SUFFICES ASSUME NEW t \in Topic, Key(t, token) \in DOMAIN cache', ~ cache'[Key(t, token)].current,
                        Key(t, token) \notin excused' \cup failed
                 PROVE  \/ Owed(t)'
                        \/ Key(t, token) \in DOMAIN fetch'
                        \/ cache'[Key(t, token)].stale /\ Key(t, token) \notin Visible
      BY <1>1, <1>7 DEF AnswersSettled
    <2> DEFINE k == Key(t, token)
    <2>1. CASE k \in group /\ k \in Visible
      BY <1>4, <2>1
    <2>2. CASE k \in group /\ k \notin Visible
      <3>1. cache'[k].stale
        BY <1>3, <2>2
      <3> QED
        BY <2>2, <3>1
    <2>3. CASE k \notin group
      <3>1. \/ Owed(t)
            \/ k \in DOMAIN fetch
            \/ cache[k].stale /\ k \notin Visible
        BY <1>1, <1>3, <1>5, <2>3 DEF AnswersSettled
      <3> QED
        BY <1>3, <1>4, <1>8, <2>3, <3>1
    <2> QED
      BY <2>1, <2>2, <2>3
  <1> QED
    BY <1>9, <1>10

(* Without a token nothing is shown.                                       *)
LEMMA SignedOutSettled ==
    ASSUME token' = Nil
    PROVE  Settled'
  BY DEF Settled

(* A change that is sent takes an empty place.                             *)
LEMMA PressSettled ==
    ASSUME Settled, ChangesTyped, ChangesTyped', SessionTyped, NEW op, Press(op)
    PROVE  Settled'
  <1>1. UNCHANGED <<token, opened, adrift, cache, fetch, failed, excused>>
    BY DEF Press, sessionVars, queryVars
  <1>2. PICK i \in 1..MaxCalls : change[i].op = Nil /\ \E c : change' = [change EXCEPT ![i] = c]
    <2>1. PICK i \in 1..scope.calls :
              /\ change[i].op = Nil
              /\ change' = [change EXCEPT ![i] = [op |-> op, at |-> "sent", tok |-> token, mounted |-> TRUE,
                                                fresh |-> FALSE, todo |-> Invalidates(op)]]
      BY DEF Press
    <2>2. i \in 1..MaxCalls
      BY VisitBounds, ScreensAssumption
    <2> QED
      BY <2>1, <2>2
  <1>3. ASSUME NEW t \in Topic, Owed(t) PROVE Owed(t)'
    <2>1. \A j \in 1..MaxCalls : j # i => SameChange(j)
      BY <1>2, OthersSame
    <2>2. ~ Owes(i, t)
      BY <1>2 DEF Owes, Making
    <2> QED
      BY <1>1, <1>3, <2>1, <2>2, OthersOwe
  <1> QED
    BY <1>1, <1>3, QuietSettled DEF Watching

(* A change that was refused owed nothing.                                 *)
LEMMA RefusedSettled ==
    ASSUME Settled, ChangesTyped, ChangesTyped', NEW i \in 1..MaxCalls, Refused(i)
    PROVE  Settled'
  <1>1. UNCHANGED <<token, opened, adrift, cache, fetch, failed, excused>> /\ change[i].at = "sent"
    BY DEF Refused, sessionVars, queryVars
  <1>2. change' = [change EXCEPT ![i] = [op |-> Nil]]
    BY DEF Refused, End
  <1>3. ASSUME NEW t \in Topic, Owed(t) PROVE Owed(t)'
    <2>1. \A j \in 1..MaxCalls : j # i => SameChange(j)
      BY <1>2, OthersSame
    <2>2. ~ Owes(i, t)
      BY <1>1 DEF Owes, Due
    <2> QED
      BY <1>1, <1>3, <2>1, <2>2, OthersOwe
  <1> QED
    BY <1>1, <1>3, QuietSettled DEF Watching

(* The group that has been fetched was no longer owed.                     *)
LEMMA RefreshedSettled ==
    ASSUME Settled, ChangesTyped, ChangesTyped', PlanKept, NEW i \in 1..MaxCalls, Refreshed(i)
    PROVE  Settled'
  <1> DEFINE c == change[i]
  <1>1. /\ UNCHANGED <<token, opened, adrift, cache, fetch, failed, excused>> /\ c.at = "await" /\ c.op # Nil
        /\ c \in ChangeSent
    BY ChangeKeys DEF Refreshed, sessionVars, queryVars
  <1>2. c.todo \in Seq(SUBSET Topic) /\ c.todo # <<>>
    BY <1>1 DEF PlanKept, Planned, ChangesTyped, ChangeSent
  <1>3. change' = IF Len(c.todo) = 1 THEN [change EXCEPT ![i] = [op |-> Nil]]
                  ELSE [change EXCEPT ![i] = [c EXCEPT !.at = "refresh", !.todo = Tail(c.todo)]]
    BY <1>1, <1>2 DEF Refreshed, End, ChangesTyped, ChangeSent
  <1>4. \A j \in 1..MaxCalls : j # i => SameChange(j)
    <2>1. PICK d : change' = [change EXCEPT ![i] = d]
      BY <1>3
    <2> QED
      BY <2>1, OthersSame
  <1>5. ASSUME NEW t \in Topic, Owed(t) PROVE Owed(t)'
    <2>1. CASE ~ Owes(i, t)
      BY <1>1, <1>4, <1>5, <2>1, OthersOwe
    <2>2. CASE Owes(i, t)
      <3>1. t \in Groups(c.todo, 2) /\ Reaches(i)
        BY <1>1, <2>2 DEF Owes, Due
      <3>2. /\ Len(c.todo) \in Nat /\ Len(Tail(c.todo)) = Len(c.todo) - 1
            /\ \A n \in 1..Len(c.todo) - 1 : Tail(c.todo)[n] = c.todo[n + 1]
        BY <1>2, TailOf
      <3>3. PICK n \in 2..Len(c.todo) : t \in c.todo[n]
        BY <3>1 DEF Groups
      <3>4. Len(c.todo) # 1 /\ n - 1 \in 1..Len(Tail(c.todo)) /\ Tail(c.todo)[n - 1] = c.todo[n]
        BY <3>2, <3>3
      <3>5. t \in Groups(Tail(c.todo), 1)
        BY <3>3, <3>4 DEF Groups
      <3>6. change'[i] = [c EXCEPT !.at = "refresh", !.todo = Tail(c.todo)]
        BY <1>3, <3>4 DEF ChangesTyped
      <3>7. /\ change'[i].op = c.op /\ change'[i].at = "refresh" /\ change'[i].tok = c.tok
            /\ change'[i].todo = Tail(c.todo)
        BY <1>1, <3>6 DEF ChangeSent
      <3>8. Owes(i, t)'
        BY <1>1, <3>1, <3>5, <3>7 DEF Owes, Making, Reaches, Due
      <3> QED
        BY <3>8 DEF Owed, ChangesTyped
    <2> QED
      BY <2>1, <2>2
  <1> QED
    BY <1>1, <1>5, QuietSettled DEF Watching

(* Closing a screen leaves its changes under way.                          *)
LEMMA CloseSettled ==
    ASSUME Settled, ChangesTyped, ChangesTyped', NEW s, CloseScreen(s)
    PROVE  Settled'
  <1>1. UNCHANGED <<token, cache, fetch, failed, excused>> /\ Watching' \subseteq Watching
    BY DEF CloseScreen, queryVars, Watching
  <1>2. \A j \in 1..MaxCalls : change'[j] = Unmounted(j, {s})
    BY DEF CloseScreen, ChangesTyped
  <1>3. \A j \in 1..MaxCalls : SameChange(j)
    BY <1>2, UnmountedSame DEF SameChange, Making, ChangesTyped
  <1>4. \A t \in Topic : Owed(t) => Owed(t)'
    BY <1>1, <1>3, AllOwe
  <1> QED
    BY <1>1, <1>4, QuietSettled

(* What a screen reads is asked for when it is stale.                      *)
LEMMA OpenSettled ==
    ASSUME Settled, ChangesTyped, NEW s \in Screen, OpenScreen(s) \/ Rendered(s)
    PROVE  Settled'
  <1> DEFINE reads == Keys(Reads[s], token)
             due == {k \in reads : k \notin DOMAIN cache \/ cache[k].stale}
  <1>1. UNCHANGED <<token, cache, change, failed, excused>> /\ Watching' \subseteq Watching \cup {s}
    BY DEF OpenScreen, Rendered, Watching
  <1>2. PICK old \in SUBSET (reads \ due) : fetch' = Fetching(due \cup old, FALSE)
    BY DEF OpenScreen, Rendered, Watches
  <1>3. Visible' \ Visible \subseteq reads
    BY <1>1 DEF Visible, ReadBy, Keys
  <1>4. DOMAIN fetch' = DOMAIN fetch \cup (due \cup old)
    BY <1>2 DEF Fetching, Updated
  <1>5. \A k \in (Visible' \ Visible) \cap DOMAIN cache : cache[k].stale => k \in DOMAIN fetch'
    BY <1>3, <1>4
  <1> DEFINE ks == due \cup old
  <1>6. fetch' = Fetching(ks, FALSE)
    BY <1>2
  <1> HIDE DEF ks
  <1> QED
    BY <1>1, <1>5, <1>6, FetchingSettled

(* The dashboard's pull gesture and the retry buttons.                     *)
LEMMA RefetchSettled ==
    ASSUME Settled, ChangesTyped, NEW ks, NEW cancel, fetch' = Fetching(ks, cancel),
           UNCHANGED <<sessionVars, cache, change, failed, excused>>
    PROVE  Settled'
  <1>1. UNCHANGED <<token, opened, adrift, cache, change, failed, excused>>
    BY DEF sessionVars
  <1>2. Visible' = Visible
    BY <1>1 DEF Visible, Watching, ReadBy
  <1> QED
    BY <1>1, <1>2, FetchingSettled

(* The dashboard that comes into focus asks for all it reads.              *)
LEMMA FocusSettled ==
    ASSUME Settled, ChangesTyped, SessionTyped, FocusDashboard
    PROVE  Settled'
  <1> DEFINE ks == Keys({"dashboard"}, token)
  <1>1. /\ UNCHANGED <<token, opened, cache, change, failed, excused>> /\ opened = {"dashboard"}
        /\ fetch' = Fetching(ks, FALSE)
    BY DEF FocusDashboard
  <1>2. Visible' \subseteq ks
    <2>1. Watching' \subseteq {"dashboard"}
      BY <1>1 DEF Watching
    <2>2. ReadBy(Watching') \subseteq {"dashboard"}
      BY <2>1, ScreenReads DEF ReadBy
    <2> QED
      BY <1>1, <2>2 DEF Visible, ReadBy, Keys
  <1>3. DOMAIN fetch' = DOMAIN fetch \cup ks
    BY <1>1 DEF Fetching, Updated
  <1>4. \A k \in (Visible' \ Visible) \cap DOMAIN cache : cache[k].stale => k \in DOMAIN fetch'
    BY <1>2, <1>3
  <1> HIDE DEF ks
  <1> QED
    BY <1>1, <1>4, FetchingSettled

(* Nothing is kept or fetched once the cache was cleared.                  *)
LEMMA ClearedSettled ==
    ASSUME ClearSessionQueryCache
    PROVE  Settled'
  BY DEF ClearSessionQueryCache, Settled, FetchesSettled, AnswersSettled

(* Nothing has been kept or fetched under a new token.                     *)
LEMMA RotateSettled ==
    ASSUME SessionTyped, CacheTyped, FetchTyped, Rotate
    PROVE  Settled'
  <1>1. \A k \in SessionKey : k[2] # token'
    BY VisitBounds DEF Rotate, SessionKey, Issued
  <1>2. \A t \in Topic : Key(t, token')[2] = token'
    BY DEF Key
  <1>3. AnswersSettled'
    <2>1. DOMAIN cache' \subseteq SessionKey
      BY DEF Rotate, Without, CacheTyped
    <2> QED
      BY <1>1, <1>2, <2>1 DEF AnswersSettled
  <1>4. FetchesSettled'
    <2>1. fetch' = Updated(Without(fetch, Keys(Topic, token)), [k \in Keys(ReadBy(opened), token') |-> Asked(token[1])])
      BY DEF Rotate
    <2>2. \A k \in DOMAIN fetch' : k \in SessionKey \/ fetch'[k] = Asked(token[1])
      BY <2>1 DEF Updated, Without, FetchTyped
    <2> QED
      BY <1>1, <1>2, <2>2 DEF FetchesSettled, Asked
  <1> QED
    BY <1>3, <1>4 DEF Settled

(* Whoever signs in begins with an empty cache.                            *)
LEMMA NewSessionSettled ==
    ASSUME NEW u, SignedInAs(u)
    PROVE  Settled'
  <1>1. AnswersSettled'
    BY DEF SignedInAs, AnswersSettled
  <1>2. FetchesSettled'
    BY DEF SignedInAs, FetchesSettled, Asked
  <1> QED
    BY <1>1, <1>2 DEF Settled

(* Every step leaves what is out of date to somebody.                      *)
LEMMA SettledStep ==
    ASSUME Settled, SessionTyped, ChangesTyped, ChangesTyped', CacheTyped, FetchTyped, PlanKept,
           [ScreensNext]_screensVars
    PROVE  Settled'
  <1>0. DOMAIN change = 1..MaxCalls
    BY DEF ChangesTyped
  <1>1. ASSUME NEW s \in Screen, OpenScreen(s) \/ CloseScreen(s) \/ Rendered(s) PROVE Settled'
    BY <1>1, OpenSettled, CloseSettled
  <1>2. ASSUME FocusDashboard PROVE Settled'
    BY <1>2, FocusSettled
  <1>3. ASSUME Rotate PROVE Settled'
    BY <1>3, RotateSettled
  <1>4. ASSUME SignOut PROVE Settled'
    BY <1>4, SignedOutSettled DEF SignOut, Leave
  <1>5. ASSUME ClearSessionQueryCache PROVE Settled'
    BY <1>5, ClearedSettled
  <1>6. ASSUME NEW k \in Visible, Refetch(k) PROVE Settled'
    BY <1>6, RefetchSettled DEF Refetch
  <1>7. ASSUME NEW k \in DOMAIN fetch, FetchAnswered(k) \/ FetchFailed(k) PROVE Settled'
    BY <1>7, FetchAnsweredSettled, FetchFailedSettled
  <1>8. ASSUME NEW op \in Operation, Press(op) PROVE Settled'
    BY <1>8, PressSettled
  <1>9. ASSUME NEW i \in DOMAIN change, Served(i) \/ Refused(i) \/ AnswerLost(i) PROVE Settled'
    BY <1>0, <1>9, ServedSettled, RefusedSettled, AnswerLostSettled
  <1>10. ASSUME NEW i \in DOMAIN change, OnSuccess(i) \/ Invalidate(i) \/ Refreshed(i) PROVE Settled'
    BY <1>0, <1>10, OnSuccessSettled, InvalidateSettled, RefreshedSettled
  <1>11. ASSUME NEW i \in DOMAIN change, AccountDeleted(i) \/ DeletedAfterLeaving(i) PROVE Settled'
    BY <1>11, SignedOutSettled DEF AccountDeleted, DeletedAfterLeaving, Leave, sessionVars
  <1>12. ASSUME NEW u \in User, SignedInAs(u) PROVE Settled'
    BY <1>12, NewSessionSettled
  <1>13. ASSUME UNCHANGED screensVars PROVE Settled'
    <2>1. UNCHANGED <<token, opened, adrift, cache, fetch, change, failed, excused>>
      BY <1>13 DEF screensVars
    <2>2. \A t \in Topic : Owed(t)' = Owed(t)
      BY <2>1, OwedStays
    <2> QED
      BY <2>1, <2>2, QuietSettled DEF Watching
  <1> QED
    BY <1>1, <1>2, <1>3, <1>4, <1>5, <1>6, <1>7, <1>8, <1>9, <1>10, <1>11, <1>12, <1>13 DEF ScreensNext

(* The first session begins with an empty cache and one fetch.             *)
LEMMA ScreensStart ==
    ASSUME ScreensInit
    PROVE  ScreensInv
  <1>1. PICK u \in User : token = <<u, 1>>
    BY DEF ScreensInit
  <1>2. SessionTyped
    <2>1. scope \in [screens : SUBSET Screen, tokens : Nat \ {0}, calls : 0..MaxCalls, trouble : Nat]
      BY ScreensAssumption DEF ScreensInit
    <2>2. scope \in Visits /\ issued = 1 /\ opened = {"dashboard"} /\ leaving = 0 /\ adrift = {}
      BY DEF ScreensInit
    <2>3. scope.tokens \in Nat \ {0} /\ issued \in 1..scope.tokens
      BY <2>1, <2>2
    <2>4. token \in Issued
      BY <1>1, <2>2 DEF Issued
    <2> QED
      BY <2>2, <2>3, <2>4 DEF SessionTyped
  <1>3. ChangesTyped /\ PlanKept
    <2>1. change = [i \in 1..MaxCalls |-> NoChange]
      BY DEF ScreensInit, NoCalls, NoChange
    <2> QED
      BY <2>1, EmptyPlace DEF ChangesTyped, PlanKept
  <1>4. CacheTyped
    BY DEF ScreensInit, CacheTyped
  <1>5. FetchTyped /\ Settled
    <2>1. fetch = [k \in Keys({"dashboard"}, token) |-> Asked(token[1])] /\ cache = <<>>
      BY DEF ScreensInit
    <2>2. token \in Issued /\ token[1] \in User /\ {"dashboard"} \in SUBSET Topic
      BY <1>1, Topics DEF ScreensInit, Issued
    <2>3. Keys({"dashboard"}, token) \subseteq SessionKey /\ \A k \in Keys({"dashboard"}, token) : k[2] = token
      BY <2>2, TokenKeys
    <2>4. FetchTyped
      BY <2>1, <2>2, <2>3 DEF FetchTyped, Asked
    <2>5. FetchesSettled /\ AnswersSettled
      BY <2>1 DEF FetchesSettled, AnswersSettled, Asked
    <2> QED
      BY <2>4, <2>5 DEF Settled
  <1> QED
    BY <1>2, <1>3, <1>4, <1>5, ScreensParts DEF ScreensInv

(* The inductive invariant of the screens: tokens, answers, fetches and    *)
(* changes are what they should be, answers are kept under the token of    *)
(* their customer, and whatever a write has outdated is owed by a change   *)
(* under way, being fetched, or fetched when it is looked at.              *)
THEOREM ScreensInvariance == ScreensSpec => []ScreensInv
  <1>1. ScreensInit => ScreensInv
    BY ScreensStart
  <1>2. ScreensInv /\ [ScreensNext]_screensVars => ScreensInv'
    <2> SUFFICES ASSUME ScreensInv, [ScreensNext]_screensVars PROVE ScreensInv'
      OBVIOUS
    <2>1. SessionTyped /\ ChangesTyped /\ CacheTyped /\ FetchTyped /\ PlanKept /\ Settled
      BY ScreensParts DEF ScreensInv
    <2>2. SessionTyped' /\ Issued \subseteq Issued' /\ SessionKey \subseteq SessionKey'
      BY <2>1, SessionStep
    <2>3. ChangesTyped' /\ PlanKept'
      BY <2>1, <2>2, ChangesStep
    <2>4. CacheTyped' /\ FetchTyped'
      BY <2>1, <2>2, TablesStep
    <2>5. Settled'
      BY <2>1, <2>3, SettledStep
    <2>6. (ScreensTyped /\ KeptForOwner)'
      BY <2>2, <2>3, <2>4, ScreensParts, PTL
    <2> QED
      BY <2>3, <2>5, <2>6 DEF ScreensInv
  <1> QED
    BY <1>1, <1>2, PTL DEF ScreensSpec

(* No customer sees what was loaded or saved for another one, however many *)
(* of them use the device and however late an answer arrives (the session  *)
(* in every query key, clearSessionQueryCache).                            *)
THEOREM ScreensStaySound == ScreensSpec => []ScreensSound
  <1>1. ScreensInv => ScreensSound
    <2> SUFFICES ASSUME ScreensInv PROVE ScreensSound
      OBVIOUS
    <2>1. ScreensTyped /\ KeptForOwner /\ ScreensTypeOK /\ SessionTyped
      BY ScreensParts DEF ScreensInv, ScreensTyped
    <2>2. NoForeignData
      <3> SUFFICES ASSUME NEW k \in Visible \cap DOMAIN cache PROVE cache[k].of = token[1]
        BY DEF NoForeignData
      <3>1. token # Nil /\ Visible \subseteq Keys(Topic, token) /\ token \in Issued
        BY <2>1, VisibleKeys, VisitBounds
      <3>2. k[2] = token
        BY <3>1, TokenKeys
      <3> QED
        BY <2>1, <3>2 DEF KeptForOwner
    <2> QED
      BY <2>1, <2>2 DEF ScreensSound
  <1> QED
    BY <1>1, ScreensInvariance, PTL

(* What a screen reads and does not warn about is the goal.                *)
LEMMA WarnsButGoal ==
    ASSUME NEW s \in Screen, NEW t \in Reads[s]
    PROVE  t \in App[s].warns \/ (t = "goal" /\ s # "goal")
  <1>1. /\ App["dashboard"].warns = {"dashboard"} /\ App["goal"].warns = {"goal", "history"}
        /\ App["transactions"].warns = {"entries"} /\ App["alerts"].warns = {"alerts"}
        /\ App["account"].warns = {"account"}
    BY DEF App, DashboardScreen, GoalScreen, TransactionsScreen, AlertsScreen, AccountScreen
  <1> QED
    BY <1>1, ScreenReads

(* Once nothing is under way, what a screen shows without a warning agrees *)
(* with the server, for any visits, tokens, changes at a time and failures *)
(* (refreshFinanceQueries, refreshGoals, the setQueryData calls).          *)
THEOREM FreshWhenAtRest == ScreensSpec => []FreshAtRest
  <1>1. ScreensInv => FreshAtRest
    <2> SUFFICES ASSUME ScreensInv, ScreensAtRest, NEW k \in (Visible \cap DOMAIN cache) \ excused,
                        ~ cache[k].current
                 PROVE  Warned(k) \/ SilentAboutGoal(k)
      BY DEF FreshAtRest
    <2>1. SessionTyped /\ ChangesTyped /\ Settled
      BY ScreensParts DEF ScreensInv
    <2>2. token # Nil /\ Watching \subseteq Screen
      BY <2>1, VisitBounds DEF Visible, Watching
    <2>3. PICK s \in Watching : \E t \in Reads[s] : k = Key(t, token)
      BY <2>2 DEF Visible, Watching, ReadBy, Keys
    <2>4. PICK t \in Reads[s] : k = Key(t, token)
      BY <2>3
    <2>5. t \in Topic /\ k[1] = t
      BY <2>2, <2>4 DEF Topic, Key
    <2>6. DOMAIN fetch = {} /\ ~ Owed(t)
      BY DEF ScreensAtRest, Owed, Owes, Making
    <2>7. k \in failed
      BY <2>1, <2>2, <2>4, <2>5, <2>6 DEF Settled, AnswersSettled
    <2>8. t \in App[s].warns \/ (t = "goal" /\ s # "goal")
      BY <2>2, <2>4, WarnsButGoal
    <2>9. CASE t \in App[s].warns
      BY <2>5, <2>7, <2>9 DEF Warned
    <2>10. CASE t = "goal" /\ "goal" \in Watching
      <3>1. "goal" \in App["goal"].warns
        BY DEF App, GoalScreen
      <3> QED
        BY <2>5, <2>7, <2>10, <3>1 DEF Warned
    <2>11. CASE t = "goal" /\ "goal" \notin Watching
      BY <2>5, <2>7, <2>11 DEF SilentAboutGoal
    <2> QED
      BY <2>8, <2>9, <2>10, <2>11
  <1> QED
    BY <1>1, ScreensInvariance, PTL
=============================================================================
