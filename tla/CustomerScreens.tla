---------------------------- MODULE CustomerScreens ----------------------------
(***************************************************************************)
(* The screens of a signed-in customer and the query cache between them    *)
(* and the API: every screen shows cached answers kept under the session's *)
(* token, fetches what it lacks, sends the customer's changes, and after a *)
(* change puts the answer into the cache or invalidates what it affects.   *)
(*                                                                         *)
(* Answers are abstracted to whether they still agree with the server: a   *)
(* write on the server makes the answers read before it out of date.  The  *)
(* customer uses one device; the fetching rules (a refetch joins a first   *)
(* load that is under way, it cancels any other) are those of React Query. *)
(***************************************************************************)
EXTENDS Naturals, FiniteSets, Sequences

CONSTANTS
    User,        \* customers who sign in on the device
    Nil,
    Visits,      \* bounds of a behaviour: [screens visited besides the dashboard,
                 \*   access tokens, calls (changes) at a time,
                 \*   trouble (fetches that fail and answers that are lost)]
    MaxCalls     \* the most calls of a visit

VARIABLES
    token,       \* AuthProvider's token: whose, and which; Nil at the sign-in screens
    issued,      \* tokens so far
    scope,       \* the behaviour's bounds, one of Visits
    opened,      \* mounted screens
    cache,       \* query cache: key -> whose answer, whether current, whether invalidated
    fetch,       \* fetches in flight: key -> whose, and whether read before a later write
    change,      \* mutations in flight
    adrift,      \* mounted screens whose queries a late sign-out removed beneath them
    leaving,     \* sign-outs that have yet to clear the cache
    failed,      \* keys whose last fetch failed: the screen says so
    excused,     \* keys whose answer is known to be possibly out of date
    mishaps      \* failures so far

screensVars == <<token, issued, scope, opened, adrift, cache, fetch, change, leaving, failed, excused, mishaps>>
queryVars == <<cache, fetch, failed, excused, mishaps>>
sessionVars == <<token, issued, scope, opened, adrift, leaving>>

-----------------------------------------------------------------------------
(* The screens: what each reads, for which of these it says that loading   *)
(* failed and offers to try again, and the changes it offers: what must    *)
(* have been loaded for each, and which pending changes disable it.        *)
Change(needs, blockers) == [needs |-> needs, blockers |-> blockers]

DashboardScreen ==
    [reads |-> {"dashboard"}, warns |-> {"dashboard"}, retries |-> {"dashboard"}, changes |-> <<>>]
(* The form and the end buttons wait for the goal, or for there being none; *)
(* the end buttons are never disabled.                                      *)
GoalScreen ==
    [reads |-> {"goal", "history"}, warns |-> {"goal", "history"}, retries |-> {"goal"},
     changes |-> [saveGoal |-> Change({"goal"}, {"saveGoal"}), endGoal |-> Change({"goal"}, {})]]
(* Nothing is said when the goal could not be loaded again.                 *)
TransactionsScreen ==
    [reads |-> {"entries", "goal"}, warns |-> {"entries"}, retries |-> {"entries"},
     changes |-> [editEntry |-> Change({"entries"}, {"editEntry"}),
                  removeEntry |-> Change({"entries"}, {"editEntry", "removeEntry"})]]
AddTransactionScreen ==
    [reads |-> {"goal"}, warns |-> {}, retries |-> {}, changes |-> [addEntry |-> Change({}, {"addEntry"})]]
ImportTransactionsScreen ==
    [reads |-> {"goal"}, warns |-> {}, retries |-> {}, changes |-> [importRows |-> Change({}, {"importRows"})]]
AlertsScreen ==
    [reads |-> {"alerts"}, warns |-> {"alerts"}, retries |-> {"alerts"},
     changes |-> [saveAlerts |-> Change({"alerts"}, {"saveAlerts"})]]
(* One change of the account at a time.                                     *)
AccountScreen ==
    LET changes == {"saveProfile", "saveConsents", "exportData", "deleteAccount"}
    IN  [reads |-> {"account"}, warns |-> {"account"}, retries |-> {"account"},
         changes |-> [op \in changes |-> Change({"account"}, changes)]]

App ==
    [dashboard |-> DashboardScreen, goal |-> GoalScreen, transactions |-> TransactionsScreen,
     add |-> AddTransactionScreen, import |-> ImportTransactionsScreen, alerts |-> AlertsScreen,
     account |-> AccountScreen]
Screen == DOMAIN App
Reads == [s \in Screen |-> App[s].reads]
Offers == [s \in Screen |-> DOMAIN App[s].changes]
Topic == UNION {Reads[s] : s \in Screen}
Operation == UNION {Offers[s] : s \in Screen}
ScreenOf(op) == CHOOSE s \in Screen : op \in Offers[s]
ChangeOf(op) == App[ScreenOf(op)].changes[op]

ASSUME ScreensAssumption ==
    /\ MaxCalls \in Nat
    /\ Visits \subseteq [screens : SUBSET Screen, tokens : Nat \ {0}, calls : 0..MaxCalls, trouble : Nat]
    /\ Nil \notin Operation /\ Nil \notin User \X Nat

(* What the changes change on the server.                                  *)
Affects(op) ==
    CASE op \in {"addEntry", "editEntry", "removeEntry", "importRows"} -> {"entries", "dashboard"}
      [] op \in {"saveGoal", "endGoal"} -> {"goal", "history", "dashboard"}
      [] op = "saveAlerts" -> {"alerts"}
      [] op \in {"saveProfile", "saveConsents"} -> {"account"}
      [] OTHER -> {}

(* What onSuccess puts into the cache ...                                  *)
Puts(op) ==
    CASE op = "editEntry" -> {"entries"}
      [] op \in {"saveGoal", "endGoal"} -> {"goal"}
      [] op = "saveAlerts" -> {"alerts"}
      [] op \in {"saveProfile", "saveConsents"} -> {"account"}
      [] OTHER -> {}

BugNoDashboard(op) ==
    CASE op = "addEntry" -> <<{"dashboard"}, {"goal"}, {"entries"}>>
      [] op \in {"editEntry", "removeEntry"} -> <<{"entries", "dashboard", "goal"}>>
      [] op = "importRows" -> <<{"entries"}>>
      [] op \in {"saveGoal", "endGoal"} -> <<{"goal", "history", "dashboard"}>>
      [] OTHER -> <<>>

(* ... and then invalidates, one group after the other.                    *)
Invalidates(op) ==
    CASE op = "addEntry" -> <<{"dashboard"}, {"goal"}, {"entries"}>>
      [] op \in {"editEntry", "removeEntry"} -> <<{"entries", "dashboard", "goal"}>>
      [] op = "importRows" -> <<{"entries", "dashboard"}>>
      [] op \in {"saveGoal", "endGoal"} -> <<{"goal", "history", "dashboard"}>>
      [] OTHER -> <<>>

BugKeyWithoutSession(topic, tok) == <<topic, "shared">>
Key(topic, tok) == <<topic, tok>>
Keys(topics, tok) == {Key(t, tok) : t \in topics}
(* The entries of f, and those of base that it does not replace.           *)
Updated(base, f) ==
    LET new == DOMAIN f IN [k \in new \cup DOMAIN base |-> IF k \in new THEN f[k] ELSE base[k]]
Without(f, keys) == [k \in DOMAIN f \ keys |-> f[k]]

(* What the screens that follow the cache show.                            *)
ReadBy(screens) == UNION {Reads[s] : s \in screens}
Watching == opened \ adrift
Visible == IF token = Nil THEN {} ELSE Keys(ReadBy(Watching), token)
Asked(u) == [of |-> u, early |-> FALSE]
NoCalls == [i \in 1..MaxCalls |-> [op |-> Nil]]

ScreensInit ==
    /\ \E u \in User : token = <<u, 1>>
    /\ issued = 1
    /\ scope \in Visits
    /\ opened = {"dashboard"} /\ adrift = {} /\ leaving = 0
    /\ cache = <<>> /\ excused = {} /\ failed = {} /\ mishaps = 0
    /\ fetch = [k \in Keys({"dashboard"}, token) |-> Asked(token[1])]
    /\ change = NoCalls

-----------------------------------------------------------------------------
(* Fetching.  A fetch that is under way is joined, unless the caller asks  *)
(* to cancel it and there is an answer to show meanwhile.                  *)
Joined(keys, cancel) ==
    {k \in keys \cap DOMAIN fetch : ~ (cancel /\ k \in DOMAIN cache)}
Fetching(keys, cancel) ==
    Updated(fetch, [k \in keys |-> IF k \in Joined(keys, cancel) THEN fetch[k] ELSE Asked(token[1])])

(* A joined fetch whose answer left the server before a write.             *)
Overtaken(keys) == {k \in keys \cap DOMAIN fetch : fetch[k].early}

(* What a screen reads is fetched when it is missing, invalidated or,      *)
(* after staleTime, old.                                                   *)
Watches(s) ==
    LET reads == Keys(Reads[s], token)
        due == {k \in reads : k \notin DOMAIN cache \/ cache[k].stale}
    IN  \E old \in SUBSET (reads \ due) : fetch' = Fetching(due \cup old, FALSE)

OpenScreen(s) ==
    /\ token # Nil /\ s \in scope.screens \ opened
    /\ opened' = opened \cup {s}
    /\ Watches(s)
    /\ UNCHANGED <<token, issued, scope, adrift, leaving, cache, change, failed, excused, mishaps>>

(* A screen whose queries are gone finds them, or new ones, when it is     *)
(* rendered again, whatever the reason.                                    *)
Rendered(s) ==
    /\ token # Nil /\ s \in adrift
    /\ adrift' = adrift \ {s}
    /\ Watches(s)
    /\ UNCHANGED <<token, issued, scope, opened, leaving, cache, change, failed, excused, mishaps>>

Unmounted(i, screens) ==
    IF change[i].op # Nil /\ ScreenOf(change[i].op) \in screens
    THEN [change[i] EXCEPT !.mounted = FALSE] ELSE change[i]

CloseScreen(s) ==
    /\ s \in opened \ {"dashboard"}
    /\ opened' = opened \ {s} /\ adrift' = adrift \ {s}
    /\ change' = [i \in DOMAIN change |-> Unmounted(i, {s})]
    /\ UNCHANGED <<token, issued, scope, leaving, queryVars>>

(* The dashboard refetches whenever it comes into focus; its pull gesture, *)
(* and the retry a screen offers when a fetch failed, do not wait for a    *)
(* fetch that is under way.                                                *)
FocusDashboard ==
    /\ token # Nil /\ opened = {"dashboard"}
    /\ adrift' = {}
    /\ fetch' = Fetching(Keys({"dashboard"}, token), FALSE)
    /\ UNCHANGED <<token, issued, scope, opened, leaving, cache, change, failed, excused, mishaps>>

Refetch(k) ==
    /\ k \in Visible /\ \E s \in Watching : k[1] \in App[s].retries
    /\ k \in failed \/ (k[1] = "dashboard" /\ k \in DOMAIN cache)
    /\ fetch' = Fetching({k}, TRUE)
    /\ UNCHANGED <<sessionVars, cache, change, failed, excused, mishaps>>

FetchAnswered(k) ==
    /\ cache' = Updated(cache, [q \in {k} |-> [of |-> fetch[k].of, current |-> ~ fetch[k].early, stale |-> FALSE]])
    /\ excused' = IF fetch[k].early THEN excused ELSE excused \ {k}
    /\ fetch' = Without(fetch, {k}) /\ failed' = failed \ {k}
    /\ UNCHANGED <<sessionVars, change, mishaps>>

(* After its retry the screen keeps what it has and says that it could not *)
(* refresh it.                                                             *)
FetchFailed(k) ==
    /\ mishaps < scope.trouble /\ mishaps' = mishaps + 1
    /\ fetch' = Without(fetch, {k})
    /\ failed' = failed \cup {k}
    /\ UNCHANGED <<sessionVars, cache, change, excused>>

-----------------------------------------------------------------------------
(* Changes.  An edit is pending until its answer closes the editor.        *)
Answering(i) == change[i].op = "editEntry" => change[i].at \in {"sent", "reply"}
Blocked(ops) == \E i \in DOMAIN change : change[i].op \in ops /\ change[i].mounted /\ Answering(i)
(* A screen adrift goes on offering what it offered.                       *)
Loaded(topic) == Key(topic, token) \in DOMAIN cache
Offered(op) == ScreenOf(op) \in adrift \/ \A topic \in ChangeOf(op).needs : Loaded(topic)

Press(op) ==
    /\ token # Nil /\ ScreenOf(op) \in opened /\ Offered(op) /\ ~ Blocked(ChangeOf(op).blockers)
    /\ \E i \in 1..scope.calls :
          /\ change[i].op = Nil /\ \A j \in 1..(i - 1) : change[j].op # Nil
          /\ change' = [change EXCEPT ![i] = [op |-> op, at |-> "sent", tok |-> token, mounted |-> TRUE,
                                          fresh |-> FALSE, todo |-> Invalidates(op)]]
    /\ UNCHANGED <<sessionVars, queryVars>>

(* The server applies it: answers read before are no longer current, and   *)
(* of the fetches under way some have been read before, some have not.     *)
Touched(i, f) == {k \in DOMAIN f : f[k].of = change[i].tok[1] /\ k[1] \in Affects(change[i].op)}
Applied(i) ==
    /\ cache' = Updated(cache, [k \in Touched(i, cache) |-> [cache[k] EXCEPT !.current = FALSE]])
    /\ \E before \in SUBSET Touched(i, fetch) :
          fetch' = Updated(fetch, [k \in before |-> [fetch[k] EXCEPT !.early = TRUE]])

Served(i) ==
    /\ change[i].op # Nil /\ change[i].at = "sent"
    /\ Applied(i)
    /\ change' = [j \in DOMAIN change |->
           IF j = i THEN [change[i] EXCEPT !.at = "reply", !.fresh = TRUE]
           ELSE IF change[j].op # Nil /\ Puts(change[j].op) \cap Affects(change[i].op) # {}
                THEN [change[j] EXCEPT !.fresh = FALSE] ELSE change[j]]
    /\ UNCHANGED <<sessionVars, failed, excused, mishaps>>

End(i) == [change EXCEPT ![i] = [op |-> Nil]]

(* Refused, or not delivered: nothing changed, the screen shows the error. *)
Refused(i) ==
    /\ change[i].op # Nil /\ change[i].at = "sent"
    /\ change' = End(i)
    /\ UNCHANGED <<sessionVars, queryVars>>

(* The answer of an applied change is lost: the screen shows an error and  *)
(* nothing is refreshed.                                                   *)
AnswerLost(i) ==
    /\ mishaps < scope.trouble /\ mishaps' = mishaps + 1
    /\ change[i].op # Nil /\ change[i].at = "reply"
    /\ change' = End(i)
    /\ excused' = excused \cup (IF token = Nil THEN {} ELSE Keys(Affects(change[i].op), token))
    /\ UNCHANGED <<sessionVars, cache, fetch, failed>>

(* onSuccess: the answer goes into the cache, in the place of an error.    *)
(* An edited entry is put into the list that is there, which the edit has  *)
(* outdated, or becomes a list of one.                                     *)
PutInCache(i) ==
    LET at == Keys(Puts(change[i].op), change[i].tok)
    IN  Updated(cache, [k \in at |-> [of |-> change[i].tok[1], stale |-> FALSE,
                                       current |-> change[i].fresh /\ change[i].op # "editEntry"]])

(* The closure of a screen that is gone answers to the token it last saw:  *)
(* once there is another one, after a rotation or a sign-in, it misses the *)
(* keys in use, except that the goal screen invalidates by prefix, under   *)
(* every token.                                                            *)
ByPrefix(op) == op \in Offers["goal"]
Missed(i) ==
    IF token \in {Nil, change[i].tok} \/ ByPrefix(change[i].op) THEN {} ELSE Keys(Affects(change[i].op), token)

(* An answer that comes after that of a later change, on a screen that     *)
(* does not fetch afterwards.                                              *)
Crossed(i) ==
    IF change[i].fresh \/ change[i].todo # <<>> THEN {} ELSE Keys(Puts(change[i].op), change[i].tok)

OnSuccess(i) ==
    /\ change[i].op \notin {Nil, "deleteAccount"} /\ change[i].at = "reply"
    /\ cache' = PutInCache(i)
    /\ excused' = excused \cup Missed(i) \cup Crossed(i) \cup Overtaken(Keys(Puts(change[i].op), change[i].tok))
    /\ failed' = failed \ Keys(Puts(change[i].op), change[i].tok)
    /\ change' = IF change[i].todo = <<>> THEN End(i) ELSE [change EXCEPT ![i].at = "refresh"]
    /\ UNCHANGED <<sessionVars, fetch, mishaps>>

Group(i) == Keys(Head(change[i].todo),
                 IF ByPrefix(change[i].op) /\ token # Nil THEN token ELSE change[i].tok)

(* The next group is invalidated: what is on screen is fetched again, the  *)
(* rest when a screen that reads it is opened.                             *)
Invalidate(i) ==
    /\ change[i].op # Nil /\ change[i].at = "refresh"
    /\ LET group == Group(i)
       IN  /\ cache' = Updated(cache, [k \in (group \cap DOMAIN cache) \ Visible |-> [cache[k] EXCEPT !.stale = TRUE]])
           /\ fetch' = Fetching(group \cap Visible, TRUE)
           /\ excused' = excused \cup Overtaken((group \ Visible) \cup Joined(group \cap Visible, TRUE))
    /\ change' = [change EXCEPT ![i].at = "await"]
    /\ UNCHANGED <<sessionVars, failed, mishaps>>

(* The change is over when its last group has been fetched, or is waited   *)
(* for under a token that is no longer in use.                             *)
Refreshed(i) ==
    /\ change[i].op # Nil /\ change[i].at = "await"
    /\ Keys(Head(change[i].todo), change[i].tok) \cap DOMAIN fetch = {}
    /\ change' = IF Len(change[i].todo) = 1 THEN End(i)
               ELSE [change EXCEPT ![i].at = "refresh", ![i].todo = Tail(@)]
    /\ UNCHANGED <<sessionVars, queryVars>>

-----------------------------------------------------------------------------
(* A refreshed access token is a new key for everything: mounted screens   *)
(* are rendered and fetch again, their mutations answer to it unless       *)
(* onSuccess is already running.  What is cached under the old token is    *)
(* never read again.                                                       *)
Rotate ==
    /\ token # Nil /\ issued < scope.tokens
    /\ issued' = issued + 1
    /\ token' = <<token[1], issued + 1>>
    /\ change' = [i \in DOMAIN change |->
           IF change[i].op # Nil /\ change[i].mounted /\ change[i].at \in {"sent", "reply"}
           THEN [change[i] EXCEPT !.tok = token'] ELSE change[i]]
    /\ cache' = Without(cache, Keys(Topic, token))
    /\ fetch' = Updated(Without(fetch, Keys(Topic, token)), [k \in Keys(ReadBy(opened), token') |-> Asked(token[1])])
    /\ adrift' = {}
    /\ excused' = excused \ Keys(Topic, token) /\ failed' = failed \ Keys(Topic, token)
    /\ UNCHANGED <<scope, opened, leaving, mishaps>>

(* Signing out, here, everywhere, or because the account was deleted: the  *)
(* screens go at once, the cache once the server has answered the          *)
(* revocation; somebody may have signed in by then.                        *)
Leave ==
    /\ token' = Nil /\ opened' = {} /\ adrift' = {} /\ leaving' = leaving + 1
    /\ UNCHANGED <<issued, scope, queryVars>>

SignOut ==
    /\ token # Nil
    /\ Leave
    /\ change' = [i \in DOMAIN change |-> Unmounted(i, Screen)]

AccountDeleted(i) ==
    /\ change[i].op = "deleteAccount" /\ change[i].at = "reply" /\ token # Nil
    /\ Leave
    /\ change' = [j \in DOMAIN change |-> IF j = i THEN [op |-> Nil] ELSE Unmounted(j, Screen)]

(* The answer of a deletion that arrives after the customer has left.      *)
DeletedAfterLeaving(i) ==
    /\ change[i].op = "deleteAccount" /\ change[i].at = "reply" /\ token = Nil
    /\ change' = End(i)
    /\ UNCHANGED <<sessionVars, queryVars>>

(* Fetches are cancelled and queries removed, whosever they are, without a *)
(* word to the screens that show them; mutations go on.                    *)
ClearSessionQueryCache ==
    /\ leaving > 0
    /\ leaving' = leaving - 1
    /\ cache' = <<>> /\ fetch' = <<>> /\ excused' = {} /\ failed' = {}
    /\ adrift' = opened
    /\ UNCHANGED <<token, issued, scope, opened, change, mishaps>>

SignedInAs(u) ==
    /\ token = Nil /\ issued < scope.tokens
    /\ issued' = issued + 1
    /\ token' = <<u, issued + 1>>
    /\ opened' = {"dashboard"} /\ adrift' = {}
    /\ cache' = <<>> /\ excused' = {} /\ failed' = {}
    /\ fetch' = [k \in Keys({"dashboard"}, token') |-> Asked(u)]
    /\ UNCHANGED <<scope, change, leaving, mishaps>>

ScreensNext ==
    \/ \E s \in Screen : OpenScreen(s) \/ CloseScreen(s) \/ Rendered(s)
    \/ FocusDashboard \/ Rotate \/ SignOut \/ ClearSessionQueryCache
    \/ \E k \in Visible : Refetch(k)
    \/ \E k \in DOMAIN fetch : FetchAnswered(k) \/ FetchFailed(k)
    \/ \E op \in Operation : Press(op)
    \/ \E i \in DOMAIN change :
          \/ Served(i) \/ Refused(i) \/ AnswerLost(i) \/ OnSuccess(i) \/ Invalidate(i) \/ Refreshed(i)
          \/ AccountDeleted(i) \/ DeletedAfterLeaving(i)
    \/ \E u \in User : SignedInAs(u)

ScreensSpec == ScreensInit /\ [][ScreensNext]_screensVars

-----------------------------------------------------------------------------
ScreensTypeOK ==
    /\ token \in (User \X (1..scope.tokens)) \cup {Nil} /\ leaving \in Nat
    /\ opened \subseteq scope.screens \cup {"dashboard"} /\ adrift \subseteq opened
    /\ \A k \in DOMAIN cache : cache[k] \in [of : User, current : BOOLEAN, stale : BOOLEAN]
    /\ \A k \in DOMAIN fetch : fetch[k] \in [of : User, early : BOOLEAN]
    /\ \A i \in DOMAIN change : change[i].op # Nil =>
          change[i].op \in Operation /\ change[i].at \in {"sent", "reply", "refresh", "await"}

(* A change made on one screen reaches the others: once nothing is under   *)
(* way, what a screen shows without a warning agrees with the server,      *)
(* whatever was being loaded or sent in between (refreshFinanceQueries,    *)
(* refreshGoals, the setQueryData calls).  The code does not promise it,   *)
(* until the next fetch of the key,                                        *)
(*   - after the answer of a change was lost (AnswerLost),                 *)
(*   - after a load that left the server before a change arrived after it  *)
(*     and nothing fetched again (Overtaken),                              *)
(*   - after the answers of two changes of the same thing crossed          *)
(*     (Crossed),                                                          *)
(*   - after a change was answered whose screen was gone before the token  *)
(*     changed, to another one of the session or of the next (Missed);     *)
(* nor of a screen beneath which a slow sign-out removed the queries       *)
(* before it is rendered again (Watching); nor do the activity screens say *)
(* that the goal could not be loaded again: they go on offering the one    *)
(* they knew (SilentAboutGoal).                                            *)
ScreensAtRest == DOMAIN fetch = {} /\ \A i \in DOMAIN change : change[i].op = Nil
Warned(k) == k \in failed /\ \E s \in Watching : k[1] \in App[s].warns
SilentAboutGoal(k) == k \in failed /\ k[1] = "goal" /\ "goal" \notin Watching
FreshAtRest ==
    ScreensAtRest => \A k \in (Visible \cap DOMAIN cache) \ excused :
                 cache[k].current \/ Warned(k) \/ SilentAboutGoal(k)

(* A customer never sees what was loaded or saved for another one who used *)
(* the device before, however late an answer arrives (sessionQueryKeys,    *)
(* clearSessionQueryCache; docs/account-data-self-service.md).             *)
NoForeignData == \A k \in Visible \cap DOMAIN cache : cache[k].of = token[1]
ScreensSound == ScreensTypeOK /\ NoForeignData
=============================================================================
