------------------------------ MODULE Session ------------------------------
(***************************************************************************)
(* Who is signed in, in the tabs of one browser: the API client            *)
(* (web/packages/shared/src/api/client.ts), the auth store                 *)
(* (web/packages/shared/src/stores/auth.ts) and the pages that use them.   *)
(*                                                                         *)
(* A tab keeps the access token, the user and the calls in flight in       *)
(* memory; localStorage is shared by the tabs and outlives them.  A token  *)
(* pair is the number of its issue; the server keeps no sessions, so a     *)
(* token is good until it expires.  A handler runs from one await to the   *)
(* next in one action.  isAuthenticated is user # NoUser: the store only   *)
(* ever sets the two together.                                             *)
(***************************************************************************)
EXTENDS Naturals, Sequences, FiniteSets

CONSTANTS
    Tabs,        \* the tabs, numbered in the order in which they are opened
    Users, NoUser,
    Admins,      \* the users whose role is admin
    MaxPairs,    \* bound on token pairs issued
    MaxCalls,    \* bound on API calls made
    MaxLoads     \* bound on page loads

ASSUME SessionAssumption ==
    /\ Tabs \subseteq Nat /\ NoUser \notin Users /\ Admins \subseteq Users
    /\ MaxPairs \in Nat /\ MaxCalls \in Nat /\ MaxLoads \in Nat

VARIABLES
    app,       \* the application the tabs have open: player or admin
    tab,       \* [Tabs -> what a tab keeps in memory]
    storage,   \* localStorage
    issued,    \* Seq(Users): the owner of each token pair
    expired,   \* pairs whose access token has expired
    made, loads, \* counters behind MaxCalls and MaxLoads
    last       \* history: the last sign-in or sign-out, or that it crossed another task

server == <<issued, expired>>
vars == <<app, tab, storage, server, made, loads, last>>

-----------------------------------------------------------------------------
NoPair == 0
Pairs == 1 .. MaxPairs
PairOrNone == 0 .. MaxPairs

\* A call of request(): the access token it was sent with, whether that token
\* was good when it was sent, whether a 401 may still be retried, and its stage.
Call == [id: 1 .. MaxCalls, token: PairOrNone, live: BOOLEAN, first: BOOLEAN,
         stage: {"sent", "waiting", "denied"}]

\* A sign-in under way: a user's login (or registration), or a restored session.
Entry == [user: Users \cup {NoUser}, pair: PairOrNone]

Tab == [open: BOOLEAN,
        token: PairOrNone,          \* accessToken
        user: Users \cup {NoUser},
        loading: BOOLEAN,           \* isLoading
        refreshing: PairOrNone,     \* refreshInFlight: the refresh token it sent
        entries: SUBSET Entry,
        calls: SUBSET Call]
Blank == [open |-> FALSE, token |-> NoPair, user |-> NoUser, loading |-> FALSE,
          refreshing |-> NoPair, entries |-> {}, calls |-> {}]

Storage == [access: PairOrNone, refresh: PairOrNone, user: Users \cup {NoUser}]
Empty == [access |-> NoPair, refresh |-> NoPair, user |-> NoUser]

TypeOK ==
    /\ app \in {"player", "admin"}
    /\ tab \in [Tabs -> Tab]
    /\ \A t \in Tabs :
         /\ ~tab[t].open => tab[t] = Blank
         /\ \A c, d \in tab[t].calls : c.id = d.id => c = d
    /\ storage \in Storage
    /\ issued \in Seq(Users) /\ Len(issued) <= MaxPairs
    /\ expired \subseteq 1 .. Len(issued)
    /\ made \in 0 .. MaxCalls /\ loads \in 0 .. MaxLoads /\ last \in {"in", "out", "crossed"}

Init ==
    /\ app \in {"player", "admin"}
    /\ tab = [t \in Tabs |-> Blank] /\ storage = Empty
    /\ issued = <<>> /\ expired = {}
    /\ made = 0 /\ loads = 0 /\ last = "out"

-----------------------------------------------------------------------------
(* Helpers *)

Owner(pair) == issued[pair]
Live(pair) == pair # NoPair /\ pair \notin expired
Set(t, state) == tab' = [tab EXCEPT ![t] = state]

\* The server issues a token pair to u (generate_tokens).
Issue(u) == Len(issued) < MaxPairs /\ issued' = Append(issued, u) /\ UNCHANGED expired
Newest == Len(issued) + 1
\* Mutant: only a refresh keeps the user beside the tokens.
StoredTokens(u) == storage' = [storage EXCEPT !.access = Newest, !.refresh = Newest]

Stored(u) == storage' = [access |-> Newest, refresh |-> Newest, user |-> u]

\* A sign-in or sign-out in t is made in quiet if no refresh is under way in t
\* and no other tab holds a token or is about to.
Busy(s) == s.token # NoPair \/ s.entries # {} \/ s.refreshing # NoPair
Quiet(t) == tab[t].refreshing = NoPair /\ \A u \in Tabs \ {t} : ~Busy(tab[u])
Changed(t, how) == last' = IF Quiet(t) THEN how ELSE "crossed"

SignedIn(s, u) == [s EXCEPT !.token = Newest, !.user = u, !.loading = FALSE]
\* Mutant: only the store is reset.
SignedOutStore(s) == [s EXCEPT !.user = NoUser, !.loading = FALSE]

SignedOut(s) == [s EXCEPT !.token = NoPair, !.user = NoUser, !.loading = FALSE]

\* clearAuthState: of the tab, and of localStorage, whatever it holds by now.
Clear(t, state) == Set(t, SignedOut(state)) /\ storage' = Empty /\ Changed(t, "out")

-----------------------------------------------------------------------------
(* The auth store and the sign-in pages *)

\* A page load ends every task that the tab had; App then restores the session: a
\* token that has not expired is taken as it is, otherwise the refresh token is
\* exchanged, and without one all is cleared.
Load(t) ==
    LET fresh == [Blank EXCEPT !.open = TRUE] IN
    /\ \A s \in Tabs : s < t => tab[s].open
    /\ loads < MaxLoads /\ loads' = loads + 1
    /\ IF Live(storage.access) /\ storage.user # NoUser
       THEN /\ Set(t, [fresh EXCEPT !.token = storage.access, !.user = storage.user])
            /\ UNCHANGED <<storage, last>>
       ELSE IF storage.refresh = NoPair
       THEN Clear(t, fresh)
       ELSE /\ Set(t, [fresh EXCEPT !.loading = TRUE,
                                    !.entries = {[user |-> NoUser, pair |-> storage.refresh]}])
            /\ UNCHANGED <<storage, last>>
    /\ UNCHANGED <<app, server, made>>

\* The form is shown to who is not signed in; its button is disabled while the
\* store is loading.
SubmitLogin(t, u) ==
    /\ tab[t].open /\ tab[t].user = NoUser /\ ~tab[t].loading
    /\ Set(t, [tab[t] EXCEPT !.loading = TRUE, !.entries = @ \cup {[user |-> u, pair |-> NoPair]}])
    /\ UNCHANGED <<app, storage, server, made, loads, last>>

\* The answer of a login or registration.  The admin application signs out a user
\* who is no admin again in the same breath.
LoginOk(t, e) ==
    LET state == [tab[t] EXCEPT !.entries = @ \ {e}] IN
    /\ e \in tab[t].entries /\ e.pair = NoPair
    /\ Issue(e.user)
    /\ IF app = "admin" /\ e.user \notin Admins
       THEN Clear(t, state)
       ELSE Set(t, SignedIn(state, e.user)) /\ Stored(e.user) /\ Changed(t, "in")
    /\ UNCHANGED <<app, made, loads>>

LoginFails(t, e) ==
    /\ e \in tab[t].entries /\ e.pair = NoPair
    /\ Set(t, [tab[t] EXCEPT !.entries = @ \ {e}, !.loading = FALSE])
    /\ UNCHANGED <<app, storage, server, made, loads, last>>

\* restoreSession goes on when the refresh it sent is answered.
RestoreOk(t, e) ==
    LET u == Owner(e.pair) IN
    /\ e \in tab[t].entries /\ e.pair # NoPair
    /\ Issue(u)
    /\ Set(t, SignedIn([tab[t] EXCEPT !.entries = @ \ {e}], u)) /\ Stored(u) /\ Changed(t, "in")
    /\ UNCHANGED <<app, made, loads>>

RestoreFails(t, e) ==
    /\ e \in tab[t].entries /\ e.pair # NoPair
    /\ Clear(t, [tab[t] EXCEPT !.entries = @ \ {e}])
    /\ UNCHANGED <<app, server, made, loads>>

Logout(t) ==
    /\ tab[t].user # NoUser
    /\ Clear(t, tab[t])
    /\ UNCHANGED <<app, server, made, loads>>

-----------------------------------------------------------------------------
(* request() and refreshAccessToken() *)

Sent(id, pair, first) ==
    [id |-> id, token |-> pair, live |-> Live(pair), first |-> first, stage |-> "sent"]

\* A page of the signed-in user calls the API.
StartCall(t) ==
    /\ tab[t].user # NoUser /\ made < MaxCalls
    /\ made' = made + 1
    /\ Set(t, [tab[t] EXCEPT !.calls = @ \cup {Sent(made', tab[t].token, TRUE)}])
    /\ UNCHANGED <<app, storage, server, loads, last>>

\* The call succeeds, or fails for another reason than a 401: the server may have
\* read a token that has expired since.  The task behind the call is over, or
\* makes its next one, signed in or not: no task is stopped by a sign-out.
AnswerOk(t, c) ==
    LET rest == tab[t].calls \ {c} IN
    /\ c \in tab[t].calls /\ c.stage = "sent"
    /\ \/ Set(t, [tab[t] EXCEPT !.calls = rest]) /\ UNCHANGED made
       \/ /\ c.live /\ made < MaxCalls /\ made' = made + 1
          /\ Set(t, [tab[t] EXCEPT !.calls = rest \cup {Sent(made', tab[t].token, TRUE)}])
    /\ UNCHANGED <<app, storage, server, loads, last>>

\* A 401.  The first one of a call joins the refresh in flight, or starts one
\* with the refresh token found in localStorage; the second one is final.
AnswerUnauthorized(t, c) ==
    LET s == tab[t]
        pair == IF s.refreshing # NoPair THEN s.refreshing ELSE storage.refresh
        stage == IF c.first /\ pair # NoPair THEN "waiting" ELSE "denied" IN
    /\ c \in s.calls /\ c.stage = "sent" /\ ~Live(c.token)
    /\ Set(t, [s EXCEPT !.calls = (@ \ {c}) \cup {[c EXCEPT !.stage = stage]},
                        !.refreshing = IF stage = "waiting" THEN pair ELSE @])
    /\ UNCHANGED <<app, storage, server, made, loads, last>>

Waiting(s) == {c \in s.calls : c.stage = "waiting"}

\* Mutant: a call that is sent once more stays among those that wait.
RefreshOkTwice(t) ==
    LET s == tab[t]
        u == Owner(s.refreshing) IN
    /\ s.refreshing # NoPair
    /\ Issue(u) /\ Stored(u)
    /\ Set(t, [s EXCEPT
         !.token = Newest, !.refreshing = NoPair,
         !.calls = @ \cup
            {[c EXCEPT !.token = Newest, !.live = TRUE, !.first = FALSE, !.stage = "sent"] :
               c \in Waiting(s)}])
    /\ UNCHANGED <<app, made, loads, last>>

\* The refresh succeeds: the new pair is installed whoever is signed in by now,
\* and the calls that waited are sent once more.
RefreshOk(t) ==
    LET s == tab[t]
        u == Owner(s.refreshing) IN
    /\ s.refreshing # NoPair
    /\ Issue(u) /\ Stored(u)
    /\ Set(t, [s EXCEPT
         !.token = Newest, !.refreshing = NoPair,
         !.calls = (@ \ Waiting(s)) \cup
            {[c EXCEPT !.token = Newest, !.live = TRUE, !.first = FALSE, !.stage = "sent"] :
               c \in Waiting(s)}])
    /\ UNCHANGED <<app, made, loads, last>>

\* Mutant: only one of the calls that share a failed refresh is told.
RefreshFailsAlone(t) ==
    /\ tab[t].refreshing # NoPair
    /\ \E c \in Waiting(tab[t]) :
         Set(t, [tab[t] EXCEPT !.refreshing = NoPair,
                               !.calls = (@ \ {c}) \cup {[c EXCEPT !.stage = "denied"]}])
    /\ UNCHANGED <<app, storage, server, made, loads, last>>

\* It fails, for whatever reason, and the 401s they had been given stand.
RefreshFails(t) ==
    LET s == tab[t] IN
    /\ s.refreshing # NoPair
    /\ Set(t, [s EXCEPT !.refreshing = NoPair,
                        !.calls = (@ \ Waiting(s)) \cup
                                  {[c EXCEPT !.stage = "denied"] : c \in Waiting(s)}])
    /\ UNCHANGED <<app, storage, server, made, loads, last>>

\* When the body of the 401 has been read, the session is cleared: the one there
\* is by now.
Deny(t, c) ==
    /\ c \in tab[t].calls /\ c.stage = "denied"
    /\ Clear(t, [tab[t] EXCEPT !.calls = @ \ {c}])
    /\ UNCHANGED <<app, server, made, loads>>

-----------------------------------------------------------------------------
\* An access token expires.  (That of a refresh token is one of the reasons for
\* which RestoreFails and RefreshFails may happen.)
Expire(pair) ==
    /\ pair \notin expired /\ expired' = expired \cup {pair}
    /\ UNCHANGED <<app, tab, storage, issued, made, loads, last>>

Enter(t) == \E e \in tab[t].entries : LoginOk(t, e) \/ LoginFails(t, e)
                                      \/ RestoreOk(t, e) \/ RestoreFails(t, e)
Proceed(t) ==
    \/ \E c \in tab[t].calls : AnswerOk(t, c) \/ AnswerUnauthorized(t, c) \/ Deny(t, c)
    \/ RefreshOk(t) \/ RefreshFails(t)

Next ==
    \/ \E t \in Tabs :
         \/ Load(t) \/ Logout(t) \/ StartCall(t)
         \/ \E u \in Users : SubmitLogin(t, u)
         \/ Enter(t) \/ Proceed(t)
    \/ \E pair \in 1 .. Len(issued) : Expire(pair)

Spec == Init /\ [][Next]_vars

-----------------------------------------------------------------------------
(* Properties *)

\* As long as sign-ins and sign-outs are made in quiet, a tab that shows a user
\* acts as that user, and a reload would find the same one: the token in memory
\* and both tokens in localStorage are that user's, through any refreshes of any
\* tabs, expiries and failures.
SignedInWhole ==
    last # "crossed" => \A t \in Tabs : LET u == tab[t].user IN
        u # NoUser => /\ tab[t].token # NoPair /\ Owner(tab[t].token) = u
                      /\ storage.user = u
                      /\ storage.access # NoPair /\ Owner(storage.access) = u
                      /\ storage.refresh # NoPair /\ Owner(storage.refresh) = u

\* A sign-out, or a refusal, that is made in quiet leaves nothing of the session,
\* neither a token that a page task could go on with nor anything in localStorage
\* that a reload would restore, and the calls still in flight bring nothing back.
SignedOutClean ==
    last = "out" => storage = Empty /\ \A t \in Tabs : tab[t].token = NoPair /\ tab[t].user = NoUser

\* Sign-ins and sign-outs made in quiet are whole, in memory and in localStorage.
SessionWhole == SignedInWhole /\ SignedOutClean

\* Nobody waits in vain: behind every call that waits for a refresh there is a
\* refresh in flight, however many share it and however it ends, and behind every
\* disabled sign-in form a sign-in in flight.
WaitsHaveCause ==
    \A t \in Tabs :
        /\ Waiting(tab[t]) # {} => tab[t].refreshing # NoPair
        /\ tab[t].loading => tab[t].entries # {}
=============================================================================
