--------------------------- MODULE SessionProofs ---------------------------
(***************************************************************************)
(* Theorems about Session, for any tabs, users and bounds: its types, that *)
(* sign-ins and sign-outs made in quiet are whole, and that nobody waits   *)
(* for a refresh that is over; and about Profile, for any accounts: its    *)
(* types, and that what the page says was done was done, once.             *)
(***************************************************************************)
EXTENDS MCSession, TLAPS

-----------------------------------------------------------------------------
(* The inductive invariant *)

\* What holds of the state s of a tab when n pairs are issued and m calls made: it
\* knows issued pairs only, a user comes with a token, its calls are told apart by
\* their numbers, and a call that waits has a refresh to wait for.
TabSound(s, n, m) ==
    /\ s \in Tab
    /\ s.open \/ s = Blank
    /\ s.token <= n /\ s.refreshing <= n
    /\ \A e \in s.entries : e.pair <= n /\ (e.pair = NoPair => e.user \in Users)
    /\ s.user # NoUser => s.token # NoPair
    /\ \A c \in s.calls : c.id <= m
    /\ \A c, d \in s.calls : c.id = d.id => c = d
    /\ Waiting(s) # {} => s.refreshing # NoPair

\* Between steps a disabled form has a cause, too.
TabInv(s, n, m) == TabSound(s, n, m) /\ (s.loading => s.entries # {})

\* localStorage is empty, or holds two tokens of its user.
StoreInv(st, iss) ==
    \/ st = Empty
    \/ /\ st \in Storage /\ st.user \in Users
       /\ st.access \in 1 .. Len(iss) /\ iss[st.access] = st.user
       /\ st.refresh \in 1 .. Len(iss) /\ iss[st.refresh] = st.user

\* The session of a tab is that of localStorage, and so is the refresh in flight.
Agrees(s, iss, st) ==
    /\ s.user # NoUser => st.user = s.user /\ iss[s.token] = s.user
    /\ s.refreshing # NoPair => st.user = iss[s.refreshing]

WorldInv ==
    /\ app \in {"player", "admin"}
    /\ issued \in Seq(Users) /\ Len(issued) <= MaxPairs
    /\ expired \subseteq 1 .. Len(issued)
    /\ made \in 0 .. MaxCalls /\ loads \in 0 .. MaxLoads /\ last \in {"in", "out", "crossed"}

IInv ==
    /\ WorldInv
    /\ tab \in [Tabs -> Tab]
    /\ \A t \in Tabs : TabInv(tab[t], Len(issued), made)
    /\ StoreInv(storage, issued)
    /\ last # "crossed" => \A t \in Tabs : Agrees(tab[t], issued, storage)
    /\ SignedOutClean

-----------------------------------------------------------------------------
(* What follows from it *)

\* IInv holds in the beginning.
LEMMA InitInv == Init => IInv
  <1> SUFFICES ASSUME Init PROVE IInv
    OBVIOUS
  <1>1. Blank \in Tab
    BY SessionAssumption DEF Blank, Tab, NoPair, PairOrNone
  <1>2. WorldInv
    BY SessionAssumption DEF Init, WorldInv
  <1>3. TabInv(Blank, 0, 0)
    BY <1>1 DEF TabInv, TabSound, Blank, NoPair, Waiting
  <1>4. \A t \in Tabs : tab[t] = Blank
    BY DEF Init
  <1>5. Len(issued) = 0 /\ made = 0
    BY DEF Init
  <1>6. tab \in [Tabs -> Tab]
    BY <1>1 DEF Init
  <1>7. StoreInv(storage, issued)
    BY DEF Init, StoreInv
  <1>8. \A t \in Tabs : Agrees(tab[t], issued, storage)
    BY <1>4 DEF Agrees, Blank, NoPair
  <1>9. SignedOutClean
    BY <1>4 DEF Init, SignedOutClean, Blank
  <1> QED
    BY <1>2, <1>3, <1>4, <1>5, <1>6, <1>7, <1>8, <1>9 DEF IInv

\* The types follow,
LEMMA InvTypes == IInv => TypeOK
  <1> SUFFICES ASSUME IInv PROVE TypeOK
    OBVIOUS
  <1>1. storage \in Storage
    BY SessionAssumption DEF IInv, StoreInv, Empty, Storage, PairOrNone, NoPair
  <1>2. \A t \in Tabs : /\ ~tab[t].open => tab[t] = Blank
                        /\ \A c, d \in tab[t].calls : c.id = d.id => c = d
    BY DEF IInv, TabInv, TabSound
  <1> QED
    BY <1>1, <1>2 DEF IInv, WorldInv, TypeOK

\* that nobody waits in vain,
LEMMA InvWaits == IInv => WaitsHaveCause
  BY DEF IInv, TabInv, TabSound, WaitsHaveCause

\* and that sessions are whole.
LEMMA InvWhole == IInv => SessionWhole
  <1> SUFFICES ASSUME IInv, last # "crossed", NEW t \in Tabs, tab[t].user # NoUser
               PROVE  LET u == tab[t].user IN
                      /\ tab[t].token # NoPair /\ Owner(tab[t].token) = u
                      /\ storage.user = u
                      /\ storage.access # NoPair /\ Owner(storage.access) = u
                      /\ storage.refresh # NoPair /\ Owner(storage.refresh) = u
    BY DEF IInv, SessionWhole, SignedInWhole
  <1>1. tab[t].token # NoPair
    BY DEF IInv, TabInv, TabSound
  <1>2. storage.user = tab[t].user /\ issued[tab[t].token] = tab[t].user
    BY DEF IInv, Agrees
  <1>3. storage # Empty
    BY <1>2 DEF Empty
  <1> QED
    BY <1>1, <1>2, <1>3 DEF IInv, StoreInv, Owner, NoPair


-----------------------------------------------------------------------------
(* Kinds of steps *)

\* The server's pairs after a step: as they are, or one more.
Grows ==
    /\ issued' \in Seq(Users) /\ Len(issued') <= MaxPairs /\ Len(issued) <= Len(issued')
    /\ \A i \in 1 .. Len(issued) : issued'[i] = issued[i]
    /\ expired' \subseteq 1 .. Len(issued')

\* To issue one makes it grow, by a pair of that user.
LEMMA IssueGrows ==
    ASSUME IInv, NEW u \in Users, Issue(u)
    PROVE  Grows /\ Newest = Len(issued') /\ issued'[Newest] = u /\ Newest \in Pairs
  <1>1. issued \in Seq(Users) /\ expired \subseteq 1 .. Len(issued) /\ Len(issued) \in Nat
    BY DEF IInv, WorldInv
  <1>2. Len(issued) < MaxPairs /\ issued' = Append(issued, u) /\ expired' = expired
    BY DEF Issue
  <1> QED
    BY <1>1, <1>2, SessionAssumption DEF Grows, Newest, Pairs

\* Without one it is as it was.
LEMMA SameGrows ==
    ASSUME IInv, UNCHANGED server
    PROVE  Grows
  BY DEF IInv, WorldInv, server, Grows

\* A tab that is left alone is none the worse for more pairs and more calls.
LEMMA TabGrows ==
    ASSUME NEW s, NEW n \in Nat, NEW m \in Nat, NEW n2 \in Nat, NEW m2 \in Nat,
           TabSound(s, n, m), n <= n2, m <= m2
    PROVE  TabSound(s, n2, m2)
  <1>1. s \in Tab
    BY DEF TabSound
  <1>2. s.token \in Nat /\ s.refreshing \in Nat
    BY <1>1, SessionAssumption DEF Tab, PairOrNone
  <1>3. \A e \in s.entries : e.pair \in Nat
    BY <1>1, SessionAssumption DEF Tab, Entry, PairOrNone
  <1>4. \A c \in s.calls : c.id \in Nat
    BY <1>1, SessionAssumption DEF Tab, Call
  <1> QED
    BY <1>1, <1>2, <1>3, <1>4 DEF TabSound

\* What localStorage holds is still its user's.
LEMMA StoreGrows ==
    ASSUME IInv, Grows, UNCHANGED storage
    PROVE  StoreInv(storage', issued')
  BY DEF IInv, WorldInv, Grows, StoreInv

\* What a step that may issue a pair, make a call or load a page leaves of the world.
LEMMA WorldStep ==
    ASSUME IInv, Grows, UNCHANGED app, made' \in 0 .. MaxCalls, loads' \in 0 .. MaxLoads,
           last' \in {"in", "out", "crossed"}
    PROVE  WorldInv'
  BY DEF IInv, WorldInv, Grows

\* A step of one tab, which becomes s.
LEMMA TabStep ==
    ASSUME IInv, Grows, NEW t \in Tabs, NEW s, Set(t, s),
           made' \in 0 .. MaxCalls, made <= made',
           TabInv(s, Len(issued'), made')
    PROVE  /\ tab' \in [Tabs -> Tab]
           /\ tab'[t] = s /\ \A u \in Tabs \ {t} : tab'[u] = tab[u]
           /\ \A u \in Tabs : TabInv(tab'[u], Len(issued'), made')
  <1>1. s \in Tab
    BY DEF TabInv, TabSound
  <1>2. tab' \in [Tabs -> Tab]
    BY <1>1 DEF IInv, Set
  <1>3. tab'[t] = s /\ \A u \in Tabs \ {t} : tab'[u] = tab[u]
    BY DEF IInv, Set
  <1>4. Len(issued) \in Nat /\ Len(issued') \in Nat /\ Len(issued) <= Len(issued')
    BY DEF IInv, WorldInv, Grows
  <1>5. made \in Nat /\ made' \in Nat
    BY SessionAssumption DEF IInv, WorldInv
  <1>6. ASSUME NEW u \in Tabs \ {t} PROVE TabInv(tab[u], Len(issued'), made')
    <2>1. TabInv(tab[u], Len(issued), made)
      BY DEF IInv
    <2> QED
      BY <2>1, <1>4, <1>5, TabGrows DEF TabInv
  <1> QED
    BY <1>2, <1>3, <1>6

\* One that leaves localStorage, the server and the last sign-in alone.
LEMMA QuietStep ==
    ASSUME IInv, NEW t \in Tabs, NEW s, Set(t, s), UNCHANGED <<app, storage, server, last>>,
           made' \in 0 .. MaxCalls, made <= made', loads' \in 0 .. MaxLoads,
           TabInv(s, Len(issued), made'),
           last # "crossed" => Agrees(s, issued, storage),
           last = "out" => s.token = NoPair /\ s.user = NoUser
    PROVE  IInv'
  <1>1. Grows /\ issued' = issued
    BY SameGrows DEF server
  <1>2. /\ tab' \in [Tabs -> Tab]
        /\ tab'[t] = s /\ \A u \in Tabs \ {t} : tab'[u] = tab[u]
        /\ \A u \in Tabs : TabInv(tab'[u], Len(issued'), made')
    BY <1>1, TabStep
  <1>3. WorldInv'
    <2>1. last' \in {"in", "out", "crossed"}
      BY DEF IInv, WorldInv
    <2> QED
      BY <1>1, <2>1, WorldStep
  <1>4. StoreInv(storage', issued')
    BY <1>1, StoreGrows
  <1>5. last' # "crossed" => \A u \in Tabs : Agrees(tab'[u], issued', storage')
    BY <1>1, <1>2 DEF IInv
  <1>6. SignedOutClean'
    BY <1>2 DEF IInv, SignedOutClean
  <1> QED
    BY <1>2, <1>3, <1>4, <1>5, <1>6 DEF IInv

\* Two memories of a tab that agree in every field are the same.
LEMMA TabExt ==
    ASSUME NEW s \in Tab, NEW r \in Tab,
           s.open = r.open, s.token = r.token, s.user = r.user, s.loading = r.loading,
           s.refreshing = r.refreshing, s.entries = r.entries, s.calls = r.calls
    PROVE  s = r
  BY DEF Tab

\* The memory of a tab after a sign-out,
LEMMA SignedOutTab ==
    ASSUME NEW s \in Tab
    PROVE  LET r == SignedOut(s) IN
           /\ r \in Tab
           /\ r.open = s.open /\ r.token = NoPair /\ r.user = NoUser /\ r.loading = FALSE
           /\ r.refreshing = s.refreshing /\ r.entries = s.entries /\ r.calls = s.calls
  <1>1. NoPair \in PairOrNone
    BY SessionAssumption DEF NoPair, PairOrNone
  <1> QED
    BY <1>1 DEF SignedOut, Tab

\* and after a sign-in.
LEMMA SignedInTab ==
    ASSUME NEW s \in Tab, NEW u \in Users, Newest \in PairOrNone
    PROVE  LET r == SignedIn(s, u) IN
           /\ r \in Tab
           /\ r.open = s.open /\ r.token = Newest /\ r.user = u /\ r.loading = FALSE
           /\ r.refreshing = s.refreshing /\ r.entries = s.entries /\ r.calls = s.calls
  BY DEF SignedIn, Tab

\* clearAuthState, in a tab that has become s otherwise.
LEMMA ClearStep ==
    ASSUME IInv, Grows, NEW t \in Tabs, NEW s, Clear(t, s), UNCHANGED <<app, made>>,
           loads' \in 0 .. MaxLoads,
           TabSound(s, Len(issued'), made), s.refreshing \in {tab[t].refreshing, NoPair}
    PROVE  IInv'
  <1> DEFINE out == SignedOut(s)
  <1>0. s \in Tab
    BY DEF TabSound
  <1>1. TabInv(out, Len(issued'), made)
    <2>1. /\ out.open = s.open /\ out.token = NoPair /\ out.user = NoUser /\ out.loading = FALSE
          /\ out.refreshing = s.refreshing /\ out.entries = s.entries /\ out.calls = s.calls
          /\ out \in Tab
      BY <1>0, SignedOutTab
    <2>3. s = Blank => out = Blank
      <3> SUFFICES ASSUME s = Blank PROVE out = s
        OBVIOUS
      <3>1. s.token = NoPair /\ s.user = NoUser /\ s.loading = FALSE
        BY DEF Blank
      <3> QED
        BY <1>0, <2>1, <3>1, TabExt
    <2>4. NoPair <= Len(issued')
      BY DEF Grows, NoPair
    <2> QED
      BY <2>1, <2>3, <2>4, <1>0 DEF TabInv, TabSound, Waiting
  <1>2. /\ tab' \in [Tabs -> Tab]
        /\ tab'[t] = out /\ \A u \in Tabs \ {t} : tab'[u] = tab[u]
        /\ \A u \in Tabs : TabInv(tab'[u], Len(issued'), made')
    <2>1. made \in 0 .. MaxCalls /\ made <= made
      BY SessionAssumption DEF IInv, WorldInv
    <2> QED
      BY <1>1, <2>1, TabStep DEF Clear
  <1>3. WorldInv'
    <2>1. made' \in 0 .. MaxCalls /\ last' \in {"in", "out", "crossed"}
      BY DEF IInv, WorldInv, Clear, Changed
    <2> QED
      BY <2>1, WorldStep
  <1>4. StoreInv(storage', issued')
    BY DEF Clear, StoreInv
  <1>5. ASSUME last' # "crossed"
        PROVE  /\ \A u \in Tabs : Agrees(tab'[u], issued', storage')
               /\ \A u \in Tabs : tab'[u].token = NoPair /\ tab'[u].user = NoUser
    <2>1. Quiet(t)
      BY <1>5 DEF Clear, Changed
    <2>2. out.refreshing = NoPair /\ out.token = NoPair /\ out.user = NoUser
      BY <2>1, <1>0 DEF Quiet, SignedOut, Tab
    <2>3. \A u \in Tabs \ {t} : /\ tab[u].token = NoPair /\ tab[u].refreshing = NoPair
                               /\ tab[u].user = NoUser
      BY <2>1 DEF Quiet, Busy, IInv, TabInv, TabSound
    <2> QED
      BY <1>2, <2>2, <2>3 DEF Agrees
  <1>6. SignedOutClean'
    BY <1>5 DEF SignedOutClean, Clear
  <1> QED
    BY <1>2, <1>3, <1>4, <1>5, <1>6 DEF IInv

\* A sign-in, in a tab that has become s otherwise.
LEMMA SignInStep ==
    ASSUME IInv, NEW t \in Tabs, NEW s, NEW u \in Users,
           Issue(u), Set(t, SignedIn(s, u)), Stored(u), Changed(t, "in"),
           UNCHANGED <<app, made, loads>>,
           TabSound(s, Len(issued), made), s.open, s.refreshing = tab[t].refreshing
    PROVE  IInv'
  <1> DEFINE in == SignedIn(s, u)
  <1>0. s \in Tab
    BY DEF TabSound
  <1>1. Grows /\ Newest = Len(issued') /\ issued'[Newest] = u /\ Newest \in Pairs
    BY IssueGrows
  <1>2. TabSound(s, Len(issued'), made)
    BY <1>1, TabGrows, SessionAssumption DEF IInv, WorldInv, Grows
  <1>3. TabInv(in, Len(issued'), made)
    <2>1. /\ in.open = s.open /\ in.token = Newest /\ in.user = u /\ in.loading = FALSE
          /\ in.refreshing = s.refreshing /\ in.entries = s.entries /\ in.calls = s.calls
          /\ in \in Tab
      <3>1. Newest \in PairOrNone
        BY <1>1, SessionAssumption DEF Pairs, PairOrNone
      <3> QED
        BY <1>0, <3>1, SignedInTab
    <2>3. Newest # NoPair /\ Newest <= Len(issued')
      BY <1>1 DEF NoPair, Pairs, Grows
    <2> QED
      BY <1>2, <2>1, <2>3 DEF TabInv, TabSound, Waiting
  <1>4. /\ tab' \in [Tabs -> Tab]
        /\ tab'[t] = in /\ \A v \in Tabs \ {t} : tab'[v] = tab[v]
        /\ \A v \in Tabs : TabInv(tab'[v], Len(issued'), made')
    <2>1. made \in 0 .. MaxCalls /\ made <= made
      BY SessionAssumption DEF IInv, WorldInv
    <2> QED
      BY <1>1, <1>3, <2>1, TabStep
  <1>5. WorldInv'
    <2>1. /\ made' \in 0 .. MaxCalls /\ loads' \in 0 .. MaxLoads
          /\ last' \in {"in", "out", "crossed"}
      BY DEF IInv, WorldInv, Changed
    <2> QED
      BY <1>1, <2>1, WorldStep
  <1>6. storage' = [access |-> Newest, refresh |-> Newest, user |-> u]
    BY DEF Stored
  <1>7. StoreInv(storage', issued')
    <2>1. Newest \in 1 .. Len(issued')
      BY <1>1 DEF Pairs, Grows
    <2>2. storage' \in Storage
      BY <1>1, <1>6, SessionAssumption DEF Storage, Pairs, PairOrNone
    <2> QED
      BY <1>1, <1>6, <2>1, <2>2 DEF StoreInv
  <1>8. ASSUME last' # "crossed" PROVE \A v \in Tabs : Agrees(tab'[v], issued', storage')
    <2>1. Quiet(t)
      BY <1>8 DEF Changed
    <2>2. in.refreshing = NoPair /\ in.token = Newest /\ in.user = u
      BY <2>1, <1>0 DEF Quiet, SignedIn, Tab
    <2>3. \A v \in Tabs \ {t} : tab[v].refreshing = NoPair /\ tab[v].user = NoUser
      BY <2>1 DEF Quiet, Busy, IInv, TabInv, TabSound
    <2> QED
      BY <1>1, <1>4, <1>6, <2>2, <2>3 DEF Agrees
  <1>9. SignedOutClean'
    BY DEF SignedOutClean, Changed
  <1> QED
    BY <1>4, <1>5, <1>7, <1>8, <1>9 DEF IInv
-----------------------------------------------------------------------------
(* The steps *)

\* What IInv says of one tab and of localStorage.
LEMMA TabFacts ==
    ASSUME IInv, NEW t \in Tabs
    PROVE  /\ tab[t] \in Tab /\ TabSound(tab[t], Len(issued), made)
           /\ storage.access \in 0 .. Len(issued) /\ storage.refresh \in 0 .. Len(issued)
           /\ Len(issued) \in Nat /\ made \in Nat
           /\ 0 .. Len(issued) \subseteq PairOrNone
  <1>1. Len(issued) \in Nat /\ Len(issued) <= MaxPairs /\ made \in Nat
    BY SessionAssumption DEF IInv, WorldInv
  <1>2. 0 .. Len(issued) \subseteq PairOrNone
    BY <1>1, SessionAssumption DEF PairOrNone
  <1>3. storage.access \in 0 .. Len(issued) /\ storage.refresh \in 0 .. Len(issued)
    BY <1>1 DEF IInv, StoreInv, Empty, NoPair
  <1> QED
    BY <1>1, <1>2, <1>3 DEF IInv, TabInv, TabSound

\* A step of a task of t that neither signs in nor out, and sends a refresh, if
\* any, with the token of localStorage.
LEMMA TaskStep ==
    ASSUME IInv, NEW t \in Tabs, NEW s, Set(t, s), UNCHANGED <<app, storage, server, last, loads>>,
           made' \in 0 .. MaxCalls, made <= made',
           TabInv(s, Len(issued), made'),
           s.token = tab[t].token, s.user = tab[t].user,
           s.refreshing \in {tab[t].refreshing, NoPair, storage.refresh}
    PROVE  IInv'
  <1>1. loads' \in 0 .. MaxLoads
    BY DEF IInv, WorldInv
  <1>2. last # "crossed" => Agrees(s, issued, storage)
    BY DEF IInv, Agrees, StoreInv, Empty, NoPair
  <1>3. last = "out" => s.token = NoPair /\ s.user = NoUser
    BY DEF IInv, SignedOutClean
  <1> QED
    BY <1>1, <1>2, <1>3, QuietStep

\* A tab that is not open has a memory, too.
LEMMA BlankTab == Blank \in Tab
  BY SessionAssumption DEF Blank, Tab, NoPair, PairOrNone

\* A page that loads knows nothing.
LEMMA FreshTab ==
    ASSUME NEW n \in Nat, NEW m
    PROVE  LET fresh == [Blank EXCEPT !.open = TRUE] IN
           /\ fresh \in Tab /\ TabInv(fresh, n, m)
           /\ fresh.open = TRUE /\ fresh.token = NoPair /\ fresh.user = NoUser
           /\ fresh.loading = FALSE /\ fresh.refreshing = NoPair /\ fresh.entries = {} /\ fresh.calls = {}
  <1> DEFINE fresh == [Blank EXCEPT !.open = TRUE]
  <1>1. /\ fresh \in Tab /\ fresh.open = TRUE
        /\ fresh.token = Blank.token /\ fresh.user = Blank.user /\ fresh.loading = Blank.loading
        /\ fresh.refreshing = Blank.refreshing /\ fresh.entries = Blank.entries
        /\ fresh.calls = Blank.calls
    BY BlankTab DEF Tab
  <1>2. /\ Blank.token = NoPair /\ Blank.user = NoUser /\ Blank.loading = FALSE
        /\ Blank.refreshing = NoPair /\ Blank.entries = {} /\ Blank.calls = {}
    BY DEF Blank
  <1> QED
    BY <1>1, <1>2 DEF TabInv, TabSound, Waiting, NoPair

\* Load: the three ways to restore a session.
LEMMA LoadStep ==
    ASSUME IInv, NEW t \in Tabs, Load(t)
    PROVE  IInv'
  <1> DEFINE fresh == [Blank EXCEPT !.open = TRUE]
  <1>1. /\ fresh \in Tab /\ TabInv(fresh, Len(issued), made)
        /\ fresh.open = TRUE /\ fresh.token = NoPair /\ fresh.user = NoUser /\ fresh.loading = FALSE
        /\ fresh.refreshing = NoPair /\ fresh.entries = {} /\ fresh.calls = {}
    BY TabFacts, FreshTab
  <1> HIDE DEF fresh
  <1>2. UNCHANGED <<app, server, made>> /\ loads' \in 0 .. MaxLoads
    BY SessionAssumption DEF Load, IInv, WorldInv
  <1>3. made' \in 0 .. MaxCalls /\ made <= made'
    BY <1>2, TabFacts DEF IInv, WorldInv
  <1>4. CASE Live(storage.access) /\ storage.user # NoUser
    <2> DEFINE s == [fresh EXCEPT !.token = storage.access, !.user = storage.user]
    <2>1. Set(t, s) /\ UNCHANGED <<storage, last>>
      BY <1>4 DEF Load, fresh
    <2>2. /\ storage.user \in Users /\ storage.access \in 1 .. Len(issued)
          /\ issued[storage.access] = storage.user
      BY <1>4 DEF IInv, StoreInv, Empty
    <2>3. /\ s \in Tab /\ s.open = TRUE /\ s.token = storage.access /\ s.user = storage.user
          /\ s.loading = FALSE /\ s.refreshing = NoPair /\ s.entries = {} /\ s.calls = {}
      BY <1>1, <2>2, TabFacts DEF Tab
    <2> HIDE DEF s
    <2>4. TabInv(s, Len(issued), made')
      BY <1>1, <2>2, <2>3, TabFacts DEF TabInv, TabSound, Waiting, NoPair
    <2>5. Agrees(s, issued, storage)
      BY <2>2, <2>3 DEF Agrees
    <2>6. last # "out"
      BY <2>2 DEF IInv, SignedOutClean, Empty, NoPair
    <2> QED
      BY <1>2, <1>3, <2>1, <2>4, <2>5, <2>6, QuietStep
  <1>5. CASE ~(Live(storage.access) /\ storage.user # NoUser) /\ storage.refresh = NoPair
    <2>1. Clear(t, fresh)
      BY <1>5 DEF Load, fresh
    <2>2. Grows /\ issued' = issued
      BY <1>2, SameGrows DEF server
    <2> QED
      BY <1>1, <1>2, <2>1, <2>2, ClearStep DEF TabInv
  <1>6. CASE ~(Live(storage.access) /\ storage.user # NoUser) /\ storage.refresh # NoPair
    <2> DEFINE e == [user |-> NoUser, pair |-> storage.refresh]
               s == [fresh EXCEPT !.loading = TRUE, !.entries = {e}]
    <2>1. Set(t, s) /\ UNCHANGED <<storage, last>>
      BY <1>6 DEF Load, fresh
    <2>2. e \in Entry /\ e.pair <= Len(issued) /\ e.pair # NoPair
      BY <1>6, TabFacts DEF Entry
    <2> HIDE DEF e
    <2>3. /\ s \in Tab /\ s.open = TRUE /\ s.token = NoPair /\ s.user = NoUser
          /\ s.loading = TRUE /\ s.refreshing = NoPair /\ s.entries = {e} /\ s.calls = {}
      BY <1>1, <2>2 DEF Tab
    <2> HIDE DEF s
    <2>4. TabInv(s, Len(issued), made')
      BY <2>2, <2>3, TabFacts DEF TabInv, TabSound, Waiting, NoPair
    <2>5. Agrees(s, issued, storage)
      BY <2>3 DEF Agrees
    <2> QED
      BY <1>2, <1>3, <2>1, <2>3, <2>4, <2>5, QuietStep
  <1> QED
    BY <1>4, <1>5, <1>6
\* The form is sent.
LEMMA SubmitStep ==
    ASSUME IInv, NEW t \in Tabs, NEW u \in Users, SubmitLogin(t, u)
    PROVE  IInv'
  <1> DEFINE e == [user |-> u, pair |-> NoPair]
             s == [tab[t] EXCEPT !.loading = TRUE, !.entries = @ \cup {e}]
  <1>1. Set(t, s) /\ UNCHANGED <<app, storage, server, made, loads, last>> /\ tab[t].open
    BY DEF SubmitLogin
  <1>2. e \in Entry /\ e.pair <= Len(issued) /\ e.user \in Users
    BY TabFacts, SessionAssumption DEF Entry, NoPair, PairOrNone
  <1> HIDE DEF e
  <1>3. /\ s \in Tab /\ s.open = tab[t].open /\ s.token = tab[t].token /\ s.user = tab[t].user
        /\ s.loading = TRUE /\ s.refreshing = tab[t].refreshing
        /\ s.entries = tab[t].entries \cup {e} /\ s.calls = tab[t].calls
    BY <1>2, TabFacts DEF Tab
  <1> HIDE DEF s
  <1>4. TabInv(s, Len(issued), made)
    BY <1>1, <1>2, <1>3, TabFacts DEF TabInv, TabSound, Waiting
  <1>5. made' \in 0 .. MaxCalls /\ made <= made' /\ made' = made
    BY <1>1, TabFacts DEF IInv, WorldInv
  <1> QED
    BY <1>1, <1>3, <1>4, <1>5, TaskStep

\* A sign-in under way is answered: it is taken off, and its tab is open.
LEMMA EntryOff ==
    ASSUME IInv, NEW t \in Tabs, NEW e \in tab[t].entries
    PROVE  LET s == [tab[t] EXCEPT !.entries = @ \ {e}] IN
           /\ TabSound(s, Len(issued), made) /\ s.open /\ s.refreshing = tab[t].refreshing
           /\ e \in Entry /\ e.pair <= Len(issued)
  <1> DEFINE s == [tab[t] EXCEPT !.entries = @ \ {e}]
  <1>1. /\ s \in Tab /\ s.open = tab[t].open /\ s.token = tab[t].token /\ s.user = tab[t].user
        /\ s.refreshing = tab[t].refreshing
        /\ s.entries = tab[t].entries \ {e} /\ s.calls = tab[t].calls
    BY TabFacts DEF Tab
  <1> HIDE DEF s
  <1>2. tab[t].open
    BY TabFacts DEF TabSound, Blank
  <1>3. e \in Entry /\ e.pair <= Len(issued)
    BY TabFacts DEF Tab, TabSound
  <1>4. TabSound(s, Len(issued), made)
    BY <1>1, <1>2, TabFacts DEF TabSound, Waiting
  <1> QED
    BY <1>1, <1>2, <1>3, <1>4 DEF s

\* The answer of a login or registration,
LEMMA LoginOkStep ==
    ASSUME IInv, NEW t \in Tabs, NEW e \in tab[t].entries, LoginOk(t, e)
    PROVE  IInv'
  <1>0. e.user \in Users
    BY TabFacts DEF TabSound, LoginOk
  <1> DEFINE s == [tab[t] EXCEPT !.entries = @ \ {e}]
  <1>1. TabSound(s, Len(issued), made) /\ s.open /\ s.refreshing = tab[t].refreshing
    BY EntryOff
  <1> HIDE DEF s
  <1>2. Issue(e.user) /\ UNCHANGED <<app, made, loads>>
    BY DEF LoginOk
  <1>3. CASE app = "admin" /\ e.user \notin Admins
    <2>1. Clear(t, s)
      BY <1>3 DEF LoginOk, s
    <2>2. Grows
      BY <1>0, <1>2, IssueGrows
    <2>3. TabSound(s, Len(issued'), made)
      BY <1>1, <2>2, TabFacts, TabGrows DEF Grows
    <2>4. loads' \in 0 .. MaxLoads
      BY <1>2 DEF IInv, WorldInv
    <2> QED
      BY <1>1, <1>2, <2>1, <2>2, <2>3, <2>4, ClearStep
  <1>4. CASE ~(app = "admin" /\ e.user \notin Admins)
    <2>1. Set(t, SignedIn(s, e.user)) /\ Stored(e.user) /\ Changed(t, "in")
      BY <1>4 DEF LoginOk, s
    <2> QED
      BY <1>0, <1>1, <1>2, <2>1, SignInStep
  <1> QED
    BY <1>3, <1>4

\* and its failure, which only gives the form back.
LEMMA LoginFailsStep ==
    ASSUME IInv, NEW t \in Tabs, NEW e \in tab[t].entries, LoginFails(t, e)
    PROVE  IInv'
  <1> DEFINE s == [tab[t] EXCEPT !.entries = @ \ {e}, !.loading = FALSE]
  <1>1. Set(t, s) /\ UNCHANGED <<app, storage, server, made, loads, last>>
    BY DEF LoginFails
  <1>2. /\ s \in Tab /\ s.open = tab[t].open /\ s.token = tab[t].token /\ s.user = tab[t].user
        /\ s.loading = FALSE /\ s.refreshing = tab[t].refreshing
        /\ s.entries = tab[t].entries \ {e} /\ s.calls = tab[t].calls
    BY TabFacts DEF Tab
  <1> HIDE DEF s
  <1>3. tab[t].open
    BY TabFacts DEF TabSound, Blank
  <1>4. TabInv(s, Len(issued), made)
    BY <1>2, <1>3, TabFacts DEF TabInv, TabSound, Waiting
  <1>5. made' \in 0 .. MaxCalls /\ made <= made' /\ made' = made
    BY <1>1, TabFacts DEF IInv, WorldInv
  <1> QED
    BY <1>1, <1>2, <1>4, <1>5, TaskStep

\* The answer of the refresh of restoreSession,
LEMMA RestoreOkStep ==
    ASSUME IInv, NEW t \in Tabs, NEW e \in tab[t].entries, RestoreOk(t, e)
    PROVE  IInv'
  <1> DEFINE s == [tab[t] EXCEPT !.entries = @ \ {e}]
             u == Owner(e.pair)
  <1>1. /\ TabSound(s, Len(issued), made) /\ s.open /\ s.refreshing = tab[t].refreshing
        /\ e \in Entry /\ e.pair <= Len(issued)
    BY EntryOff
  <1>2. /\ Issue(u) /\ Set(t, SignedIn(s, u)) /\ Stored(u) /\ Changed(t, "in")
        /\ UNCHANGED <<app, made, loads>> /\ e.pair # NoPair
    BY DEF RestoreOk
  <1>3. u \in Users
    <2>1. e.pair \in 1 .. Len(issued)
      BY <1>1, <1>2, SessionAssumption DEF Entry, PairOrNone, NoPair
    <2> QED
      BY <2>1 DEF Owner, IInv, WorldInv
  <1> HIDE DEF s, u
  <1> QED
    BY <1>1, <1>2, <1>3, SignInStep

\* A session is cleared that no pair was issued for.
LEMMA SignOutStep ==
    ASSUME IInv, NEW t \in Tabs, NEW s, Clear(t, s), UNCHANGED <<app, server, made, loads>>,
           TabSound(s, Len(issued), made), s.refreshing = tab[t].refreshing
    PROVE  IInv'
  <1>1. Grows /\ issued' = issued
    BY SameGrows DEF server
  <1>2. loads' \in 0 .. MaxLoads
    BY DEF IInv, WorldInv
  <1> QED
    BY <1>1, <1>2, ClearStep

\* and its failure, which clears the session.
LEMMA RestoreFailsStep ==
    ASSUME IInv, NEW t \in Tabs, NEW e \in tab[t].entries, RestoreFails(t, e)
    PROVE  IInv'
  BY EntryOff, SignOutStep DEF RestoreFails

\* The user signs out.
LEMMA LogoutStep ==
    ASSUME IInv, NEW t \in Tabs, Logout(t)
    PROVE  IInv'
  BY TabFacts, SignOutStep DEF Logout

\* A page makes a call: its number is new, and it does not wait.
LEMMA SentCall ==
    ASSUME IInv, NEW t \in Tabs, made < MaxCalls
    PROVE  LET c == Sent(made + 1, tab[t].token, TRUE) IN
           c \in Call /\ c.id = made + 1 /\ c.stage = "sent"
  <1>1. made + 1 \in 1 .. MaxCalls
    BY TabFacts, SessionAssumption
  <1>2. tab[t].token \in PairOrNone
    BY TabFacts DEF Tab
  <1> QED
    BY <1>1, <1>2 DEF Sent, Call, Live

\* A tab with other calls, each of which is one of the old ones with another fate,
\* or the new one.
LEMMA CallsStep ==
    ASSUME IInv, NEW t \in Tabs, NEW s \in Tab,
           s.open, s.token = tab[t].token, s.user = tab[t].user, s.loading = tab[t].loading,
           s.entries = tab[t].entries, s.refreshing \in 0 .. Len(issued),
           NEW m \in Nat, made <= m, \A c \in s.calls : c.id <= m,
           \A c, d \in s.calls : c.id = d.id => c = d,
           Waiting(s) # {} => s.refreshing # NoPair
    PROVE  TabInv(s, Len(issued), m)
  <1>1. TabInv(tab[t], Len(issued), made)
    BY DEF IInv
  <1> QED
    BY <1>1 DEF TabInv, TabSound

\* A page of a signed-in user makes a call.
LEMMA StartStep ==
    ASSUME IInv, NEW t \in Tabs, StartCall(t)
    PROVE  IInv'
  <1> DEFINE c == Sent(made + 1, tab[t].token, TRUE)
             s == [tab[t] EXCEPT !.calls = @ \cup {c}]
  <1>1. /\ Set(t, s) /\ made' = made + 1 /\ made < MaxCalls /\ tab[t].user # NoUser
        /\ UNCHANGED <<app, storage, server, loads, last>>
    BY DEF StartCall
  <1>2. c \in Call /\ c.id = made + 1 /\ c.stage = "sent"
    BY <1>1, SentCall
  <1> HIDE DEF c
  <1>3. /\ s \in Tab /\ s.open = tab[t].open /\ s.token = tab[t].token /\ s.user = tab[t].user
        /\ s.loading = tab[t].loading /\ s.refreshing = tab[t].refreshing
        /\ s.entries = tab[t].entries /\ s.calls = tab[t].calls \cup {c}
    BY <1>2, TabFacts DEF Tab
  <1> HIDE DEF s
  <1>4. tab[t].open
    BY <1>1, TabFacts DEF TabSound, Blank
  <1>5. made \in Nat /\ MaxCalls \in Nat /\ \A d \in tab[t].calls : d.id \in Nat /\ d.id <= made
    BY TabFacts, SessionAssumption DEF Tab, Call, TabSound
  <1>6. TabInv(s, Len(issued), made + 1)
    <2>1. \A d \in s.calls : d.id <= made + 1
      BY <1>2, <1>3, <1>5
    <2>2. \A d, f \in s.calls : d.id = f.id => d = f
      BY <1>2, <1>3, <1>5, TabFacts DEF TabSound
    <2>3. Waiting(s) = Waiting(tab[t]) /\ s.refreshing \in 0 .. Len(issued)
      BY <1>2, <1>3, TabFacts, SessionAssumption DEF Waiting, TabSound, Tab, PairOrNone
    <2>4. Waiting(s) # {} => s.refreshing # NoPair
      BY <1>3, <2>3, TabFacts DEF TabSound
    <2>5. made + 1 \in Nat /\ made <= made + 1
      BY <1>5
    <2> QED
      BY <1>3, <1>4, <2>1, <2>2, <2>3, <2>4, <2>5, CallsStep
  <1>7. made' \in 0 .. MaxCalls /\ made <= made'
    BY <1>1, <1>5
  <1> QED
    BY <1>1, <1>3, <1>6, <1>7, TaskStep

\* A tab with a call has been opened, and the call is one of those made.
LEMMA CallFacts ==
    ASSUME IInv, NEW t \in Tabs, NEW c \in tab[t].calls
    PROVE  tab[t].open /\ c \in Call /\ c.id \in Nat /\ c.id <= made
  BY TabFacts, SessionAssumption DEF TabSound, Blank, Tab, Call

\* A call is over.
LEMMA CallOff ==
    ASSUME IInv, NEW t \in Tabs, NEW c \in tab[t].calls
    PROVE  LET s == [tab[t] EXCEPT !.calls = @ \ {c}] IN
           /\ s \in Tab /\ s.open /\ s.token = tab[t].token /\ s.user = tab[t].user
           /\ s.loading = tab[t].loading /\ s.refreshing = tab[t].refreshing
           /\ s.entries = tab[t].entries /\ s.calls = tab[t].calls \ {c}
           /\ TabInv(s, Len(issued), made)
  <1> DEFINE s == [tab[t] EXCEPT !.calls = @ \ {c}]
  <1>1. /\ s \in Tab /\ s.open = tab[t].open /\ s.token = tab[t].token /\ s.user = tab[t].user
        /\ s.loading = tab[t].loading /\ s.refreshing = tab[t].refreshing
        /\ s.entries = tab[t].entries /\ s.calls = tab[t].calls \ {c}
    BY TabFacts DEF Tab
  <1> HIDE DEF s
  <1>2. tab[t].open
    BY CallFacts
  <1>3. TabInv(tab[t], Len(issued), made)
    BY DEF IInv
  <1>4. TabInv(s, Len(issued), made)
    BY <1>1, <1>2, <1>3 DEF TabInv, TabSound, Waiting
  <1> QED
    BY <1>1, <1>2, <1>4 DEF s

\* A call is answered: that is the end of it, or its task makes the next one.
LEMMA AnswerOkStep ==
    ASSUME IInv, NEW t \in Tabs, NEW c \in tab[t].calls, AnswerOk(t, c)
    PROVE  IInv'
  <1> DEFINE s == [tab[t] EXCEPT !.calls = @ \ {c}]
             d == Sent(made + 1, tab[t].token, TRUE)
             r == [tab[t] EXCEPT !.calls = (tab[t].calls \ {c}) \cup {d}]
  <1>1. /\ s \in Tab /\ s.open /\ s.token = tab[t].token /\ s.user = tab[t].user
        /\ s.loading = tab[t].loading /\ s.refreshing = tab[t].refreshing
        /\ s.entries = tab[t].entries /\ s.calls = tab[t].calls \ {c}
        /\ TabInv(s, Len(issued), made)
    BY CallOff
  <1>2. UNCHANGED <<app, storage, server, loads, last>>
    BY DEF AnswerOk
  <1>3. CASE Set(t, s) /\ UNCHANGED made
    <2>1. made' \in 0 .. MaxCalls /\ made <= made' /\ made' = made
      BY <1>3, TabFacts DEF IInv, WorldInv
    <2> HIDE DEF s
    <2> QED
      BY <1>1, <1>2, <1>3, <2>1, TaskStep
  <1>4. CASE made < MaxCalls /\ made' = made + 1 /\ Set(t, r)
    <2>1. d \in Call /\ d.id = made + 1 /\ d.stage = "sent"
      BY <1>4, SentCall
    <2> HIDE DEF d, s
    <2>2. /\ r \in Tab /\ r.open = tab[t].open /\ r.token = tab[t].token /\ r.user = tab[t].user
          /\ r.loading = tab[t].loading /\ r.refreshing = tab[t].refreshing
          /\ r.entries = tab[t].entries /\ r.calls = s.calls \cup {d}
      BY <1>1, <2>1, TabFacts DEF Tab
    <2> HIDE DEF r
    <2>3. tab[t].open /\ made \in Nat /\ MaxCalls \in Nat
      BY TabFacts, CallFacts, SessionAssumption
    <2>4. \A f \in s.calls : f.id \in Nat /\ f.id <= made
      BY <1>1, CallFacts
    <2>5. \A f \in r.calls : f.id <= made + 1
      BY <2>1, <2>2, <2>3, <2>4
    <2>6. \A f, g \in r.calls : f.id = g.id => f = g
      BY <1>1, <2>1, <2>2, <2>3, <2>4 DEF TabInv, TabSound
    <2>7. Waiting(r) = Waiting(s)
      BY <2>1, <2>2 DEF Waiting
    <2>8. r.refreshing \in 0 .. Len(issued)
      BY <2>2, TabFacts, SessionAssumption DEF TabSound, Tab, PairOrNone
    <2>9. made + 1 \in Nat /\ made <= made + 1 /\ made + 1 \in 0 .. MaxCalls
      BY <1>4, <2>3
    <2>10. Waiting(r) # {} => r.refreshing # NoPair
      BY <1>1, <2>2, <2>7 DEF TabInv, TabSound
    <2>11. TabInv(r, Len(issued), made + 1)
      BY <2>2, <2>3, <2>5, <2>6, <2>8, <2>9, <2>10, CallsStep
    <2> QED
      BY <1>2, <1>4, <2>2, <2>9, <2>11, TaskStep
  <1> QED
    BY <1>3, <1>4 DEF AnswerOk

\* A call is given a 401: it waits for the refresh in flight, or for a new one, or
\* the 401 stands.
LEMMA UnauthorizedStep ==
    ASSUME IInv, NEW t \in Tabs, NEW c \in tab[t].calls, AnswerUnauthorized(t, c)
    PROVE  IInv'
  <1> DEFINE pair == IF tab[t].refreshing # NoPair THEN tab[t].refreshing ELSE storage.refresh
             stage == IF c.first /\ pair # NoPair THEN "waiting" ELSE "denied"
             d == [c EXCEPT !.stage = stage]
             flight == IF stage = "waiting" THEN pair ELSE tab[t].refreshing
             s == [tab[t] EXCEPT !.calls = (@ \ {c}) \cup {d}, !.refreshing = flight]
  <1>1. Set(t, s) /\ UNCHANGED <<app, storage, server, made, loads, last>>
    BY DEF AnswerUnauthorized
  <1>2. pair \in 0 .. Len(issued) /\ tab[t].refreshing \in 0 .. Len(issued)
    BY TabFacts, SessionAssumption DEF TabSound, Tab, PairOrNone
  <1>3. /\ stage \in {"waiting", "denied"}
        /\ flight \in {tab[t].refreshing, storage.refresh} /\ flight \in 0 .. Len(issued)
        /\ stage = "waiting" => flight # NoPair
        /\ tab[t].refreshing # NoPair => flight # NoPair
    BY <1>2
  <1> HIDE DEF pair, stage, flight
  <1>4. d \in Call /\ d.id = c.id /\ d.stage = stage
    BY <1>3, CallFacts DEF Call
  <1> HIDE DEF d
  <1>5. /\ s \in Tab /\ s.open = tab[t].open /\ s.token = tab[t].token /\ s.user = tab[t].user
        /\ s.loading = tab[t].loading /\ s.refreshing = flight
        /\ s.entries = tab[t].entries /\ s.calls = (tab[t].calls \ {c}) \cup {d}
    BY <1>3, <1>4, TabFacts DEF Tab
  <1> HIDE DEF s
  <1>6. \A f \in s.calls : f.id <= made
    BY <1>4, <1>5, CallFacts
  <1>7. \A f, g \in s.calls : f.id = g.id => f = g
    BY <1>4, <1>5, TabFacts DEF TabSound
  <1>8. Waiting(s) # {} => s.refreshing # NoPair
    <2>1. Waiting(s) # {} => Waiting(tab[t]) # {} \/ stage = "waiting"
      BY <1>4, <1>5 DEF Waiting
    <2> QED
      BY <1>3, <1>5, <2>1, TabFacts DEF TabSound
  <1>9. TabInv(s, Len(issued), made)
    BY <1>3, <1>5, <1>6, <1>7, <1>8, TabFacts, CallFacts, CallsStep
  <1>10. made' \in 0 .. MaxCalls /\ made <= made' /\ made' = made
    BY <1>1, TabFacts DEF IInv, WorldInv
  <1> QED
    BY <1>1, <1>3, <1>5, <1>9, <1>10, TaskStep

\* The 401 of a call is acted upon.
LEMMA DenyStep ==
    ASSUME IInv, NEW t \in Tabs, NEW c \in tab[t].calls, Deny(t, c)
    PROVE  IInv'
  BY CallOff, SignOutStep DEF Deny, TabInv

\* The calls that wait are sent once more, or told: each keeps its number.
LEMMA CallsAfterRefresh ==
    ASSUME IInv, NEW t \in Tabs, NEW C,
           \A d \in C : \/ d \in tab[t].calls \ Waiting(tab[t])
                        \/ \E c \in Waiting(tab[t]) : d.id = c.id,
           \A d, f \in C \ (tab[t].calls \ Waiting(tab[t])) : d.id = f.id => d = f
    PROVE  /\ \A d \in C : d.id <= made
           /\ \A d, f \in C : d.id = f.id => d = f
  <1> DEFINE rest == tab[t].calls \ Waiting(tab[t])
  <1>1. \A d, f \in tab[t].calls : d.id = f.id => d = f
    BY TabFacts DEF TabSound
  <1>2. \A d \in tab[t].calls : d.id <= made
    BY CallFacts
  <1>3. \A d \in Waiting(tab[t]) : d \in tab[t].calls /\ d \notin rest
    BY DEF Waiting
  <1>4. \A d \in rest, f \in C \ rest : d.id # f.id
    BY <1>1, <1>3
  <1> QED
    BY <1>1, <1>2, <1>3, <1>4

\* The refresh fails, and those that waited for it are told.
LEMMA RefreshFailsStep ==
    ASSUME IInv, NEW t \in Tabs, RefreshFails(t)
    PROVE  IInv'
  <1> DEFINE W == Waiting(tab[t])
             mark(c) == [c EXCEPT !.stage = "denied"]
             told == {mark(c) : c \in W}
             C == (tab[t].calls \ W) \cup told
             s == [tab[t] EXCEPT !.refreshing = NoPair, !.calls = C]
  <1>1. /\ Set(t, s) /\ tab[t].refreshing # NoPair
        /\ UNCHANGED <<app, storage, server, made, loads, last>>
    BY DEF RefreshFails
  <1>2. tab[t].calls \subseteq Call /\ W \subseteq Call
    BY TabFacts DEF Tab, Waiting
  <1>3. \A c \in Call : mark(c) \in Call /\ mark(c).id = c.id /\ mark(c).stage = "denied"
    BY DEF Call
  <1> HIDE DEF mark
  <1>4. /\ told \subseteq Call
        /\ \A d \in told : d.stage = "denied" /\ \E c \in W : d.id = c.id
    BY <1>2, <1>3
  <1>5. \A d, f \in told : d.id = f.id => d = f
    <2> SUFFICES ASSUME NEW c \in W, NEW e \in W,
                        mark(c).id = mark(e).id
                 PROVE  c = e
      OBVIOUS
    <2>1. c.id = e.id
      BY <1>2, <1>3
    <2> QED
      BY <2>1, TabFacts DEF TabSound, Waiting
  <1>6. C \subseteq Call
    BY <1>2, <1>4
  <1> HIDE DEF told
  <1>7. /\ \A d \in C : d.id <= made
        /\ \A d, f \in C : d.id = f.id => d = f
    <2>1. \A d \in C : \/ d \in tab[t].calls \ Waiting(tab[t])
                      \/ \E c \in Waiting(tab[t]) : d.id = c.id
      BY <1>4
    <2>2. \A d \in C \ (tab[t].calls \ Waiting(tab[t])) : d \in told
      OBVIOUS
    <2> HIDE DEF C, W
    <2> QED
      BY <1>5, <2>1, <2>2, CallsAfterRefresh
  <1>8. \A d \in C : d.stage # "waiting"
    BY <1>4 DEF Waiting
  <1> HIDE DEF C
  <1>9. NoPair \in PairOrNone /\ NoPair \in 0 .. Len(issued)
    BY TabFacts DEF NoPair
  <1>10. /\ s \in Tab /\ s.open = tab[t].open /\ s.token = tab[t].token /\ s.user = tab[t].user
         /\ s.loading = tab[t].loading /\ s.refreshing = NoPair
         /\ s.entries = tab[t].entries /\ s.calls = C
    BY <1>6, <1>9, TabFacts DEF Tab
  <1> HIDE DEF s
  <1>11. tab[t].open
    BY <1>1, TabFacts DEF TabSound, Blank
  <1>12. Waiting(s) = {}
    BY <1>8, <1>10 DEF Waiting
  <1>13. made' \in 0 .. MaxCalls /\ made <= made' /\ made' = made /\ made <= made
    BY <1>1, TabFacts DEF IInv, WorldInv
  <1>14. TabInv(s, Len(issued), made)
    BY <1>7, <1>9, <1>10, <1>11, <1>12, <1>13, TabFacts, CallsStep
  <1> QED
    BY <1>1, <1>10, <1>13, <1>14, TaskStep

\* It succeeds: the new pair is that of the user of localStorage, if the sign-ins
\* and sign-outs since have been quiet.
LEMMA RefreshOkStep ==
    ASSUME IInv, NEW t \in Tabs, RefreshOk(t)
    PROVE  IInv'
  <1> DEFINE u == Owner(tab[t].refreshing)
             W == Waiting(tab[t])
             again(c) == [c EXCEPT !.token = Newest, !.live = TRUE, !.first = FALSE,
                                   !.stage = "sent"]
             resent == {again(c) : c \in W}
             C == (tab[t].calls \ W) \cup resent
             s == [tab[t] EXCEPT !.token = Newest, !.refreshing = NoPair, !.calls = C]
  <1>1. /\ tab[t].refreshing # NoPair /\ Issue(u) /\ Stored(u) /\ Set(t, s)
        /\ UNCHANGED <<app, made, loads, last>>
    BY DEF RefreshOk
  <1>2. tab[t].refreshing \in 1 .. Len(issued) /\ u \in Users
    <2>1. tab[t].refreshing \in 1 .. Len(issued)
      BY <1>1, TabFacts, SessionAssumption DEF TabSound, Tab, PairOrNone, NoPair
    <2> QED
      BY <2>1 DEF Owner, IInv, WorldInv
  <1>3. /\ Grows /\ Newest = Len(issued') /\ issued'[Newest] = u /\ Newest \in Pairs
        /\ Newest \in PairOrNone /\ Newest # NoPair
    BY <1>1, <1>2, IssueGrows, SessionAssumption DEF Pairs, PairOrNone, NoPair
  <1>4. tab[t].calls \subseteq Call /\ W \subseteq Call
    BY TabFacts DEF Tab, Waiting
  <1>5. \A c \in Call : again(c) \in Call /\ again(c).id = c.id /\ again(c).stage = "sent"
    BY <1>3 DEF Call
  <1> HIDE DEF again
  <1>6. /\ resent \subseteq Call
        /\ \A d \in resent : d.stage = "sent" /\ \E c \in W : d.id = c.id
    BY <1>4, <1>5
  <1>7. \A d, f \in resent : d.id = f.id => d = f
    <2> SUFFICES ASSUME NEW c \in W, NEW e \in W, again(c).id = again(e).id
                 PROVE  c = e
      OBVIOUS
    <2>1. c.id = e.id
      BY <1>4, <1>5
    <2> QED
      BY <2>1, TabFacts DEF TabSound, Waiting
  <1>8. C \subseteq Call
    BY <1>4, <1>6
  <1> HIDE DEF resent
  <1>9. /\ \A d \in C : d.id <= made
        /\ \A d, f \in C : d.id = f.id => d = f
    <2>1. \A d \in C : \/ d \in tab[t].calls \ Waiting(tab[t])
                      \/ \E c \in Waiting(tab[t]) : d.id = c.id
      BY <1>6
    <2>2. \A d \in C \ (tab[t].calls \ Waiting(tab[t])) : d \in resent
      OBVIOUS
    <2> HIDE DEF C, W
    <2> QED
      BY <1>7, <2>1, <2>2, CallsAfterRefresh
  <1>10. \A d \in C : d.stage # "waiting"
    BY <1>6 DEF Waiting
  <1> HIDE DEF C
  <1>11. NoPair \in PairOrNone
    BY TabFacts DEF NoPair
  <1>12. /\ s \in Tab /\ s.open = tab[t].open /\ s.token = Newest /\ s.user = tab[t].user
         /\ s.loading = tab[t].loading /\ s.refreshing = NoPair
         /\ s.entries = tab[t].entries /\ s.calls = C
    BY <1>3, <1>8, <1>11, TabFacts DEF Tab
  <1> HIDE DEF s
  <1>13. TabInv(s, Len(issued'), made)
    <2>1. tab[t].open
      BY <1>1, TabFacts DEF TabSound, Blank
    <2>2. TabSound(tab[t], Len(issued'), made) /\ (tab[t].loading => tab[t].entries # {})
      BY <1>3, TabFacts, TabGrows DEF Grows, IInv, TabInv
    <2>3. s.token <= Len(issued') /\ s.refreshing <= Len(issued')
      BY <1>3, <1>12, TabFacts DEF Grows, NoPair
    <2>4. Waiting(s) = {}
      BY <1>10, <1>12 DEF Waiting
    <2> QED
      BY <1>3, <1>9, <1>12, <2>1, <2>2, <2>3, <2>4 DEF TabInv, TabSound
  <1>14. made' \in 0 .. MaxCalls /\ loads' \in 0 .. MaxLoads /\ made' = made /\ made <= made
         /\ last' \in {"in", "out", "crossed"}
    BY <1>1, TabFacts DEF IInv, WorldInv
  <1>15. /\ tab' \in [Tabs -> Tab]
         /\ tab'[t] = s /\ \A v \in Tabs \ {t} : tab'[v] = tab[v]
         /\ \A v \in Tabs : TabInv(tab'[v], Len(issued'), made')
    BY <1>1, <1>3, <1>13, <1>14, TabStep
  <1>16. WorldInv'
    BY <1>1, <1>3, <1>14, WorldStep
  <1>17. /\ storage' = [access |-> Newest, refresh |-> Newest, user |-> u]
         /\ StoreInv(storage', issued')
    <2>1. storage' = [access |-> Newest, refresh |-> Newest, user |-> u]
      BY <1>1 DEF Stored
    <2>2. Newest \in 1 .. Len(issued')
      BY <1>3 DEF Pairs, Grows
    <2>3. storage' \in Storage
      BY <1>2, <1>3, <2>1 DEF Storage
    <2> QED
      BY <1>2, <1>3, <2>1, <2>2, <2>3 DEF StoreInv
  <1>18. ASSUME last # "crossed" PROVE storage.user = u
    BY <1>1, <1>18 DEF IInv, Agrees, Owner
  <1>19. ASSUME last' # "crossed", NEW v \in Tabs PROVE Agrees(tab'[v], issued', storage')
    <2>1. storage.user = u /\ Agrees(tab[v], issued, storage)
      BY <1>1, <1>18, <1>19 DEF IInv
    <2>2. storage'.user = u
      BY <1>17
    <2>3. CASE v = t
      BY <1>3, <1>12, <1>15, <2>1, <2>2, <2>3 DEF Agrees
    <2>4. CASE v # t
      <3>1. tab'[v] = tab[v]
        BY <1>15, <2>4
      <3>2. tab[v].user # NoUser => tab[v].token \in 1 .. Len(issued)
        BY TabFacts, SessionAssumption DEF TabSound, Tab, PairOrNone, NoPair
      <3>3. tab[v].refreshing # NoPair => tab[v].refreshing \in 1 .. Len(issued)
        BY TabFacts, SessionAssumption DEF TabSound, Tab, PairOrNone, NoPair
      <3> QED
        BY <1>3, <2>1, <2>2, <3>1, <3>2, <3>3 DEF Agrees, Grows
    <2> QED
      BY <2>3, <2>4
  <1>20. SignedOutClean'
    <2>1. last # "out"
      <3> SUFFICES ASSUME last = "out" PROVE FALSE
        OBVIOUS
      <3>1. storage.user = u /\ storage = Empty
        BY <1>18 DEF IInv, SignedOutClean
      <3> QED
        BY <1>2, <3>1, SessionAssumption DEF Empty
    <2> QED
      BY <1>1, <2>1 DEF SignedOutClean
  <1> QED
    BY <1>15, <1>16, <1>17, <1>19, <1>20 DEF IInv

\* A token expires: nobody here takes notice.
LEMMA ExpireStep ==
    ASSUME IInv, NEW pair \in 1 .. Len(issued), Expire(pair)
    PROVE  IInv'
  <1>1. UNCHANGED <<app, tab, storage, issued, made, loads, last>>
        /\ expired' \subseteq 1 .. Len(issued)
    BY DEF Expire, IInv, WorldInv
  <1> QED
    BY <1>1 DEF IInv, WorldInv, SignedOutClean

\* No step breaks IInv.
LEMMA StepInv == IInv /\ [Next]_vars => IInv'
  <1> SUFFICES ASSUME IInv, [Next]_vars PROVE IInv'
    OBVIOUS
  <1>1. CASE UNCHANGED vars
    BY <1>1 DEF vars, server, IInv, WorldInv, SignedOutClean
  <1>2. ASSUME NEW t \in Tabs, Load(t) \/ Logout(t) \/ StartCall(t) PROVE IInv'
    BY <1>2, LoadStep, LogoutStep, StartStep
  <1>3. ASSUME NEW t \in Tabs, NEW u \in Users, SubmitLogin(t, u) PROVE IInv'
    BY <1>3, SubmitStep
  <1>4. ASSUME NEW t \in Tabs, Enter(t) PROVE IInv'
    BY <1>4, LoginOkStep, LoginFailsStep, RestoreOkStep, RestoreFailsStep DEF Enter
  <1>5. ASSUME NEW t \in Tabs, Proceed(t) PROVE IInv'
    BY <1>5, AnswerOkStep, UnauthorizedStep, DenyStep, RefreshOkStep, RefreshFailsStep DEF Proceed
  <1>6. ASSUME NEW pair \in 1 .. Len(issued), Expire(pair) PROVE IInv'
    BY <1>6, ExpireStep
  <1> QED
    BY <1>1, <1>2, <1>3, <1>4, <1>5, <1>6 DEF Next

-----------------------------------------------------------------------------
(* The theorems *)

\* The invariant holds in every reachable state.
THEOREM Invariance == Spec => []IInv
  BY InitInv, StepInv, PTL DEF Spec

\* The types: every tab, localStorage and the server's pairs are what they are
\* declared to be, and calls in flight are told apart by their numbers.
THEOREM TypeCorrect == Spec => []TypeOK
  BY Invariance, InvTypes, PTL

\* Sign-ins and sign-outs made in quiet are whole: memory and localStorage agree on
\* the user through any refreshes, expiries, reloads and failures of any tabs, and
\* after a sign-out none of them has anything of the session.
THEOREM SessionsWhole == Spec => []SessionWhole
  BY Invariance, InvWhole, PTL

\* Nobody waits in vain: behind every call that waits there is a refresh in flight,
\* and behind every disabled sign-in form a sign-in.
THEOREM NobodyWaitsInVain == Spec => []WaitsHaveCause
  BY Invariance, InvWaits, PTL

-----------------------------------------------------------------------------
(* The profile page *)

\* A handler belongs to the page that is open or to none; a page that is not open keeps
\* nothing.
ProfileTyped ==
    /\ P!TypeOK
    /\ \A t \in handlers : t.n <= started /\ (t.here => page.open)
    /\ ~page.open => page = P!Closed

\* What was not offered, or not answered, was not done; a success was, once.
DoneOnce(t) ==
    /\ t.done \in {0, 1}
    /\ t.answer \in {"none", "absent"} \/ t.kind = "meta" => t.done = 0
    /\ t.answer \in {"ok", "void"} /\ t.kind # "meta" => t.done = 1

\* Where nothing failed, the paths tried so far have no documents.
LookedUp(t) ==
    t.kind = "meta" /\ mishaps = 0 =>
        /\ t.answer \notin {"error", "void"}
        /\ \A p \in docs : p >= t.path /\ (t.answer = "absent" => p # t.path)

\* Saves that do not cross: one at a time, the name of one that was answered is on the
\* server, unless the account is gone, and what was shown as saved is nobody's to save.
SavesInOrder ==
    ~crossed =>
        /\ \A s, t \in handlers : s.kind = "save" /\ t.kind = "save" => s = t
        /\ \A t \in handlers : t.kind = "save" /\ t.answer = "ok" =>
             t.token # 0 /\ names[t.token] \in {t.value, 0}
        /\ page.profile = "success" =>
             /\ \A t \in handlers : t.kind # "save"
             /\ user # P!NoneSigned
             /\ user.id = session => user.name = names[user.id] \/ names[user.id] = 0

PageTrue ==
    /\ page.profile = "success" \/ page.password = "success" => page.done = 1
    /\ page.meta = "fallback" => docs = {} \/ mishaps > 0

ProfileInv ==
    /\ ProfileTyped /\ PageTrue /\ SavesInOrder
    /\ \A t \in handlers : DoneOnce(t) /\ LookedUp(t)

LEMMA ProfileNumbers ==
    /\ Ids \subseteq Nat \ {0} /\ MaxHandlers \in Nat /\ MaxMishaps \in Nat
    /\ P!Nobody = 0 /\ P!Gone = 0 /\ P!Paths = 1 .. 4
    /\ P!Kinds = {"meta", "save", "password", "reset", "delete"}
    /\ P!Told = {"none", "success", "error"}
  BY ProfileConstants DEF P!ProfileAssumption, P!Nobody, P!Gone, P!Paths, P!Kinds, P!Told

LEMMA ProfileTells == ProfileInv => P!ToldIsDone
  BY ProfileNumbers DEF ProfileInv, PageTrue, SavesInOrder, DoneOnce, P!ToldIsDone

LEMMA HandlerFields ==
    ASSUME NEW t \in P!Task
    PROVE  /\ t.n \in 1 .. MaxHandlers /\ t.kind \in P!Kinds /\ t.value \in Ids \cup {0}
           /\ t.path \in 1 .. 4 /\ t.here \in BOOLEAN /\ t.token \in Ids \cup {0}
           /\ t.done \in 0 .. 2
           /\ t.answer \in {"none", "ok", "void", "absent", "denied", "error"}
  BY ProfileNumbers DEF P!Task

LEMMA PageFields ==
    ASSUME NEW p \in P!Page
    PROVE  /\ p.open \in BOOLEAN /\ p.profile \in P!Told /\ p.password \in P!Told
           /\ p.account \in P!Told /\ p.saving \in BOOLEAN /\ p.changing \in BOOLEAN
           /\ p.running \in BOOLEAN /\ p.meta \in {"loading", "found", "fallback", "failed"}
           /\ p.done \in 0 .. 2
  BY DEF P!Page

LEMMA ClosedType ==
    /\ P!Closed \in P!Page /\ P!Closed.open = FALSE /\ P!Closed.profile = "none"
    /\ P!Closed.password = "none" /\ P!Closed.meta = "loading"
  BY ProfileNumbers DEF P!Closed, P!Page

\* A handler with another answer, also one that has done more; one at the next path; and
\* one whose page is left.
Says(t, a) == [t EXCEPT !.answer = a]

LEMMA HandlerAnswers ==
    ASSUME NEW t \in P!Task, NEW a \in {"none", "ok", "void", "absent", "denied", "error"}
    PROVE  /\ Says(t, a) \in P!Task /\ Says(t, a).n = t.n /\ Says(t, a).kind = t.kind
           /\ Says(t, a).value = t.value /\ Says(t, a).path = t.path
           /\ Says(t, a).here = t.here /\ Says(t, a).token = t.token
           /\ Says(t, a).done = t.done /\ Says(t, a).answer = a
  BY DEF P!Task, Says

Left(t) == [t EXCEPT !.here = FALSE]

LEMMA HandlerLeft ==
    ASSUME NEW t \in P!Task
    PROVE  /\ Left(t) \in P!Task /\ Left(t).n = t.n /\ Left(t).kind = t.kind
           /\ Left(t).value = t.value /\ Left(t).path = t.path /\ Left(t).here = FALSE
           /\ Left(t).token = t.token /\ Left(t).done = t.done /\ Left(t).answer = t.answer
  BY DEF P!Task, Left

LEMMA HandlerDone ==
    ASSUME NEW t \in P!Task, NEW a \in {"ok", "void", "error"}, t.done = 0
    PROVE  LET m == [t EXCEPT !.answer = a, !.done = @ + 1] IN
             /\ m \in P!Task /\ m.n = t.n /\ m.kind = t.kind /\ m.value = t.value
             /\ m.path = t.path /\ m.here = t.here /\ m.token = t.token
             /\ m.done = 1 /\ m.answer = a
  <1> DEFINE b == Says(t, a)
             m == [b EXCEPT !.done = 1]
  <1>1. /\ b \in P!Task /\ b.n = t.n /\ b.kind = t.kind /\ b.value = t.value
        /\ b.path = t.path /\ b.here = t.here /\ b.token = t.token /\ b.answer = a
    BY HandlerAnswers
  <1>2. m = [t EXCEPT !.answer = a, !.done = @ + 1]
    BY DEF P!Task, Says
  <1> HIDE DEF b
  <1>3. /\ m \in P!Task /\ m.n = t.n /\ m.kind = t.kind /\ m.value = t.value
        /\ m.path = t.path /\ m.here = t.here /\ m.token = t.token
        /\ m.done = 1 /\ m.answer = a
    BY <1>1 DEF P!Task
  <1> QED
    BY <1>2, <1>3

LEMMA HandlerNext ==
    ASSUME NEW t \in P!Task, t.path < 4, NEW s \in Ids \cup {0}
    PROVE  LET m == [t EXCEPT !.path = @ + 1, !.answer = "none", !.token = s] IN
             /\ m \in P!Task /\ m.n = t.n /\ m.kind = t.kind /\ m.value = t.value
             /\ m.path = t.path + 1 /\ m.here = t.here /\ m.done = t.done /\ m.answer = "none"
  <1> DEFINE b == Says(t, "none")
             c == [b EXCEPT !.token = s]
             m == [c EXCEPT !.path = t.path + 1]
  <1>1. /\ b \in P!Task /\ b.n = t.n /\ b.kind = t.kind /\ b.value = t.value
        /\ b.path = t.path /\ b.here = t.here /\ b.done = t.done /\ b.answer = "none"
    BY HandlerAnswers
  <1>2. m = [t EXCEPT !.path = @ + 1, !.answer = "none", !.token = s]
    BY DEF P!Task, Says
  <1> HIDE DEF b
  <1>3. /\ c \in P!Task /\ c.n = t.n /\ c.kind = t.kind /\ c.value = t.value
        /\ c.path = t.path /\ c.here = t.here /\ c.done = t.done /\ c.answer = "none"
    BY <1>1, ProfileNumbers DEF P!Task
  <1> HIDE DEF c
  <1>4. t.path + 1 \in P!Paths
    BY ProfileNumbers DEF P!Task
  <1>5. /\ m \in P!Task /\ m.n = t.n /\ m.kind = t.kind /\ m.value = t.value
        /\ m.path = t.path + 1 /\ m.here = t.here /\ m.done = t.done /\ m.answer = "none"
    BY <1>3, <1>4 DEF P!Task
  <1> QED
    BY <1>2, <1>5

LEMMA ProfileStart == P!Init => ProfileInv
  <1> SUFFICES ASSUME P!Init PROVE ProfileInv
    OBVIOUS
  <1> DEFINE a == [P!Closed EXCEPT !.open = TRUE]
             said == IF docs = {} THEN "fallback" ELSE "found"
  <1>1. a \in P!Page /\ a.open = TRUE /\ a.profile = "none" /\ a.password = "none"
    BY ClosedType DEF P!Page
  <1>2. page = [a EXCEPT !.meta = said]
    BY ClosedType DEF P!Init, P!Page
  <1> HIDE DEF a
  <1>3. /\ page \in P!Page /\ page.open = TRUE /\ page.profile = "none" /\ page.password = "none"
        /\ page.meta = said
    BY <1>1, <1>2 DEF P!Page
  <1>4. /\ names = [i \in Ids |-> i] /\ session \in Ids /\ user = P!Signed(session)
        /\ prefs = "chosen" /\ handlers = {} /\ started = 0 /\ mishaps = 0 /\ crossed = FALSE
        /\ offers \subseteq 1 .. 4 /\ docs \subseteq 1 .. 4
    BY DEF P!Init
  <1>5. P!TypeOK
    <2>1. names \in [Ids -> Ids \cup {0}] /\ user \in P!User
      BY <1>4, ProfileNumbers DEF P!Signed, P!User
    <2>2. crossed \in BOOLEAN
      BY <1>4, Zenon
    <2> QED
      BY <1>3, <1>4, <2>1, <2>2, ProfileNumbers DEF P!TypeOK
  <1>6. ProfileTyped /\ PageTrue /\ SavesInOrder
    BY <1>3, <1>4, <1>5 DEF ProfileTyped, PageTrue, SavesInOrder
  <1> QED
    BY <1>4, <1>6 DEF ProfileInv

\* A handler goes on: its answer comes, or it tries the next path.
LEMMA HandlerGoesOn ==
    ASSUME ProfileInv, NEW t \in handlers, NEW m \in P!Task, handlers' = (handlers \ {t}) \cup {m},
           m.n = t.n, m.kind = t.kind, m.value = t.value, m.here = t.here,
           DoneOnce(m), LookedUp(m)',
           UNCHANGED <<offers, docs, session, user, page, prefs, started, crossed>>,
           mishaps' \in 0 .. MaxMishaps, mishaps' >= mishaps,
           names' \in [Ids -> Ids \cup {0}],
           t.kind # "save" => \A i \in Ids : names'[i] \in {names[i], 0},
           m.kind = "save" /\ m.answer = "ok" => m.token # 0 /\ names'[m.token] \in {m.value, 0}
    PROVE  ProfileInv'
  <1>1. ProfileTyped /\ P!TypeOK /\ PageTrue /\ SavesInOrder
    BY DEF ProfileInv, ProfileTyped
  <1>2. mishaps \in Nat /\ mishaps' \in Nat
    BY <1>1, ProfileNumbers DEF P!TypeOK
  <1>3. P!TypeOK'
    BY <1>1, ProfileNumbers DEF P!TypeOK
  <1>4. ProfileTyped'
    BY <1>1, <1>3 DEF ProfileTyped, P!Closed
  <1>5. PageTrue'
    BY <1>1, <1>2 DEF PageTrue
  <1>6. ASSUME NEW s \in handlers' PROVE DoneOnce(s)' /\ LookedUp(s)'
    <2>1. CASE s = m
      BY <2>1 DEF DoneOnce
    <2>2. CASE s \in handlers
      BY <1>2, <2>2 DEF ProfileInv, DoneOnce, LookedUp
    <2> QED
      BY <2>1, <2>2
  <1>7. SavesInOrder'
    <2> SUFFICES ASSUME ~crossed PROVE SavesInOrder'
      BY DEF SavesInOrder
    <2>1. /\ \A s, u \in handlers : s.kind = "save" /\ u.kind = "save" => s = u
          /\ \A s \in handlers : s.kind = "save" /\ s.answer = "ok" =>
               s.token # 0 /\ names[s.token] \in {s.value, 0}
          /\ page.profile = "success" =>
               /\ \A s \in handlers : s.kind # "save"
               /\ user # P!NoneSigned
               /\ user.id = session => user.name = names[user.id] \/ names[user.id] = 0
      BY <1>1 DEF SavesInOrder
    <2>2. \A s, u \in handlers' : s.kind = "save" /\ u.kind = "save" => s = u
      BY <2>1
    <2>3. ASSUME NEW s \in handlers', s.kind = "save", s.answer = "ok"
          PROVE  s.token # 0 /\ names'[s.token] \in {s.value, 0}
      <3>1. CASE s = m
        BY <2>3, <3>1
      <3>2. CASE s # m
        <4>1. s \in handlers /\ s # t /\ t.kind # "save"
          BY <2>1, <2>3, <3>2
        <4>2. s.token \in Ids
          BY <1>1, <2>1, <2>3, <4>1, HandlerFields DEF P!TypeOK
        <4> QED
          BY <2>1, <2>3, <4>1, <4>2
      <3> QED
        BY <3>1, <3>2
    <2>4. ASSUME page.profile = "success"
          PROVE  /\ \A s \in handlers' : s.kind # "save"
                 /\ user # P!NoneSigned
                 /\ user.id = session => user.name = names'[user.id] \/ names'[user.id] = 0
      <3>1. page.open
        BY <1>1, <2>4, ClosedType DEF ProfileTyped
      <3>2. session \in Ids
        BY <1>1, <3>1, ProfileNumbers DEF P!TypeOK
      <3> QED
        BY <2>1, <2>4, <3>2
    <2> QED
      BY <2>2, <2>3, <2>4, ProfileNumbers DEF SavesInOrder, P!NoneSigned
  <1> QED
    BY <1>4, <1>5, <1>6, <1>7 DEF ProfileInv

LEMMA ProfileServes ==
    ASSUME ProfileInv, NEW t \in handlers, P!Refuse(t) \/ P!Do(t) \/ P!Look(t) \/ P!Fail(t)
    PROVE  ProfileInv'
  <1>1. P!TypeOK /\ t \in P!Task /\ DoneOnce(t) /\ LookedUp(t)
    BY DEF ProfileInv, ProfileTyped, P!TypeOK
  <1>2. /\ t.kind \in P!Kinds /\ t.token \in Ids \cup {0} /\ t.value \in Ids \cup {0} /\ t.path \in 1 .. 4
        /\ names \in [Ids -> Ids \cup {0}] /\ mishaps \in 0 .. MaxMishaps /\ mishaps >= mishaps
        /\ docs \subseteq 1 .. 4
    BY <1>1, HandlerFields, ProfileNumbers DEF P!TypeOK
  <1>3. t.answer = "none" /\ t.done = 0
    BY <1>1 DEF P!Refuse, P!Do, P!Look, P!Fail, DoneOnce
  <1>4. mishaps < MaxMishaps /\ mishaps' = mishaps + 1 =>
          mishaps' \in 0 .. MaxMishaps /\ mishaps' >= mishaps /\ mishaps' # 0
    BY <1>2, ProfileNumbers
  <1>5. UNCHANGED <<offers, docs, session, user, page, prefs, started, crossed>>
    BY DEF P!Refuse, P!Do, P!Look, P!Fail
  <1>6. ASSUME NEW a \in {"ok", "absent", "denied", "error"}, P!Put(t, [t EXCEPT !.answer = a]),
               names' = names, a = "ok" => t.kind = "meta",
               mishaps' = mishaps \/ (mishaps < MaxMishaps /\ mishaps' = mishaps + 1),
               t.kind = "meta" /\ mishaps' = 0 =>
                 a # "error" /\ (a = "absent" => t.path \notin docs)
        PROVE  ProfileInv'
    <2> DEFINE m == Says(t, a)
    <2>1. /\ m \in P!Task /\ m.n = t.n /\ m.kind = t.kind /\ m.value = t.value
          /\ m.path = t.path /\ m.here = t.here /\ m.token = t.token
          /\ m.done = t.done /\ m.answer = a
      BY <1>1, HandlerAnswers
    <2>2. handlers' = (handlers \ {t}) \cup {m}
      BY <1>6 DEF P!Put, Says
    <2> HIDE DEF m
    <2>3. DoneOnce(m)
      BY <1>3, <1>6, <2>1 DEF DoneOnce
    <2>4. mishaps' = 0 => mishaps = 0
      BY <1>2, <1>6, ProfileNumbers
    <2>5. LookedUp(m)'
      BY <1>1, <1>2, <1>3, <1>5, <1>6, <2>1, <2>4 DEF LookedUp
    <2>6. mishaps' \in 0 .. MaxMishaps /\ mishaps' >= mishaps
      BY <1>2, <1>4, <1>6
    <2>7. names' \in [Ids -> Ids \cup {0}] /\ \A i \in Ids : names'[i] \in {names[i], 0}
      BY <1>2, <1>6
    <2>8. ~(m.kind = "save" /\ m.answer = "ok")
      BY <1>6, <2>1
    <2> QED
      BY <1>5, <2>1, <2>2, <2>3, <2>5, <2>6, <2>7, <2>8, HandlerGoesOn
  <1>7. CASE P!Refuse(t)
    BY <1>2, <1>6, <1>7 DEF P!Refuse
  <1>8. CASE P!Look(t)
    BY <1>2, <1>4, <1>6, <1>8 DEF P!Look
  <1>9. CASE P!Fail(t)
    BY <1>4, <1>6, <1>9 DEF P!Fail
  <1>10. CASE P!Do(t)
    <2>1. /\ t.kind # "meta" /\ ~P!Barred(t)
          /\ names' = CASE t.kind = "save" -> [names EXCEPT ![t.token] = t.value]
                        [] t.kind = "delete" -> [names EXCEPT ![t.token] = 0]
                        [] OTHER -> names
      BY <1>10, ProfileNumbers DEF P!Do
    <2>2. PICK a \in {"ok", "void", "error"} :
            /\ P!Put(t, [t EXCEPT !.answer = a, !.done = @ + 1])
            /\ mishaps' = mishaps \/ (mishaps < MaxMishaps /\ mishaps' = mishaps + 1)
      BY <1>10 DEF P!Do
    <2> DEFINE m == [t EXCEPT !.answer = a, !.done = @ + 1]
    <2>3. /\ m \in P!Task /\ m.n = t.n /\ m.kind = t.kind /\ m.value = t.value
          /\ m.path = t.path /\ m.here = t.here /\ m.token = t.token
          /\ m.done = 1 /\ m.answer = a
      BY <1>1, <1>3, HandlerDone
    <2>4. handlers' = (handlers \ {t}) \cup {m}
      BY <2>2 DEF P!Put
    <2> HIDE DEF m
    <2>5. t.token \in Ids
      BY <1>2, <2>1, ProfileNumbers DEF P!Barred
    <2>6. names' \in [Ids -> Ids \cup {0}]
      BY <1>2, <2>1, <2>5
    <2>7. t.kind # "save" => \A i \in Ids : names'[i] \in {names[i], 0}
      BY <1>2, <2>1, <2>5
    <2>8. m.kind = "save" /\ m.answer = "ok" => m.token # 0 /\ names'[m.token] \in {m.value, 0}
      BY <1>2, <2>1, <2>3, <2>5, ProfileNumbers
    <2>9. DoneOnce(m) /\ LookedUp(m)'
      BY <2>1, <2>3 DEF DoneOnce, LookedUp
    <2>10. mishaps' \in 0 .. MaxMishaps /\ mishaps' >= mishaps
      BY <1>2, <1>4, <2>2
    <2> QED
      BY <1>5, <2>3, <2>4, <2>6, <2>7, <2>8, <2>9, <2>10, HandlerGoesOn
  <1> QED
    BY <1>7, <1>8, <1>9, <1>10

LEMMA ProfileTriesNext ==
    ASSUME ProfileInv, NEW t \in handlers, P!TryNext(t)
    PROVE  ProfileInv'
  <1>1. P!TypeOK /\ t \in P!Task /\ DoneOnce(t) /\ LookedUp(t)
    BY DEF ProfileInv, ProfileTyped, P!TypeOK
  <1>2. /\ t.answer # "none" /\ P!GoesOn(t)
        /\ UNCHANGED <<offers, docs, session, user, page, prefs, started, crossed, names, mishaps>>
    BY DEF P!TryNext
  <1>3. t.kind \in P!Kinds /\ t.path \in 1 .. 4
    BY <1>1, HandlerFields
  <1>4. t.path < 4
    BY <1>2, <1>3 DEF P!GoesOn, P!Candidates
  <1>5. t.done = 0
    BY <1>1, <1>2 DEF P!GoesOn, DoneOnce
  <1>0. PICK m : m = [t EXCEPT !.path = @ + 1, !.answer = "none", !.token = session]
    OBVIOUS
  <1>6. /\ m \in P!Task /\ m.n = t.n /\ m.kind = t.kind /\ m.value = t.value
        /\ m.path = t.path + 1 /\ m.here = t.here /\ m.done = t.done /\ m.answer = "none"
    BY <1>0, <1>1, <1>4, HandlerNext, ProfileNumbers DEF P!TypeOK
  <1>7. handlers' = (handlers \ {t}) \cup {m}
    BY <1>0 DEF P!TryNext, P!Put
  <1>8. DoneOnce(m)
    BY <1>5, <1>6 DEF DoneOnce
  <1>9. LookedUp(m)'
    <2>1. ASSUME t.kind = "meta", mishaps = 0, NEW p \in docs PROVE p >= m.path
      <3>1. p \in 1 .. 4
        BY <1>1, <2>1, ProfileNumbers DEF P!TypeOK
      <3>2. p >= t.path /\ p # t.path
        BY <1>1, <1>2, <2>1 DEF LookedUp, P!GoesOn
      <3> QED
        BY <1>3, <1>6, <3>1, <3>2
    <2> QED
      BY <1>2, <1>6, <2>1 DEF LookedUp
  <1>10. /\ names' \in [Ids -> Ids \cup {0}] /\ \A i \in Ids : names'[i] \in {names[i], 0}
         /\ mishaps' \in 0 .. MaxMishaps /\ mishaps' >= mishaps
    BY <1>1, <1>2, ProfileNumbers DEF P!TypeOK
  <1>11. ~(m.kind = "save" /\ m.answer = "ok")
    BY <1>6
  <1> QED
    BY <1>2, <1>6, <1>7, <1>8, <1>9, <1>10, <1>11, HandlerGoesOn

\* A handler has ended, and tells its page if that is the one that began it.
LEMMA HandlerEnds ==
    ASSUME ProfileInv, NEW t \in handlers, handlers' = handlers \ {t},
           UNCHANGED <<offers, docs, names, session, started, crossed>>,
           page' \in P!Page, page'.open = page.open, ~page.open => page' = page,
           user' \in P!User, prefs' \in {"default", "chosen"},
           mishaps' \in 0 .. MaxMishaps, mishaps' >= mishaps,
           PageTrue',
           ~crossed /\ page'.profile = "success" =>
               /\ \A s \in handlers' : s.kind # "save"
               /\ user' # P!NoneSigned
               /\ user'.id = session => user'.name = names[user'.id] \/ names[user'.id] = 0
    PROVE  ProfileInv'
  <1>1. ProfileTyped /\ P!TypeOK /\ SavesInOrder
    BY DEF ProfileInv, ProfileTyped
  <1>2. mishaps \in Nat /\ mishaps' \in Nat
    BY <1>1, ProfileNumbers DEF P!TypeOK
  <1>3. P!TypeOK'
    BY <1>1, ProfileNumbers DEF P!TypeOK
  <1>4. ProfileTyped'
    BY <1>1, <1>3 DEF ProfileTyped, P!Closed
  <1>5. \A s \in handlers' : DoneOnce(s)' /\ LookedUp(s)'
    BY <1>2 DEF ProfileInv, DoneOnce, LookedUp
  <1>6. SavesInOrder'
    BY <1>1, ProfileNumbers DEF SavesInOrder, P!NoneSigned
  <1> QED
    BY <1>4, <1>5, <1>6 DEF ProfileInv

\* What an end may say: of the page that has begun it.
LEMMA ToldToPage ==
    ASSUME ProfileInv, NEW t \in handlers, NEW p \in P!Page, p.open = page.open, P!Shown(t, p)
    PROVE  /\ page' \in P!Page /\ page'.open = page.open /\ (~page.open => page' = page)
           /\ page' \in {p, page}
  BY DEF ProfileInv, ProfileTyped, P!TypeOK, P!Shown

LEMMA PageShuts ==
    ASSUME ProfileInv, NEW S \in SUBSET handlers, handlers' = {Left(u) : u \in S},
           page' = P!Closed, session' \in Ids \cup {0}, user' \in P!User,
           prefs' \in {"default", "chosen"},
           UNCHANGED <<offers, docs, names, started, mishaps, crossed>>
    PROVE  ProfileInv'
  <1>1. ProfileTyped /\ P!TypeOK /\ SavesInOrder /\ handlers \subseteq P!Task
    BY DEF ProfileInv, ProfileTyped, P!TypeOK
  <1>2. ASSUME NEW s \in handlers'
        PROVE  \E u \in S : /\ s = Left(u) /\ s \in P!Task /\ s.n = u.n /\ s.kind = u.kind
                            /\ s.value = u.value /\ s.path = u.path /\ s.here = FALSE
                            /\ s.token = u.token /\ s.done = u.done /\ s.answer = u.answer
    <2>1. PICK u \in S : s = Left(u)
      OBVIOUS
    <2> QED
      BY <1>1, <2>1, HandlerLeft
  <1>3. \A s, u \in handlers' : s.n = u.n => s = u
    <2> SUFFICES ASSUME NEW s \in handlers', NEW u \in handlers', s.n = u.n PROVE s = u
      OBVIOUS
    <2>1. PICK v \in S : s = Left(v) /\ s.n = v.n
      BY <1>2
    <2>2. PICK w \in S : u = Left(w) /\ u.n = w.n
      BY <1>2
    <2>3. v = w
      BY <1>1, <2>1, <2>2 DEF P!TypeOK
    <2> QED
      BY <2>1, <2>2, <2>3
  <1>4. handlers' \subseteq P!Task
    BY <1>2
  <1>5. P!TypeOK'
    <2>1. /\ offers' \subseteq P!Paths /\ docs' \subseteq P!Paths
          /\ names' \in [Ids -> Ids \cup {P!Gone}]
          /\ session' \in Ids \cup {P!Nobody} /\ user' \in P!User
          /\ page' \in P!Page /\ ~page'.open
          /\ prefs' \in {"default", "chosen"}
      BY <1>1, ClosedType, ProfileNumbers DEF P!TypeOK
    <2>2. started' \in 0 .. MaxHandlers /\ mishaps' \in 0 .. MaxMishaps
      BY <1>1 DEF P!TypeOK
    <2>3. crossed' \in BOOLEAN
      BY <1>1 DEF P!TypeOK
    <2> QED
      BY <1>3, <1>4, <2>1, <2>2, <2>3, Zenon DEF P!TypeOK
  <1>6. ASSUME NEW s \in handlers' PROVE s.n <= started /\ s.here = FALSE
    <2>1. PICK u \in S : s.n = u.n /\ s.here = FALSE
      BY <1>2
    <2>2. u.n <= started
      BY <1>1 DEF ProfileTyped
    <2> QED
      BY <2>1, <2>2
  <1>7. ProfileTyped'
    BY <1>5, <1>6 DEF ProfileTyped, P!Closed
  <1>8. PageTrue'
    BY ClosedType DEF PageTrue
  <1>9. ASSUME NEW s \in handlers' PROVE DoneOnce(s)' /\ LookedUp(s)'
    <2>1. PICK u \in S : /\ s.kind = u.kind /\ s.path = u.path /\ s.done = u.done
                         /\ s.answer = u.answer
      BY <1>2
    <2>2. DoneOnce(u) /\ LookedUp(u)
      BY DEF ProfileInv
    <2> QED
      BY <2>1, <2>2 DEF DoneOnce, LookedUp
  <1>10. SavesInOrder'
    <2> SUFFICES ASSUME ~crossed PROVE SavesInOrder'
      BY DEF SavesInOrder
    <2>1. ASSUME NEW s \in handlers', NEW u \in handlers', s.kind = "save", u.kind = "save"
          PROVE  s = u
      <3>1. PICK v \in S : s = Left(v) /\ s.kind = v.kind
        BY <1>2
      <3>2. PICK w \in S : u = Left(w) /\ u.kind = w.kind
        BY <1>2
      <3>3. v = w
        BY <1>1, <2>1, <3>1, <3>2 DEF SavesInOrder
      <3> QED
        BY <3>1, <3>2, <3>3
    <2>2. ASSUME NEW s \in handlers', s.kind = "save", s.answer = "ok"
          PROVE  s.token # 0 /\ names[s.token] \in {s.value, 0}
      <3>1. PICK u \in S : /\ s.kind = u.kind /\ s.value = u.value /\ s.token = u.token
                           /\ s.answer = u.answer
        BY <1>2
      <3> QED
        BY <1>1, <2>2, <3>1 DEF SavesInOrder
    <2> QED
      BY <2>1, <2>2, ClosedType DEF SavesInOrder
  <1> QED
    BY <1>7, <1>8, <1>9, <1>10 DEF ProfileInv

\* The ends of the handlers, as they speak to the page.
LEMMA MetaEnds ==
    ASSUME ProfileInv, NEW t \in handlers, P!MetaLoaded(t)
    PROVE  ProfileInv'
  <1>1. /\ ProfileTyped /\ P!TypeOK /\ SavesInOrder /\ PageTrue /\ t \in P!Task
        /\ DoneOnce(t) /\ LookedUp(t)
    BY DEF ProfileInv, ProfileTyped, P!TypeOK
  <1>2. /\ t.kind = "meta" /\ t.answer # "none" /\ t.answer # "denied" /\ ~P!GoesOn(t)
        /\ handlers' = handlers \ {t}
        /\ UNCHANGED <<offers, docs, names, session, user, prefs, started, crossed>>
    BY DEF P!MetaLoaded, P!Ended, P!Over
  <1>3. PICK listed \in BOOLEAN :
          /\ IF listed THEN UNCHANGED mishaps ELSE mishaps < MaxMishaps /\ mishaps' = mishaps + 1
          /\ P!Shown(t, [page EXCEPT !.meta = CASE ~listed -> "failed"
                                                [] listed /\ t.answer = "ok" -> "found"
                                                [] OTHER -> "fallback"])
    BY DEF P!MetaLoaded
  <1>4. PICK said \in {"failed", "found", "fallback"} :
          /\ P!Shown(t, [page EXCEPT !.meta = said])
          /\ said = "fallback" => listed /\ t.answer # "ok"
    BY <1>3
  <1> DEFINE p == [page EXCEPT !.meta = said]
  <1>5. /\ p \in P!Page /\ p.open = page.open /\ p.profile = page.profile
        /\ p.password = page.password /\ p.done = page.done /\ p.meta = said
    BY <1>1, <1>4 DEF P!TypeOK, P!Page
  <1> HIDE DEF p
  <1>6. P!Shown(t, p)
    BY <1>4 DEF p
  <1>7. /\ page' \in P!Page /\ page'.open = page.open /\ (~page.open => page' = page)
        /\ page' \in {p, page}
    BY <1>5, <1>6, ToldToPage
  <1>8. mishaps \in 0 .. MaxMishaps /\ mishaps' \in 0 .. MaxMishaps /\ mishaps' >= mishaps
    BY <1>1, <1>3, ProfileNumbers DEF P!TypeOK
  <1>9. ASSUME said = "fallback" PROVE docs = {} \/ mishaps' > 0
    <2> SUFFICES ASSUME mishaps = 0, NEW d \in docs PROVE FALSE
      BY <1>8
    <2>1. t.answer = "absent" /\ d > t.path
      <3>1. d \in 1 .. 4 /\ t.path \in 1 .. 4
        BY <1>1, HandlerFields, ProfileNumbers DEF P!TypeOK
      <3> QED
        BY <1>1, <1>2, <1>4, <1>9, <3>1, HandlerFields DEF LookedUp
    <2>2. d \in 1 .. 4 /\ t.path \in 1 .. 4
      BY <1>1, HandlerFields, ProfileNumbers DEF P!TypeOK
    <2> QED
      BY <1>2, <2>1, <2>2 DEF P!GoesOn, P!Candidates
  <1>10. PageTrue'
    BY <1>1, <1>2, <1>5, <1>7, <1>8, <1>9 DEF PageTrue
  <1>11. page'.profile = page.profile
    BY <1>5, <1>7
  <1>12. user' \in P!User /\ prefs' \in {"default", "chosen"}
    BY <1>1, <1>2 DEF P!TypeOK
  <1>13. ~crossed /\ page'.profile = "success" =>
               /\ \A s \in handlers' : s.kind # "save"
               /\ user' # P!NoneSigned
               /\ user'.id = session => user'.name = names[user'.id] \/ names[user'.id] = 0
    BY <1>1, <1>2, <1>11 DEF SavesInOrder
  <1> QED
    BY <1>2, <1>7, <1>8, <1>10, <1>12, <1>13, HandlerEnds

LEMMA SaveEnds ==
    ASSUME ProfileInv, NEW t \in handlers, P!ProfileSaved(t)
    PROVE  ProfileInv'
  <1>1. /\ ProfileTyped /\ P!TypeOK /\ SavesInOrder /\ PageTrue /\ t \in P!Task
        /\ DoneOnce(t)
    BY DEF ProfileInv, ProfileTyped, P!TypeOK
  <1>2. /\ t.kind = "save" /\ handlers' = handlers \ {t}
        /\ UNCHANGED <<offers, docs, names, session, prefs, started, mishaps, crossed>>
    BY DEF P!ProfileSaved, P!Over
  <1>3. t.done \in 0 .. 2 /\ t.token \in Ids \cup {0} /\ t.value \in Ids \cup {0}
    BY <1>1, HandlerFields
  <1> DEFINE ok == t.answer = "ok"
  <1>4. /\ user' = IF ok THEN [id |-> t.token, name |-> t.value] ELSE user
        /\ P!Shown(t, [page EXCEPT !.saving = FALSE, !.profile = IF ok THEN "success" ELSE "error",
                                   !.done = IF ok THEN t.done ELSE @])
    BY DEF P!ProfileSaved
  <1> DEFINE a == [page EXCEPT !.saving = FALSE]
             b == [a EXCEPT !.profile = IF ok THEN "success" ELSE "error"]
             p == [b EXCEPT !.done = IF ok THEN t.done ELSE page.done]
  <1>5. /\ a \in P!Page /\ a.open = page.open /\ a.password = page.password
        /\ a.done = page.done /\ a.meta = page.meta
    BY <1>1 DEF P!TypeOK, P!Page
  <1>6. p = [page EXCEPT !.saving = FALSE, !.profile = IF ok THEN "success" ELSE "error",
                         !.done = IF ok THEN t.done ELSE @]
    BY <1>1 DEF P!TypeOK, P!Page
  <1> HIDE DEF a
  <1>7. /\ b \in P!Page /\ b.open = page.open /\ b.password = page.password
        /\ b.done = page.done /\ b.meta = page.meta
        /\ b.profile = IF ok THEN "success" ELSE "error"
    BY <1>5, ProfileNumbers DEF P!Page
  <1> HIDE DEF b
  <1>8. /\ p \in P!Page /\ p.open = page.open /\ p.password = page.password
        /\ p.done = (IF ok THEN t.done ELSE page.done) /\ p.meta = page.meta
        /\ p.profile = IF ok THEN "success" ELSE "error"
    <2>1. page.done \in 0 .. 2
      BY <1>1, PageFields DEF P!TypeOK
    <2> QED
      BY <1>3, <1>7, <2>1 DEF P!Page
  <1>9. P!Shown(t, p)
    BY <1>4, <1>6
  <1> HIDE DEF p
  <1>10. /\ page' \in P!Page /\ page'.open = page.open /\ (~page.open => page' = page)
         /\ page' \in {p, page}
    BY <1>8, <1>9, ToldToPage
  <1>11. ok => t.done = 1
    BY <1>1, <1>2 DEF DoneOnce
  <1>12. PageTrue'
    BY <1>1, <1>2, <1>8, <1>10, <1>11 DEF PageTrue
  <1>13. user' \in P!User
    BY <1>1, <1>3, <1>4, ProfileNumbers DEF P!TypeOK, P!User
  <1>14. prefs' \in {"default", "chosen"} /\ mishaps' \in 0 .. MaxMishaps /\ mishaps' >= mishaps
    BY <1>1, <1>2, ProfileNumbers DEF P!TypeOK
  <1>15. ASSUME ~crossed, page'.profile = "success"
         PROVE  /\ \A s \in handlers' : s.kind # "save"
                /\ user' # P!NoneSigned
                /\ user'.id = session => user'.name = names[user'.id] \/ names[user'.id] = 0
    <2>1. page.profile # "success"
      BY <1>1, <1>2, <1>15 DEF SavesInOrder
    <2>2. ok
      BY <1>8, <1>10, <1>15, <2>1
    <2>3. \A s \in handlers' : s.kind # "save"
      BY <1>1, <1>2, <1>15 DEF SavesInOrder
    <2>4. t.token # 0 /\ names[t.token] \in {t.value, 0}
      BY <1>1, <1>2, <1>15, <2>2 DEF SavesInOrder
    <2> QED
      BY <1>4, <2>2, <2>3, <2>4, ProfileNumbers DEF P!NoneSigned
  <1> QED
    BY <1>2, <1>10, <1>12, <1>13, <1>14, <1>15, HandlerEnds

LEMMA PasswordEnds ==
    ASSUME ProfileInv, NEW t \in handlers, P!PasswordChanged(t)
    PROVE  ProfileInv'
  <1>1. /\ ProfileTyped /\ P!TypeOK /\ SavesInOrder /\ PageTrue /\ t \in P!Task
        /\ DoneOnce(t)
    BY DEF ProfileInv, ProfileTyped, P!TypeOK
  <1>2. /\ t.kind = "password" /\ handlers' = handlers \ {t}
        /\ UNCHANGED <<offers, docs, names, session, user, prefs, started, mishaps, crossed>>
    BY DEF P!PasswordChanged, P!Over
  <1>3. t.done \in 0 .. 2
    BY <1>1, HandlerFields
  <1> DEFINE ok == t.answer \in {"ok", "void"}
  <1>4. P!Shown(t, [page EXCEPT !.changing = FALSE, !.password = IF ok THEN "success" ELSE "error",
                                !.done = IF ok THEN t.done ELSE @])
    BY DEF P!PasswordChanged
  <1> DEFINE a == [page EXCEPT !.changing = FALSE]
             b == [a EXCEPT !.password = IF ok THEN "success" ELSE "error"]
             p == [b EXCEPT !.done = IF ok THEN t.done ELSE page.done]
  <1>5. /\ a \in P!Page /\ a.open = page.open /\ a.profile = page.profile
        /\ a.done = page.done /\ a.meta = page.meta
    BY <1>1 DEF P!TypeOK, P!Page
  <1>6. p = [page EXCEPT !.changing = FALSE, !.password = IF ok THEN "success" ELSE "error",
                         !.done = IF ok THEN t.done ELSE @]
    BY <1>1 DEF P!TypeOK, P!Page
  <1> HIDE DEF a
  <1>7. /\ b \in P!Page /\ b.open = page.open /\ b.profile = page.profile
        /\ b.done = page.done /\ b.meta = page.meta
        /\ b.password = IF ok THEN "success" ELSE "error"
    BY <1>5, ProfileNumbers DEF P!Page
  <1> HIDE DEF b
  <1>8. /\ p \in P!Page /\ p.open = page.open /\ p.profile = page.profile
        /\ p.done = (IF ok THEN t.done ELSE page.done) /\ p.meta = page.meta
        /\ p.password = IF ok THEN "success" ELSE "error"
    <2>1. page.done \in 0 .. 2
      BY <1>1, PageFields DEF P!TypeOK
    <2> QED
      BY <1>3, <1>7, <2>1 DEF P!Page
  <1>9. P!Shown(t, p)
    BY <1>4, <1>6
  <1> HIDE DEF p
  <1>10. /\ page' \in P!Page /\ page'.open = page.open /\ (~page.open => page' = page)
         /\ page' \in {p, page}
    BY <1>8, <1>9, ToldToPage
  <1>11. ok => t.done = 1
    BY <1>1, <1>2 DEF DoneOnce
  <1>12. PageTrue'
    BY <1>1, <1>2, <1>8, <1>10, <1>11 DEF PageTrue
  <1>13. user' \in P!User /\ prefs' \in {"default", "chosen"} /\ mishaps' \in 0 .. MaxMishaps
         /\ mishaps' >= mishaps
    BY <1>1, <1>2, ProfileNumbers DEF P!TypeOK
  <1>14. page'.profile = page.profile
    BY <1>8, <1>10
  <1>15. ~crossed /\ page'.profile = "success" =>
           /\ \A s \in handlers' : s.kind # "save"
           /\ user' # P!NoneSigned
           /\ user'.id = session => user'.name = names[user'.id] \/ names[user'.id] = 0
    BY <1>1, <1>2, <1>14 DEF SavesInOrder
  <1> QED
    BY <1>2, <1>10, <1>12, <1>13, <1>15, HandlerEnds

\* A reset, and a deletion that is not answered with a value.
LEMMA AccountEnds ==
    ASSUME ProfileInv, NEW t \in handlers,
           P!AccountReset(t) \/ (P!AccountDeleted(t) /\ t.answer # "ok")
    PROVE  ProfileInv'
  <1>1. ProfileTyped /\ P!TypeOK /\ SavesInOrder /\ PageTrue
    BY DEF ProfileInv, ProfileTyped
  <1>2. /\ handlers' = handlers \ {t}
        /\ UNCHANGED <<offers, docs, names, session, user, started, mishaps, crossed>>
    BY DEF P!AccountReset, P!AccountDeleted, P!Over
  <1>3. PICK said \in P!Told : P!Shown(t, [page EXCEPT !.running = FALSE, !.account = said])
    BY ProfileNumbers DEF P!AccountReset, P!AccountDeleted
  <1> DEFINE a == [page EXCEPT !.running = FALSE]
             p == [a EXCEPT !.account = said]
  <1>4. /\ a \in P!Page /\ a.open = page.open /\ a.profile = page.profile
        /\ a.password = page.password /\ a.done = page.done /\ a.meta = page.meta
    BY <1>1 DEF P!TypeOK, P!Page
  <1>5. p = [page EXCEPT !.running = FALSE, !.account = said]
    BY <1>1 DEF P!TypeOK, P!Page
  <1> HIDE DEF a
  <1>6. /\ p \in P!Page /\ p.open = page.open /\ p.profile = page.profile
        /\ p.password = page.password /\ p.done = page.done /\ p.meta = page.meta
    BY <1>4 DEF P!Page
  <1>7. P!Shown(t, p)
    BY <1>3, <1>5
  <1> HIDE DEF p
  <1>8. /\ page' \in P!Page /\ page'.open = page.open /\ (~page.open => page' = page)
        /\ page' \in {p, page}
    BY <1>6, <1>7, ToldToPage
  <1>9. PageTrue'
    BY <1>1, <1>2, <1>6, <1>8 DEF PageTrue
  <1>10. user' \in P!User /\ mishaps' \in 0 .. MaxMishaps /\ mishaps' >= mishaps
    BY <1>1, <1>2, ProfileNumbers DEF P!TypeOK
  <1>11. prefs' \in {"default", "chosen"}
    BY <1>1 DEF P!AccountReset, P!AccountDeleted, P!TypeOK
  <1>12. page'.profile = page.profile
    BY <1>6, <1>8
  <1>13. ~crossed /\ page'.profile = "success" =>
           /\ \A s \in handlers' : s.kind # "save"
           /\ user' # P!NoneSigned
           /\ user'.id = session => user'.name = names[user'.id] \/ names[user'.id] = 0
    BY <1>1, <1>2, <1>12 DEF SavesInOrder
  <1> QED
    BY <1>2, <1>8, <1>9, <1>10, <1>11, <1>13, HandlerEnds

\* The page is closed: it is left, the listener signs out, or an answer ends the session.
LEMMA ProfileCloses ==
    ASSUME ProfileInv,
           \/ P!Leave \/ P!SignOut
           \/ \E t \in handlers : P!Denied(t) \/ (P!AccountDeleted(t) /\ t.answer = "ok")
    PROVE  ProfileInv'
  <1>1. P!TypeOK
    BY DEF ProfileInv, ProfileTyped
  <1>2. P!NoneSigned \in P!User /\ user \in P!User /\ session \in Ids \cup {0}
        /\ prefs \in {"default", "chosen"}
    BY <1>1, ProfileNumbers DEF P!TypeOK, P!NoneSigned, P!User
  <1>3. CASE P!Leave \/ P!SignOut
    <2>1. /\ handlers' = {Left(u) : u \in handlers} /\ page' = P!Closed
          /\ session' \in Ids \cup {0} /\ user' \in P!User /\ prefs' \in {"default", "chosen"}
          /\ UNCHANGED <<offers, docs, names, started, mishaps, crossed>>
      BY <1>2, <1>3, ProfileNumbers DEF P!Leave, P!SignOut, P!LeftBehind, Left
    <2>2. handlers \in SUBSET handlers
      OBVIOUS
    <2> QED
      BY <2>1, <2>2, PageShuts
  <1>4. ASSUME NEW t \in handlers, P!Denied(t) \/ (P!AccountDeleted(t) /\ t.answer = "ok")
        PROVE  ProfileInv'
    <2> DEFINE S == handlers \ {t}
    <2>1. /\ handlers' = {Left(u) : u \in S} /\ page' = P!Closed
          /\ session' \in Ids \cup {0} /\ user' \in P!User /\ prefs' \in {"default", "chosen"}
          /\ UNCHANGED <<offers, docs, names, started, mishaps, crossed>>
      BY <1>2, <1>4, ProfileNumbers DEF P!Denied, P!AccountDeleted, Left
    <2>2. S \in SUBSET handlers
      OBVIOUS
    <2> HIDE DEF S
    <2> QED
      BY <2>1, <2>2, PageShuts
  <1> QED
    BY <1>3, <1>4

\* A handler begins, of the page that is open.
LEMMA HandlerBegins ==
    ASSUME ProfileInv, NEW kind \in P!Kinds, NEW value \in Ids \cup {0},
           P!Begin(kind, value), session # 0,
           page' \in P!Page, page'.open, PageTrue',
           page'.profile = "success" => page.profile = "success" /\ kind # "save",
           crossed' \in BOOLEAN, crossed => crossed',
           kind = "save" /\ ~crossed' => \A s \in handlers : s.kind # "save",
           UNCHANGED <<offers, docs, names, session, user, prefs, mishaps>>
    PROVE  ProfileInv'
  <1>1. ProfileTyped /\ P!TypeOK /\ SavesInOrder
    BY DEF ProfileInv, ProfileTyped
  <1>2. PICK h : h = [n |-> started + 1, kind |-> kind, value |-> value, path |-> 1,
                      here |-> TRUE, token |-> session, done |-> 0, answer |-> "none"]
    OBVIOUS
  <1>3. started < MaxHandlers /\ started' = started + 1 /\ handlers' = handlers \cup {h}
    BY <1>2 DEF P!Begin
  <1>4. started \in 0 .. MaxHandlers /\ session \in Ids \cup {0} /\ docs \subseteq 1 .. 4
    BY <1>1, ProfileNumbers DEF P!TypeOK
  <1>5. /\ h \in P!Task /\ h.n = started + 1 /\ h.kind = kind /\ h.path = 1 /\ h.here = TRUE
        /\ h.done = 0 /\ h.answer = "none"
    BY <1>2, <1>3, <1>4, ProfileNumbers DEF P!Task
  <1>6. \A s, u \in handlers' : s.n = u.n => s = u
    BY <1>1, <1>3, <1>4, <1>5, ProfileNumbers DEF ProfileTyped, P!TypeOK
  <1>7. P!TypeOK'
    <2>1. started' \in 0 .. MaxHandlers
      BY <1>3, <1>4, ProfileNumbers
    <2>2. handlers' \subseteq P!Task
      BY <1>1, <1>3, <1>5 DEF P!TypeOK
    <2> QED
      BY <1>1, <1>6, <2>1, <2>2, ProfileNumbers DEF P!TypeOK
  <1>8. ProfileTyped'
    <2>1. ASSUME NEW s \in handlers' PROVE s.n <= started'
      <3>1. CASE s = h
        BY <1>3, <1>4, <1>5, <3>1, ProfileNumbers
      <3>2. CASE s \in handlers
        <4>1. s.n <= started /\ s.n \in Nat
          BY <1>1, <3>2, HandlerFields DEF ProfileTyped, P!TypeOK
        <4> QED
          BY <1>3, <1>4, <4>1, ProfileNumbers
      <3> QED
        BY <1>3, <3>1, <3>2
    <2> QED
      BY <1>7, <2>1 DEF ProfileTyped
  <1>9. DoneOnce(h) /\ LookedUp(h)'
    BY <1>4, <1>5 DEF DoneOnce, LookedUp
  <1>10. \A s \in handlers' : DoneOnce(s)' /\ LookedUp(s)'
    BY <1>3, <1>9 DEF ProfileInv, DoneOnce, LookedUp
  <1>11. SavesInOrder'
    <2> SUFFICES ASSUME ~crossed' PROVE SavesInOrder'
      BY DEF SavesInOrder
    <2>1. \A s, u \in handlers' : s.kind = "save" /\ u.kind = "save" => s = u
      BY <1>1, <1>3, <1>5 DEF SavesInOrder
    <2>2. \A s \in handlers' : s.kind = "save" /\ s.answer = "ok" =>
            s.token # 0 /\ names'[s.token] \in {s.value, 0}
      BY <1>1, <1>3, <1>5 DEF SavesInOrder
    <2>3. page'.profile = "success" =>
            /\ \A s \in handlers' : s.kind # "save"
            /\ user # P!NoneSigned
            /\ user.id = session => user.name = names[user.id] \/ names[user.id] = 0
      BY <1>1, <1>3, <1>5 DEF SavesInOrder
    <2> QED
      BY <2>1, <2>2, <2>3, ProfileNumbers DEF SavesInOrder, P!NoneSigned
  <1> QED
    BY <1>8, <1>10, <1>11 DEF ProfileInv

LEMMA ProfileVisits ==
    ASSUME ProfileInv, P!Visit
    PROVE  ProfileInv'
  <1>1. P!TypeOK
    BY DEF ProfileInv, ProfileTyped
  <1> DEFINE p == [P!Closed EXCEPT !.open = TRUE]
  <1>2. p \in P!Page /\ p.open /\ p.profile = "none" /\ p.password = "none" /\ p.meta = "loading"
    BY ClosedType DEF P!Page
  <1>3. /\ page' = p /\ session # 0 /\ P!Begin("meta", 0)
        /\ UNCHANGED <<offers, docs, names, session, user, prefs, mishaps, crossed>>
    BY ProfileNumbers DEF P!Visit
  <1> HIDE DEF p
  <1>4. PageTrue'
    BY <1>2, <1>3 DEF PageTrue
  <1>5. "meta" \in P!Kinds /\ crossed' \in BOOLEAN /\ 0 \in Ids \cup {0}
    BY <1>1, <1>3, ProfileNumbers DEF P!TypeOK
  <1> QED
    BY <1>2, <1>3, <1>4, <1>5, HandlerBegins

LEMMA ProfileSaves ==
    ASSUME ProfileInv, NEW name \in Ids, P!SaveProfile(name)
    PROVE  ProfileInv'
  <1>1. P!TypeOK /\ PageTrue
    BY DEF ProfileInv, ProfileTyped
  <1> DEFINE a == [page EXCEPT !.saving = TRUE]
             p == [a EXCEPT !.profile = "none"]
  <1>2. /\ a \in P!Page /\ a.open = page.open /\ a.password = page.password
        /\ a.done = page.done /\ a.meta = page.meta
    BY <1>1 DEF P!TypeOK, P!Page
  <1>3. p = [page EXCEPT !.saving = TRUE, !.profile = "none"]
    BY <1>1 DEF P!TypeOK, P!Page
  <1> HIDE DEF a
  <1>4. /\ p \in P!Page /\ p.open = page.open /\ p.password = page.password
        /\ p.done = page.done /\ p.meta = page.meta /\ p.profile = "none"
    BY <1>2, ProfileNumbers DEF P!Page
  <1> HIDE DEF p
  <1>5. /\ page.open /\ page' = p /\ P!Begin("save", name)
        /\ UNCHANGED <<offers, docs, names, session, user, prefs, mishaps>>
    BY <1>3 DEF P!SaveProfile
  <1>6. PageTrue'
    BY <1>1, <1>4, <1>5 DEF PageTrue
  <1>7. session # 0
    BY <1>1, <1>5, ProfileNumbers DEF P!TypeOK
  <1>8. crossed' = (crossed \/ \E t \in handlers : t.kind = "save")
    BY DEF P!SaveProfile
  <1>9. crossed \in BOOLEAN
    BY <1>1 DEF P!TypeOK
  <1>10. crossed' \in BOOLEAN /\ (crossed => crossed')
         /\ (~crossed' => \A t \in handlers : t.kind # "save")
    BY <1>8, <1>9, Zenon
  <1>11. "save" \in P!Kinds /\ name \in Ids \cup {0}
    BY ProfileNumbers
  <1> QED
    BY <1>4, <1>5, <1>6, <1>7, <1>10, <1>11, HandlerBegins

\* A password that is not sent only changes what the page says.
LEMMA ProfileChangesPassword ==
    ASSUME ProfileInv, NEW valid \in BOOLEAN, P!ChangePassword(valid)
    PROVE  ProfileInv'
  <1>1. ProfileTyped /\ P!TypeOK /\ PageTrue /\ SavesInOrder
    BY DEF ProfileInv, ProfileTyped
  <1>2. /\ page.open
        /\ UNCHANGED <<offers, docs, names, session, user, prefs, mishaps, crossed>>
    BY DEF P!ChangePassword
  <1>3. session # 0 /\ crossed' \in BOOLEAN
    BY <1>1, <1>2, ProfileNumbers DEF P!TypeOK
  <1>4. CASE valid
    <2> DEFINE a == [page EXCEPT !.changing = TRUE]
               p == [a EXCEPT !.password = "none"]
    <2>1. /\ a \in P!Page /\ a.open = page.open /\ a.profile = page.profile
          /\ a.done = page.done /\ a.meta = page.meta
      BY <1>1 DEF P!TypeOK, P!Page
    <2>2. p = [page EXCEPT !.changing = TRUE, !.password = "none"]
      BY <1>1 DEF P!TypeOK, P!Page
    <2> HIDE DEF a
    <2>3. /\ p \in P!Page /\ p.open = page.open /\ p.profile = page.profile
          /\ p.done = page.done /\ p.meta = page.meta /\ p.password = "none"
      BY <2>1, ProfileNumbers DEF P!Page
    <2> HIDE DEF p
    <2>4. page' = p /\ P!Begin("password", 0)
      BY <1>4, <2>2, ProfileNumbers DEF P!ChangePassword
    <2>5. PageTrue'
      BY <1>1, <1>2, <2>3, <2>4 DEF PageTrue
    <2>6. "password" \in P!Kinds /\ 0 \in Ids \cup {0}
      BY ProfileNumbers
    <2> QED
      BY <1>2, <1>3, <2>3, <2>4, <2>5, <2>6, HandlerBegins
  <1>5. CASE ~valid
    <2>1. page' = [page EXCEPT !.password = "error"] /\ UNCHANGED <<handlers, started>>
      BY <1>5 DEF P!ChangePassword
    <2>2. /\ page' \in P!Page /\ page'.open = page.open /\ page'.profile = page.profile
          /\ page'.done = page.done /\ page'.meta = page.meta /\ page'.password = "error"
      BY <1>1, <2>1, ProfileNumbers DEF P!TypeOK, P!Page
    <2>3. P!TypeOK'
      BY <1>1, <1>2, <2>1, <2>2 DEF P!TypeOK
    <2>4. ProfileTyped' /\ PageTrue' /\ SavesInOrder'
      BY <1>1, <1>2, <2>1, <2>2, <2>3 DEF ProfileTyped, PageTrue, SavesInOrder, P!NoneSigned
    <2>5. \A s \in handlers' : DoneOnce(s)' /\ LookedUp(s)'
      BY <1>2, <2>1 DEF ProfileInv, DoneOnce, LookedUp
    <2> QED
      BY <2>4, <2>5 DEF ProfileInv
  <1> QED
    BY <1>4, <1>5

LEMMA ProfileActs ==
    ASSUME ProfileInv, NEW kind \in {"reset", "delete"}, P!AccountAction(kind)
    PROVE  ProfileInv'
  <1>1. P!TypeOK /\ PageTrue
    BY DEF ProfileInv, ProfileTyped
  <1> DEFINE a == [page EXCEPT !.running = TRUE]
             p == [a EXCEPT !.account = "none"]
  <1>2. /\ a \in P!Page /\ a.open = page.open /\ a.profile = page.profile
        /\ a.password = page.password /\ a.done = page.done /\ a.meta = page.meta
    BY <1>1 DEF P!TypeOK, P!Page
  <1>3. p = [page EXCEPT !.running = TRUE, !.account = "none"]
    BY <1>1 DEF P!TypeOK, P!Page
  <1> HIDE DEF a
  <1>4. /\ p \in P!Page /\ p.open = page.open /\ p.profile = page.profile
        /\ p.password = page.password /\ p.done = page.done /\ p.meta = page.meta
    BY <1>2, ProfileNumbers DEF P!Page
  <1> HIDE DEF p
  <1>5. /\ page.open /\ page' = p /\ P!Begin(kind, 0)
        /\ UNCHANGED <<offers, docs, names, session, user, prefs, mishaps, crossed>>
    BY <1>3, ProfileNumbers DEF P!AccountAction
  <1>6. PageTrue'
    BY <1>1, <1>4, <1>5 DEF PageTrue
  <1>7. session # 0 /\ crossed' \in BOOLEAN
    BY <1>1, <1>5, ProfileNumbers DEF P!TypeOK
  <1>8. kind \in P!Kinds /\ kind # "save" /\ 0 \in Ids \cup {0}
    BY ProfileNumbers
  <1> QED
    BY <1>4, <1>5, <1>6, <1>7, <1>8, HandlerBegins

\* The page is away while nobody is signed in.
LEMMA ProfileSignsIn ==
    ASSUME ProfileInv, NEW a \in Ids, P!SignIn(a)
    PROVE  ProfileInv'
  <1>1. ProfileTyped /\ P!TypeOK /\ PageTrue /\ SavesInOrder
    BY DEF ProfileInv, ProfileTyped
  <1>2. /\ session = 0 /\ session' = a /\ user' = P!Signed(a)
        /\ UNCHANGED <<offers, docs, names, page, prefs, handlers, started, mishaps, crossed>>
    BY ProfileNumbers DEF P!SignIn
  <1>3. ~page.open /\ page = P!Closed /\ page.profile = "none"
    BY <1>1, <1>2, ClosedType, ProfileNumbers DEF ProfileTyped, P!TypeOK
  <1>4. user' \in P!User
    BY <1>1, <1>2, ProfileNumbers DEF P!Signed, P!User, P!TypeOK
  <1>5. P!TypeOK'
    BY <1>1, <1>2, <1>3, <1>4 DEF P!TypeOK
  <1>6. ProfileTyped'
    BY <1>1, <1>2, <1>5 DEF ProfileTyped, P!Closed
  <1>7. PageTrue' /\ SavesInOrder'
    BY <1>1, <1>2, <1>3 DEF PageTrue, SavesInOrder
  <1>8. \A s \in handlers' : DoneOnce(s)' /\ LookedUp(s)'
    BY <1>2 DEF ProfileInv, DoneOnce, LookedUp
  <1> QED
    BY <1>6, <1>7, <1>8 DEF ProfileInv

LEMMA ProfileKept ==
    ASSUME ProfileInv, P!Next
    PROVE  ProfileInv'
  <1>1. CASE P!Click
    BY <1>1, ProfileVisits, ProfileCloses, ProfileSignsIn, ProfileSaves, ProfileChangesPassword,
       ProfileActs DEF P!Click
  <1>2. ASSUME NEW t \in handlers,
               \/ P!Refuse(t) \/ P!Do(t) \/ P!Look(t) \/ P!Fail(t)
               \/ P!TryNext(t) \/ P!MetaLoaded(t) \/ P!Denied(t)
               \/ P!ProfileSaved(t) \/ P!PasswordChanged(t) \/ P!AccountReset(t)
               \/ P!AccountDeleted(t)
        PROVE  ProfileInv'
    BY <1>2, ProfileServes, ProfileTriesNext, MetaEnds, SaveEnds, PasswordEnds, AccountEnds,
       ProfileCloses
  <1> QED
    BY <1>1, <1>2 DEF P!Next

LEMMA ProfileStill ==
    ASSUME ProfileInv, UNCHANGED P!vars
    PROVE  ProfileInv'
  BY DEF P!vars, ProfileInv, ProfileTyped, PageTrue, SavesInOrder, DoneOnce, LookedUp, P!TypeOK,
         P!Closed, P!NoneSigned

-----------------------------------------------------------------------------
(* The browser as a whole: its sessions, and its profile page *)

LEMMA PartsStart == PartsInit => IInv /\ ProfileInv
  BY InitInv, ProfileStart DEF PartsInit

LEMMA PartsStep ==
    ASSUME IInv, ProfileInv, [PartsNext]_<<part, vars, profile>>
    PROVE  IInv' /\ ProfileInv'
  <1>1. [Next]_vars /\ (P!Next \/ UNCHANGED P!vars)
    BY DEF PartsNext, profile, P!vars
  <1>2. IInv'
    BY <1>1, StepInv
  <1>3. ProfileInv'
    BY <1>1, ProfileKept, ProfileStill
  <1> QED
    BY <1>2, <1>3

\* Both invariants hold in every reachable state of the two.
THEOREM PartsInvariance == PartsSpec => [](IInv /\ ProfileInv)
  BY PartsStart, PartsStep, PTL DEF PartsSpec

\* The types of the tabs and of the profile page.
THEOREM PartsTypes == PartsSpec => []PartsTypeOK
  <1>1. IInv /\ ProfileInv => PartsTypeOK
    BY InvTypes DEF PartsTypeOK, ProfileInv, ProfileTyped
  <1> QED
    BY <1>1, PartsInvariance, PTL

\* What the profile page says: nothing is done twice on the way through the candidate
\* paths, a success shown was done once, a name shown as saved is the one the server
\* has unless saves have crossed, and the fallback stands for documents that are
\* nowhere, or for a failure.
THEOREM ProfileTold == PartsSpec => []ToldIsDone
  <1>1. IInv /\ ProfileInv => ToldIsDone
    BY ProfileTells DEF ToldIsDone
  <1> QED
    BY <1>1, PartsInvariance, PTL
=============================================================================
