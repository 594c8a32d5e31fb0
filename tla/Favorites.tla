----------------------------- MODULE Favorites -----------------------------
(***************************************************************************)
(* The favourites and playlists of a listener, as the player application   *)
(* keeps and shows them (web/apps/player/src): lib/library.ts, the quick   *)
(* add of a row, the dialogs TrackActionsModal and AddToPlaylistModal, and *)
(* the pages HomePage, LibraryPage and PlaylistsPage.                      *)
(*                                                                         *)
(* Favourites are an ordinary playlist that is found by its name.  Every   *)
(* click starts a task, an async function that sends one request at a      *)
(* time; the service answers in any order, and an answer reaches the task  *)
(* later still.  The statements of the playlist service are module         *)
(* Playlist; here a request is one step.  Answers 401 end the session and  *)
(* with it the page: they are module Session.                              *)
(***************************************************************************)
EXTENDS Naturals, Sequences, SequencesExt, FiniteSets, FiniteSetsExt

CONSTANTS
    Tracks, NoTrack,
    PageSize,     \* playlists in one answer of the list request
    MaxLists,     \* bound on playlists
    MaxTasks,     \* bound on the tasks begun
    MaxAtOnce,    \* bound on the tasks under way at one time
    MaxFailures   \* bound on requests that fail

ASSUME FavoritesAssumption ==
    /\ NoTrack \notin Tracks /\ {PageSize, MaxTasks, MaxAtOnce} \subseteq Nat \ {0}
    /\ {MaxLists, MaxFailures} \subseteq Nat /\ MaxLists >= 2

VARIABLES
    lists,     \* the playlists of the listener, in the order of their creation
    recent,    \* their numbers, the most recently changed first
    page,      \* the page that is open
    shown,     \* what it lists: tracks, or playlists on PlaylistsPage
    loading,   \* its spinner
    actions,   \* TrackActionsModal
    picker,    \* AddToPlaylistModal
    pending,   \* pendingTrackIds of the quick add
    notice,    \* activeNotification
    tasks,     \* the async functions that wait for an answer
    begun, failures,  \* counters behind MaxTasks and MaxFailures
    excused,   \* history: two tasks looked for Favorites in vain at one time, or the
               \* answer to one had no room for them
    disturbed, \* history: a request failed, or a change overlapped another task
    removed,   \* history: the tracks taken out of Favorites
    namesakes  \* history: the playlists a listener gave the name of Favorites

service == <<lists, recent, failures, removed, namesakes>>
client == <<page, shown, loading, actions, picker, pending, notice>>
vars == <<service, client, tasks, begun, excused, disturbed>>

-----------------------------------------------------------------------------
NoList == 0
Lists == 1 .. MaxLists
Pages == {"home", "library", "playlists"}
Loads == {"home", "library", "playlists", "actions", "picker"}
Kinds == Loads \cup {"quick", "toggle", "pick", "create"}

\* A task and the request it has sent: op, about a list and a track.  live says
\* that what waits for it is still there.  An answer carries a playlist (its number
\* and tracks) or the numbers of the playlists listed.
Task == [id: 1 .. MaxAtOnce, kind: Kinds, track: Tracks \cup {NoTrack}, live: BOOLEAN,
         op: {"list", "favorites", "relist", "create", "add", "remove"},
         list: Lists \cup {NoList}, tracks: SUBSET Tracks, seen: SUBSET Lists,
         answer: {"none", "ok", "conflict", "error"}]

Actions == [track: Tracks \cup {NoTrack}, list: Lists \cup {NoList}, tracks: SUBSET Tracks,
            loading: BOOLEAN, saving: BOOLEAN]
NoActions == [track |-> NoTrack, list |-> NoList, tracks |-> {},
              loading |-> FALSE, saving |-> FALSE]

Picker == [track: Tracks \cup {NoTrack}, lists: SUBSET Lists, loading: BOOLEAN,
           creating: BOOLEAN, saving: Lists \cup {NoList}, saved: SUBSET Lists]
NoPicker == [track |-> NoTrack, lists |-> {}, loading |-> FALSE, creating |-> FALSE,
             saving |-> NoList, saved |-> {}]

Notice == [track: Tracks \cup {NoTrack}, good: BOOLEAN]
NoNotice == [track |-> NoTrack, good |-> FALSE]

\* The lists are known by their numbers, the tasks by their order; a list of
\* playlists is complete while there is room for them on its one page.
TypeOK ==
    /\ lists \in Seq([favorites: BOOLEAN, tracks: SUBSET Tracks]) /\ Len(lists) <= MaxLists
    /\ recent \in Seq(Lists) /\ Len(recent) = Len(lists) /\ ToSet(recent) = DOMAIN lists
    /\ page \in Pages /\ shown \subseteq Tracks \cup Lists /\ loading \in BOOLEAN
    /\ actions \in Actions /\ picker \in Picker /\ notice \in Notice
    /\ pending \subseteq Tracks /\ removed \subseteq Tracks /\ namesakes \subseteq Lists
    /\ tasks \subseteq Task
    /\ \A s, t \in tasks : s.id = t.id => s = t
    /\ \A t \in tasks : t.list # NoList => t.list \in DOMAIN lists
    /\ begun \in 1 .. MaxTasks /\ failures \in 0 .. MaxFailures
    /\ excused \in BOOLEAN /\ disturbed \in BOOLEAN

-----------------------------------------------------------------------------
(* Tasks *)

NewTask(n, kind, op, track, list) ==
    [id |-> n, kind |-> kind, track |-> track, live |-> TRUE, op |-> op, list |-> list,
     tracks |-> {}, seen |-> {}, answer |-> "none"]

\* A task that changes something: a click, or the creation of Favorites.
Changing(kind, op) == kind \notin Loads \/ op = "favorites"

\* ts with one more task that sends a first request.
Begin(ts, kind, op, track, list) ==
    /\ begun < MaxTasks /\ begun' = begun + 1 /\ Cardinality(tasks) < MaxAtOnce
    /\ LET free == {n \in 1 .. MaxAtOnce : \A t \in tasks : t.id # n}
       IN  tasks' = ts \cup {NewTask(Min(free), kind, op, track, list)}
    /\ disturbed' = (disturbed \/ \E t \in tasks : Changing(kind, op) \/ Changing(t.kind, t.op))
    /\ UNCHANGED <<service, excused>>

\* The task sends a next request, or has ended.
Goes(t, op, list) ==
    tasks' = (tasks \ {t}) \cup {[t EXCEPT !.op = op, !.list = list, !.answer = "none",
                                           !.tracks = {}, !.seen = {}]}
Ends(t) == tasks' = tasks \ {t}

\* What waits for the tasks of these kinds is gone.
Abandon(kinds) == {IF t.kind \in kinds THEN [t EXCEPT !.live = FALSE] ELSE t : t \in tasks}

\* The session begins on HomePage.
Init ==
    /\ lists \in {<< >>, <<[favorites |-> TRUE, tracks |-> {}],
                           [favorites |-> FALSE, tracks |-> {}]>>}
    /\ recent = Reverse([i \in DOMAIN lists |-> i])
    /\ page = "home" /\ shown = {} /\ loading = TRUE
    /\ actions = NoActions /\ picker = NoPicker /\ pending = {} /\ notice = NoNotice
    /\ tasks = {NewTask(1, "home", "list", NoTrack, NoList)} /\ begun = 1
    /\ failures = 0 /\ excused = FALSE /\ disturbed = FALSE /\ removed = {}
    /\ namesakes = {}

-----------------------------------------------------------------------------
(* The playlist service *)

\* The playlists of that name, whoever gave it to them.
Favorites == {i \in DOMAIN lists : lists[i].favorites}

FirstPage == SubSeq(recent, 1, IF Len(recent) < PageSize THEN Len(recent) ELSE PageSize)

\* Mutant: only the first playlist listed is looked at.
FoundFirst(listed) ==
    IF listed # << >> /\ lists[Head(listed)].favorites THEN Head(listed) ELSE NoList

\* The playlist that find takes: the first of that name in the answer.
Found(listed) ==
    LET named == {k \in DOMAIN listed : lists[listed[k]].favorites}
    IN  IF named = {} THEN NoList ELSE listed[Min(named)]

\* Mutant: it is listed first and where it was.
TouchTwice(i) == <<i>> \o recent

\* A playlist that is changed comes first in the next list.
Touch(i) == <<i>> \o RemoveAt(recent, CHOOSE k \in DOMAIN recent : recent[k] = i)

Answered(t, how, list, seen) ==
    tasks' = (tasks \ {t}) \cup {[t EXCEPT !.answer = how, !.list = list, !.seen = seen,
        !.tracks = IF list = NoList THEN {} ELSE lists'[list].tracks]}

\* The tasks that will create Favorites, or have not yet heard that they exist.
InVain == {t \in tasks : /\ t.kind # "picker" /\ t.answer # "error"
                         /\ \/ t.op = "favorites"
                            \/ t.op = "list" /\ t.answer = "ok" /\ t.list = NoList}

\* ensureNamedPlaylist looks for Favorites; the picker and PlaylistsPage want the lists.
Ensures(t) == t.kind # "picker" /\ t.op = "list"

ServeList(t) ==
    /\ t.op \in {"list", "relist"} /\ t.answer = "none"
    /\ UNCHANGED <<service, client, begun, disturbed>>
    /\ excused' = (excused \/ (Ensures(t) /\ Found(FirstPage) = NoList /\ InVain # {})
                           \/ (Ensures(t) /\ Favorites # {} /\ Favorites \cap ToSet(FirstPage) = {}))
    /\ Answered(t, "ok", IF Ensures(t) THEN Found(FirstPage) ELSE NoList, ToSet(FirstPage))

Changes(kept, order) ==
    /\ lists' = kept /\ recent' = order
    /\ UNCHANGED <<client, begun, failures, excused, disturbed>>

\* The name a listener chooses may be that of Favorites: nothing checks it.
ServeCreate(t) ==
    /\ t.op \in {"favorites", "create"} /\ t.answer = "none" /\ Len(lists) < MaxLists
    /\ \E named \in BOOLEAN :
         /\ t.op = "favorites" => named
         /\ Changes(Append(lists, [favorites |-> named, tracks |-> {}]),
                       <<Len(lists) + 1>> \o recent)
         /\ namesakes' = namesakes \cup
                IF named /\ t.op = "create" THEN {Len(lists) + 1} ELSE {}
    /\ Answered(t, "ok", Len(lists) + 1, {}) /\ UNCHANGED removed

ServeAdd(t) ==
    /\ t.op = "add" /\ t.answer = "none" /\ t.track \notin lists[t.list].tracks
    /\ Changes([lists EXCEPT ![t.list].tracks = @ \cup {t.track}], Touch(t.list))
    /\ Answered(t, "ok", t.list, {}) /\ UNCHANGED <<removed, namesakes>>

\* A track that is there already is a conflict, 409.
ServeConflict(t) ==
    /\ t.op = "add" /\ t.answer = "none" /\ t.track \in lists[t.list].tracks
    /\ UNCHANGED <<service, client, begun, excused, disturbed>>
    /\ Answered(t, "conflict", t.list, {})

ServeRemove(t) ==
    /\ t.op = "remove" /\ t.answer = "none" /\ t.track \in lists[t.list].tracks
    /\ Changes([lists EXCEPT ![t.list].tracks = @ \ {t.track}], Touch(t.list))
    /\ Answered(t, "ok", t.list, {}) /\ removed' = removed \cup {t.track}
    /\ UNCHANGED namesakes

\* A request fails on its way (or on its way back: its answer turns into an error),
\* or the track to remove is not there, 404.
Fail(t) ==
    /\ t.answer \in {"none", "ok"}
    /\ \/ failures < MaxFailures /\ failures' = failures + 1
       \/ t.op = "remove" /\ t.answer = "none" /\ t.track \notin lists[t.list].tracks
            /\ UNCHANGED failures
    /\ UNCHANGED <<lists, recent, removed, namesakes, client, begun, excused>>
    /\ disturbed' = TRUE /\ Answered(t, "error", t.list, {})

-----------------------------------------------------------------------------
(* lib/library.ts: ensureUserFavoritesPlaylist, the first part of many tasks *)

\* Favorites are at hand: they were found, or have been created.
Ensured(t) == t.answer = "ok" /\ ((Ensures(t) /\ t.list # NoList) \/ t.op = "favorites")

\* None is found: they are created.
CreateFavorites(t) ==
    /\ Ensures(t) /\ t.answer = "ok" /\ t.list = NoList
    /\ Goes(t, "favorites", NoList)
    /\ disturbed' = (disturbed \/ tasks # {t})
    /\ UNCHANGED <<service, client, begun, excused>>

\* What a step of the client leaves alone.
Elsewhere == <<service, begun, excused, disturbed>>

-----------------------------------------------------------------------------
(* The pages *)

\* Another page is opened (a link, or the browser's back button): what the last
\* one kept is gone, and its tasks find nothing of it.  The modals are its children.
Navigate(p) ==
    /\ p # page /\ page' = p /\ shown' = {} /\ loading' = TRUE
    /\ actions' = NoActions /\ picker' = NoPicker /\ pending' = {} /\ UNCHANGED notice
    /\ Begin(Abandon(Kinds), p, "list", NoTrack, NoList)

\* PlaylistsPage asks for the playlists once Favorites exist.
PlaylistsRelist(t) ==
    /\ t.kind = "playlists" /\ Ensured(t) /\ Goes(t, "relist", NoList)
    /\ UNCHANGED <<client, Elsewhere>>

\* The load of a page ends: loadLibrary, loadPlaylists, fetchData.  LibraryPage
\* drops the tracks it cannot get; after an error nothing is shown.
PageLoaded(t) ==
    /\ t.kind \in {"home", "library", "playlists"}
    /\ \/ Ensured(t) /\ t.kind # "playlists"
       \/ t.op = "relist" /\ t.answer = "ok"
       \/ t.answer = "error"
    /\ \E lost \in SUBSET t.tracks :
         /\ IF lost = {} THEN UNCHANGED <<failures, disturbed>>
            ELSE /\ t.kind = "library" /\ t.answer = "ok" /\ failures < MaxFailures
                 /\ failures' = failures + 1 /\ disturbed' = TRUE
         /\ IF t.live
            THEN /\ loading' = FALSE
                 /\ shown' = IF t.answer = "error" THEN {}
                             ELSE IF t.kind = "playlists" THEN t.seen ELSE t.tracks \ lost
            ELSE UNCHANGED <<loading, shown>>
    /\ Ends(t)
    /\ UNCHANGED <<lists, recent, removed, namesakes, page, actions, picker, pending,
                   notice, begun, excused>>

-----------------------------------------------------------------------------
(* useLibraryQuickAdd *)

\* The rows of a page: HomePage also lists what was played recently.  A dialog
\* covers them.
Rows == IF loading \/ page = "playlists" THEN {}
        ELSE IF page = "home" THEN Tracks ELSE shown
NoDialog == actions.track = NoTrack /\ picker.track = NoTrack

QuickAdd(tr) ==
    /\ NoDialog /\ tr \in Rows /\ tr \notin pending
    /\ pending' = pending \cup {tr}
    /\ Begin(tasks, "quick", "list", tr, NoList)
    /\ UNCHANGED <<page, shown, loading, actions, picker, notice>>

QuickEnsured(t) ==
    /\ t.kind = "quick" /\ Ensured(t) /\ Goes(t, "add", t.list)
    /\ UNCHANGED <<client, Elsewhere>>

\* 409 counts as done; the notification is shown on whatever page is open by now.
QuickDone(t) ==
    /\ t.kind = "quick"
    /\ (t.op = "add" /\ t.answer # "none") \/ t.answer = "error"
    /\ notice' = [track |-> t.track, good |-> t.answer # "error"]
    /\ pending' = IF t.live THEN pending \ {t.track} ELSE pending
    /\ Ends(t)
    /\ UNCHANGED <<page, shown, loading, actions, picker, Elsewhere>>

\* 2.8 s after it was shown.
ClearNotification ==
    /\ notice # NoNotice /\ notice' = NoNotice
    /\ UNCHANGED <<page, shown, loading, actions, picker, pending, tasks, Elsewhere>>

-----------------------------------------------------------------------------
(* TrackActionsModal.  It stays mounted with its page: what it knows of        *)
(* Favorites, and savingLibrary, outlive its closing.                          *)

OpenActions(tr) ==
    /\ NoDialog /\ tr \in Rows
    /\ actions' = [actions EXCEPT !.track = tr, !.loading = TRUE]
    /\ Begin(tasks, "actions", "list", NoTrack, NoList)
    /\ UNCHANGED <<page, shown, loading, picker, pending, notice>>

\* Escape, a click beside it, or an action that needs nothing more.
CloseActions ==
    /\ actions.track # NoTrack /\ actions' = [actions EXCEPT !.track = NoTrack]
    /\ tasks' = Abandon({"actions"})
    /\ UNCHANGED <<page, shown, loading, picker, pending, notice, Elsewhere>>

ActionsLoaded(t) ==
    /\ t.kind = "actions" /\ (Ensured(t) \/ t.answer = "error")
    /\ actions' = IF ~t.live THEN actions
                  ELSE IF t.answer = "error" THEN [actions EXCEPT !.loading = FALSE]
                  ELSE [actions EXCEPT !.loading = FALSE, !.list = t.list, !.tracks = t.tracks]
    /\ Ends(t)
    /\ UNCHANGED <<page, shown, loading, picker, pending, notice, Elsewhere>>

\* handleToggleLibrary: isInLibrary is what the render before the click found; the
\* service is asked for Favorites only where they are not known.
Toggle ==
    /\ actions.track # NoTrack /\ ~actions.loading /\ ~actions.saving
    /\ actions' = [actions EXCEPT !.saving = TRUE]
    /\ Begin(tasks, "toggle",
             IF actions.list = NoList THEN "list"
             ELSE IF actions.track \in actions.tracks THEN "remove" ELSE "add",
             actions.track, actions.list)
    /\ UNCHANGED <<page, shown, loading, picker, pending, notice>>

ToggleEnsured(t) ==
    /\ t.kind = "toggle" /\ Ensured(t) /\ Goes(t, "add", t.list)
    /\ UNCHANGED <<client, Elsewhere>>

\* Mutant: LibraryPage keeps the row of a track that has left Favorites.
RowsKept(t) == shown

\* onLibraryStateChange of LibraryPage.
RowsAfter(t) == IF page = "library" /\ t.op = "remove" THEN shown \ {t.track} ELSE shown

\* A success closes the dialog, whatever track it is open for by now; a conflict
\* or an error leaves it as it is.
ToggleDone(t) ==
    /\ t.kind = "toggle"
    /\ (t.op \in {"add", "remove"} /\ t.answer # "none") \/ t.answer = "error"
    /\ IF t.live /\ t.answer = "ok"
       THEN /\ actions' = [actions EXCEPT !.track = NoTrack, !.list = t.list,
                                          !.tracks = t.tracks, !.saving = FALSE]
            /\ shown' = RowsAfter(t) /\ tasks' = Abandon({"actions"}) \ {t}
       ELSE /\ actions' = IF t.live THEN [actions EXCEPT !.saving = FALSE] ELSE actions
            /\ UNCHANGED shown /\ Ends(t)
    /\ UNCHANGED <<page, loading, picker, pending, notice, Elsewhere>>

-----------------------------------------------------------------------------
(* AddToPlaylistModal, which stays mounted as well, and the creation of a      *)
(* playlist there and on PlaylistsPage.                                        *)

\* Mutant: the marks of the last opening are kept.
OpenedMarked(tr) == [picker EXCEPT !.track = tr, !.loading = TRUE]

\* The effect of an opening clears the marks; the lists of the last one stay until
\* the answer is there.
Opened(tr) == [picker EXCEPT !.track = tr, !.loading = TRUE, !.saved = {}]

\* "Add to Playlist" of TrackActionsModal, which closes.
OpenPicker ==
    /\ actions.track # NoTrack
    /\ picker' = Opened(actions.track)
    /\ actions' = [actions EXCEPT !.track = NoTrack]
    /\ Begin(Abandon({"actions"}), "picker", "list", NoTrack, NoList)
    /\ UNCHANGED <<page, shown, loading, pending, notice>>

ClosePicker ==
    /\ picker.track # NoTrack /\ picker' = [picker EXCEPT !.track = NoTrack]
    /\ tasks' = Abandon({"picker"})
    /\ UNCHANGED <<page, shown, loading, actions, pending, notice, Elsewhere>>

PickerLoaded(t) ==
    /\ t.kind = "picker" /\ t.answer # "none"
    /\ picker' = IF ~t.live THEN picker
                 ELSE IF t.answer = "error" THEN [picker EXCEPT !.loading = FALSE]
                 ELSE [picker EXCEPT !.loading = FALSE, !.lists = t.seen]
    /\ Ends(t)
    /\ UNCHANGED <<page, shown, loading, actions, pending, notice, Elsewhere>>

\* handleAddToPlaylist; one savingPlaylistId serves all rows.
Pick(i) ==
    /\ picker.track # NoTrack /\ ~picker.loading
    /\ i \in picker.lists \ picker.saved /\ i # picker.saving
    /\ picker' = [picker EXCEPT !.saving = i]
    /\ Begin(tasks, "pick", "add", picker.track, i)
    /\ UNCHANGED <<page, shown, loading, actions, pending, notice>>

\* The mark is put on the dialog as it is by now, whichever track it is open for.
PickDone(t) ==
    /\ t.kind = "pick" /\ t.answer # "none"
    /\ picker' = IF ~t.live THEN picker
                 ELSE [picker EXCEPT !.saving = NoList,
                           !.saved = IF t.answer = "error" THEN @ ELSE @ \cup {t.list}]
    /\ Ends(t)
    /\ UNCHANGED <<page, shown, loading, actions, pending, notice, Elsewhere>>

\* handleCreatePlaylist of either; while PlaylistsPage loads, its form is not there.
\* picker.creating stands for the flag of both.
CreatePlaylist ==
    /\ ~picker.creating
    /\ picker.track # NoTrack \/ (page = "playlists" /\ ~loading)
    /\ picker' = [picker EXCEPT !.creating = TRUE]
    /\ Begin(tasks, "create", "create", NoTrack, NoList)
    /\ UNCHANGED <<page, shown, loading, actions, pending, notice>>

\* The new playlist is put before the others.
CreateDone(t) ==
    /\ t.kind = "create" /\ t.answer # "none"
    /\ IF t.live
       THEN /\ picker' = [picker EXCEPT !.creating = FALSE,
                    !.lists = IF t.answer = "ok" /\ page # "playlists" THEN @ \cup {t.list} ELSE @]
            /\ shown' = IF t.answer = "ok" /\ page = "playlists" THEN shown \cup {t.list} ELSE shown
       ELSE UNCHANGED <<picker, shown>>
    /\ Ends(t)
    /\ UNCHANGED <<page, loading, actions, pending, notice, Elsewhere>>

-----------------------------------------------------------------------------
Serve(t) ==
    \/ ServeList(t) \/ ServeCreate(t) \/ ServeAdd(t) \/ ServeConflict(t) \/ ServeRemove(t)
    \/ Fail(t)

Resume(t) ==
    \/ CreateFavorites(t) \/ PlaylistsRelist(t) \/ PageLoaded(t)
    \/ QuickEnsured(t) \/ QuickDone(t)
    \/ ActionsLoaded(t) \/ ToggleEnsured(t) \/ ToggleDone(t)
    \/ PickerLoaded(t) \/ PickDone(t) \/ CreateDone(t)

Click ==
    \/ \E p \in Pages : Navigate(p)
    \/ \E tr \in Tracks : QuickAdd(tr) \/ OpenActions(tr)
    \/ CloseActions \/ Toggle \/ OpenPicker \/ ClosePicker \/ CreatePlaylist
    \/ \E i \in Lists : Pick(i)

Next == (\E t \in tasks : Serve(t) \/ Resume(t)) \/ Click \/ ClearNotification

Spec == Init /\ [][Next]_vars

-----------------------------------------------------------------------------
(* Properties *)

InFavorites == UNION {lists[i].tracks : i \in Favorites}

\* The player makes one playlist of favourites, although it creates it on demand,
\* from six places, without the service's help: requests that are lost or answered
\* late do not bring a second one, nor do playlists that listeners name like it.  It
\* takes two tasks that both looked in vain before either created it, or more
\* playlists than one answer holds (the service lists the latest changed first, 100
\* at most).
FavoritesOnce ==
    Cardinality(Favorites \ namesakes) > 1 => excused

\* What a dialog and a page say of the playlists is so: the rows of LibraryPage,
\* the tiles of PlaylistsPage, "Remove from Favorites" and "Added".
ShownIsStored ==
    /\ page = "library" /\ ~loading => shown = InFavorites
    /\ page = "playlists" /\ ~loading => shown = DOMAIN lists
    /\ actions.track # NoTrack =>
           (actions.track \in actions.tracks <=> actions.track \in InFavorites)
    /\ picker.track # NoTrack =>
           /\ picker.lists = DOMAIN lists
           /\ \A i \in picker.saved : picker.track \in lists[i].tracks

\* When the last task has ended, no spinner turns and no button is disabled, and
\* what the player shows is what the service has, as long as no request failed, the
\* tasks that change something ran alone, and no listener named a playlist like
\* Favorites (of two the pages show the one changed last).  A success it reports is one even if
\* they did not.
SettledIsTrue ==
    /\ notice.good => notice.track \in InFavorites \cup removed
    /\ tasks = {} =>
        /\ ~loading /\ pending = {} /\ ~actions.saving
        /\ picker.saving = NoList /\ ~picker.creating
        /\ actions.track # NoTrack => ~actions.loading
        /\ picker.track # NoTrack => ~picker.loading
        /\ ~disturbed /\ ~excused /\ namesakes = {} /\ Len(lists) <= PageSize => ShownIsStored
=============================================================================
