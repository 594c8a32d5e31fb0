------------------------------- MODULE Player -------------------------------
(***************************************************************************)
(* The player of the web application: the store                            *)
(* (web/apps/player/src/stores/player.ts) and the PlayerBar component,     *)
(* which owns the audio element and loads it from a stream URL.            *)
(*                                                                         *)
(* The store is global.  A PlayerBar, and its audio element, exist while   *)
(* somebody is signed in (App.tsx): every sign-in mounts a new one.  A     *)
(* handler, the render it causes and the effects of that render are one    *)
(* action: React flushes the effects of a synchronous render before the    *)
(* next event.  A track is the object in memory; two objects may be of one *)
(* song, that is, have the same id.  Volume, duration and the history list *)
(* are left out, and clearQueue, which no page calls.                      *)
(***************************************************************************)
EXTENDS Integers, Sequences, FiniteSets

CONSTANTS
    Tracks,     \* track objects
    Song(_),    \* the id of a track
    NoTrack,    \* currentTrack = null, or no source
    Queues,     \* the queues that pages offer
    Start,      \* the three seconds in which previous goes back a track
    End,        \* the end of every track
    MaxQueue,   \* bound on a queue that grows by addToQueue
    MaxBars,    \* bound on sign-ins
    MaxClicks   \* bound on what the user does

ASSUME PlayerAssumption ==
    /\ NoTrack \notin Tracks
    /\ Queues \subseteq Seq(Tracks) \ {<<>>}
    /\ Start \in Nat /\ End \in Nat /\ Start < End
    /\ MaxQueue \in Nat /\ MaxBars \in Nat /\ MaxClicks \in Nat

Bars == 1 .. MaxBars
NoBar == 0
RepeatModes == {"off", "all", "one"}

VARIABLES
    currentTrack, queue, queueIndex, isPlaying, currentTime, shuffle, repeat,
    bar,        \* the mounted PlayerBar
    mounts,     \* the PlayerBars there have been
    audio,      \* [Bars -> audio element]
    loads,      \* loadTrack calls in flight
    seeking,    \* seekingRef of the mounted bar
    failed,     \* history: the last load of the mounted bar failed, or its stream did
    refused,    \* history: the mounted bar was to play, and the browser refused
    dry,        \* history: a track ended and next had nothing new to play
    hasty,      \* history: isPlaying was FALSE while the track was loading
    clicks

store == <<currentTrack, queue, queueIndex, isPlaying, currentTime, shuffle, repeat>>
history == <<failed, refused, dry, hasty>>
vars == <<store, bar, mounts, audio, loads, seeking, history, clicks>>

-----------------------------------------------------------------------------
\* An audio element: what it plays, whether it is paused, and where it is.
AudioElement == [src: Tracks \cup {NoTrack}, paused: BOOLEAN, at: 0 .. End]
Silent == [src |-> NoTrack, paused |-> TRUE, at |-> 0]

\* A load waits for the stream URL, then for hls.js to parse the manifest.  It is
\* fresh while its requestId is the latest of its bar.
Load == [bar: Bars, track: Tracks, stage: {"url", "parse"}, fresh: BOOLEAN]

Sounding(b) == audio[b].src # NoTrack /\ ~audio[b].paused /\ audio[b].at < End
Loading(b) == \E l \in loads : l.bar = b /\ l.fresh

TypeOK ==
    /\ currentTrack \in Tracks \cup {NoTrack}
    /\ queue \in Seq(Tracks)
    /\ queueIndex \in -1 .. Len(queue) - 1
    /\ isPlaying \in BOOLEAN /\ (isPlaying => currentTrack # NoTrack)
    /\ currentTime \in 0 .. End
    /\ shuffle \in BOOLEAN /\ repeat \in RepeatModes
    /\ bar \in Bars \cup {NoBar} /\ mounts \in 0 .. MaxBars
    /\ audio \in [Bars -> AudioElement]
    /\ loads \subseteq Load
    /\ seeking \in BOOLEAN
    /\ failed \in BOOLEAN /\ refused \in BOOLEAN /\ dry \in BOOLEAN /\ hasty \in BOOLEAN
    /\ clicks \in 0 .. MaxClicks

Init ==
    /\ currentTrack = NoTrack /\ queue = <<>> /\ queueIndex = -1
    /\ isPlaying = FALSE /\ currentTime = 0 /\ shuffle = FALSE /\ repeat = "off"
    /\ bar = NoBar /\ mounts = 0
    /\ audio = [b \in Bars |-> Silent]
    /\ loads = {} /\ seeking = FALSE
    /\ failed = FALSE /\ refused = FALSE /\ dry = FALSE /\ hasty = FALSE
    /\ clicks = 0

-----------------------------------------------------------------------------
(* The audio element *)

\* play() of a track that has ended begins again.
PlayAudio(a) == [a EXCEPT !.paused = FALSE, !.at = IF @ = End THEN 0 ELSE @]
PauseAudio(a) == [a EXCEPT !.paused = TRUE]

\* play().catch(() => {}): the browser may refuse to play, and then the element
\* stays as it is and nobody is told.
Played(a) == {PlayAudio(a), a}

-----------------------------------------------------------------------------
(* The effects of a render *)

\* Mutant: the effect starts the element and never pauses it.
PlayOnly(a) == IF isPlaying' /\ ~isPlaying THEN Played(a) ELSE {a}

\* The play / pause effect: what the element may be after it.
PlayPause(a) ==
    IF isPlaying' = isPlaying THEN {a}
    ELSE IF isPlaying' THEN Played(a) ELSE {PauseAudio(a)}

\* The load effect: hls.js is destroyed, and with it its callback, older calls of
\* getStreamUrl are outdated, and a new one is made.
Reload(b, track) ==
    {[l EXCEPT !.fresh = IF l.bar = b THEN FALSE ELSE @] :
        l \in {k \in loads : k.bar # b \/ k.stage = "url"}}
    \cup {[bar |-> b, track |-> track, stage |-> "url", fresh |-> TRUE]}

\* What the mounted bar does after a change of the store; a is its audio element.
Effects(a) ==
    IF currentTrack' # currentTrack
    THEN /\ \E x \in PlayPause(Silent) : audio' = [audio EXCEPT ![bar] = x]
         /\ loads' = Reload(bar, currentTrack')
         /\ failed' = FALSE /\ refused' = FALSE /\ dry' = FALSE /\ hasty' = FALSE
    ELSE /\ \E x \in PlayPause(a) :
              /\ audio' = [audio EXCEPT ![bar] = x]
              /\ refused' = IF isPlaying' = isPlaying THEN refused ELSE isPlaying' /\ x.paused
         /\ dry' = (dry /\ isPlaying' = isPlaying)
         /\ hasty' = IF isPlaying' = isPlaying THEN hasty ELSE ~isPlaying' /\ Loading(bar)
         /\ UNCHANGED <<loads, failed>>

\* A handler of a page or of the bar.
Click ==
    /\ bar # NoBar /\ clicks < MaxClicks
    /\ clicks' = clicks + 1
    /\ UNCHANGED <<bar, mounts>>

-----------------------------------------------------------------------------
(* The store *)

Positions(q, track) == {i \in 0 .. Len(q) - 1 : Song(q[i + 1]) = Song(track)}

\* findIndex: the first position of the song, or -1.
IndexOf(q, track) ==
    IF Positions(q, track) = {} THEN -1
    ELSE CHOOSE i \in Positions(q, track) : \A j \in Positions(q, track) : i <= j

ActiveIndex ==
    IF queueIndex >= 0 THEN queueIndex
    ELSE IF currentTrack # NoTrack THEN IndexOf(queue, currentTrack) ELSE -1

Choose(i) ==
    /\ currentTrack' = queue[i + 1] /\ queueIndex' = i
    /\ isPlaying' = TRUE /\ currentTime' = 0
    /\ UNCHANGED <<queue, shuffle, repeat>>

Stop ==
    /\ isPlaying' = FALSE
    /\ UNCHANGED <<currentTrack, queue, queueIndex, currentTime, shuffle, repeat>>

\* Mutant: the last track of the queue is never reached.
NextInStoreShort ==
    IF queue = <<>> THEN UNCHANGED store
    ELSE IF shuffle THEN \E i \in 0 .. Len(queue) - 1 : Choose(i)
    ELSE LET following == (IF ActiveIndex >= 0 THEN ActiveIndex ELSE 0) + 1 IN
         IF following < Len(queue) - 1 THEN Choose(following)
         ELSE IF repeat = "all" THEN Choose(0) ELSE Stop

\* next()
NextInStore ==
    IF queue = <<>> THEN UNCHANGED store
    ELSE IF shuffle THEN \E i \in 0 .. Len(queue) - 1 : Choose(i)
    ELSE LET following == (IF ActiveIndex >= 0 THEN ActiveIndex ELSE 0) + 1 IN
         IF following < Len(queue) THEN Choose(following)
         ELSE IF repeat = "all" THEN Choose(0) ELSE Stop

SkipNext == Click /\ NextInStore /\ Effects(audio[bar]) /\ UNCHANGED seeking

\* previous(): past the first seconds the shown time goes back to 0, but nobody
\* tells the audio element.
Previous ==
    /\ Click /\ queue # <<>>
    /\ IF currentTime > Start
       THEN currentTime' = 0 /\ UNCHANGED <<currentTrack, queue, queueIndex, isPlaying, shuffle, repeat>>
       ELSE Choose(IF ActiveIndex > 0 THEN ActiveIndex - 1 ELSE Len(queue) - 1)
    /\ Effects(audio[bar]) /\ UNCHANGED seeking

\* Mutant: the index of the old queue is kept.
PlayKeepsIndex(track, q) ==
    /\ Click
    /\ currentTrack' = track /\ isPlaying' = TRUE /\ currentTime' = 0
    /\ queue' = q
    /\ UNCHANGED <<queueIndex, shuffle, repeat>>
    /\ Effects(audio[bar]) /\ UNCHANGED seeking

\* play(track, queue): every page gives the queue it shows, with the track in it.
Play(track, q) ==
    /\ Click
    /\ currentTrack' = track /\ isPlaying' = TRUE /\ currentTime' = 0
    /\ queue' = q
    /\ queueIndex' = IF IndexOf(q, track) >= 0 THEN IndexOf(q, track) ELSE 0
    /\ UNCHANGED <<shuffle, repeat>>
    /\ Effects(audio[bar]) /\ UNCHANGED seeking

\* playAlbum(tracks)
PlayAlbum(q) ==
    /\ Click
    /\ currentTrack' = q[1] /\ isPlaying' = TRUE /\ currentTime' = 0
    /\ queue' = q /\ queueIndex' = 0
    /\ UNCHANGED <<shuffle, repeat>>
    /\ Effects(audio[bar]) /\ UNCHANGED seeking

\* togglePlay, and pause or resume of the row of the current track.
TogglePlay ==
    /\ Click /\ currentTrack # NoTrack
    /\ isPlaying' = ~isPlaying
    /\ UNCHANGED <<currentTrack, queue, queueIndex, currentTime, shuffle, repeat>>
    /\ Effects(audio[bar]) /\ UNCHANGED seeking

AddToQueue(track) ==
    /\ Click /\ Len(queue) < MaxQueue
    /\ queue' = Append(queue, track)
    /\ UNCHANGED <<currentTrack, queueIndex, isPlaying, currentTime, shuffle, repeat,
                   audio, loads, seeking, history>>

ToggleShuffle ==
    /\ Click
    /\ shuffle' = ~shuffle
    /\ UNCHANGED <<currentTrack, queue, queueIndex, isPlaying, currentTime, repeat,
                   audio, loads, seeking, history>>

ToggleRepeat ==
    /\ Click
    /\ repeat' = CASE repeat = "off" -> "all" [] repeat = "all" -> "one" [] OTHER -> "off"
    /\ UNCHANGED <<currentTrack, queue, queueIndex, isPlaying, currentTime, shuffle,
                   audio, loads, seeking, history>>

-----------------------------------------------------------------------------
(* The seek bar *)

\* handleSeekStart: from now on the shown time stands still, until a seek.
SeekStart ==
    /\ Click /\ ~seeking
    /\ seeking' = TRUE
    /\ UNCHANGED <<store, audio, loads, history>>

\* handleSeek: the range of the bar is empty until a source is there.
Seek(t) ==
    /\ Click /\ audio[bar].src # NoTrack
    /\ currentTime' = t
    /\ audio' = [audio EXCEPT ![bar].at = t]
    /\ seeking' = FALSE
    /\ UNCHANGED <<currentTrack, queue, queueIndex, isPlaying, shuffle, repeat, loads, history>>

-----------------------------------------------------------------------------
(* Events *)

\* Time passes; timeupdate shows it.
Tick(b) ==
    /\ Sounding(b)
    /\ audio' = [audio EXCEPT ![b].at = @ + 1]
    /\ currentTime' = IF b = bar /\ ~seeking THEN audio[b].at + 1 ELSE currentTime
    /\ UNCHANGED <<currentTrack, queue, queueIndex, isPlaying, shuffle, repeat,
                   bar, mounts, loads, seeking, history, clicks>>

AtEnd(b) == audio[b].src # NoTrack /\ ~audio[b].paused /\ audio[b].at = End

\* Mutant: the element is rewound and left paused.
RepeatTrackPaused ==
    /\ audio' = [audio EXCEPT ![bar].at = 0, ![bar].paused = TRUE]
    /\ currentTime' = 0
    /\ UNCHANGED <<currentTrack, queue, queueIndex, isPlaying, shuffle, repeat, loads, history>>

\* onEnded with repeat = "one"
RepeatTrack ==
    LET a == [PauseAudio(audio[bar]) EXCEPT !.at = 0] IN
    /\ \E x \in IF isPlaying THEN Played(a) ELSE {a} :
         /\ audio' = [audio EXCEPT ![bar] = x]
         /\ refused' = (isPlaying /\ x.paused)
    /\ currentTime' = 0
    /\ UNCHANGED <<currentTrack, queue, queueIndex, isPlaying, shuffle, repeat, loads,
                   failed, dry, hasty>>

\* onEnded: next().  If that is the track object that ended, or the queue is empty,
\* no effect runs, and the element stays at its end.
GoOn ==
    /\ NextInStore
    /\ LET a == PauseAudio(audio[bar]) IN
       IF currentTrack' = currentTrack /\ isPlaying' = isPlaying
       THEN /\ audio' = [audio EXCEPT ![bar] = a]
            /\ dry' = (queue = <<>> \/ (queueIndex' >= 0 /\ queue[queueIndex' + 1] = currentTrack))
            /\ UNCHANGED <<loads, failed, refused, hasty>>
       ELSE Effects(a)

\* The browser pauses an element that has ended; only a mounted bar listens.
EndOfTrack(b) ==
    /\ AtEnd(b)
    /\ IF b # bar
       THEN /\ audio' = [audio EXCEPT ![b] = PauseAudio(@)]
            /\ UNCHANGED <<store, loads, history>>
       ELSE IF repeat = "one" THEN RepeatTrack ELSE GoOn
    /\ UNCHANGED <<bar, mounts, seeking, clicks>>

\* Mutant: the request id is taken when the answer comes.
OnUrlUnchecked(l) ==
    /\ l \in loads /\ l.stage = "url"
    /\ loads' = (loads \ {l}) \cup {[l EXCEPT !.stage = "parse", !.fresh = TRUE]}
    /\ UNCHANGED <<store, bar, mounts, audio, seeking, history, clicks>>

\* getStreamUrl answers: hls.js gets the source.
OnUrl(l) ==
    /\ l \in loads /\ l.stage = "url"
    /\ loads' = (loads \ {l}) \cup (IF l.fresh THEN {[l EXCEPT !.stage = "parse"]} ELSE {})
    /\ UNCHANGED <<store, bar, mounts, audio, seeking, history, clicks>>

\* MANIFEST_PARSED: the element is to play, whatever isPlaying says.  One that began
\* to play before it had a source goes on.
OnParsed(l) ==
    LET a == [audio[l.bar] EXCEPT !.src = l.track, !.at = 0] IN
    /\ l \in loads /\ l.stage = "parse"
    /\ loads' = loads \ {l}
    /\ IF l.fresh
       THEN \E x \in Played(a) :
              /\ audio' = [audio EXCEPT ![l.bar] = x]
              /\ refused' = IF l.bar = bar THEN isPlaying /\ x.paused ELSE refused
       ELSE UNCHANGED <<audio, refused>>
    /\ UNCHANGED <<store, bar, mounts, seeking, failed, dry, hasty, clicks>>

\* getStreamUrl fails, or hls.js does: nobody is told.
LoadFails(l) ==
    /\ l \in loads
    /\ loads' = loads \ {l}
    /\ failed' = (failed \/ (l.bar = bar /\ l.fresh))
    /\ UNCHANGED <<store, bar, mounts, audio, seeking, refused, dry, hasty, clicks>>

\* hls.js gives up on a segment: no handler of its errors, so nobody is told, and the
\* element has nothing more to play.
StreamFails(b) ==
    /\ audio[b].src # NoTrack /\ audio[b].at < End
    /\ audio' = [audio EXCEPT ![b].src = NoTrack]
    /\ failed' = (failed \/ b = bar)
    /\ UNCHANGED <<store, bar, mounts, loads, seeking, refused, dry, hasty, clicks>>

-----------------------------------------------------------------------------
(* Signing out and in *)

\* The bar is unmounted, with its listeners and nothing else.
Leave ==
    /\ bar # NoBar
    /\ bar' = NoBar /\ seeking' = FALSE
    /\ UNCHANGED <<store, mounts, audio, loads, history, clicks>>

\* A new bar; the store still has what was played before.
Mount ==
    /\ bar = NoBar /\ mounts < MaxBars
    /\ bar' = mounts + 1 /\ mounts' = mounts + 1
    /\ \E x \in IF isPlaying THEN Played(Silent) ELSE {Silent} :
         audio' = [audio EXCEPT ![bar'] = x]
    /\ loads' = IF currentTrack = NoTrack THEN loads ELSE Reload(bar', currentTrack)
    /\ currentTime' = 0
    /\ failed' = FALSE /\ refused' = FALSE /\ dry' = FALSE /\ hasty' = ~isPlaying
    /\ UNCHANGED <<currentTrack, queue, queueIndex, isPlaying, shuffle, repeat, seeking, clicks>>

-----------------------------------------------------------------------------
UserStep ==
    \/ SkipNext \/ Previous \/ TogglePlay \/ ToggleShuffle \/ ToggleRepeat \/ SeekStart
    \/ \E q \in Queues : \E i \in 1 .. Len(q) : Play(q[i], q)
    \/ \E q \in Queues : PlayAlbum(q)
    \/ \E track \in Tracks : AddToQueue(track)
    \/ \E t \in 0 .. End : Seek(t)

Arrive == \E l \in loads : OnUrl(l) \/ OnParsed(l) \/ LoadFails(l)

Next ==
    \/ UserStep \/ Arrive \/ Leave \/ Mount
    \/ \E b \in Bars : Tick(b) \/ EndOfTrack(b) \/ StreamFails(b)

\* The browser plays what it can, and a request is answered or fails.
Fairness ==
    /\ \A b \in Bars : WF_vars(Tick(b)) /\ WF_vars(EndOfTrack(b))
    /\ WF_vars(Arrive)

Spec == Init /\ [][Next]_vars /\ Fairness

-----------------------------------------------------------------------------
(* Properties *)

\* "Ignore stale responses when the user skips tracks quickly" (PlayerBar.tsx:127):
\* whatever order the answers come in, the mounted element has no source but that
\* of the chosen track, and it is for that track that it still waits.
SourceIsChosen ==
    bar # NoBar =>
      /\ audio[bar].src \in {NoTrack, currentTrack}
      /\ \A l \in loads : l.bar = bar /\ l.fresh => l.track = currentTrack

\* While the button says Pause, the track is heard or on its way, unless its load or
\* its stream failed (nothing retries it), the browser refused to play (play().catch
\* tells nobody), or the track that ended was the one to go on with (no effect runs
\* then).
PlayingIsHeard ==
    bar # NoBar /\ isPlaying =>
      Sounding(bar) \/ AtEnd(bar) \/ Loading(bar) \/ failed \/ refused \/ dry

\* While the button says Play, the element is silent, unless the pause came during
\* the load, or the bar was mounted with a paused track: MANIFEST_PARSED plays.
PausedIsSilent == bar # NoBar /\ ~isPlaying /\ ~hasty => ~Sounding(bar)

\* The button tells what the listener hears, whichever of the element, the store
\* and the loads in flight was the last to change.
SoundAsShown == PlayingIsHeard /\ PausedIsSilent

\* The listener lets a queue repeat, and every track of it loads and may play.
Cycling ==
    /\ bar # NoBar /\ isPlaying /\ repeat = "all" /\ ~shuffle
    /\ ~failed /\ ~refused /\ ~dry
    /\ queueIndex >= 0 /\ currentTrack = queue[queueIndex + 1]
    /\ \A i \in 1 .. Len(queue) : queue[i] # queue[(i % Len(queue)) + 1]

\* A queue that repeats plays every one of its tracks again and again.
ComesRound ==
    \A track \in Tracks :
      <>[](Cycling /\ \E i \in 1 .. Len(queue) : queue[i] = track) =>
        []<>(currentTrack = track /\ \E b \in Bars : b = bar /\ Sounding(b))

\* "Immediately cut off the currently playing audio while the next track loads"
\* (PlayerBar.tsx:112): two elements never sound at once.
OneVoice == \A b, c \in Bars : Sounding(b) /\ Sounding(c) => b = c
=============================================================================
