---------------------------- MODULE PlayerProofs ----------------------------
(***************************************************************************)
(* Theorems about Player, for any tracks, songs, queues and bars: its      *)
(* types, that the element plays the chosen track, and that the button     *)
(* tells what the listener hears.                                          *)
(***************************************************************************)
EXTENDS Player, SequenceTheorems, WellFoundedInduction, TLAPS


-----------------------------------------------------------------------------
(* The inductive invariant *)

\* The bars that have been mounted come first; the others are as they were made.
BarsInv ==
    /\ bar <= mounts
    /\ \A b \in Bars : b > mounts => audio[b] = Silent
    /\ \A l \in loads : l.bar <= mounts

\* A chosen track that is no source yet is on its way, unless its load failed.
SourceComes ==
    bar # NoBar /\ currentTrack # NoTrack /\ audio[bar].src = NoTrack => Loading(bar) \/ failed

\* While the button says Play, and no pause came during the load, the element is
\* paused and nothing is on its way that could start it.
PausedIsPaused ==
    bar # NoBar /\ ~isPlaying /\ ~hasty => audio[bar].paused /\ ~Loading(bar)

IInv ==
    /\ TypeOK /\ BarsInv
    /\ SourceIsChosen /\ SourceComes /\ PlayingIsHeard /\ PausedIsPaused

-----------------------------------------------------------------------------
(* The store *)

\* A set of numbers has a first one.
LEMMA FirstOf ==
    ASSUME NEW S \in SUBSET Nat, S # {}
    PROVE  \E i \in S : \A j \in S : i <= j
  <1>1. IsWellFoundedOn(OpToRel(<, Nat), Nat)
    BY NatLessThanWellFounded
  <1>2. PICK i \in S : \A j \in S : ~(<<j, i>> \in OpToRel(<, Nat))
    BY <1>1, WFMin
  <1>3. \A j \in S : ~(j < i)
    BY <1>2 DEF OpToRel
  <1> QED
    BY <1>3

\* findIndex finds a position of the queue, or -1.
LEMMA IndexOfType ==
    ASSUME NEW q \in Seq(Tracks), NEW track
    PROVE  IndexOf(q, track) \in -1 .. Len(q) - 1
  <1> DEFINE P == Positions(q, track)
  <1>1. P \subseteq 0 .. Len(q) - 1 /\ P \in SUBSET Nat /\ Len(q) \in Nat
    BY DEF Positions
  <1>2. CASE P = {}
    BY <1>1, <1>2 DEF IndexOf
  <1>3. CASE P # {}
    <2> HIDE DEF P
    <2>1. \E i \in P : \A j \in P : i <= j
      BY <1>1, <1>3, FirstOf
    <2>2. IndexOf(q, track) = CHOOSE i \in P : \A j \in P : i <= j
      BY <1>3 DEF IndexOf, P
    <2>3. IndexOf(q, track) \in P
      BY <2>1, <2>2
    <2>4. \A i \in 0 .. Len(q) - 1 : i \in -1 .. Len(q) - 1
      BY <1>1
    <2>5. IndexOf(q, track) \in 0 .. Len(q) - 1
      BY <1>1, <2>3
    <2> QED
      BY <2>4, <2>5
  <1> QED
    BY <1>2, <1>3

StoreType ==
    /\ currentTrack \in Tracks \cup {NoTrack}
    /\ queue \in Seq(Tracks) /\ queueIndex \in -1 .. Len(queue) - 1
    /\ isPlaying \in BOOLEAN /\ (isPlaying => currentTrack # NoTrack)
    /\ currentTime \in 0 .. End /\ shuffle \in BOOLEAN /\ repeat \in RepeatModes

\* Choosing a position of the queue plays its track.
LEMMA ChooseIs ==
    ASSUME TypeOK, NEW i \in 0 .. Len(queue) - 1, Choose(i)
    PROVE  /\ StoreType' /\ isPlaying' = TRUE /\ currentTrack' \in Tracks
           /\ queue' = queue /\ queueIndex' = i /\ currentTrack' = queue[i + 1]
  <1>1. queue \in Seq(Tracks) /\ i + 1 \in 1 .. Len(queue) /\ queueIndex' \in -1 .. Len(queue) - 1
    BY DEF TypeOK, Choose
  <1>2. queue[i + 1] \in Tracks
    BY <1>1
  <1>3. /\ currentTrack' = queue[i + 1] /\ queueIndex' = i /\ isPlaying' = TRUE
        /\ currentTime' = 0 /\ queue' = queue /\ shuffle' = shuffle /\ repeat' = repeat
    BY DEF Choose
  <1>4. 0 \in 0 .. End
    BY PlayerAssumption
  <1> QED
    BY <1>1, <1>2, <1>3, <1>4, PlayerAssumption DEF StoreType, TypeOK

\* next() chooses a position, stops, or has nothing to do.
LEMMA NextInStoreIs ==
    ASSUME TypeOK, NextInStore
    PROVE  \/ queue = <<>> /\ UNCHANGED store
           \/ Stop
           \/ \E i \in 0 .. Len(queue) - 1 : Choose(i)
  <1>1. queue \in Seq(Tracks) /\ queueIndex \in -1 .. Len(queue) - 1 /\ Len(queue) \in Nat
    BY DEF TypeOK
  <1>2. ActiveIndex \in -1 .. Len(queue) - 1
    BY <1>1, IndexOfType DEF ActiveIndex
  <1>3. CASE queue = <<>>
    BY <1>3 DEF NextInStore
  <1>4. CASE queue # <<>> /\ shuffle
    BY <1>4 DEF NextInStore
  <1>5. CASE queue # <<>> /\ ~shuffle
    <2> DEFINE following == (IF ActiveIndex >= 0 THEN ActiveIndex ELSE 0) + 1
    <2>1. following \in Nat /\ 0 \in 0 .. Len(queue) - 1
      BY <1>1, <1>2, <1>5
    <2>2. IF following < Len(queue) THEN Choose(following)
          ELSE IF repeat = "all" THEN Choose(0) ELSE Stop
      BY <1>5 DEF NextInStore
    <2> HIDE DEF following
    <2>3. following < Len(queue) => following \in 0 .. Len(queue) - 1
      BY <1>1, <2>1
    <2> QED
      BY <2>1, <2>2, <2>3
  <1> QED
    BY <1>3, <1>4, <1>5

\* Stopping shows the play button, and nothing else.
LEMMA StopIs ==
    ASSUME TypeOK, Stop
    PROVE  /\ StoreType' /\ isPlaying' = FALSE
           /\ currentTrack' = currentTrack /\ queue' = queue /\ queueIndex' = queueIndex
  BY DEF TypeOK, Stop, StoreType

-----------------------------------------------------------------------------
(* The audio element and the loads *)

\* Playing an element that has a source sounds.
LEMMA PlayAudioIs ==
    ASSUME NEW a \in AudioElement
    PROVE  /\ PlayAudio(a) \in AudioElement /\ PlayAudio(a).src = a.src
           /\ ~PlayAudio(a).paused /\ PlayAudio(a).at < End
  <1>1. End \in Nat /\ 0 < End /\ 0 \in 0 .. End
    BY PlayerAssumption
  <1>2. a.src \in Tracks \cup {NoTrack} /\ a.at \in 0 .. End
    BY DEF AudioElement
  <1> DEFINE at == IF a.at = End THEN 0 ELSE a.at
  <1>3. at \in 0 .. End /\ at < End
    BY <1>1, <1>2
  <1> DEFINE p == [a EXCEPT !.paused = FALSE]
  <1>4. p \in AudioElement /\ p.src = a.src /\ p.at = a.at /\ ~p.paused
    BY DEF AudioElement
  <1>5. PlayAudio(a) = [p EXCEPT !.at = at]
    BY DEF PlayAudio
  <1> HIDE DEF at, p
  <1> QED
    BY <1>3, <1>4, <1>5 DEF AudioElement

LEMMA PauseAudioIs ==
    ASSUME NEW a \in AudioElement
    PROVE  /\ PauseAudio(a) \in AudioElement /\ PauseAudio(a).src = a.src
           /\ PauseAudio(a).paused /\ PauseAudio(a).at = a.at
  BY DEF AudioElement, PauseAudio

LEMMA SilentIs ==
    /\ Silent \in AudioElement /\ Silent.src = NoTrack /\ Silent.paused
    /\ \A track \in Tracks : /\ [Silent EXCEPT !.src = track] \in AudioElement
                             /\ [Silent EXCEPT !.src = track].src = track
  <1>1. 0 \in 0 .. End
    BY PlayerAssumption
  <1>2. Silent \in AudioElement /\ Silent.src = NoTrack /\ Silent.paused
    BY <1>1 DEF AudioElement, Silent
  <1> QED
    BY <1>2 DEF AudioElement

\* An element that is to play sounds, or stays as it is.
LEMMA PlayedIs ==
    ASSUME NEW a \in AudioElement, NEW x \in Played(a)
    PROVE  /\ x \in AudioElement /\ x.src = a.src
           /\ x = a \/ (~x.paused /\ x.at < End)
           /\ x.paused \/ x.at < End \/ x.at = End
  <1>1. x.at \in 0 .. End /\ End \in Nat
    BY PlayAudioIs, PlayerAssumption DEF Played, AudioElement
  <1> QED
    BY <1>1, PlayAudioIs DEF Played

\* The play / pause effect keeps the source.
LEMMA PlayPauseIs ==
    ASSUME NEW a \in AudioElement, isPlaying \in BOOLEAN, isPlaying' \in BOOLEAN,
           NEW x \in PlayPause(a)
    PROVE  /\ x \in AudioElement /\ x.src = a.src
           /\ isPlaying' = isPlaying => x = a
           /\ isPlaying' /\ ~isPlaying => x.paused \/ x.at < End \/ x.at = End
           /\ ~isPlaying' /\ isPlaying => x.paused
  BY PlayedIs, PauseAudioIs DEF PlayPause

\* After a reload the one fresh load of the bar is for the track.
LEMMA ReloadIs ==
    ASSUME loads \subseteq Load, NEW b \in Bars, NEW track \in Tracks
    PROVE  /\ Reload(b, track) \subseteq Load
           /\ \E l \in Reload(b, track) : l.bar = b /\ l.fresh
           /\ \A l \in Reload(b, track) : l.bar = b /\ l.fresh => l.track = track
           /\ \A l \in Reload(b, track) : l.bar = b \/ \E k \in loads : k.bar = l.bar
  <1> DEFINE one == [bar |-> b, track |-> track, stage |-> "url", fresh |-> TRUE]
             old(l) == [l EXCEPT !.fresh = IF l.bar = b THEN FALSE ELSE @]
             S == {k \in loads : k.bar # b \/ k.stage = "url"}
  <1>1. one \in Load /\ one.bar = b /\ one.fresh = TRUE /\ one.track = track
    BY DEF Load
  <1>2. \A l \in Load : /\ old(l) \in Load /\ old(l).bar = l.bar
                        /\ l.bar = b => old(l).fresh = FALSE
    BY DEF Load
  <1>3. Reload(b, track) = {old(l) : l \in S} \cup {one} /\ S \subseteq loads /\ S \subseteq Load
    BY DEF Reload
  <1> HIDE DEF one, old, S
  <1> QED
    BY <1>1, <1>2, <1>3

\* What is said of the mounted bar, with its element x and its loads L.
LEMMA BarIs ==
    ASSUME bar # NoBar
    PROVE  /\ Sounding(bar) <=> audio[bar].src # NoTrack /\ ~audio[bar].paused /\ audio[bar].at < End
           /\ Loading(bar) <=> \E l \in loads : l.bar = bar /\ l.fresh
  BY DEF Sounding, Loading

\* The effects of a render keep the invariant.
LEMMA EffectsStep ==
    ASSUME IInv, bar # NoBar, NEW a \in AudioElement, a.src = audio[bar].src, StoreType',
           Effects(a), UNCHANGED <<bar, mounts>>, seeking' \in BOOLEAN, clicks' \in 0 .. MaxClicks,
           currentTrack' # currentTrack => isPlaying',
           a = audio[bar] \/ isPlaying' # isPlaying \/ currentTrack' # currentTrack
    PROVE  IInv'
  <1>1. /\ TypeOK /\ BarsInv /\ SourceIsChosen /\ SourceComes /\ PlayingIsHeard /\ PausedIsPaused
        /\ bar \in Bars /\ bar' = bar /\ mounts' = mounts /\ loads \subseteq Load
        /\ audio \in [Bars -> AudioElement] /\ isPlaying \in BOOLEAN /\ isPlaying' \in BOOLEAN
    BY DEF IInv, TypeOK, StoreType
  <1>2. CASE currentTrack' # currentTrack
    <2>1. isPlaying' /\ currentTrack' \in Tracks
      BY <1>1, <1>2 DEF StoreType
    <2> PICK t \in Tracks : t = currentTrack'
      BY <2>1
    <2>2. PICK x \in PlayPause(Silent) :
            /\ audio' = [audio EXCEPT ![bar] = x]
            /\ loads' = Reload(bar, t)
            /\ failed' = FALSE /\ refused' = FALSE /\ dry' = FALSE /\ hasty' = FALSE
      BY <1>2 DEF Effects
    <2>3. x \in AudioElement /\ x.src = NoTrack
      BY <1>1, SilentIs, PlayPauseIs
    <2>4. /\ audio' \in [Bars -> AudioElement] /\ audio'[bar].src = NoTrack
          /\ \A b \in Bars \ {bar} : audio'[b] = audio[b]
      BY <1>1, <2>2, <2>3
    <2>5. /\ loads' \subseteq Load
          /\ \E l \in loads' : l.bar = bar /\ l.fresh
          /\ \A l \in loads' : l.bar = bar /\ l.fresh => l.track = t
          /\ \A l \in loads' : l.bar = bar \/ \E k \in loads : k.bar = l.bar
      BY <1>1, <2>2, ReloadIs
    <2>6. TypeOK'
      BY <1>1, <2>2, <2>4, <2>5 DEF TypeOK, StoreType
    <2>7. BarsInv'
      <3>1. bar \in Nat /\ mounts \in Nat /\ bar <= mounts /\ \A b \in Bars : b > mounts => b # bar
        BY <1>1, PlayerAssumption DEF BarsInv, TypeOK, Bars
      <3> QED
        BY <1>1, <2>4, <2>5, <3>1 DEF BarsInv
    <2>8. SourceIsChosen' /\ SourceComes' /\ PlayingIsHeard' /\ PausedIsPaused'
      BY <1>1, <2>1, <2>4, <2>5
      DEF SourceIsChosen, SourceComes, PlayingIsHeard, PausedIsPaused, Loading
    <2> QED
      BY <2>6, <2>7, <2>8 DEF IInv
  <1>3. CASE currentTrack' = currentTrack
    <2>1. PICK x \in PlayPause(a) :
          /\ audio' = [audio EXCEPT ![bar] = x] /\ loads' = loads /\ failed' = failed
          /\ refused' = IF isPlaying' = isPlaying THEN refused ELSE isPlaying' /\ x.paused
          /\ dry' = (dry /\ isPlaying' = isPlaying)
          /\ hasty' = IF isPlaying' = isPlaying THEN hasty ELSE ~isPlaying' /\ Loading(bar)
      BY <1>3 DEF Effects
    <2>2. /\ x \in AudioElement /\ x.src = audio[bar].src
          /\ isPlaying' = isPlaying => x = audio[bar]
          /\ isPlaying' /\ ~isPlaying => x.paused \/ x.at < End \/ x.at = End
          /\ ~isPlaying' /\ isPlaying => x.paused
      BY <1>1, <1>3, PlayPauseIs
    <2>3. /\ audio' \in [Bars -> AudioElement] /\ audio'[bar] = x
          /\ \A b \in Bars \ {bar} : audio'[b] = audio[b]
      BY <1>1, <2>1, <2>2
    <2>4. TypeOK'
      <3>2. x.paused \in BOOLEAN
        BY <2>2 DEF AudioElement
      <3>1. dry' \in BOOLEAN /\ hasty' \in BOOLEAN /\ refused' \in BOOLEAN
        BY <1>1, <2>1, <3>2 DEF TypeOK
      <3> QED
        BY <1>1, <2>1, <2>3, <3>1 DEF TypeOK, StoreType
    <2>5. BarsInv'
      <3>1. bar \in Nat /\ mounts \in Nat /\ bar <= mounts /\ \A b \in Bars : b > mounts => b # bar
        BY <1>1, PlayerAssumption DEF BarsInv, TypeOK, Bars
      <3> QED
        BY <1>1, <2>1, <2>3, <3>1 DEF BarsInv
    <2>6. Loading(bar)' <=> Loading(bar)
      BY <1>1, <2>1 DEF Loading
    <2>7. SourceIsChosen' /\ SourceComes'
      BY <1>1, <1>3, <2>1, <2>2, <2>3, <2>6 DEF SourceIsChosen, SourceComes
    <2>8. PlayingIsHeard'
      <3> SUFFICES ASSUME isPlaying'
                   PROVE (Sounding(bar) \/ AtEnd(bar) \/ Loading(bar) \/ failed \/ refused \/ dry)'
        BY DEF PlayingIsHeard
      <3>1. CASE isPlaying
        BY <1>1, <2>1, <2>2, <2>3, <2>6, <3>1 DEF PlayingIsHeard, Sounding, AtEnd
      <3>2. CASE ~isPlaying
        <4>1. currentTrack # NoTrack /\ (refused' \/ x.at < End \/ x.at = End)
          BY <1>3, <2>1, <2>2, <3>2 DEF StoreType
        <4>2. ~refused' => ~x.paused
          BY <2>1, <3>2
        <4> QED
          BY <1>1, <2>1, <2>2, <2>3, <2>6, <4>1, <4>2 DEF SourceComes, Sounding, AtEnd
      <3> QED
        BY <1>1, <3>1, <3>2
    <2>9. PausedIsPaused'
      BY <1>1, <2>1, <2>2, <2>3, <2>6 DEF PausedIsPaused
    <2> QED
      BY <2>4, <2>5, <2>7, <2>8, <2>9 DEF IInv
  <1> QED
    BY <1>2, <1>3

-----------------------------------------------------------------------------
(* What the user does *)

LEMMA ClickIs ==
    ASSUME IInv, Click
    PROVE  /\ TypeOK /\ bar # NoBar /\ bar \in Bars /\ bar' = bar /\ mounts' = mounts
           /\ clicks' \in 0 .. MaxClicks /\ audio[bar] \in AudioElement
           /\ audio \in [Bars -> AudioElement] /\ seeking \in BOOLEAN
  BY PlayerAssumption DEF IInv, TypeOK, Click

\* A handler that changes the store, and whose element nobody else has touched.
LEMMA HandlerStep ==
    ASSUME IInv, Click, StoreType', Effects(audio[bar]), UNCHANGED seeking,
           currentTrack' # currentTrack => isPlaying'
    PROVE  IInv'
  BY ClickIs, EffectsStep

\* A handler that no effect depends on.
LEMMA SettingStep ==
    ASSUME IInv, StoreType', UNCHANGED <<currentTrack, isPlaying, bar, mounts, audio, loads, history>>,
           seeking' \in BOOLEAN, clicks' \in 0 .. MaxClicks
    PROVE  IInv'
  <1>1. /\ currentTrack' = currentTrack /\ isPlaying' = isPlaying /\ bar' = bar /\ mounts' = mounts
        /\ audio' = audio /\ loads' = loads /\ failed' = failed /\ refused' = refused /\ dry' = dry /\ hasty' = hasty
    BY DEF history
  <1>2. TypeOK'
    BY <1>1 DEF IInv, TypeOK, StoreType
  <1>3. BarsInv'
    BY <1>1 DEF IInv, BarsInv, Silent
  <1>4. SourceIsChosen' /\ SourceComes'
    BY <1>1 DEF IInv, SourceIsChosen, SourceComes, Loading
  <1>5. PlayingIsHeard' /\ PausedIsPaused'
    BY <1>1 DEF IInv, PlayingIsHeard, PausedIsPaused, Loading, Sounding, AtEnd
  <1> QED
    BY <1>2, <1>3, <1>4, <1>5 DEF IInv

LEMMA SkipNextKeeps == ASSUME IInv, SkipNext PROVE IInv'
  <1>1. TypeOK /\ Click /\ NextInStore /\ Effects(audio[bar]) /\ UNCHANGED seeking
    BY DEF IInv, SkipNext
  <1>2. CASE UNCHANGED store
    <2>1. StoreType' /\ currentTrack' = currentTrack
      BY <1>1, <1>2 DEF TypeOK, StoreType, store
    <2> QED
      BY <1>1, <2>1, HandlerStep
  <1>3. CASE Stop
    BY <1>1, <1>3, StopIs, HandlerStep
  <1>4. ASSUME NEW i \in 0 .. Len(queue) - 1, Choose(i) PROVE IInv'
    BY <1>1, <1>4, ChooseIs, HandlerStep
  <1> QED
    BY <1>1, <1>2, <1>3, <1>4, NextInStoreIs

LEMMA PreviousKeeps == ASSUME IInv, Previous PROVE IInv'
  <1>1. TypeOK /\ Click /\ queue # <<>> /\ Effects(audio[bar]) /\ UNCHANGED seeking
    BY DEF IInv, Previous
  <1>2. CASE currentTime > Start
    <2>1. /\ currentTime' = 0
          /\ UNCHANGED <<currentTrack, queue, queueIndex, isPlaying, shuffle, repeat>>
      BY <1>2 DEF Previous
    <2>2. StoreType' /\ currentTrack' = currentTrack
      BY <1>1, <2>1, PlayerAssumption DEF TypeOK, StoreType
    <2> QED
      BY <1>1, <2>2, HandlerStep
  <1>3. CASE ~(currentTime > Start)
    <2> DEFINE i == IF ActiveIndex > 0 THEN ActiveIndex - 1 ELSE Len(queue) - 1
    <2>1. Choose(i)
      BY <1>3 DEF Previous
    <2>2. queue \in Seq(Tracks) /\ queueIndex \in -1 .. Len(queue) - 1 /\ Len(queue) \in Nat
      BY <1>1 DEF TypeOK
    <2>3. ActiveIndex \in -1 .. Len(queue) - 1
      BY <2>2, IndexOfType DEF ActiveIndex
    <2>4. i \in 0 .. Len(queue) - 1
      BY <1>1, <2>2, <2>3
    <2> HIDE DEF i
    <2> QED
      BY <1>1, <2>1, <2>4, ChooseIs, HandlerStep
  <1> QED
    BY <1>2, <1>3

LEMMA PlayKeeps ==
    ASSUME IInv, NEW q \in Queues, NEW i \in 1 .. Len(q), Play(q[i], q)
    PROVE  IInv'
  <1>1. /\ TypeOK /\ Click /\ Effects(audio[bar]) /\ UNCHANGED seeking
        /\ currentTrack' = q[i] /\ isPlaying' = TRUE /\ currentTime' = 0 /\ queue' = q
        /\ queueIndex' = IF IndexOf(q, q[i]) >= 0 THEN IndexOf(q, q[i]) ELSE 0
        /\ shuffle' = shuffle /\ repeat' = repeat
    BY DEF IInv, Play
  <1>2. q \in Seq(Tracks) /\ q[i] \in Tracks /\ Len(q) \in Nat /\ 1 <= Len(q)
    BY PlayerAssumption
  <1>3. IndexOf(q, q[i]) \in -1 .. Len(q) - 1
    BY <1>2, IndexOfType
  <1>4. queueIndex' \in -1 .. Len(q) - 1
    BY <1>1, <1>2, <1>3
  <1>5. StoreType'
    BY <1>1, <1>2, <1>4, PlayerAssumption DEF TypeOK, StoreType
  <1> QED
    BY <1>1, <1>5, HandlerStep

LEMMA PlayAlbumKeeps == ASSUME IInv, NEW q \in Queues, PlayAlbum(q) PROVE IInv'
  <1>1. /\ TypeOK /\ Click /\ Effects(audio[bar]) /\ UNCHANGED seeking
        /\ currentTrack' = q[1] /\ isPlaying' = TRUE /\ currentTime' = 0 /\ queue' = q
        /\ queueIndex' = 0 /\ shuffle' = shuffle /\ repeat' = repeat
    BY DEF IInv, PlayAlbum
  <1>2. q \in Seq(Tracks) /\ q # <<>>
    BY PlayerAssumption
  <1>3. Len(q) \in Nat /\ 1 <= Len(q) /\ q[1] \in Tracks
    BY <1>2
  <1>4. queueIndex' \in -1 .. Len(q) - 1
    BY <1>1, <1>3
  <1>5. StoreType'
    BY <1>1, <1>2, <1>3, <1>4, PlayerAssumption DEF TypeOK, StoreType
  <1> QED
    BY <1>1, <1>5, HandlerStep

LEMMA TogglePlayKeeps == ASSUME IInv, TogglePlay PROVE IInv'
  <1>1. /\ TypeOK /\ Click /\ Effects(audio[bar]) /\ UNCHANGED seeking
        /\ currentTrack # NoTrack /\ isPlaying' = ~isPlaying
        /\ UNCHANGED <<currentTrack, queue, queueIndex, currentTime, shuffle, repeat>>
    BY DEF IInv, TogglePlay
  <1>2. StoreType'
    BY <1>1 DEF TypeOK, StoreType
  <1> QED
    BY <1>1, <1>2, HandlerStep

LEMMA AddToQueueKeeps == ASSUME IInv, NEW track \in Tracks, AddToQueue(track) PROVE IInv'
  <1>1. /\ TypeOK /\ Click /\ queue' = Append(queue, track)
        /\ UNCHANGED <<currentTrack, queueIndex, isPlaying, currentTime, shuffle, repeat,
                       audio, loads, seeking, history>>
    BY DEF IInv, AddToQueue
  <1>2. queue' \in Seq(Tracks) /\ Len(queue') = Len(queue) + 1 /\ Len(queue) \in Nat
    BY <1>1, AppendProperties DEF TypeOK
  <1>3. queueIndex' \in -1 .. Len(queue') - 1
    BY <1>1, <1>2 DEF TypeOK
  <1>4. StoreType'
    BY <1>1, <1>2, <1>3 DEF TypeOK, StoreType
  <1> QED
    BY <1>1, <1>4, ClickIs, SettingStep

LEMMA ToggleKeeps == ASSUME IInv, ToggleShuffle \/ ToggleRepeat PROVE IInv'
  <1>1. /\ TypeOK /\ Click
        /\ UNCHANGED <<currentTrack, queue, queueIndex, isPlaying, currentTime,
                       audio, loads, seeking, history>>
    BY DEF IInv, ToggleShuffle, ToggleRepeat
  <1>2. shuffle' \in BOOLEAN /\ repeat' \in RepeatModes
    BY <1>1 DEF ToggleShuffle, ToggleRepeat, RepeatModes, TypeOK
  <1>3. StoreType'
    BY <1>1, <1>2 DEF TypeOK, StoreType
  <1> QED
    BY <1>1, <1>3, ClickIs, SettingStep

LEMMA SeekStartKeeps == ASSUME IInv, SeekStart PROVE IInv'
  <1>1. TypeOK /\ Click /\ seeking' = TRUE /\ UNCHANGED <<store, audio, loads, history>>
    BY DEF IInv, SeekStart
  <1>2. StoreType' /\ UNCHANGED <<currentTrack, isPlaying>>
    BY <1>1 DEF TypeOK, StoreType, store
  <1> QED
    BY <1>1, <1>2, ClickIs, SettingStep

\* Another place in the track: the element has its source, and plays or not, as before.
LEMMA MovedStep ==
    ASSUME IInv, NEW b \in Bars, audio[b].src # NoTrack, NEW x \in AudioElement,
           x.src = audio[b].src, audio' = [audio EXCEPT ![b] = x], StoreType',
           UNCHANGED <<currentTrack, isPlaying, bar, mounts, loads, failed, hasty>>,
           dry' \in BOOLEAN, refused' \in BOOLEAN, seeking' \in BOOLEAN, clicks' \in 0 .. MaxClicks,
           b = bar /\ isPlaying =>
               ~x.paused \/ dry' \/ refused'
                \/ (x.paused = audio[b].paused /\ dry' = dry /\ refused' = refused),
           b = bar /\ ~isPlaying => x.paused \/ x.paused = audio[b].paused,
           b # bar => dry' = dry /\ refused' = refused
    PROVE  IInv'
  <1>1. /\ TypeOK /\ BarsInv /\ SourceIsChosen /\ SourceComes /\ PlayingIsHeard /\ PausedIsPaused
        /\ bar' = bar /\ mounts' = mounts /\ audio \in [Bars -> AudioElement]
        /\ currentTrack' = currentTrack /\ isPlaying' = isPlaying /\ loads' = loads
        /\ failed' = failed /\ hasty' = hasty /\ x.at \in 0 .. End /\ End \in Nat
    BY PlayerAssumption DEF IInv, TypeOK, AudioElement
  <1>2. /\ audio' \in [Bars -> AudioElement] /\ audio'[b] = x
        /\ \A d \in Bars \ {b} : audio'[d] = audio[d]
    BY <1>1
  <1>3. TypeOK'
    BY <1>1, <1>2 DEF TypeOK, StoreType
  <1>4. BarsInv'
    <2>1. ~(b > mounts)
      BY <1>1 DEF BarsInv, Silent
    <2> QED
      BY <1>1, <1>2, <2>1 DEF BarsInv
  <1>5. (Loading(bar)' <=> Loading(bar)) /\ (bar # NoBar => bar \in Bars)
    BY <1>1 DEF Loading, TypeOK
  <1>6. SourceIsChosen' /\ SourceComes'
    BY <1>1, <1>2, <1>5 DEF SourceIsChosen, SourceComes
  <1>7. PlayingIsHeard'
    BY <1>1, <1>2, <1>5 DEF PlayingIsHeard, Sounding, AtEnd
  <1>8. PausedIsPaused'
    BY <1>1, <1>2, <1>5 DEF PausedIsPaused
  <1> QED
    BY <1>3, <1>4, <1>6, <1>7, <1>8 DEF IInv

LEMMA SeekKeeps == ASSUME IInv, NEW t \in 0 .. End, Seek(t) PROVE IInv'
  <1>1. /\ Click /\ audio[bar].src # NoTrack /\ currentTime' = t
        /\ audio' = [audio EXCEPT ![bar].at = t] /\ seeking' = FALSE
        /\ UNCHANGED <<currentTrack, queue, queueIndex, isPlaying, shuffle, repeat, loads>>
        /\ failed' = failed /\ refused' = refused /\ dry' = dry /\ hasty' = hasty
    BY DEF Seek, history
  <1>2. /\ TypeOK /\ bar \in Bars /\ bar' = bar /\ mounts' = mounts /\ clicks' \in 0 .. MaxClicks
        /\ audio[bar] \in AudioElement /\ audio \in [Bars -> AudioElement] /\ bar # NoBar
    BY <1>1, ClickIs
  <1> DEFINE x == [audio[bar] EXCEPT !.at = t]
  <1>3. audio' = [audio EXCEPT ![bar] = x]
    BY <1>1
  <1>4. x \in AudioElement /\ x.src = audio[bar].src /\ x.paused = audio[bar].paused /\ x.at = t
    BY <1>2 DEF AudioElement
  <1>5. /\ StoreType' /\ dry' \in BOOLEAN /\ refused' \in BOOLEAN /\ isPlaying \in BOOLEAN
    BY <1>1, <1>2 DEF TypeOK, StoreType
  <1> HIDE DEF x
  <1> QED
    BY <1>1, <1>2, <1>3, <1>4, <1>5, MovedStep

-----------------------------------------------------------------------------
(* Events *)

LEMMA TickKeeps == ASSUME IInv, NEW b \in Bars, Tick(b) PROVE IInv'
  <1>1. /\ TypeOK /\ audio[b].src # NoTrack /\ ~audio[b].paused /\ audio[b].at < End
        /\ audio' = [audio EXCEPT ![b].at = @ + 1]
        /\ currentTime' = IF b = bar /\ ~seeking THEN audio[b].at + 1 ELSE currentTime
        /\ UNCHANGED <<currentTrack, queue, queueIndex, isPlaying, shuffle, repeat,
                       bar, mounts, loads, seeking, clicks>>
        /\ failed' = failed /\ refused' = refused /\ dry' = dry /\ hasty' = hasty
    BY DEF IInv, Tick, Sounding, history
  <1>2. audio[b] \in AudioElement /\ audio[b].at + 1 \in 0 .. End
    <2>1. audio[b] \in AudioElement /\ audio[b].at \in 0 .. End /\ End \in Nat
      BY <1>1, PlayerAssumption DEF TypeOK, AudioElement
    <2> QED
      BY <1>1, <2>1
  <1> DEFINE x == [audio[b] EXCEPT !.at = @ + 1]
  <1>3. audio' = [audio EXCEPT ![b] = x]
    BY <1>1
  <1>4. x \in AudioElement /\ x.src = audio[b].src /\ x.paused = audio[b].paused
    BY <1>2 DEF AudioElement
  <1>5. /\ StoreType' /\ dry' \in BOOLEAN /\ refused' \in BOOLEAN
        /\ isPlaying \in BOOLEAN /\ seeking' \in BOOLEAN
        /\ clicks' \in 0 .. MaxClicks
    BY <1>1, <1>2 DEF TypeOK, StoreType
  <1> HIDE DEF x
  <1> QED
    BY <1>1, <1>3, <1>4, <1>5, MovedStep

LEMMA RepeatTrackKeeps ==
    ASSUME IInv, AtEnd(bar), bar # NoBar, RepeatTrack, UNCHANGED <<bar, mounts, seeking, clicks>>
    PROVE  IInv'
  <1>1. /\ TypeOK /\ audio[bar].src # NoTrack /\ currentTime' = 0
        /\ UNCHANGED <<currentTrack, queue, queueIndex, isPlaying, shuffle, repeat, loads>>
        /\ failed' = failed /\ dry' = dry /\ hasty' = hasty
    BY DEF IInv, AtEnd, RepeatTrack
  <1>2. /\ bar \in Bars /\ audio[bar] \in AudioElement /\ isPlaying \in BOOLEAN
        /\ DOMAIN audio = Bars /\ 0 \in 0 .. End
    BY <1>1, PlayerAssumption DEF TypeOK
  <1> DEFINE a == [PauseAudio(audio[bar]) EXCEPT !.at = 0]
  <1>3. PICK x \in IF isPlaying THEN Played(a) ELSE {a} :
           audio' = [audio EXCEPT ![bar] = x] /\ refused' = (isPlaying /\ x.paused)
    BY DEF RepeatTrack
  <1>4. a \in AudioElement /\ a.src = audio[bar].src /\ a.paused
    BY <1>2, PauseAudioIs DEF AudioElement
  <1> HIDE DEF a
  <1>5. x \in AudioElement /\ x.src = audio[bar].src /\ (~isPlaying => x.paused)
    BY <1>2, <1>3, <1>4, PlayedIs
  <1>7. x.paused \in BOOLEAN
    BY <1>5 DEF AudioElement
  <1>6. /\ StoreType' /\ dry' \in BOOLEAN /\ refused' \in BOOLEAN
        /\ seeking' \in BOOLEAN /\ clicks' \in 0 .. MaxClicks
        /\ isPlaying => ~x.paused \/ refused'
    BY <1>1, <1>2, <1>3, <1>7 DEF TypeOK, StoreType
  <1> QED
    BY <1>1, <1>2, <1>3, <1>5, <1>6, MovedStep

LEMMA GoOnKeeps ==
    ASSUME IInv, AtEnd(bar), bar # NoBar, GoOn, UNCHANGED <<bar, mounts, seeking, clicks>>
    PROVE  IInv'
  <1> DEFINE a == PauseAudio(audio[bar])
  <1>1. /\ TypeOK /\ bar \in Bars /\ audio[bar] \in AudioElement /\ audio[bar].src # NoTrack
        /\ seeking' \in BOOLEAN /\ clicks' \in 0 .. MaxClicks /\ isPlaying \in BOOLEAN
    BY DEF IInv, AtEnd, TypeOK
  <1>2. a \in AudioElement /\ a.src = audio[bar].src /\ a.paused
    BY <1>1, PauseAudioIs
  <1>3. NextInStore
    BY DEF GoOn
  <1>4. /\ IF currentTrack' = currentTrack /\ isPlaying' = isPlaying
           THEN /\ audio' = [audio EXCEPT ![bar] = a]
                /\ dry' = (queue = <<>> \/ (queueIndex' >= 0 /\ queue[queueIndex' + 1] = currentTrack))
                /\ UNCHANGED <<loads, failed, refused, hasty>>
           ELSE Effects(a)
    BY DEF GoOn
  <1> HIDE DEF a
  <1>5. /\ StoreType' /\ (currentTrack' # currentTrack => isPlaying')
        /\ isPlaying /\ isPlaying' =>
             queue = <<>> \/ (queueIndex' >= 0 /\ queue[queueIndex' + 1] = currentTrack')
    <2>1. CASE UNCHANGED store /\ queue = <<>>
      BY <1>1, <2>1 DEF TypeOK, StoreType, store
    <2>2. CASE Stop
      BY <1>1, <2>2, StopIs
    <2>3. ASSUME NEW i \in 0 .. Len(queue) - 1, Choose(i)
          PROVE  /\ StoreType' /\ isPlaying' /\ queueIndex' = i /\ currentTrack' = queue[i + 1]
      BY <1>1, <2>3, ChooseIs
    <2> QED
      BY <1>1, <1>3, <2>1, <2>2, <2>3, NextInStoreIs
  <1>6. CASE currentTrack' = currentTrack /\ isPlaying' = isPlaying
    <2>1. /\ audio' = [audio EXCEPT ![bar] = a] /\ UNCHANGED <<loads, failed, refused, hasty>>
          /\ dry' \in BOOLEAN /\ refused' \in BOOLEAN /\ (isPlaying => dry')
      BY <1>1, <1>4, <1>5, <1>6 DEF TypeOK
    <2> QED
      BY <1>1, <1>2, <1>5, <1>6, <2>1, MovedStep
  <1>7. CASE ~(currentTrack' = currentTrack /\ isPlaying' = isPlaying)
    BY <1>1, <1>2, <1>4, <1>5, <1>7, EffectsStep
  <1> QED
    BY <1>6, <1>7

LEMMA EndOfTrackKeeps == ASSUME IInv, NEW b \in Bars, EndOfTrack(b) PROVE IInv'
  <1>1. TypeOK /\ AtEnd(b) /\ UNCHANGED <<bar, mounts, seeking, clicks>>
    BY DEF IInv, EndOfTrack
  <1>2. CASE b # bar
    <2> DEFINE a == PauseAudio(audio[b])
    <2>1. /\ audio' = [audio EXCEPT ![b] = a] /\ UNCHANGED <<store, loads>>
          /\ failed' = failed /\ refused' = refused /\ dry' = dry /\ hasty' = hasty
      BY <1>2 DEF EndOfTrack, history
    <2>2. /\ audio[b] \in AudioElement /\ audio[b].src # NoTrack
          /\ seeking' \in BOOLEAN /\ clicks' \in 0 .. MaxClicks
      BY <1>1 DEF TypeOK, AtEnd
    <2>3. a \in AudioElement /\ a.src = audio[b].src
      BY <2>2, PauseAudioIs
    <2> HIDE DEF a
    <2>4. /\ StoreType' /\ UNCHANGED <<currentTrack, isPlaying>>
          /\ dry' \in BOOLEAN /\ refused' \in BOOLEAN
      BY <1>1, <2>1 DEF TypeOK, StoreType, store
    <2> QED
      BY <1>1, <1>2, <2>1, <2>2, <2>3, <2>4, MovedStep
  <1>3. CASE b = bar
    <2>1. bar # NoBar
      BY <1>3, PlayerAssumption DEF Bars, NoBar
    <2> QED
      BY <1>1, <1>3, <2>1, RepeatTrackKeeps, GoOnKeeps DEF EndOfTrack
  <1> QED
    BY <1>2, <1>3

\* An answer that goes on, or is too late to.
LEMMA OnUrlKeeps == ASSUME IInv, NEW l \in loads, OnUrl(l) PROVE IInv'
  <1>1. /\ TypeOK /\ loads \subseteq Load
        /\ loads' = (loads \ {l}) \cup (IF l.fresh THEN {[l EXCEPT !.stage = "parse"]} ELSE {})
        /\ UNCHANGED <<store, bar, mounts, audio, seeking, clicks>>
        /\ failed' = failed /\ refused' = refused /\ dry' = dry /\ hasty' = hasty
    BY DEF IInv, TypeOK, OnUrl, history
  <1> DEFINE m == [l EXCEPT !.stage = "parse"]
  <1>2. m \in Load /\ m.bar = l.bar /\ m.fresh = l.fresh /\ m.track = l.track
    BY <1>1 DEF Load
  <1>3. loads' \subseteq loads \cup {m} /\ (l.fresh => m \in loads') /\ loads \ {l} \subseteq loads'
    BY <1>1
  <1> HIDE DEF m
  <1>4. /\ UNCHANGED <<currentTrack, queue, queueIndex, isPlaying, currentTime, shuffle, repeat>>
    BY <1>1 DEF store
  <1>5. TypeOK'
    BY <1>1, <1>2, <1>3, <1>4 DEF TypeOK
  <1>6. Loading(bar)' <=> Loading(bar)
    BY <1>1, <1>2, <1>3 DEF Loading
  <1>7. BarsInv'
    BY <1>1, <1>2, <1>3 DEF IInv, BarsInv, Silent
  <1>8. SourceIsChosen' /\ SourceComes'
    BY <1>1, <1>2, <1>3, <1>4, <1>6 DEF IInv, SourceIsChosen, SourceComes
  <1>9. PlayingIsHeard' /\ PausedIsPaused'
    BY <1>1, <1>4, <1>6 DEF IInv, PlayingIsHeard, PausedIsPaused, Sounding, AtEnd
  <1> QED
    BY <1>5, <1>7, <1>8, <1>9 DEF IInv

LEMMA OnParsedKeeps == ASSUME IInv, NEW l \in loads, OnParsed(l) PROVE IInv'
  <1> DEFINE a == [audio[l.bar] EXCEPT !.src = l.track, !.at = 0]
  <1>1. /\ TypeOK /\ l \in Load /\ loads' = loads \ {l}
        /\ UNCHANGED <<store, bar, mounts, seeking, clicks>>
        /\ failed' = failed /\ dry' = dry /\ hasty' = hasty
        /\ BarsInv /\ SourceIsChosen /\ SourceComes /\ PlayingIsHeard /\ PausedIsPaused
    BY DEF IInv, TypeOK, OnParsed
  <1>2. /\ l.bar \in Bars /\ l.track \in Tracks /\ l.track # NoTrack /\ l.fresh \in BOOLEAN
        /\ audio[l.bar] \in AudioElement /\ isPlaying \in BOOLEAN /\ refused \in BOOLEAN
    BY <1>1, PlayerAssumption DEF Load, TypeOK
  <1>13. a \in AudioElement /\ a.src = l.track /\ a.at = 0
    <2> DEFINE y == [audio[l.bar] EXCEPT !.src = l.track]
    <2>1. 0 \in 0 .. End
      BY PlayerAssumption
    <2>2. y \in AudioElement /\ y.src = l.track
      BY <1>2 DEF AudioElement
    <2>3. a = [y EXCEPT !.at = 0]
      OBVIOUS
    <2> HIDE DEF y, a
    <2> QED
      BY <2>1, <2>2, <2>3 DEF AudioElement
  <1>14. PICK x \in Played(a) :
           /\ audio' = IF l.fresh THEN [audio EXCEPT ![l.bar] = x] ELSE audio
           /\ refused' = IF l.fresh /\ l.bar = bar THEN isPlaying /\ x.paused ELSE refused
    <2>1. CASE l.fresh
      BY <2>1 DEF OnParsed
    <2>2. CASE ~l.fresh
      <3>1. audio' = audio /\ refused' = refused
        BY <2>2 DEF OnParsed
      <3>2. a \in Played(a)
        BY DEF Played
      <3> QED
        BY <2>2, <3>1, <3>2
    <2> QED
      BY <2>1, <2>2
  <1> HIDE DEF a
  <1>3. /\ x \in AudioElement /\ x.src = l.track /\ x.at < End /\ x.paused \in BOOLEAN
    <2>1. 0 < End
      BY PlayerAssumption
    <2> QED
      BY <1>13, <1>14, <2>1, PlayedIs DEF AudioElement
  <1>4. /\ UNCHANGED <<currentTrack, queue, queueIndex, isPlaying, currentTime, shuffle, repeat>>
    BY <1>1 DEF store
  <1>5. /\ audio' \in [Bars -> AudioElement] /\ loads' \subseteq Load
        /\ l.fresh => audio'[l.bar] = x
        /\ \A b \in Bars : ~l.fresh \/ b # l.bar => audio'[b] = audio[b]
    BY <1>1, <1>2, <1>3, <1>14 DEF TypeOK
  <1>15. refused' \in BOOLEAN /\ (l.fresh /\ l.bar = bar /\ isPlaying /\ x.paused => refused')
    BY <1>2, <1>3, <1>14
  <1>6. TypeOK'
    BY <1>1, <1>4, <1>5, <1>15 DEF TypeOK
  <1>7. BarsInv'
    <2>1. \A b \in Bars : b > mounts => b # l.bar
      BY <1>1, <1>2, PlayerAssumption DEF BarsInv, TypeOK, Bars
    <2> QED
      BY <1>1, <1>5, <2>1 DEF BarsInv
  <1>8. SourceIsChosen'
    BY <1>1, <1>2, <1>3, <1>4, <1>5 DEF SourceIsChosen, TypeOK
  <1>9. ~(l.fresh /\ l.bar = bar) => /\ Loading(bar)' <=> Loading(bar)
                                     /\ bar # NoBar => audio'[bar] = audio[bar]
                                     /\ refused' = refused
    BY <1>1, <1>5, <1>14 DEF Loading, TypeOK
  <1>10. SourceComes'
    BY <1>1, <1>2, <1>3, <1>4, <1>5, <1>9 DEF SourceComes
  <1>11. PlayingIsHeard'
    BY <1>1, <1>2, <1>3, <1>4, <1>5, <1>9, <1>15 DEF PlayingIsHeard, Sounding, AtEnd
  <1>12. PausedIsPaused'
    BY <1>1, <1>4, <1>9 DEF PausedIsPaused, Loading
  <1> QED
    BY <1>6, <1>7, <1>8, <1>10, <1>11, <1>12 DEF IInv

LEMMA LoadFailsKeeps == ASSUME IInv, NEW l \in loads, LoadFails(l) PROVE IInv'
  <1>1. /\ TypeOK /\ loads \subseteq Load /\ loads' = loads \ {l}
        /\ failed' = (failed \/ (l.bar = bar /\ l.fresh))
        /\ UNCHANGED <<currentTrack, queue, queueIndex, isPlaying, currentTime, shuffle, repeat,
                       bar, mounts, audio, seeking, refused, dry, hasty, clicks>>
    BY DEF IInv, TypeOK, LoadFails, store
  <1>2. failed' \in BOOLEAN /\ (failed => failed')
    BY <1>1 DEF TypeOK, Load
  <1>3. TypeOK'
    BY <1>1, <1>2 DEF TypeOK
  <1>4. Loading(bar) => Loading(bar)' \/ failed'
    BY <1>1 DEF Loading
  <1>5. BarsInv'
    BY <1>1 DEF IInv, BarsInv, Silent
  <1>6. SourceIsChosen' /\ SourceComes'
    BY <1>1, <1>2, <1>4 DEF IInv, SourceIsChosen, SourceComes
  <1>7. PlayingIsHeard'
    BY <1>1, <1>2, <1>4 DEF IInv, PlayingIsHeard, Sounding, AtEnd
  <1>8. PausedIsPaused'
    BY <1>1 DEF IInv, PausedIsPaused, Loading
  <1> QED
    BY <1>3, <1>5, <1>6, <1>7, <1>8 DEF IInv

LEMMA StreamFailsKeeps == ASSUME IInv, NEW b \in Bars, StreamFails(b) PROVE IInv'
  <1> DEFINE x == [audio[b] EXCEPT !.src = NoTrack]
  <1>1. /\ TypeOK /\ audio[b].src # NoTrack /\ audio' = [audio EXCEPT ![b] = x]
        /\ failed' = (failed \/ b = bar)
        /\ UNCHANGED <<currentTrack, queue, queueIndex, isPlaying, currentTime, shuffle, repeat,
                       bar, mounts, loads, seeking, refused, dry, hasty, clicks>>
        /\ BarsInv /\ SourceIsChosen /\ SourceComes /\ PlayingIsHeard /\ PausedIsPaused
    BY DEF IInv, StreamFails, store
  <1>2. audio \in [Bars -> AudioElement] /\ failed \in BOOLEAN /\ (bar # NoBar => bar \in Bars)
    BY <1>1 DEF TypeOK
  <1>3. x \in AudioElement /\ x.src = NoTrack /\ x.paused = audio[b].paused
    BY <1>2 DEF AudioElement
  <1> HIDE DEF x
  <1>4. /\ audio' \in [Bars -> AudioElement] /\ audio'[b] = x
        /\ \A d \in Bars \ {b} : audio'[d] = audio[d]
    BY <1>1, <1>2, <1>3
  <1>5. TypeOK'
    BY <1>1, <1>2, <1>4 DEF TypeOK
  <1>6. BarsInv'
    <2>1. ~(b > mounts)
      BY <1>1 DEF BarsInv, Silent
    <2> QED
      BY <1>1, <1>4, <2>1 DEF BarsInv
  <1>7. Loading(bar)' <=> Loading(bar)
    BY <1>1 DEF Loading
  <1>8. SourceIsChosen' /\ SourceComes'
    BY <1>1, <1>2, <1>3, <1>4, <1>7 DEF SourceIsChosen, SourceComes
  <1>9. PlayingIsHeard'
    BY <1>1, <1>2, <1>4, <1>7 DEF PlayingIsHeard, Sounding, AtEnd
  <1>10. PausedIsPaused'
    BY <1>1, <1>2, <1>3, <1>4, <1>7 DEF PausedIsPaused
  <1> QED
    BY <1>5, <1>6, <1>8, <1>9, <1>10 DEF IInv

-----------------------------------------------------------------------------
(* Signing out and in *)

LEMMA LeaveKeeps == ASSUME IInv, Leave PROVE IInv'
  <1>1. /\ bar' = NoBar /\ seeking' = FALSE /\ mounts' = mounts /\ audio' = audio /\ loads' = loads
        /\ clicks' = clicks /\ UNCHANGED <<store, history>> /\ TypeOK
    BY DEF IInv, Leave
  <1>2. TypeOK'
    BY <1>1 DEF TypeOK, store, history
  <1>3. BarsInv'
    BY <1>1, PlayerAssumption DEF IInv, TypeOK, BarsInv, NoBar, Silent
  <1> QED
    BY <1>1, <1>2, <1>3
    DEF IInv, SourceIsChosen, SourceComes, PlayingIsHeard, PausedIsPaused, NoBar

LEMMA MountKeeps == ASSUME IInv, Mount PROVE IInv'
  <1>1. /\ TypeOK /\ BarsInv /\ bar = NoBar /\ mounts < MaxBars
        /\ bar' = mounts + 1 /\ mounts' = mounts + 1
        /\ currentTime' = 0
        /\ failed' = FALSE /\ refused' = FALSE /\ dry' = FALSE /\ hasty' = ~isPlaying
        /\ UNCHANGED <<currentTrack, queue, queueIndex, isPlaying, shuffle, repeat, seeking, clicks>>
    BY DEF IInv, Mount
  <1> PICK b \in Bars : b = mounts + 1
    BY <1>1, PlayerAssumption DEF TypeOK, Bars
  <1>2. PICK x \in IF isPlaying THEN Played(Silent) ELSE {Silent} :
        /\ audio' = [audio EXCEPT ![b] = x]
        /\ loads' = IF currentTrack = NoTrack THEN loads ELSE Reload(b, currentTrack)
    BY <1>1 DEF Mount
  <1>3. x \in AudioElement /\ x.src = NoTrack /\ (~isPlaying => x.paused)
    BY <1>1, <1>2, SilentIs, PlayedIs
  <1>4. /\ audio' \in [Bars -> AudioElement] /\ audio'[b] = x
        /\ \A d \in Bars \ {b} : audio'[d] = audio[d]
    BY <1>1, <1>2, <1>3 DEF TypeOK
  <1>5. mounts \in Nat /\ 0 \in 0 .. End /\ mounts' \in 0 .. MaxBars /\ b # NoBar /\ b > mounts
    BY <1>1, PlayerAssumption DEF TypeOK, Bars, NoBar
  <1>6. \A l \in loads : l.bar <= mounts /\ l.bar # b
    BY <1>1, <1>5 DEF BarsInv
  <1>7. /\ loads' \subseteq Load
        /\ currentTrack # NoTrack => \E l \in loads' : l.bar = b /\ l.fresh
        /\ \A l \in loads' : l.bar = b /\ l.fresh => l.track = currentTrack
        /\ \A l \in loads' : l.bar = b \/ \E k \in loads : k.bar = l.bar
    <2>1. CASE currentTrack = NoTrack
      BY <1>1, <1>2, <1>6, <2>1 DEF TypeOK
    <2>2. CASE currentTrack # NoTrack
      <3>1. currentTrack \in Tracks /\ loads \subseteq Load
        BY <1>1, <2>2 DEF TypeOK
      <3> QED
        BY <1>2, <2>2, <3>1, ReloadIs
    <2> QED
      BY <2>1, <2>2
  <1>8. TypeOK'
    <2>1. hasty' \in BOOLEAN
      BY <1>1 DEF TypeOK
    <2> QED
      BY <1>1, <1>4, <1>5, <1>7, <2>1 DEF TypeOK
  <1>9. BarsInv'
    <2>1. /\ bar' = b /\ mounts' = b /\ b \in Nat
          /\ \A d \in Bars : d > b => d # b /\ d > mounts
      BY <1>1, <1>5 DEF Bars
    <2>2. \A d \in Bars : d > mounts' => audio'[d] = Silent
      BY <1>1, <1>4, <2>1 DEF BarsInv
    <2>3. ASSUME NEW l \in loads' PROVE l.bar <= b
      <3>1. l.bar \in Nat
        BY <1>7 DEF Load, Bars
      <3>2. CASE l.bar = b
        BY <2>1, <3>2
      <3>3. CASE l.bar # b
        <4>1. PICK k \in loads : k.bar = l.bar
          BY <1>7, <3>3
        <4>2. l.bar <= mounts
          BY <1>6, <4>1
        <4> QED
          BY <1>5, <2>1, <3>1, <4>2
      <3> QED
        BY <3>2, <3>3
    <2>4. bar' <= mounts'
      BY <2>1
    <2>5. \A l \in loads' : l.bar <= mounts'
      BY <2>1, <2>3
    <2> QED
      BY <2>2, <2>4, <2>5 DEF BarsInv
  <1>10. SourceIsChosen' /\ SourceComes'
    BY <1>1, <1>3, <1>4, <1>7 DEF SourceIsChosen, SourceComes, Loading
  <1>11. PlayingIsHeard' /\ PausedIsPaused'
    BY <1>1, <1>3, <1>4, <1>7 DEF PlayingIsHeard, PausedIsPaused, Loading, TypeOK
  <1> QED
    BY <1>8, <1>9, <1>10, <1>11 DEF IInv

-----------------------------------------------------------------------------
(* Theorems *)

LEMMA InitIInv == Init => IInv
  <1> SUFFICES ASSUME Init PROVE IInv
    OBVIOUS
  <1>1. TypeOK
    <2>1. queue \in Seq(Tracks) /\ Len(queue) = 0
      BY DEF Init
    <2>2. audio \in [Bars -> AudioElement]
      BY SilentIs DEF Init
    <2>3. 0 \in 0 .. End /\ 0 \in 0 .. MaxBars /\ 0 \in 0 .. MaxClicks /\ -1 \in -1 .. Len(queue) - 1
      BY <2>1, PlayerAssumption
    <2> QED
      BY <2>1, <2>2, <2>3 DEF Init, TypeOK, RepeatModes, NoBar
  <1>2. BarsInv
    BY DEF Init, BarsInv, NoBar
  <1> QED
    BY <1>1, <1>2 DEF Init, IInv, SourceIsChosen, SourceComes, PlayingIsHeard, PausedIsPaused

LEMMA NextIInv == IInv /\ [Next]_vars => IInv'
  <1> SUFFICES ASSUME IInv, [Next]_vars PROVE IInv'
    OBVIOUS
  <1>1. CASE SkipNext
    BY <1>1, SkipNextKeeps
  <1>2. CASE Previous
    BY <1>2, PreviousKeeps
  <1>3. CASE TogglePlay
    BY <1>3, TogglePlayKeeps
  <1>4. CASE ToggleShuffle \/ ToggleRepeat
    BY <1>4, ToggleKeeps
  <1>5. CASE SeekStart
    BY <1>5, SeekStartKeeps
  <1>6. ASSUME NEW q \in Queues, NEW i \in 1 .. Len(q), Play(q[i], q) PROVE IInv'
    BY <1>6, PlayKeeps
  <1>7. ASSUME NEW q \in Queues, PlayAlbum(q) PROVE IInv'
    BY <1>7, PlayAlbumKeeps
  <1>8. ASSUME NEW track \in Tracks, AddToQueue(track) PROVE IInv'
    BY <1>8, AddToQueueKeeps
  <1>9. ASSUME NEW t \in 0 .. End, Seek(t) PROVE IInv'
    BY <1>9, SeekKeeps
  <1>10. ASSUME NEW l \in loads, OnUrl(l) \/ OnParsed(l) \/ LoadFails(l) PROVE IInv'
    BY <1>10, OnUrlKeeps, OnParsedKeeps, LoadFailsKeeps
  <1>11. CASE Leave
    BY <1>11, LeaveKeeps
  <1>12. CASE Mount
    BY <1>12, MountKeeps
  <1>13. ASSUME NEW b \in Bars, Tick(b) \/ EndOfTrack(b) \/ StreamFails(b) PROVE IInv'
    BY <1>13, TickKeeps, EndOfTrackKeeps, StreamFailsKeeps
  <1>14. CASE UNCHANGED vars
    <2>1. /\ UNCHANGED <<currentTrack, isPlaying, bar, mounts, audio, loads, history>>
          /\ UNCHANGED <<queue, queueIndex, currentTime, shuffle, repeat, seeking, clicks>>
      BY <1>14 DEF vars, store
    <2>2. StoreType' /\ seeking' \in BOOLEAN /\ clicks' \in 0 .. MaxClicks
      BY <2>1 DEF IInv, TypeOK, StoreType
    <2> QED
      BY <2>1, <2>2, SettingStep
  <1> QED
    BY <1>1, <1>2, <1>3, <1>4, <1>5, <1>6, <1>7, <1>8, <1>9, <1>10, <1>11, <1>12, <1>13, <1>14
    DEF Next, UserStep, Arrive

\* The invariant holds in every reachable state, in whatever order clicks, answers,
\* the ends of tracks and sign-ins come.
THEOREM Invariance == Spec => []IInv
  BY InitIInv, NextIInv, PTL DEF Spec

\* Every state is well typed; in particular the index stays within the queue.
THEOREM TypeCorrect == Spec => []TypeOK
  <1>1. IInv => TypeOK
    BY DEF IInv
  <1> QED
    BY <1>1, Invariance, PTL

\* The mounted element has no source but that of the chosen track, and waits for none
\* but that.
THEOREM ChosenTrackOnly == Spec => []SourceIsChosen
  <1>1. IInv => SourceIsChosen
    BY DEF IInv
  <1> QED
    BY <1>1, Invariance, PTL

\* The button tells what the listener hears.
THEOREM ButtonIsTrue == Spec => []SoundAsShown
  <1>1. IInv => SoundAsShown
    BY DEF IInv, SoundAsShown, PausedIsPaused, PausedIsSilent, Sounding
  <1> QED
    BY <1>1, Invariance, PTL
=============================================================================
