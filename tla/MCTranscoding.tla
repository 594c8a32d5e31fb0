--------------------------- MODULE MCTranscoding ---------------------------
(***************************************************************************)
(* Instances of Transcoding: one track, two bitrates.  A listener on one   *)
(* gateway races with a prewarm on the other, or with a second listener on *)
(* its own gateway.  Shorter segments are more segments.                   *)
(***************************************************************************)
EXTENDS Transcoding

CONSTANTS t1, g1, g2, a, b, starter, high, short, long, s0, s1

MCSegmentsOf == [d \in {short, long} |-> IF d = short THEN {s0, s1} ELSE {s0}]

Listen(g, d) == [kind |-> "play", gw |-> g, tracks |-> {t1}, rates |-> {starter}, dur |-> d,
                 transcode |-> FALSE, hls |-> TRUE]
Prewarm(g, d, rates, transcode, hls) ==
    [kind |-> "prewarm", gw |-> g, tracks |-> {t1}, rates |-> rates, dur |-> d,
     transcode |-> transcode, hls |-> hls]

Pair(x, y) == [c \in {a, b} |-> IF c = a THEN x ELSE y]

\* Two listeners of one gateway, a listener and the HLS prewarm of another gateway,
\* two transcode prewarms, and a prewarm of two variants beside a disabled one.
MCWorkloads ==
    {Pair(Listen(g1, long), y) :
        y \in {Listen(g1, long),
               Prewarm(g2, short, {starter}, FALSE, TRUE)}}
    \cup {Pair(Prewarm(g1, long, {starter}, TRUE, FALSE), Prewarm(g2, long, {starter}, TRUE, FALSE)),
          Pair(Prewarm(g1, long, {starter, high}, FALSE, TRUE),
               Prewarm(g2, long, {starter}, FALSE, FALSE))}

\* A listener and a prewarm of two variants, on two gateways.
MCListenAndPrewarm ==
    {Pair(Listen(g1, long), Prewarm(g2, short, {starter, high}, FALSE, TRUE))}
=============================================================================
