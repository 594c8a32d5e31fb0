----------------------------- MODULE MCSession -----------------------------
(***************************************************************************)
(* Instances of Session, two users, of whom one is an admin, and the tabs  *)
(* of one browser, and of Profile, two accounts and one page.  A behaviour *)
(* is one of the first or of the second: they share no state.              *)
(***************************************************************************)
EXTENDS Session

CONSTANTS ann, bob, Ids, MaxHandlers, MaxAtOnce, MaxMishaps

VARIABLES
    part, offers, docs, names, session, user, page, prefs, handlers, started, mishaps, crossed

MCUsers == {ann, bob}

P == INSTANCE Profile WITH tasks <- handlers, Accounts <- Ids, Usernames <- Ids,
                           MaxTasks <- MaxHandlers

ASSUME ProfileConstants == P!ProfileAssumption

profile == <<offers, docs, names, session, user, page, prefs, handlers, started, mishaps, crossed>>

\* The part that is away has one initial state.
PartsInit ==
    /\ part \in {"session", "profile"}
    /\ Init /\ P!Init
    /\ part = "profile" => app = "player"
    /\ part = "session" => offers = {} /\ session = 1

PartsNext ==
    \/ part = "session" /\ Next /\ UNCHANGED <<part, profile>>
    \/ part = "profile" /\ P!Next /\ UNCHANGED <<part, vars>>

PartsSpec == PartsInit /\ [][PartsNext]_<<part, vars, profile>>

\* What Profile states of what the page says it has done.
ToldIsDone == P!ToldIsDone

\* The types of both.
PartsTypeOK == IF part = "session" THEN TypeOK ELSE P!TypeOK
=============================================================================
