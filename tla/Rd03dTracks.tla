----------------------------- MODULE Rd03dTracks -----------------------------
(***************************************************************************)
(* The tracking layer of the RD-03D radar (kitchen_pwm/rd03d_api.c).  Each *)
(* frame reports up to three targets in no fixed order; update_tracks      *)
(* associates them with three tracks, keeps a confidence for each, and     *)
(* derives one presence flag with hysteresis.                              *)
(*                                                                         *)
(* A position is one number (the code compares squared distances in the    *)
(* plane).  Time is counted in reporting periods of the sensor.            *)
(***************************************************************************)
EXTENDS Integers

CONSTANTS
  Scene,      \* the frames the sensor may send: what is in each object slot
  Pos,        \* positions of targets
  Empty,      \* an object slot without a target
  max_match_dist, conf_inc, conf_dec, conf_on, conf_off, stale,
  ConfMax,    \* 255
  MaxGap      \* bound on the periods without a frame

Slots  == 1..3      \* RD03D_OBJECT_SLOTS
Tracks == 1..3      \* RD03D_TRACKS
Never  == -1        \* last_seen_ms = 0
None   == 0         \* no slot

ASSUME TracksAssumption ==
  /\ Pos \subseteq Int /\ Empty \notin Int
  /\ Scene \subseteq [Slots -> Pos \union {Empty}]
  /\ {conf_inc, conf_dec, conf_on, ConfMax, stale} \subseteq Nat
  /\ conf_off \in 1..conf_on /\ conf_on <= ConfMax
  /\ max_match_dist \in Nat /\ MaxGap \in Nat

VARIABLES
  track,      \* s_state.track
  presence,   \* s_state.presence
  det,        \* the last frame
  gap         \* periods since it

vars == <<track, presence, det, gap>>

Init ==
  /\ track = [t \in Tracks |-> [valid |-> FALSE, conf |-> 0, at |-> 0, age |-> Never]]
  /\ presence = FALSE
  /\ det = [i \in Slots |-> Empty] /\ gap = 0

-----------------------------------------------------------------------------
(* update_tracks. *)

Dist(x, y) == IF x < y THEN y - x ELSE x - y

\* How long beyond `stale` makes no difference.
Later(age, n) ==
  IF age = Never THEN Never ELSE IF age + n > stale THEN stale + 1 ELSE age + n

Aged(tr, n) ==
  [valid |-> tr.valid, conf |-> tr.conf, at |-> tr.at, age |-> Later(tr.age, n)]

\* Slips: the sum wraps around in eight bits; no saturation.
Raised_Wraps(c) == (c + conf_inc) % (ConfMax + 1)
Raised_NoCap(c) == c + conf_inc
Raised(c) == IF c + conf_inc > ConfMax THEN ConfMax ELSE c + conf_inc

\* A target is taken into a track: the same for one that continues and a new one.
Seen(tr, p) == [valid |-> Raised(tr.conf) >= conf_off, conf |-> Raised(tr.conf),
                at |-> p, age |-> 0]

Lowered(c) == IF c > conf_dec THEN c - conf_dec ELSE 0

\* Slip: a track only decays.
TooOld_Never(tr) == FALSE
TooOld(tr) == tr.age = Never \/ tr.age > stale

Missed(tr) ==
  LET c == IF TooOld(tr) THEN 0 ELSE Lowered(tr.conf)
  IN [valid |-> c >= conf_off, conf |-> c, at |-> tr.at, age |-> tr.age]

\* Targets of frame d, not in `used`, that a track may continue with.
Near(d, used, tr) ==
  {i \in Slots \ used : d[i] # Empty /\ Dist(tr.at, d[i]) <= max_match_dist}

\* The nearest of them, the first one if there are two.
Nearest(d, S, tr) ==
  CHOOSE i \in S : \A j \in S \ {i} :
    \/ Dist(tr.at, d[i]) < Dist(tr.at, d[j])
    \/ Dist(tr.at, d[i]) = Dist(tr.at, d[j]) /\ i < j

\* 1) The slot a valid track continues with, None if there is none.
Continues(d, used, tr) ==
  LET S == Near(d, used, tr)
  IN IF tr.valid /\ S # {} THEN Nearest(d, S, tr) ELSE None

\* Tracks choose in turn.
Matching(d, trk) ==
  CHOOSE m \in [Tracks -> Slots \union {None}] :
    \A t \in Tracks : m[t] = Continues(d, {m[u] : u \in 1 .. t - 1}, trk[t])

Matched(d, trk, m) ==
  [t \in Tracks |-> IF m[t] # None THEN Seen(trk[t], d[m[t]]) ELSE Missed(trk[t])]

\* The first track of the lowest confidence.
Weakest(trk) ==
  CHOOSE t \in Tracks : \A u \in Tracks \ {t} :
    \/ trk[t].conf < trk[u].conf
    \/ trk[t].conf = trk[u].conf /\ t < u

\* 2) A target left over goes to the weakest track, unless all are at 255.
Assign(d, m, trk, i) ==
  LET t == Weakest(trk)
  IN IF d[i] # Empty /\ (\A u \in Tracks : m[u] # i) /\ trk[t].conf < ConfMax
     THEN [trk EXCEPT ![t] = Seen(@, d[i])]
     ELSE trk

\* Slip: any confidence holds presence up.
Held_AnyConfidence(trk) == \E t \in Tracks : trk[t].conf > 0
Held(trk) == \E t \in Tracks : trk[t].conf >= conf_off

\* Slip: once on, presence stays on.
Present_Latched(trk) == presence \/ \E t \in Tracks : trk[t].conf >= conf_on

\* 3) Presence, with hysteresis.
Present(trk) ==
  \/ \E t \in Tracks : trk[t].conf >= conf_on
  \/ presence /\ Held(trk)

-----------------------------------------------------------------------------

\* rd03d_api_poll finds a frame; the targets left over are assigned in slot order.
Frame(d) ==
  /\ gap > 0 /\ gap' = 0
  /\ det' = d
  /\ \E aged \in {[t \in Tracks |-> Aged(track[t], gap)]} :
     \E m \in {Matching(d, aged)} :
     \E trk \in {Matched(d, aged, m)} :
     \E trk1 \in {Assign(d, m, trk, 1)} :
     \E trk2 \in {Assign(d, m, trk1, 2)} :
     \E trk3 \in {Assign(d, m, trk2, 3)} :
       /\ track' = trk3
       /\ presence' = Present(trk3)

\* A period without one: rd03d_api_poll returns at once.
Quiet ==
  /\ gap < MaxGap
  /\ gap' = gap + 1
  /\ UNCHANGED <<track, presence, det>>

Next == Quiet \/ \E d \in Scene : Frame(d)

Spec == Init /\ [][Next]_vars

\* The sensor keeps reporting.
Reporting == Spec /\ WF_vars(\E d \in Scene : Frame(d)) /\ WF_vars(Quiet)

-----------------------------------------------------------------------------
(* Properties. *)

TypeOK ==
  /\ track \in [Tracks -> [valid: BOOLEAN, conf: 0..ConfMax, at: Pos \union {0},
                           age: {Never} \union 0 .. stale + 1]]
  /\ presence \in BOOLEAN
  /\ det \in Scene \union {[i \in Slots |-> Empty]}
  /\ gap \in 0..MaxGap

\* Presence is never reported without a track that a reader of the state may
\* look at: the hysteresis and the validity of the tracks agree.
PresenceHasTrack == presence => \E t \in Tracks : track[t].valid

\* A track that counts was seen lately, however long the sensor paused and
\* however high its confidence had been.
NoStaleTrack ==
  \A t \in Tracks : track[t].valid => track[t].age \in 0..stale

\* A room that empties is reported empty.
Vacant == \A i \in Slots : det[i] = Empty
LeavingIsNoticed == <>[]Vacant => <>[]~presence

\* Somebody who stays where he is is reported present ("presence: any track
\* above threshold", confidence being raised per matched frame).
Stays(p) == \E i \in Slots : det[i] = p
StayingIsNoticed == \A p \in Pos : <>[]Stays(p) => <>[]presence
=============================================================================
