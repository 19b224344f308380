-------------------------- MODULE RadarFeed_proofs --------------------------
(***************************************************************************)
(* Proofs about the radar's tracks, for every configuration of the filter, *)
(* every scene and pauses of any length, and about what a radar frame does *)
(* on a board that serves them, for any hosts and timeout: the tracks      *)
(* behave as they do without a debug server, and a frame goes to whoever   *)
(* wrote last.                                                             *)
(***************************************************************************)
EXTENDS RadarFeed, SequenceTheorems, TLAPS

-----------------------------------------------------------------------------
(* The tracks by themselves. *)

USE DEF Tracks, Never

\* A track whose confidence decides whether it is valid ...
Decided(tr) ==
  /\ tr.conf \in Nat /\ tr.age \in Nat \union {Never}
  /\ tr.valid = (tr.conf >= conf_off)

\* ... and that was seen lately if it is.
Sound(tr) == Decided(tr) /\ (tr.valid => tr.age \in 0..stale)

\* Between frames nothing changes; when a frame comes the ages grow before
\* anything else, and tracks are only Decided until each was updated.
IInv ==
  /\ \A t \in Tracks : Sound(track[t])
  /\ gap \in Nat
  /\ presence => Held(track)

LEMMA AgedDecided ==
  ASSUME NEW tr, Decided(tr), NEW n \in Nat
  PROVE  Decided(Aged(tr, n))
<1>1. Later(tr.age, n) \in Nat \union {Never}
  BY TracksAssumption DEF Decided, Later
<1> QED BY <1>1 DEF Decided, Aged

\* A target taken in makes any decided track sound.
LEMMA SeenSound ==
  ASSUME NEW tr, Decided(tr), NEW p
  PROVE  Sound(Seen(tr, p))
<1>1. Raised(tr.conf) \in Nat
  BY TracksAssumption DEF Decided, Raised
<1>2. 0 \in 0..stale
  BY TracksAssumption
<1> QED BY <1>1, <1>2 DEF Decided, Sound, Seen

\* A track without a target loses its confidence before it gets too old.
LEMMA MissedSound ==
  ASSUME NEW tr, Decided(tr)
  PROVE  Sound(Missed(tr))
<1> DEFINE c == IF TooOld(tr) THEN 0 ELSE Lowered(tr.conf)
<1>1. c \in Nat /\ (c >= conf_off => ~TooOld(tr))
  BY TracksAssumption DEF Decided, Lowered
<1>2. ~TooOld(tr) => tr.age \in 0..stale
  BY TracksAssumption DEF Decided, TooOld
<1>3. /\ Missed(tr).conf = c /\ Missed(tr).valid = (c >= conf_off)
      /\ Missed(tr).age = tr.age
  BY DEF Missed
<1> HIDE DEF c
<1>4. Decided(Missed(tr))
  BY <1>1, <1>3 DEF Decided
<1> QED BY <1>1, <1>2, <1>3, <1>4 DEF Sound

\* A target left over is taken into one track, whichever; the others stay.
LEMMA AssignSound ==
  ASSUME NEW trk, NEW d, NEW m, NEW i,
         DOMAIN trk = Tracks, \A t \in Tracks : Sound(trk[t])
  PROVE  /\ DOMAIN Assign(d, m, trk, i) = Tracks
         /\ \A t \in Tracks : Sound(Assign(d, m, trk, i)[t])
<1> DEFINE w == Weakest(trk)
<1> HIDE DEF w
<1>1. \/ Assign(d, m, trk, i) = trk
      \/ Assign(d, m, trk, i) = [trk EXCEPT ![w] = Seen(trk[w], d[i])]
  BY DEF Assign, w
<1>2. ASSUME NEW t \in Tracks
      PROVE  \/ Assign(d, m, trk, i)[t] = trk[t]
             \/ Assign(d, m, trk, i)[t] = Seen(trk[t], d[i])
  BY <1>1
<1>3. ASSUME NEW t \in Tracks PROVE Sound(Seen(trk[t], d[i]))
  BY SeenSound DEF Sound
<1>4. DOMAIN Assign(d, m, trk, i) = Tracks
  BY <1>1
<1> QED BY <1>2, <1>3, <1>4

\* The hysteresis never outlives the last valid track.
LEMMA PresentHeld ==
  ASSUME NEW trk, \A t \in Tracks : Sound(trk[t])
  PROVE  Present(trk) => Held(trk)
BY TracksAssumption DEF Present, Held, Sound, Decided

LEMMA InvInit == Init => IInv
<1> SUFFICES ASSUME Init PROVE IInv
  OBVIOUS
<1>1. ASSUME NEW t \in Tracks
      PROVE  ~track[t].valid /\ track[t].conf = 0 /\ track[t].age = Never
  BY DEF Init
<1>2. ~(0 >= conf_off)
  BY TracksAssumption
<1>3. ASSUME NEW t \in Tracks PROVE track[t].valid = (track[t].conf >= conf_off)
  <2>1. track[t].valid = FALSE
    BY DEF Init
  <2>2. track[t].conf = 0
    BY <1>1
  <2>3. (track[t].conf >= conf_off) = FALSE
    BY <2>2, <1>2
  <2> QED BY ONLY <2>1, <2>3, Zenon
<1>4. ASSUME NEW t \in Tracks PROVE Sound(track[t])
  BY <1>1, <1>3 DEF Sound, Decided
<1>5. gap \in Nat /\ ~presence
  BY DEF Init
<1> QED BY <1>4, <1>5 DEF IInv

LEMMA InvFrame ==
  ASSUME IInv, NEW d \in Scene, Frame(d)
  PROVE  IInv'
<1>1. PICK aged \in {[t \in Tracks |-> Aged(track[t], gap)]} :
      \E m \in {Matching(d, aged)} :
      \E trk \in {Matched(d, aged, m)} :
      \E trk1 \in {Assign(d, m, trk, 1)} :
      \E trk2 \in {Assign(d, m, trk1, 2)} :
      \E trk3 \in {Assign(d, m, trk2, 3)} :
        /\ track' = trk3
        /\ presence' = Present(trk3)
  BY DEF Frame
<1> DEFINE m == Matching(d, aged)
           trk == Matched(d, aged, m)
           trk1 == Assign(d, m, trk, 1)
           trk2 == Assign(d, m, trk1, 2)
           trk3 == Assign(d, m, trk2, 3)
<1>2. track' = trk3 /\ presence' = Present(trk3)
  BY <1>1
<1> HIDE DEF m
<1>3. ASSUME NEW t \in Tracks PROVE Decided(aged[t])
  BY AgedDecided DEF IInv, Sound
<1>4. ASSUME NEW t \in Tracks PROVE Sound(trk[t])
  <2>1. trk[t] = IF m[t] # None THEN Seen(aged[t], d[m[t]]) ELSE Missed(aged[t])
    BY DEF Matched
  <2> QED BY <2>1, <1>3, SeenSound, MissedSound
<1>5. DOMAIN trk = Tracks
  BY DEF Matched
<1> HIDE DEF trk
<1>6. DOMAIN trk1 = Tracks /\ \A t \in Tracks : Sound(trk1[t])
  BY <1>4, <1>5, AssignSound
<1> HIDE DEF trk1
<1>7. DOMAIN trk2 = Tracks /\ \A t \in Tracks : Sound(trk2[t])
  BY <1>6, AssignSound
<1> HIDE DEF trk2
<1>8. \A t \in Tracks : Sound(trk3[t])
  BY <1>7, AssignSound
<1> HIDE DEF trk3
<1>9. Present(trk3) => Held(trk3)
  BY <1>8, PresentHeld
<1>10. gap' \in Nat
  BY DEF Frame
<1>11. (presence => Held(track))'
  BY <1>2, <1>9 DEF Held
<1>12. (\A t \in Tracks : Sound(track[t]))'
  BY <1>2, <1>8 DEF Sound, Decided
<1> QED BY <1>10, <1>11, <1>12 DEF IInv

LEMMA InvNext == IInv /\ [Next]_vars => IInv'
<1> SUFFICES ASSUME IInv, [Next]_vars PROVE IInv'
  OBVIOUS
<1>1. CASE \E d \in Scene : Frame(d)
  BY <1>1, InvFrame
<1>2. CASE Quiet
  BY <1>2 DEF Quiet, IInv, Sound, Decided, Held
<1>3. CASE UNCHANGED vars
  BY <1>3 DEF vars, IInv, Sound, Decided, Held
<1> QED BY <1>1, <1>2, <1>3 DEF Next

THEOREM InvHolds == Spec => []IInv
BY InvInit, InvNext, PTL DEF Spec

\* A track that counts was seen no longer than `stale` before the last frame.
THEOREM TracksAreFresh == Spec => []NoStaleTrack
<1>1. IInv => NoStaleTrack
  BY DEF IInv, Sound, NoStaleTrack
<1> QED BY <1>1, InvHolds, PTL

\* Whatever the scene, presence comes with a valid track.
THEOREM PresenceIsBacked == Spec => []PresenceHasTrack
<1>1. IInv => PresenceHasTrack
  BY DEF IInv, Held, Sound, Decided, PresenceHasTrack
<1> QED BY <1>1, InvHolds, PTL

-----------------------------------------------------------------------------
(* Which target a track continues with. *)

\* Among up to three slots there is one that no other beats.
LEMMA LeastSlot ==
  ASSUME NEW S \in SUBSET Slots, S # {}, NEW f \in [Slots -> Int]
  PROVE  \E i \in S : \A j \in S \ {i} : f[i] < f[j] \/ (f[i] = f[j] /\ i < j)
<1> DEFINE Beats(i, j) == f[i] < f[j] \/ (f[i] = f[j] /\ i < j)
<1>1. f[1] \in Int /\ f[2] \in Int /\ f[3] \in Int
  BY DEF Slots
<1>2. /\ Beats(1, 2) \/ Beats(2, 1)
      /\ Beats(1, 3) \/ Beats(3, 1)
      /\ Beats(2, 3) \/ Beats(3, 2)
  BY <1>1
<1>3. /\ Beats(1, 2) /\ Beats(2, 3) => Beats(1, 3)
      /\ Beats(1, 3) /\ Beats(3, 2) => Beats(1, 2)
      /\ Beats(2, 1) /\ Beats(1, 3) => Beats(2, 3)
      /\ Beats(2, 3) /\ Beats(3, 1) => Beats(2, 1)
      /\ Beats(3, 1) /\ Beats(1, 2) => Beats(3, 2)
      /\ Beats(3, 2) /\ Beats(2, 1) => Beats(3, 1)
  BY <1>1
<1>4. \A i \in S : i = 1 \/ i = 2 \/ i = 3
  BY DEF Slots
<1>5. \E i \in S : \A j \in S \ {i} : Beats(i, j)
  <2> HIDE DEF Beats
  <2>1. CASE 1 \in S /\ 2 \in S /\ 3 \in S
    BY <1>2, <1>3, <1>4, <2>1
  <2>2. CASE 1 \in S /\ 2 \in S /\ 3 \notin S
    BY <1>2, <1>4, <2>2
  <2>3. CASE 1 \in S /\ 2 \notin S /\ 3 \in S
    BY <1>2, <1>4, <2>3
  <2>4. CASE 1 \notin S /\ 2 \in S /\ 3 \in S
    BY <1>2, <1>4, <2>4
  <2>5. CASE \E i \in S : S = {i}
    BY <2>5
  <2> QED BY <1>4, <2>1, <2>2, <2>3, <2>4, <2>5
<1> QED BY <1>5

TrackType == [valid: BOOLEAN, conf: 0..ConfMax, at: Pos \union {0},
              age: {Never} \union 0 .. stale + 1]

\* A track continues with a target that is there and that no track before it took.
LEMMA ContinuesWithTarget ==
  ASSUME NEW d \in Scene, NEW used, NEW tr \in TrackType
  PROVE  \/ Continues(d, used, tr) = None
         \/ /\ Continues(d, used, tr) \in Slots \ used
            /\ d[Continues(d, used, tr)] # Empty
<1> DEFINE S == Near(d, used, tr)
           f == [i \in Slots |-> IF d[i] = Empty THEN 0 ELSE Dist(tr.at, d[i])]
<1>1. S \in SUBSET Slots /\ \A i \in S : i \in Slots \ used /\ d[i] # Empty
  BY DEF Near
<1>2. \A i \in Slots : d[i] # Empty => d[i] \in Int
  BY TracksAssumption
<1>3. tr.at \in Int
  <2>1. tr.at \in Pos \union {0}
    BY DEF TrackType
  <2>2. Pos \subseteq Int
    BY TracksAssumption
  <2>3. CASE tr.at \in Pos
    BY ONLY <2>2, <2>3
  <2>4. CASE tr.at = 0
    BY ONLY <2>4
  <2> QED BY ONLY <2>1, <2>3, <2>4
<1>4. f \in [Slots -> Int]
  BY <1>2, <1>3 DEF Dist
<1>5. \A i \in S : f[i] = Dist(tr.at, d[i])
  BY <1>1
<1> HIDE DEF f
<1>6. CASE tr.valid /\ S # {}
  <2>1. Continues(d, used, tr) = Nearest(d, S, tr)
    BY <1>6 DEF Continues
  <2> HIDE DEF S
  <2>2. \E i \in S : \A j \in S \ {i} : f[i] < f[j] \/ (f[i] = f[j] /\ i < j)
    BY <1>1, <1>4, <1>6, LeastSlot
  <2>3. \E i \in S : \A j \in S \ {i} :
          \/ Dist(tr.at, d[i]) < Dist(tr.at, d[j])
          \/ Dist(tr.at, d[i]) = Dist(tr.at, d[j]) /\ i < j
    BY <1>5, <2>2
  <2>4. Nearest(d, S, tr) \in S
    BY <2>3 DEF Nearest
  <2> QED BY <1>1, <2>1, <2>4
<1>7. CASE ~(tr.valid /\ S # {})
  BY <1>7 DEF Continues
<1> QED BY <1>6, <1>7

\* Tracks choose in turn: there is a matching, a track that has a target has one
\* that is there, and no two tracks have the same.
THEOREM NoTargetTwice ==
  ASSUME NEW d \in Scene, NEW trk, \A t \in Tracks : trk[t] \in TrackType
  PROVE  LET m == Matching(d, trk)
         IN  /\ m \in [Tracks -> Slots \union {None}]
             /\ \A t \in Tracks : m[t] # None => d[m[t]] # Empty
             /\ \A t, u \in Tracks : t # u /\ m[t] # None => m[t] # m[u]
<1> DEFINE c1 == Continues(d, {}, trk[1])
           c2 == Continues(d, {c1}, trk[2])
           c3 == Continues(d, {c1, c2}, trk[3])
           m == Matching(d, trk)
           w == [t \in Tracks |-> IF t = 1 THEN c1 ELSE IF t = 2 THEN c2 ELSE c3]
           IsMatching(f) == \A t \in Tracks : f[t] = Continues(d, {f[u] : u \in 1 .. t - 1}, trk[t])
<1>1. ASSUME NEW f \in [Tracks -> Slots \union {None}]
      PROVE  /\ {f[u] : u \in 1 .. 1 - 1} = {}
             /\ {f[u] : u \in 1 .. 2 - 1} = {f[1]}
             /\ {f[u] : u \in 1 .. 3 - 1} = {f[1], f[2]}
  <2>1. 1 .. 1 - 1 = {} /\ 1 .. 2 - 1 = {1} /\ 1 .. 3 - 1 = {1, 2}
    OBVIOUS
  <2> QED BY <2>1
<1>2. trk[1] \in TrackType /\ trk[2] \in TrackType /\ trk[3] \in TrackType
  OBVIOUS
<1>3. /\ c1 \in Slots \union {None} /\ (c1 # None => d[c1] # Empty)
      /\ c2 \in Slots \union {None} /\ (c2 # None => d[c2] # Empty)
      /\ c3 \in Slots \union {None} /\ (c3 # None => d[c3] # Empty)
      /\ c2 # None => c2 # c1
      /\ c3 # None => c3 # c1 /\ c3 # c2
  <2>1. c1 = None \/ (c1 \in Slots /\ d[c1] # Empty)
    BY <1>2, ContinuesWithTarget
  <2> HIDE DEF c1
  <2>2. c2 = None \/ (c2 \in Slots \ {c1} /\ d[c2] # Empty)
    BY <1>2, ContinuesWithTarget
  <2> HIDE DEF c2
  <2>3. c3 = None \/ (c3 \in Slots \ {c1, c2} /\ d[c3] # Empty)
    BY <1>2, ContinuesWithTarget
  <2> HIDE DEF c3
  <2> QED BY <2>1, <2>2, <2>3
<1>4. w \in [Tracks -> Slots \union {None}] /\ IsMatching(w)
  <2>1. w \in [Tracks -> Slots \union {None}]
    <3> HIDE DEF c1, c2, c3
    <3> QED BY <1>3
  <2>2. w[1] = c1 /\ w[2] = c2 /\ w[3] = c3
    OBVIOUS
  <2>3. /\ {w[u] : u \in 1 .. 1 - 1} = {} /\ {w[u] : u \in 1 .. 2 - 1} = {c1}
        /\ {w[u] : u \in 1 .. 3 - 1} = {c1, c2}
    <3> HIDE DEF w, c1, c2, c3
    <3> QED BY <1>1, <2>1, <2>2
  <2> HIDE DEF w
  <2>4. \A t \in Tracks : t = 1 \/ t = 2 \/ t = 3
    OBVIOUS
  <2> QED BY <2>1, <2>2, <2>3, <2>4
<1>5. m \in [Tracks -> Slots \union {None}] /\ IsMatching(m)
  <2> HIDE DEF w
  <2> QED BY <1>4 DEF Matching
<1> HIDE DEF m
<1>6. m[1] = c1 /\ m[2] = c2 /\ m[3] = c3
  <2>1. /\ m[1] = Continues(d, {m[u] : u \in 1 .. 1 - 1}, trk[1])
        /\ m[2] = Continues(d, {m[u] : u \in 1 .. 2 - 1}, trk[2])
        /\ m[3] = Continues(d, {m[u] : u \in 1 .. 3 - 1}, trk[3])
    BY <1>5
  <2> QED BY <1>1, <1>5, <2>1
<1>7. \A t \in Tracks : t = 1 \/ t = 2 \/ t = 3
  OBVIOUS
<1> HIDE DEF c1, c2, c3
<1>8. /\ \A t \in Tracks : m[t] # None => d[m[t]] # Empty
      /\ \A t, u \in Tracks : t # u /\ m[t] # None => m[t] # m[u]
  BY <1>3, <1>6, <1>7
<1> QED BY <1>5, <1>8 DEF m

-----------------------------------------------------------------------------
(* Types. *)

LEMMA AgedType ==
  ASSUME NEW tr \in TrackType, NEW n \in Nat
  PROVE  Aged(tr, n) \in TrackType
<1>1. /\ tr.valid \in BOOLEAN /\ tr.conf \in 0..ConfMax /\ tr.at \in Pos \union {0}
      /\ tr.age \in {Never} \union 0 .. stale + 1
  BY DEF TrackType
<1>2. Later(tr.age, n) \in {Never} \union 0 .. stale + 1
  <2>1. stale \in Nat
    BY TracksAssumption
  <2> QED BY ONLY <1>1, <2>1 DEF Later, Never
<1> QED BY <1>1, <1>2 DEF Aged, TrackType

LEMMA SeenType ==
  ASSUME NEW tr \in TrackType, NEW p \in Pos
  PROVE  Seen(tr, p) \in TrackType
<1>1. tr.conf \in 0..ConfMax
  BY DEF TrackType
<1>2. /\ conf_inc \in Nat /\ ConfMax \in Nat /\ conf_off \in Nat /\ stale \in Nat
  BY TracksAssumption
<1>3. Raised(tr.conf) \in 0..ConfMax
  BY ONLY <1>1, <1>2 DEF Raised
<1>4. 0 \in {Never} \union 0 .. stale + 1
  BY <1>2
<1>5. (Raised(tr.conf) >= conf_off) \in BOOLEAN
  OBVIOUS
<1> QED BY <1>3, <1>4, <1>5 DEF Seen, TrackType

LEMMA MissedType ==
  ASSUME NEW tr \in TrackType
  PROVE  Missed(tr) \in TrackType
<1> DEFINE c == IF TooOld(tr) THEN 0 ELSE Lowered(tr.conf)
<1>1. /\ tr.conf \in 0..ConfMax /\ tr.at \in Pos \union {0}
      /\ tr.age \in {Never} \union 0 .. stale + 1
  BY DEF TrackType
<1>2. c \in 0..ConfMax
  <2>1. conf_dec \in Nat /\ ConfMax \in Nat
    BY TracksAssumption
  <2> QED BY ONLY <1>1, <2>1 DEF Lowered
<1>3. Missed(tr) = [valid |-> c >= conf_off, conf |-> c, at |-> tr.at, age |-> tr.age]
  BY DEF Missed
<1>4. (c >= conf_off) \in BOOLEAN
  OBVIOUS
<1> HIDE DEF c
<1> QED BY <1>1, <1>2, <1>3, <1>4 DEF TrackType

LEMMA AssignType ==
  ASSUME NEW trk \in [Tracks -> TrackType], NEW d \in Scene, NEW m, NEW i \in Slots
  PROVE  Assign(d, m, trk, i) \in [Tracks -> TrackType]
<1> DEFINE w == Weakest(trk)
<1> HIDE DEF w
<1>1. \/ Assign(d, m, trk, i) = trk
      \/ d[i] # Empty /\ Assign(d, m, trk, i) = [trk EXCEPT ![w] = Seen(trk[w], d[i])]
  BY DEF Assign, w
<1>2. ASSUME d[i] # Empty, NEW t \in Tracks PROVE Seen(trk[t], d[i]) \in TrackType
  <2>1. d[i] \in Pos
    BY <1>2, TracksAssumption
  <2> QED BY <2>1, SeenType
<1> QED BY <1>1, <1>2

LEMMA FrameType ==
  ASSUME TypeOK, NEW d \in Scene, Frame(d)
  PROVE  TypeOK'
<1>1. PICK aged \in {[t \in Tracks |-> Aged(track[t], gap)]} :
      \E m \in {Matching(d, aged)} :
      \E trk \in {Matched(d, aged, m)} :
      \E trk1 \in {Assign(d, m, trk, 1)} :
      \E trk2 \in {Assign(d, m, trk1, 2)} :
      \E trk3 \in {Assign(d, m, trk2, 3)} :
        /\ track' = trk3
        /\ presence' = Present(trk3)
  BY DEF Frame
<1> DEFINE m == Matching(d, aged)
           trk == Matched(d, aged, m)
           trk1 == Assign(d, m, trk, 1)
           trk2 == Assign(d, m, trk1, 2)
           trk3 == Assign(d, m, trk2, 3)
<1>2. track' = trk3 /\ presence' = Present(trk3)
  BY <1>1
<1>3. track \in [Tracks -> TrackType] /\ gap \in Nat
  BY TracksAssumption DEF TypeOK, TrackType
<1>4. \A t \in Tracks : aged[t] \in TrackType
  BY <1>3, AgedType
<1>5. m \in [Tracks -> Slots \union {None}] /\ \A t \in Tracks : m[t] # None => d[m[t]] # Empty
  BY <1>4, NoTargetTwice
<1> HIDE DEF m
<1>6. trk \in [Tracks -> TrackType]
  <2>1. ASSUME NEW t \in Tracks
        PROVE  (IF m[t] # None THEN Seen(aged[t], d[m[t]]) ELSE Missed(aged[t])) \in TrackType
    <3>1. CASE m[t] # None
      <4>1. m[t] \in Slots /\ d[m[t]] # Empty
        BY <1>5, <3>1
      <4>2. d[m[t]] \in Pos
        BY <4>1, TracksAssumption
      <4> QED BY <1>4, <3>1, <4>2, SeenType
    <3>2. CASE m[t] = None
      BY <1>4, <3>2, MissedType
    <3> QED BY <3>1, <3>2
  <2> QED BY <2>1 DEF Matched
<1> HIDE DEF trk
<1>7. 1 \in Slots /\ 2 \in Slots /\ 3 \in Slots
  BY DEF Slots
<1>8. trk1 \in [Tracks -> TrackType]
  BY <1>6, <1>7, AssignType
<1> HIDE DEF trk1
<1>9. trk2 \in [Tracks -> TrackType]
  BY <1>7, <1>8, AssignType
<1> HIDE DEF trk2
<1>10. trk3 \in [Tracks -> TrackType]
  BY <1>7, <1>9, AssignType
<1> HIDE DEF trk3
<1>11. presence' \in BOOLEAN
  <2>1. Present(trk3) \in BOOLEAN
    BY DEF Present
  <2> QED BY ONLY <1>2, <2>1
<1>12. det' = d /\ gap' \in 0..MaxGap
  BY TracksAssumption DEF Frame
<1> QED BY <1>2, <1>10, <1>11, <1>12 DEF TypeOK, TrackType

LEMMA TracksTypeInit == Init => TypeOK
<1> SUFFICES ASSUME Init PROVE TypeOK
  OBVIOUS
<1>1. [valid |-> FALSE, conf |-> 0, at |-> 0, age |-> Never] \in TrackType
  BY TracksAssumption DEF TrackType
<1>2. gap \in 0..MaxGap
  BY TracksAssumption DEF Init
<1> QED BY <1>1, <1>2 DEF Init, TypeOK, TrackType

LEMMA TracksTypeNext == TypeOK /\ [Next]_vars => TypeOK'
<1> SUFFICES ASSUME TypeOK, [Next]_vars PROVE TypeOK'
  OBVIOUS
<1>1. CASE \E d \in Scene : Frame(d)
  BY <1>1, FrameType
<1>2. CASE Quiet
  <2>1. gap' \in 0..MaxGap
    <3>1. gap \in 0..MaxGap /\ gap < MaxGap /\ gap' = gap + 1 /\ MaxGap \in Nat
      BY <1>2, TracksAssumption DEF Quiet, TypeOK
    <3> QED BY ONLY <3>1
  <2> QED BY <1>2, <2>1 DEF Quiet, TypeOK
<1>3. CASE UNCHANGED vars
  BY <1>3 DEF vars, TypeOK
<1> QED BY <1>1, <1>2, <1>3 DEF Next

\* A confidence fits its byte and never falls below zero, ages do not run away, and
\* tracks are where targets have been, for every scene and tuning.
THEOREM TracksTypeCorrect == Spec => []TypeOK
BY TracksTypeInit, TracksTypeNext, PTL DEF Spec

-----------------------------------------------------------------------------
(* What a radar frame does. *)

\* A frame, a quiet period and a look at the debug port are a step of the tracks
\* and one of the debug server, or leave one of them alone.
LEMMA FeedStep ==
  ASSUME [FeedNext]_feedVars
  PROVE  [Next]_vars /\ [Dbg!DbgNext]_(Dbg!dbgVars)
<1>1. CASE FeedQuiet
  BY <1>1 DEF FeedQuiet, Next, Dbg!DbgNext
<1>2. CASE PollDebug
  BY <1>2 DEF PollDebug, Dbg!DbgNext
<1>3. ASSUME NEW d \in Scene, FeedFrame(d)
      PROVE  [Next]_vars /\ [Dbg!DbgNext]_(Dbg!dbgVars)
  BY <1>3 DEF FeedFrame, Next, Dbg!DbgNext
<1>4. ASSUME NEW c \in Client, NEW long \in BOOLEAN, HostWrites(c, long)
      PROVE  [Next]_vars /\ [Dbg!DbgNext]_(Dbg!dbgVars)
  BY <1>4 DEF HostWrites, Dbg!DbgNext
<1>5. CASE UNCHANGED feedVars
  BY <1>5 DEF feedVars
<1> QED BY <1>1, <1>2, <1>3, <1>4, <1>5 DEF FeedNext

\* The debug server takes nothing from the tracks: a board that serves it behaves,
\* as to tracks and presence, like one without, so what was proved of the tracks
\* holds here too.
THEOREM FeedKeepsTracking == FeedSpec => Spec /\ Dbg!DbgSpec
<1>1. FeedInit => Init /\ Dbg!DbgInit
  BY DEF FeedInit
<1>2. [FeedNext]_feedVars => [Next]_vars /\ [Dbg!DbgNext]_(Dbg!dbgVars)
  BY FeedStep
<1> QED BY <1>1, <1>2, PTL DEF FeedSpec, Spec, Dbg!DbgSpec

-----------------------------------------------------------------------------
(* The debug server by itself. *)

Datagram == [from: Client, long: BOOLEAN]

\* With everything read, the client is the host that wrote last, and the board
\* counts from its datagram; a client is dropped only when its time is up.
UpToDate ==
  rx = <<>> =>
    /\ last = Nobody => ~valid
    /\ last # Nobody => client = last /\ seen = since /\ (since <= timeout => valid)

\* Otherwise the last datagram in the chip is that host's, and of this period.
StillToRead == rx # <<>> => last = rx[Len(rx)].from /\ since = 0

WriterInv ==
  /\ rx \in Seq(Datagram)
  /\ valid \in BOOLEAN /\ seen \in 0 .. timeout + 1 /\ since \in 0 .. timeout + 1
  /\ synced => UpToDate /\ StillToRead

LEMMA WriterInit == Dbg!DbgInit => WriterInv
<1> SUFFICES ASSUME Dbg!DbgInit PROVE WriterInv
  OBVIOUS
<1>1. rx = <<>> /\ rx \in Seq(Datagram)
  BY DEF Dbg!DbgInit
<1>2. valid = FALSE /\ seen = 0 /\ since = 0 /\ last = Nobody
  BY DEF Dbg!DbgInit
<1>3. 0 \in 0 .. timeout + 1
  BY FeedAssumption
<1>4. UpToDate /\ StillToRead
  BY <1>1, <1>2 DEF UpToDate, StillToRead
<1> QED BY <1>1, <1>2, <1>3, <1>4 DEF WriterInv

LEMMA TailOfQueue ==
  ASSUME NEW S, NEW q \in Seq(S), q # <<>>
  PROVE  /\ Head(q) \in S /\ Tail(q) \in Seq(S)
         /\ Tail(q) = <<>> => Head(q) = q[Len(q)]
         /\ Tail(q) # <<>> => Tail(q)[Len(Tail(q))] = q[Len(q)]
<1>1. Len(q) \in Nat \ {0} /\ Head(q) = q[1] /\ Head(q) \in S
  OBVIOUS
<1>2. /\ Tail(q) \in Seq(S) /\ Len(Tail(q)) = Len(q) - 1
      /\ \A i \in 1 .. Len(q) - 1 : Tail(q)[i] = q[i + 1]
  OBVIOUS
<1>0. Tail(q) = <<>> <=> Len(q) - 1 = 0
  BY <1>2, EmptySeq
<1>3. CASE Len(q) = 1
  BY <1>0, <1>1, <1>2, <1>3
<1>4. CASE Len(q) > 1
  <2>1. Len(q) - 1 \in 1 .. Len(q) - 1 /\ Tail(q) # <<>>
    BY <1>0, <1>1, <1>4
  <2>2. Tail(q)[Len(q) - 1] = q[(Len(q) - 1) + 1]
    BY <1>2, <2>1
  <2> QED BY <1>1, <1>2, <2>1, <2>2
<1> QED BY <1>1, <1>3, <1>4

LEMMA AppendToQueue ==
  ASSUME NEW S, NEW q \in Seq(S), NEW e \in S
  PROVE  /\ Append(q, e) \in Seq(S) /\ Append(q, e) # <<>>
         /\ Append(q, e)[Len(Append(q, e))] = e
OBVIOUS

LEMMA PollKeepsWriter == WriterInv /\ Dbg!PollDatagram => WriterInv'
<1> SUFFICES ASSUME WriterInv, Dbg!PollDatagram PROVE WriterInv'
  OBVIOUS
<1>1. /\ synced /\ rx \in Seq(Datagram) /\ rx # <<>>
      /\ valid' = TRUE /\ seen' = 0 /\ since' = since /\ last' = last
      /\ client' = Head(rx).from /\ (synced' <=> ~Head(rx).long)
      /\ rx' = IF synced' THEN Tail(rx) ELSE <<>>
  BY DEF WriterInv, Dbg!PollDatagram, Dbg!Registered
<1>2. last = rx[Len(rx)].from /\ since = 0
  BY <1>1 DEF WriterInv, StillToRead
<1>3. Head(rx) \in Datagram /\ Tail(rx) \in Seq(Datagram)
  BY <1>1, TailOfQueue
<1>4. rx' \in Seq(Datagram) /\ seen' \in 0 .. timeout + 1 /\ since' \in 0 .. timeout + 1
  BY <1>1, <1>2, <1>3, FeedAssumption
<1>5. Head(rx).from \in Client
  BY <1>3 DEF Datagram
<1>6. CASE synced' /\ Tail(rx) = <<>>
  <2>1. Head(rx) = rx[Len(rx)]
    BY <1>1, <1>6, TailOfQueue
  <2>2. rx' = <<>> /\ last' # Nobody /\ client' = last' /\ seen' = since'
    BY <1>1, <1>2, <1>5, <1>6, <2>1, FeedAssumption
  <2> QED BY <1>1, <1>4, <2>2 DEF WriterInv, UpToDate, StillToRead
<1>7. CASE synced' /\ Tail(rx) # <<>>
  <2>1. rx' = Tail(rx) /\ rx'[Len(rx')] = rx[Len(rx)]
    BY <1>1, <1>7, TailOfQueue
  <2> QED BY <1>1, <1>2, <1>4, <1>7, <2>1 DEF WriterInv, UpToDate, StillToRead
<1>8. CASE ~synced'
  BY <1>1, <1>4, <1>8 DEF WriterInv
<1> QED BY <1>6, <1>7, <1>8

LEMMA WriteKeepsWriter ==
  ASSUME WriterInv, NEW c \in Client, NEW long \in BOOLEAN, Dbg!Write(c, long)
  PROVE  WriterInv'
<1> DEFINE e == [from |-> c, long |-> long]
<1>1. e \in Datagram
  BY DEF Datagram
<1>2. /\ rx' = (IF synced THEN Append(rx, e) ELSE rx)
      /\ synced' = synced /\ last' = c /\ since' = 0 /\ valid' = valid /\ seen' = seen
  BY DEF Dbg!Write
<1>3. since' \in 0 .. timeout + 1
  BY <1>2, FeedAssumption
<1>4. CASE synced
  <2>1. /\ Append(rx, e) \in Seq(Datagram) /\ Append(rx, e) # <<>>
        /\ Append(rx, e)[Len(Append(rx, e))] = e
    BY <1>1, AppendToQueue DEF WriterInv
  <2>2. rx' \in Seq(Datagram) /\ rx' # <<>> /\ rx'[Len(rx')] = e
    BY ONLY <1>2, <1>4, <2>1
  <2>3. rx'[Len(rx')].from = last'
    BY ONLY <1>2, <2>2
  <2> HIDE DEF e
  <2> QED BY <1>2, <1>3, <2>2, <2>3 DEF WriterInv, UpToDate, StillToRead
<1>5. CASE ~synced
  BY <1>2, <1>3, <1>5 DEF WriterInv
<1> QED BY <1>4, <1>5

LEMMA WriterNext == WriterInv /\ [Dbg!DbgNext]_(Dbg!dbgVars) => WriterInv'
<1> SUFFICES ASSUME WriterInv, [Dbg!DbgNext]_(Dbg!dbgVars) PROVE WriterInv'
  OBVIOUS
<1>1. CASE Dbg!PollDatagram
  BY <1>1, PollKeepsWriter
<1>2. CASE Dbg!PollRest
  BY <1>2, FeedAssumption DEF Dbg!PollRest, Dbg!Registered, WriterInv
<1>3. CASE Dbg!SendSensorData
  BY <1>3, FeedAssumption
     DEF Dbg!SendSensorData, Dbg!TimedOut, WriterInv, UpToDate, StillToRead
<1>4. CASE Dbg!Period
  BY <1>4, FeedAssumption DEF Dbg!Period, Dbg!Older, WriterInv, UpToDate, StillToRead
<1>5. CASE \E c \in Client, long \in BOOLEAN : Dbg!Write(c, long)
  BY <1>5, WriteKeepsWriter
<1>6. CASE UNCHANGED Dbg!dbgVars
  BY <1>6 DEF Dbg!dbgVars, WriterInv, UpToDate, StillToRead
<1> QED BY <1>1, <1>2, <1>3, <1>4, <1>5, <1>6 DEF Dbg!DbgNext

\* What a frame finds when everything has been read.
LEMMA ServedByFrame ==
  ASSUME WriterInv, Dbg!SendSensorData, synced, rx = <<>>
  PROVE  Dbg!Served' = IF since <= timeout THEN last ELSE Nobody
<1>1. /\ last = Nobody => ~valid
      /\ last # Nobody => client = last /\ seen = since /\ (since <= timeout => valid)
      /\ seen \in Nat /\ since \in Nat /\ timeout \in Nat
  BY FeedAssumption DEF WriterInv, UpToDate
<1>2. client' = client /\ (valid' <=> (valid /\ ~(seen > timeout)))
  BY DEF Dbg!SendSensorData, Dbg!TimedOut
<1>3. Dbg!Served' = IF valid' THEN client' ELSE Nobody
  BY DEF Dbg!Served
<1> QED BY <1>1, <1>2, <1>3

\* Only a frame ends a gap.
LEMMA GapEndsWithFrame ==
  ASSUME IInv, [FeedNext]_feedVars, gap > 0, gap' = 0
  PROVE  Dbg!SendSensorData
<1>1. ~FeedQuiet
  BY DEF FeedQuiet, Quiet, IInv
<1>2. ~(UNCHANGED vars)
  BY DEF vars
<1> QED BY <1>1, <1>2 DEF FeedNext, FeedFrame, PollDebug, HostWrites, feedVars

\* While datagrams fit the buffer, a frame goes to the host that wrote last, for
\* as long as the timeout says and whoever was served before, and to nobody else:
\* for any number of hosts, any timeout and any number of datagrams waiting.
THEOREM FramesGoToLastWriter == FeedSpec => FeedsLastWriter
<1>1. FeedSpec => []IInv
  BY FeedKeepsTracking, InvHolds, PTL
<1>2. FeedSpec => []WriterInv
  BY FeedKeepsTracking, WriterInit, WriterNext, PTL DEF Dbg!DbgSpec
<1>3. IInv /\ WriterInv /\ [FeedNext]_feedVars =>
        [gap > 0 /\ gap' = 0 /\ synced /\ rx = <<>> =>
           Dbg!Served' = IF since <= timeout THEN last ELSE Nobody]_feedVars
  BY GapEndsWithFrame, ServedByFrame
<1> QED BY <1>1, <1>2, <1>3, PTL DEF FeedSpec, FeedsLastWriter

\* Tracks that count are fresh, and presence has one, with the debug server too.
THEOREM FeedTracksAreFresh == FeedSpec => []NoStaleTrack
BY FeedKeepsTracking, TracksAreFresh, PTL

THEOREM FeedPresenceIsBacked == FeedSpec => []PresenceHasTrack
BY FeedKeepsTracking, PresenceIsBacked, PTL

-----------------------------------------------------------------------------
(* Types. *)

DbgTypeOK == Dbg!DbgType

LEMMA DbgTypeInit == Dbg!DbgInit => DbgTypeOK
<1> SUFFICES ASSUME Dbg!DbgInit PROVE DbgTypeOK
  OBVIOUS
<1>1. rx = <<>> /\ rx \in Seq(Datagram) /\ Len(rx) = 0
  BY DEF Dbg!DbgInit
<1>2. 0 \in 0 .. timeout + 1 /\ 0 <= MaxQueued
  BY FeedAssumption
<1> QED BY <1>1, <1>2 DEF Dbg!DbgInit, DbgTypeOK, Dbg!DbgType, Datagram

LEMMA DbgTypeNext == DbgTypeOK /\ [Dbg!DbgNext]_(Dbg!dbgVars) => DbgTypeOK'
<1> SUFFICES ASSUME DbgTypeOK, [Dbg!DbgNext]_(Dbg!dbgVars) PROVE DbgTypeOK'
  OBVIOUS
<1> USE DEF DbgTypeOK, Dbg!DbgType, Datagram
<1>1. 0 \in 0 .. timeout + 1 /\ MaxQueued \in Nat /\ timeout \in Nat
  BY FeedAssumption
<1>2. CASE Dbg!PollDatagram
  <2>1. /\ rx \in Seq(Datagram) /\ rx # <<>> /\ Len(rx) <= MaxQueued
        /\ rx' = IF synced' THEN Tail(rx) ELSE <<>>
        /\ synced' = ~Head(rx).long
    BY <1>2 DEF Dbg!PollDatagram
  <2>2. /\ Head(rx) \in Datagram /\ Tail(rx) \in Seq(Datagram) /\ Len(rx) \in Nat
        /\ Len(Tail(rx)) = Len(rx) - 1
    BY <2>1, HeadTailProperties, LenProperties
  <2>3. <<>> \in Seq(Datagram) /\ Len(<<>>) = 0
    BY EmptySeq
  <2>4. rx' \in Seq(Datagram) /\ Len(rx') <= MaxQueued
    BY ONLY <1>1, <2>1, <2>2, <2>3
  <2>5. synced' \in BOOLEAN /\ Head(rx).from \in Client
    BY <2>1, <2>2
  <2> QED BY <1>1, <1>2, <2>4, <2>5 DEF Dbg!PollDatagram, Dbg!Registered
<1>3. CASE Dbg!PollRest
  BY <1>1, <1>3 DEF Dbg!PollRest, Dbg!Registered
<1>4. CASE Dbg!SendSensorData
  BY <1>4 DEF Dbg!SendSensorData
<1>5. CASE Dbg!Period
  <2>1. seen' \in 0 .. timeout + 1 /\ since' \in 0 .. timeout + 1
    BY <1>1, <1>5 DEF Dbg!Period, Dbg!Older
  <2> QED BY <1>5, <2>1 DEF Dbg!Period
<1>6. ASSUME NEW c \in Client, NEW long \in BOOLEAN, Dbg!Write(c, long)
      PROVE  DbgTypeOK'
  <2> DEFINE e == [from |-> c, long |-> long]
  <2>1. e \in Datagram /\ rx \in Seq(Datagram)
    OBVIOUS
  <2>2. Len(rx) < MaxQueued /\ rx' = IF synced THEN Append(rx, e) ELSE rx
    BY <1>6 DEF Dbg!Write
  <2>3. /\ Append(rx, e) \in Seq(Datagram) /\ Len(Append(rx, e)) = Len(rx) + 1
        /\ Len(rx) \in Nat
    <3> HIDE DEF e
    <3> QED BY <2>1, AppendProperties, LenProperties
  <2>4. rx' \in Seq(Datagram) /\ Len(rx') <= MaxQueued
    <3> HIDE DEF e
    <3>1. CASE synced
      <4>1. rx' = Append(rx, e)
        BY <2>2, <3>1
      <4>2. Len(rx') = Len(rx) + 1 /\ rx' \in Seq(Datagram)
        BY <2>3, <4>1
      <4> QED BY ONLY <1>1, <2>2, <2>3, <4>2
    <3>2. CASE ~synced
      BY <1>1, <2>1, <2>2, <2>3, <3>2
    <3> QED BY <3>1, <3>2
  <2> HIDE DEF e
  <2> QED BY <1>1, <1>6, <2>4 DEF Dbg!Write
<1>7. CASE UNCHANGED Dbg!dbgVars
  BY <1>7 DEF Dbg!dbgVars
<1> QED BY <1>2, <1>3, <1>4, <1>5, <1>6, <1>7 DEF Dbg!DbgNext

\* For every scene, tuning, number of hosts and timeout: confidences fit their byte,
\* a track is where a target has been, whichever slot the targets came in, and the
\* debug server keeps its types.
THEOREM FeedTypeCorrect == FeedSpec => []FeedTypeOK
<1>1. TypeOK /\ DbgTypeOK => FeedTypeOK
  BY DEF FeedTypeOK, DbgTypeOK
<1> QED
  BY <1>1, FeedKeepsTracking, TracksTypeCorrect, DbgTypeInit, DbgTypeNext, PTL DEF Dbg!DbgSpec
=============================================================================
