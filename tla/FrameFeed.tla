------------------------------ MODULE FrameFeed ------------------------------
(***************************************************************************)
(* What the DDP receiver promises while it keeps up: every datagram that   *)
(* carries pixels is shown once, whole, in the order of arrival.           *)
(***************************************************************************)
EXTENDS Naturals, Sequences

VARIABLES
  waiting,   \* numbers of the datagrams that are still to be shown
  shown      \* what was copied into the frame buffer: <<header of, payload of>>

feedVars == <<waiting, shown>>

Init == waiting = {} /\ shown = <<>>

\* Datagrams are numbered as they arrive.
Arrive(d) ==
  /\ \A e \in waiting : e < d
  /\ \A i \in DOMAIN shown : shown[i][1] < d
  /\ waiting' = waiting \union {d}
  /\ UNCHANGED shown

Show(d) ==
  /\ \A e \in waiting : d <= e
  /\ shown' = Append(shown, <<d, d>>)
  /\ waiting' = waiting \ {d}

Next == (\E d \in waiting' : Arrive(d)) \/ (\E d \in waiting : Show(d))

Spec == Init /\ [][Next]_feedVars
=============================================================================
