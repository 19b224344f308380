------------------------------ MODULE PwmLight ------------------------------
(***************************************************************************)
(* The white light of the kitchen (kitchen_pwm/pwm_api.c, pwm_drv.c): the  *)
(* level asked for, the level taken as current, the level written last,    *)
(* and the duty cycle of the PWM slice.  `led` sets only the white         *)
(* channel, so a colour is its white level.  The fades are started from    *)
(* nowhere and the brightness stays at LINEAR_MAX, where it scales by one. *)
(***************************************************************************)
EXTENDS Naturals

CONSTANTS
  Level,     \* linear levels of the white channel, 0 among them
  NoLevel,   \* 0xFFFF in every channel
  Gamma,     \* linear_to_pwm
  Freq,      \* frequencies the freq command takes
  Reachable  \* those whose clock divider lies in 1..256

VARIABLES s_target, s_current, last_target,
  duty,     \* what the slice drives
  blanked   \* history: has pwm_drv_init cleared the duty since it was written?

light == <<s_target, s_current, last_target, duty, blanked>>

\* pwm_mod_init, at power-up.
LightInit ==
  /\ s_target = 0 /\ s_current = 0 /\ last_target = NoLevel
  /\ duty = Gamma[0] /\ blanked = FALSE

LightReset ==
  /\ s_target' = 0 /\ s_current' = 0 /\ last_target' = NoLevel
  /\ duty' = Gamma[0] /\ blanked' = FALSE

\* pwm_led_set, outside a fade.
LedSet(w) ==
  /\ s_target' = w /\ s_current' = w
  /\ UNCHANGED <<last_target, duty, blanked>>

\* Slip: the divider is not tested.
DividerFits_Always(f) == TRUE
DividerFits(f) == f \in Reachable

\* pwm_rgbw_reconfigure: a frequency out of reach is given up before anything
\* is written; any other initialises every channel to 0.
Reconfigure(f) ==
  /\ IF DividerFits(f) THEN duty' = Gamma[0] /\ blanked' = TRUE
                       ELSE UNCHANGED <<duty, blanked>>
  /\ UNCHANGED <<s_target, s_current, last_target>>

\* Slip: compared with the current level, which `led` has set already.
Changed_SinceCurrent(c) == c # s_current
Changed(c) == c # last_target

\* pwm_api_poll.
LightPoll ==
  /\ s_current' = s_target
  /\ IF Changed(s_target)
     THEN last_target' = s_target /\ duty' = Gamma[s_target] /\ blanked' = FALSE
     ELSE UNCHANGED <<last_target, duty, blanked>>
  /\ UNCHANGED s_target

LightNext ==
  \/ \E w \in Level : LedSet(w)
  \/ \E f \in Freq : Reconfigure(f)
  \/ LightPoll \/ LightReset

LightSpec == LightInit /\ [][LightNext]_light

LightType ==
  /\ s_target \in Level /\ s_current \in Level
  /\ last_target \in Level \union {NoLevel}
  /\ duty \in Nat /\ blanked \in BOOLEAN
=============================================================================
