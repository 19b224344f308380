----------------------------- MODULE StairsFrame -----------------------------
(***************************************************************************)
(* The LED output of the stairs (stairs_ws2815): every 20 ms the main loop *)
(* draws a pattern into framebuf, every 2 ms it looks whether there is     *)
(* something new, turns framebuf into the bit planes `colors`, waits for a *)
(* semaphore and starts a DMA transfer out of the same planes.  When the   *)
(* transfer is complete, an interrupt handler starts the reset delay; the  *)
(* alarm at its end posts the semaphore.                                   *)
(*                                                                         *)
(* The two tasks are due by a millisecond counter and catch up one period  *)
(* per pass when other services kept the loop.  A frame is a number, 0     *)
(* when all LEDs are dark; what a pattern draws is any frame.              *)
(***************************************************************************)
EXTENDS Naturals, Sequences

CONSTANTS
  NUM_PIXELS,
  Frame,        \* what patterns draw
  Table,        \* count_of(pattern_table)
  period_patt, period_loop,
  Span,         \* ticks within which a transfer and its reset delay are over
  Slack,        \* how late the main loop may be without being called behind
  MaxLate       \* bound on how far it can be behind

ASSUME StairsAssumption ==
  /\ NUM_PIXELS \in Nat \ {0} /\ Table \in 1..199 /\ Frame \subseteq Nat
  /\ period_patt \in Nat \ {0} /\ period_loop \in Nat \ {0}
  /\ Span \in Nat \ {0} /\ Slack \in Nat /\ MaxLate \in Nat

VARIABLES
  due_patt, due_loop,      \* tmr_ms_tick - last_tmr_patt, - last_tmr_loop
  pattern_index,
  framebuf, patern_update_framebuf,
  colors,                  \* the frame each pixel of the planes belongs to
  main,                    \* where the main loop is; the pixel being transformed
  reset_delay_complete_sem, reset_delay_alarm_id,
  dma,                     \* 0: idle; the fragment that is read next
  age,                     \* ticks since the semaphore was taken
  wire,                    \* pixels sent since the LEDs last latched
  shown,                   \* what the LEDs show
  behind                   \* was the main loop ever late?

time   == <<due_patt, due_loop, age, behind>>
draw   == <<pattern_index, framebuf, patern_update_framebuf>>
output == <<reset_delay_complete_sem, reset_delay_alarm_id, dma, wire, shown>>
vars   == <<time, draw, colors, main, output>>

Pixels   == 1..NUM_PIXELS
PAT_AUTO == 200
PAT_ZERO == 201
PAT_IDLE == 202

Solid(f) == [i \in Pixels |-> f]

\* ws2815_init; the semaphore is posted at first.
Init ==
  /\ due_patt = 0 /\ due_loop = 0 /\ age = 0 /\ behind = FALSE
  /\ pattern_index = PAT_ZERO /\ framebuf = 0 /\ patern_update_framebuf = TRUE
  /\ colors = Solid(0) /\ main = [at |-> "services", p |-> 1]
  /\ reset_delay_complete_sem = 1 /\ reset_delay_alarm_id = FALSE
  /\ dma = 0 /\ wire = <<>> /\ shown = Solid(0)

-----------------------------------------------------------------------------
(* The millisecond timer. *)

\* A transfer keeps its pace whatever the main loop does.
Tick ==
  /\ due_patt < MaxLate /\ due_loop < MaxLate
  /\ reset_delay_complete_sem = 0 => age < Span
  /\ due_patt' = due_patt + 1 /\ due_loop' = due_loop + 1
  /\ age' = IF reset_delay_complete_sem = 0 THEN age + 1 ELSE 0
  /\ behind' = (behind \/ due_patt' > period_patt + Slack \/ due_loop' > period_loop + Slack)
  /\ UNCHANGED <<draw, colors, main, output>>

-----------------------------------------------------------------------------
(* The main loop. *)

GoTo(place) == main' = [main EXCEPT !.at = place]

\* set_pattern_index, from telnet.
SetPattern ==
  /\ main.at = "services"
  /\ \E index \in 0 .. Table + 1 :
       pattern_index' = IF index > Table THEN PAT_AUTO ELSE IF index = 0 THEN PAT_ZERO ELSE index
  /\ UNCHANGED <<time, framebuf, patern_update_framebuf, colors, main, output>>

PatternNotDue ==
  /\ main.at = "services" /\ due_patt < period_patt
  /\ GoTo("loop")
  /\ UNCHANGED <<time, draw, colors, output>>

Done(due, period) == due - period

\* ws2815_pattern_loop.
PatternDue ==
  /\ main.at = "services" /\ due_patt >= period_patt
  /\ due_patt' = Done(due_patt, period_patt)
  /\ GoTo("loop")
  /\ UNCHANGED <<due_loop, age, behind, colors, output>>

Draw ==
  /\ pattern_index <= Table \/ pattern_index = PAT_AUTO
  /\ framebuf' \in Frame /\ patern_update_framebuf' = TRUE
  /\ UNCHANGED pattern_index

\* Slip: the buffer is cleared and nobody told.
Clear_Untold ==
  /\ pattern_index = PAT_ZERO /\ pattern_index' = PAT_IDLE
  /\ framebuf' = 0 /\ UNCHANGED patern_update_framebuf

Clear ==
  /\ pattern_index = PAT_ZERO /\ pattern_index' = PAT_IDLE
  /\ framebuf' = 0 /\ patern_update_framebuf' = TRUE

Idle == pattern_index = PAT_IDLE /\ UNCHANGED draw

\* ws2815_loop: nothing to do, or not its time.
LoopQuiet ==
  /\ main.at = "loop" /\ (due_loop < period_loop \/ ~patern_update_framebuf)
  /\ due_loop' = IF due_loop < period_loop THEN due_loop ELSE Done(due_loop, period_loop)
  /\ GoTo("services")
  /\ UNCHANGED <<due_patt, age, behind, draw, colors, output>>

LoopUpdate ==
  /\ main.at = "loop" /\ due_loop >= period_loop /\ patern_update_framebuf
  /\ due_loop' = Done(due_loop, period_loop)
  /\ patern_update_framebuf' = FALSE
  /\ main' = [at |-> "clear pixel", p |-> 1]
  /\ UNCHANGED <<due_patt, age, behind, pattern_index, framebuf, colors, output>>

\* transform_framebuf clears the planes of a pixel, then sets their bits.
ClearPixel ==
  /\ main.at = "clear pixel"
  /\ colors' = [colors EXCEPT ![main.p] = 0]
  /\ GoTo("set pixel")
  /\ UNCHANGED <<time, draw, output>>

\* Slip: it goes on to NUM_PIXELS * NUM_CHANNELS, as its caller asks.
LastPixel_Unclamped == NUM_PIXELS + 1
LastPixel == NUM_PIXELS

SetPixel ==
  /\ main.at = "set pixel"
  /\ colors' = [colors EXCEPT ![main.p] = framebuf]
  /\ main' = IF main.p < LastPixel THEN [at |-> "clear pixel", p |-> main.p + 1]
             ELSE [main EXCEPT !.at = "acquire"]
  /\ UNCHANGED <<time, draw, output>>

\* Slip: the transfer starts without waiting.
MayStart_Always == TRUE
MayStart == reset_delay_complete_sem = 1

\* sem_acquire_blocking, output_strips_dma.
Acquire ==
  /\ main.at = "acquire" /\ MayStart
  /\ reset_delay_complete_sem' = 0 /\ age' = 0
  /\ dma' = 1
  /\ main' = [at |-> "services", p |-> 1]
  /\ UNCHANGED <<due_patt, due_loop, behind, draw, colors, reset_delay_alarm_id, wire, shown>>

-----------------------------------------------------------------------------
(* DMA, interrupts and LEDs. *)

Fragment ==
  /\ dma \in Pixels
  /\ wire' = Append(wire, colors[dma])
  /\ dma' = dma + 1
  /\ UNCHANGED <<time, draw, colors, main, reset_delay_complete_sem, reset_delay_alarm_id, shown>>

\* Slip: the semaphore is posted without a delay.
DelayStarted_Skipped == reset_delay_complete_sem' = 1 /\ UNCHANGED reset_delay_alarm_id
DelayStarted == reset_delay_alarm_id' = TRUE /\ UNCHANGED reset_delay_complete_sem

\* The NULL fragment raises the interrupt: dma_complete_handler.
DmaComplete ==
  /\ dma = NUM_PIXELS + 1 /\ dma' = 0
  /\ DelayStarted
  /\ UNCHANGED <<time, draw, colors, main, wire, shown>>

\* The LEDs take over what was sent after 280 us without data ...
Latch ==
  /\ dma = 0 /\ wire # <<>>
  /\ shown' = wire /\ wire' = <<>>
  /\ UNCHANGED <<time, draw, colors, main, reset_delay_complete_sem, reset_delay_alarm_id, dma>>

\* ... and reset_delay_complete is called after 400.
DelayComplete ==
  /\ reset_delay_alarm_id /\ wire = <<>>
  /\ reset_delay_alarm_id' = FALSE /\ reset_delay_complete_sem' = 1
  /\ UNCHANGED <<time, draw, colors, main, dma, wire, shown>>

-----------------------------------------------------------------------------

Loop ==
  \/ PatternNotDue
  \/ PatternDue /\ (Draw \/ Clear \/ Idle)
  \/ LoopQuiet \/ LoopUpdate \/ ClearPixel \/ SetPixel \/ Acquire
Output == Fragment \/ DmaComplete \/ Latch \/ DelayComplete

Next == Tick \/ SetPattern \/ Loop \/ Output

\* Timer, main loop and DMA go on for ever.
Spec == Init /\ [][Next]_vars /\ WF_vars(Tick) /\ WF_vars(Loop) /\ WF_vars(Output)

-----------------------------------------------------------------------------
(* Properties. *)

TypeOK ==
  /\ due_patt \in 0..MaxLate /\ due_loop \in 0..MaxLate
  /\ age \in 0..Span /\ behind \in BOOLEAN
  /\ pattern_index \in 1..Table \union {PAT_AUTO, PAT_ZERO, PAT_IDLE}
  /\ framebuf \in Frame \union {0} /\ patern_update_framebuf \in BOOLEAN
  /\ colors \in [Pixels -> Frame \union {0}]
  /\ main \in [at: {"services", "loop", "clear pixel", "set pixel", "acquire"}, p: Pixels]
  /\ reset_delay_complete_sem \in 0..1 /\ reset_delay_alarm_id \in BOOLEAN
  /\ dma \in 0 .. NUM_PIXELS + 1
  /\ wire \in Seq(Frame \union {0}) /\ shown \in Seq(Frame \union {0})

\* Two transfers never run into each other: what the LEDs latch is one transfer,
\* pixel for pixel, however far the loop is behind and catches up.
OneTransferLatched == Len(wire) <= NUM_PIXELS /\ Len(shown) = NUM_PIXELS

\* As long as the main loop is in time, the LEDs show one frame and not parts of
\* two, although the planes are rewritten without waiting for the transfer.
ShowsOneFrame == ~behind => \A i, j \in DOMAIN shown : shown[i] = shown[j]

\* After `set 0` the stairs go dark and stay dark, whatever was in the planes, on
\* the wire or due when the command came: the wait for the semaphore always ends,
\* and the last frame of the pattern does not come after the dark one.
GoesDark == <>[](pattern_index \in {PAT_ZERO, PAT_IDLE}) => <>[](shown = Solid(0))
=============================================================================
