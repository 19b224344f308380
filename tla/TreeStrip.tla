------------------------------ MODULE TreeStrip ------------------------------
(***************************************************************************)
(* The LED output of the tree (tree_ws2815), one strip: every period_patt  *)
(* the main loop calls ws2815_pattern_loop, which draws into ws2815_buf at *)
(* every second call; every period_loop it calls ws2815_loop, which sends  *)
(* the same buffer, if there is something new, the last transfer is done   *)
(* and its latch deadline reached.  There is no second buffer, and nothing *)
(* keeps a pattern from drawing while the DMA reads.                       *)
(*                                                                         *)
(* The DMA fills the FIFO of the PIO and reports its end while the PIO is  *)
(* still shifting out.  The LEDs take over what was sent after a pause;    *)
(* what follows without one runs through them and off the end.             *)
(*                                                                         *)
(* A frame is a number, 0 when a LED is dark; what a pattern draws is any. *)
(***************************************************************************)
EXTENDS Naturals, Sequences

CONSTANTS
  NUM_PIXELS,
  Frame,             \* what patterns draw
  Table,             \* count_of(pattern_table)
  Index,             \* the patterns chosen by telnet
  Zero,              \* zero_counter's start, 500
  period_patt, period_loop,
  Deadline,          \* us from the DMA interrupt until the next transfer may start
  Drain,             \* us the PIO takes for the words in the FIFO
  Low,               \* us of LOW that the LEDs need
  Span,              \* ticks within which a transfer is sent and latched
  Slack,             \* how late the main loop may be without being called behind
  MaxLate            \* bound on how far it can be behind

ASSUME TreeAssumption ==
  /\ NUM_PIXELS \in Nat \ {0} /\ Table \in 1..199 /\ Index \subseteq 0..255 /\ Frame \subseteq Nat
  /\ Zero \in Nat
  /\ period_patt \in Nat \ {0} /\ period_loop \in Nat \ {0}
  /\ {Deadline, Drain, Low} \subseteq Nat /\ Drain <= Deadline
  /\ Span \in Nat \ {0} /\ Slack \in Nat /\ MaxLate \in Nat

VARIABLES
  due_patt, due_loop,      \* tmr_ms_tick - last_tmr_patt, - last_tmr_loop
  age,                     \* ticks since the transfer began
  behind,                  \* was the main loop ever late?
  pattern_index, max_led,
  counter, zero_counter,
  ws2815_buf, ws2815_refresh_required,
  main,                    \* where the main loop is; pixel and frame being drawn
  dma,                     \* next word to read, 0: idle
  ws2815_dma_done, latch,  \* is ws2815_latch_deadline reached?
  wire,                    \* handed to the PIO since the LEDs last took over
  shown                    \* what they show

time   == <<due_patt, due_loop, age, behind>>
set    == <<pattern_index, max_led>>
draw   == <<counter, zero_counter, ws2815_buf, ws2815_refresh_required>>
output == <<dma, ws2815_dma_done, latch, wire, shown>>
vars   == <<time, set, draw, main, output>>

Pixels   == 1..NUM_PIXELS
PAT_AUTO == 200
PAT_ZERO == 201

Solid(f) == [i \in Pixels |-> f]

\* counter starts with 100: the first call draws.
Init ==
  /\ due_patt = 0 /\ due_loop = 0 /\ age = 0 /\ behind = FALSE
  /\ pattern_index = 0 /\ max_led = NUM_PIXELS
  /\ counter = 1 /\ zero_counter = 0
  /\ ws2815_buf = Solid(0) /\ ws2815_refresh_required = FALSE
  /\ main = [at |-> "services", p |-> 1, f |-> 0]
  /\ dma = 0 /\ ws2815_dma_done = TRUE /\ latch = TRUE
  /\ wire = <<>> /\ shown = Solid(0)

-----------------------------------------------------------------------------
(* The millisecond timer. *)

Sent == ws2815_dma_done /\ latch /\ wire = <<>>

\* A transfer keeps its pace whatever the main loop does.
Tick ==
  /\ due_patt < MaxLate /\ due_loop < MaxLate
  /\ Sent \/ age < Span
  /\ due_patt' = due_patt + 1 /\ due_loop' = due_loop + 1
  /\ age' = IF Sent THEN 0 ELSE age + 1
  /\ behind' = (behind \/ due_patt' > period_patt + Slack \/ due_loop' > period_loop + Slack)
  /\ UNCHANGED <<set, draw, main, output>>

-----------------------------------------------------------------------------
(* The main loop. *)

GoTo(place) == main' = [main EXCEPT !.at = place]

\* set_pattern_index, from telnet.
SetPattern ==
  /\ main.at = "services"
  /\ \E index \in Index :
       pattern_index' = IF index > Table THEN PAT_AUTO ELSE IF index = 0 THEN PAT_ZERO ELSE index
  /\ UNCHANGED <<time, max_led, draw, main, output>>

\* set_max_led, from telnet.
SetMax ==
  /\ main.at = "services"
  /\ max_led' \in 0..NUM_PIXELS
  /\ UNCHANGED <<time, pattern_index, draw, main, output>>

PatternNotDue ==
  /\ main.at = "services" /\ due_patt < period_patt
  /\ GoTo("loop")
  /\ UNCHANGED <<time, set, draw, output>>

\* Slip: every call draws.
DrawsNow_Always == TRUE
DrawsNow == counter + 1 >= 2

Selected == pattern_index \in 1..Table

\* ws2815_pattern_loop: not this time, or darkness was drawn lately.
NothingDrawn ==
  /\ \/ ~DrawsNow /\ counter' = counter + 1 /\ UNCHANGED zero_counter
     \/ /\ DrawsNow /\ counter' = 0
        /\ ~Selected /\ zero_counter > 0 /\ zero_counter' = zero_counter - 1
  /\ GoTo("loop")
  /\ UNCHANGED <<ws2815_buf, ws2815_refresh_required>>

ZeroAgain == zero_counter = 0 /\ zero_counter' = Zero

\* Slip: nobody is told that darkness was drawn.
Told_Zero == ws2815_refresh_required' = (ws2815_refresh_required \/ main.f # 0)
Told == ws2815_refresh_required' = TRUE

\* A pattern of no pixels leaves the buffer as it was; it is sent all the same.
Draw(f) ==
  IF max_led = 0 THEN GoTo("loop") /\ Told
  ELSE main' = [at |-> "draw", p |-> 1, f |-> f] /\ UNCHANGED ws2815_refresh_required

DrawStarts ==
  /\ DrawsNow /\ counter' = 0
  /\ \/ Selected /\ UNCHANGED zero_counter /\ (\E f \in Frame : Draw(f))
     \/ ~Selected /\ ZeroAgain /\ Draw(0)
  /\ UNCHANGED ws2815_buf

PatternDue ==
  /\ main.at = "services" /\ due_patt >= period_patt
  /\ due_patt' = due_patt - period_patt
  /\ NothingDrawn \/ DrawStarts
  /\ UNCHANGED <<due_loop, age, behind, set, output>>

\* Slip: i <= pixels.
LastDrawn_Inclusive == max_led + 1
LastDrawn == max_led

\* The pattern writes the buffer, max_led pixels of it.
DrawPixel ==
  /\ main.at = "draw"
  /\ ws2815_buf' = [ws2815_buf EXCEPT ![main.p] = main.f]
  /\ IF main.p < LastDrawn
     THEN main' = [main EXCEPT !.p = @ + 1] /\ UNCHANGED ws2815_refresh_required
     ELSE main' = [at |-> "loop", p |-> 1, f |-> 0] /\ Told
  /\ UNCHANGED <<time, set, counter, zero_counter, output>>

MayStart == ws2815_dma_done /\ latch

LoopNotDue ==
  /\ main.at = "loop" /\ due_loop < period_loop
  /\ GoTo("services")
  /\ UNCHANGED <<time, set, draw, output>>

\* ws2815_loop: still busy, or nothing to send.
LoopQuiet ==
  /\ main.at = "loop" /\ due_loop >= period_loop
  /\ ~MayStart \/ ~ws2815_refresh_required
  /\ due_loop' = due_loop - period_loop
  /\ GoTo("services")
  /\ UNCHANGED <<due_patt, age, behind, set, draw, output>>

\* ws2815_start_dma_write.
LoopStarts ==
  /\ main.at = "loop" /\ due_loop >= period_loop
  /\ MayStart /\ ws2815_refresh_required
  /\ due_loop' = due_loop - period_loop
  /\ ws2815_refresh_required' = FALSE
  /\ ws2815_dma_done' = FALSE /\ dma' = 1 /\ age' = 0
  /\ GoTo("services")
  /\ UNCHANGED <<due_patt, behind, set, counter, zero_counter, ws2815_buf, latch, wire, shown>>

-----------------------------------------------------------------------------
(* DMA, PIO and LEDs. *)

\* A word goes to the FIFO; of what the PIO shifts out the strip keeps the first
\* NUM_PIXELS.
ReadWord ==
  /\ dma \in Pixels /\ dma' = dma + 1
  /\ wire' = IF Len(wire) < NUM_PIXELS THEN Append(wire, ws2815_buf[dma]) ELSE wire
  /\ UNCHANGED <<time, set, draw, main, ws2815_dma_done, latch, shown>>

\* dma_handler_ws2815.
DmaComplete ==
  /\ dma = NUM_PIXELS + 1 /\ dma' = 0
  /\ ws2815_dma_done' = TRUE /\ latch' = FALSE
  /\ UNCHANGED <<time, set, draw, main, wire, shown>>

\* Drain and Low after the interrupt the LEDs take over, Deadline after it the
\* next transfer may start; both count from the same moment.
Latch ==
  /\ dma = 0 /\ wire # <<>>
  /\ Deadline < Drain + Low => latch
  /\ shown' = wire /\ wire' = <<>>
  /\ UNCHANGED <<time, set, draw, main, dma, ws2815_dma_done, latch>>

DeadlineReached ==
  /\ ~latch /\ dma = 0
  /\ Drain + Low <= Deadline => wire = <<>>
  /\ latch' = TRUE
  /\ UNCHANGED <<time, set, draw, main, dma, ws2815_dma_done, wire, shown>>

-----------------------------------------------------------------------------

Loop ==
  \/ PatternNotDue \/ PatternDue \/ DrawPixel
  \/ LoopNotDue \/ LoopQuiet \/ LoopStarts
Output == ReadWord \/ DmaComplete \/ Latch \/ DeadlineReached

Next == Tick \/ SetPattern \/ SetMax \/ Loop \/ Output

\* Timer, main loop and DMA go on for ever.
Spec == Init /\ [][Next]_vars /\ WF_vars(Tick) /\ WF_vars(Loop) /\ WF_vars(Output)

-----------------------------------------------------------------------------
(* Properties. *)

TypeOK ==
  /\ due_patt \in 0..MaxLate /\ due_loop \in 0..MaxLate
  /\ age \in 0..Span /\ behind \in BOOLEAN
  /\ pattern_index \in 0..Table \union {PAT_AUTO, PAT_ZERO} /\ max_led \in 0..NUM_PIXELS
  /\ counter \in 0..1 /\ zero_counter \in 0..Zero
  /\ ws2815_buf \in [Pixels -> Frame \union {0}]
  /\ ws2815_refresh_required \in BOOLEAN
  /\ main \in [at: {"services", "draw", "loop"}, p: Pixels, f: Frame \union {0}]
  /\ dma \in 0 .. NUM_PIXELS + 1
  /\ ws2815_dma_done \in BOOLEAN /\ latch \in BOOLEAN
  /\ wire \in Seq(Frame \union {0}) /\ Len(wire) <= NUM_PIXELS
  /\ shown \in [Pixels -> Frame \union {0}]

\* As long as the main loop is in time, every frame that was drawn is shown,
\* whole, before the next one is drawn over it, although both use one buffer and
\* the deadline ends before the LEDs have taken the frame over.
EachFrameShown ==
  [][main.at = "services" /\ main'.at = "draw" /\ ~behind => shown = ws2815_buf]_vars

\* The LEDs that are driven go dark after `set 0` ("switch off LEDs") and stay
\* dark, however late the loop is: neither a frame drawn earlier nor the wait of
\* zero_counter, which an earlier `set 0` may have left running, keeps them lit.
DrivenGoDark ==
  \A m \in Pixels :
    <>[](~Selected /\ max_led = m) => <>[](\A p \in 1..m : shown[p] = 0)
=============================================================================
