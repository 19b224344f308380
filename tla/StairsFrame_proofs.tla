------------------------ MODULE StairsFrame_proofs ------------------------
(* Types and the separation of transfers, for every number of pixels, set  *)
(* of frames, schedule and lateness; whole frames as long as the loop is   *)
(* not too late for the pattern period.                                    *)
EXTENDS StairsFrame, TLAPS

AnyFrame == Frame \union {0}

\* The type invariant in parts: what one action changes is one or two of them.
TimeOK    == due_patt \in 0..MaxLate /\ due_loop \in 0..MaxLate /\ age \in 0..Span
BehindOK  == behind \in BOOLEAN
IndexOK   == pattern_index \in 1..Table \union {PAT_AUTO, PAT_ZERO, PAT_IDLE}
BufferOK  == framebuf \in AnyFrame /\ patern_update_framebuf \in BOOLEAN
PlanesOK  == colors \in [1..NUM_PIXELS -> AnyFrame]
MainOK    == main \in [at: {"services", "loop", "clear pixel", "set pixel", "acquire"},
                       p: 1..NUM_PIXELS]
SemOK     == reset_delay_complete_sem \in 0..1 /\ reset_delay_alarm_id \in BOOLEAN
LedsOK    == dma \in 0 .. NUM_PIXELS + 1 /\ wire \in Seq(AnyFrame) /\ shown \in Seq(AnyFrame)

LEMMA TypeParts ==
  TypeOK <=> /\ TimeOK /\ BehindOK /\ IndexOK /\ BufferOK
             /\ PlanesOK /\ MainOK /\ SemOK /\ LedsOK
<1> QED
  BY Zenon DEF TypeOK, TimeOK, BehindOK, IndexOK, BufferOK, PlanesOK, MainOK, SemOK, LedsOK,
               Pixels, AnyFrame

\* One transfer at a time: the semaphore is free only when the LEDs latched all
\* that was sent; otherwise the DMA has sent what it passed, or it is done and
\* either the LEDs wait for their gap or the alarm is due.
Free     == /\ reset_delay_complete_sem = 1
            /\ dma = 0 /\ ~reset_delay_alarm_id /\ wire = <<>>
Sending  == /\ reset_delay_complete_sem = 0
            /\ dma \in 1 .. NUM_PIXELS + 1 /\ ~reset_delay_alarm_id /\ Len(wire) = dma - 1
Delaying == /\ reset_delay_complete_sem = 0
            /\ dma = 0 /\ reset_delay_alarm_id /\ (wire = <<>> \/ Len(wire) = NUM_PIXELS)
OneTransfer == (Free \/ Sending \/ Delaying) /\ Len(shown) = NUM_PIXELS

IInv == TypeOK /\ OneTransfer

-----------------------------------------------------------------------------

LEMMA ConstantsAreNumbers ==
  /\ NUM_PIXELS \in Nat /\ NUM_PIXELS >= 1
  /\ period_patt \in Nat /\ period_loop \in Nat /\ MaxLate \in Nat /\ Span \in Nat
<1> QED  BY StairsAssumption

\* A solid frame is a sequence as long as the strip.
LEMMA SolidIsStrip ==
  ASSUME NEW f \in AnyFrame
  PROVE  /\ Solid(f) \in [1..NUM_PIXELS -> AnyFrame] /\ Solid(f) \in Seq(AnyFrame)
         /\ Len(Solid(f)) = NUM_PIXELS
<1>1. Solid(f) \in [1..NUM_PIXELS -> AnyFrame]  BY DEF Solid, Pixels
<1> QED  BY <1>1, ConstantsAreNumbers DEF Solid, Pixels

LEMMA InitIInv == Init => IInv
<1> SUFFICES ASSUME Init PROVE IInv  OBVIOUS
<1>1. 0 \in AnyFrame  BY DEF AnyFrame
<1>2. TimeOK  BY ConstantsAreNumbers DEF Init, TimeOK
<1>3. BehindOK /\ IndexOK  BY DEF Init, BehindOK, IndexOK
<1>4. BufferOK  BY <1>1 DEF Init, BufferOK
<1>5. PlanesOK  BY <1>1, SolidIsStrip DEF Init, PlanesOK
<1>6. MainOK  BY ConstantsAreNumbers DEF Init, MainOK
<1>7. SemOK
  <2>1. reset_delay_alarm_id \in BOOLEAN  BY Zenon DEF Init
  <2> QED  BY <2>1 DEF Init, SemOK
<1>8. LedsOK  BY <1>1, SolidIsStrip, ConstantsAreNumbers DEF Init, LedsOK
<1>9. OneTransfer  BY <1>1, SolidIsStrip DEF Init, OneTransfer, Free
<1> QED  BY <1>2, <1>3, <1>4, <1>5, <1>6, <1>7, <1>8, <1>9, TypeParts DEF IInv

\* What an action leaves alone keeps its type.
LEMMA PartsKept ==
  ASSUME TypeOK
  PROVE  /\ UNCHANGED <<due_patt, due_loop, age>> => TimeOK'
         /\ UNCHANGED behind => BehindOK'
         /\ UNCHANGED pattern_index => IndexOK'
         /\ UNCHANGED <<framebuf, patern_update_framebuf>> => BufferOK'
         /\ UNCHANGED colors => PlanesOK'
         /\ UNCHANGED main => MainOK'
         /\ UNCHANGED <<reset_delay_complete_sem, reset_delay_alarm_id>> => SemOK'
         /\ UNCHANGED <<dma, wire, shown>> => LedsOK'
<1>1. TimeOK /\ BehindOK /\ IndexOK /\ BufferOK /\ PlanesOK /\ MainOK /\ SemOK /\ LedsOK
  BY TypeParts
<1> QED
  BY <1>1 DEF TimeOK, BehindOK, IndexOK, BufferOK, PlanesOK, MainOK, SemOK, LedsOK

LEMMA OutputKept ==
  ASSUME OneTransfer, UNCHANGED output
  PROVE  OneTransfer'
<1> QED  BY DEF OneTransfer, Free, Sending, Delaying, output

\* The part of the invariant that types give, primed.
LEMMA TypePartsNext ==
  TimeOK' /\ BehindOK' /\ IndexOK' /\ BufferOK' /\ PlanesOK' /\ MainOK' /\ SemOK' /\ LedsOK'
    => TypeOK'
<1> QED
  BY Zenon DEF TypeOK, TimeOK, BehindOK, IndexOK, BufferOK, PlanesOK, MainOK, SemOK, LedsOK,
               Pixels, AnyFrame

LEMMA NextIInv == IInv /\ [Next]_vars => IInv'
<1> SUFFICES ASSUME IInv, [Next]_vars PROVE IInv'  OBVIOUS
<1>a. TypeOK /\ OneTransfer  BY DEF IInv
<1>b. TimeOK /\ BehindOK /\ IndexOK /\ BufferOK /\ PlanesOK /\ MainOK /\ SemOK /\ LedsOK
  BY <1>a, TypeParts
<1>c. SUFFICES /\ TimeOK' /\ BehindOK' /\ IndexOK' /\ BufferOK'
               /\ PlanesOK' /\ MainOK' /\ SemOK' /\ LedsOK'
               /\ OneTransfer'
  BY TypePartsNext DEF IInv
<1>1. CASE Tick
  <2>1. TimeOK'  BY <1>b, <1>1, ConstantsAreNumbers DEF Tick, TimeOK, SemOK
  <2>2. BehindOK'  BY <1>1 DEF Tick, BehindOK
  <2>3. IndexOK' /\ BufferOK' /\ PlanesOK' /\ MainOK' /\ SemOK' /\ LedsOK' /\ OneTransfer'
    BY <1>a, <1>1, PartsKept, OutputKept DEF Tick, draw, output
  <2> QED  BY <2>1, <2>2, <2>3
<1>2. CASE SetPattern
  <2>1. IndexOK'  BY <1>2, StairsAssumption DEF SetPattern, IndexOK
  <2>2. TimeOK' /\ BehindOK' /\ BufferOK' /\ PlanesOK' /\ MainOK' /\ SemOK' /\ LedsOK' /\ OneTransfer'
    BY <1>a, <1>2, PartsKept, OutputKept DEF SetPattern, time, output
  <2> QED  BY <2>1, <2>2
<1>3. CASE PatternNotDue
  <2>1. MainOK'  BY <1>b, <1>3 DEF PatternNotDue, GoTo, MainOK
  <2>2. TimeOK' /\ BehindOK' /\ IndexOK' /\ BufferOK' /\ PlanesOK' /\ SemOK' /\ LedsOK' /\ OneTransfer'
    BY <1>a, <1>3, PartsKept, OutputKept DEF PatternNotDue, time, draw, output
  <2> QED  BY <2>1, <2>2
<1>4. CASE PatternDue /\ (Draw \/ Clear \/ Idle)
  <2>1. TimeOK'  BY <1>b, <1>4, ConstantsAreNumbers DEF PatternDue, Done, TimeOK
  <2>2. MainOK'  BY <1>b, <1>4 DEF PatternDue, GoTo, MainOK
  <2>3. IndexOK'  BY <1>b, <1>4 DEF Draw, Clear, Idle, draw, IndexOK
  <2>4. BufferOK'  BY <1>b, <1>4 DEF Draw, Clear, Idle, draw, BufferOK, AnyFrame
  <2>5. BehindOK' /\ PlanesOK' /\ SemOK' /\ LedsOK' /\ OneTransfer'
    BY <1>a, <1>4, PartsKept, OutputKept DEF PatternDue, output
  <2> QED  BY <2>1, <2>2, <2>3, <2>4, <2>5
<1>5. CASE LoopQuiet
  <2>1. TimeOK'  BY <1>b, <1>5, ConstantsAreNumbers DEF LoopQuiet, Done, TimeOK
  <2>2. MainOK'  BY <1>b, <1>5 DEF LoopQuiet, GoTo, MainOK
  <2>3. BehindOK' /\ IndexOK' /\ BufferOK' /\ PlanesOK' /\ SemOK' /\ LedsOK' /\ OneTransfer'
    BY <1>a, <1>5, PartsKept, OutputKept DEF LoopQuiet, draw, output
  <2> QED  BY <2>1, <2>2, <2>3
<1>6. CASE LoopUpdate
  <2>1. due_loop >= period_loop /\ due_loop' = due_loop - period_loop /\ UNCHANGED <<due_patt, age>>
    BY <1>6, Zenon DEF LoopUpdate, Done
  <2>2. main' = [at |-> "clear pixel", p |-> 1]  BY <1>6, Zenon DEF LoopUpdate
  <2>3. TimeOK'  BY <1>b, <2>1, ConstantsAreNumbers DEF TimeOK
  <2>4. 1 \in 1..NUM_PIXELS  BY ConstantsAreNumbers
  <2>5. MainOK'  BY <2>2, <2>4 DEF MainOK
  <2>6. BufferOK'  BY <1>b, <1>6 DEF LoopUpdate, BufferOK
  <2>7. BehindOK' /\ IndexOK' /\ PlanesOK' /\ SemOK' /\ LedsOK' /\ OneTransfer'
    BY <1>a, <1>6, PartsKept, OutputKept DEF LoopUpdate, output
  <2> QED  BY <2>1, <2>2, <2>3, <2>4, <2>5, <2>6, <2>7
<1>7. CASE ClearPixel
  <2>1. PlanesOK'  BY <1>b, <1>7 DEF ClearPixel, PlanesOK, AnyFrame
  <2>2. MainOK'  BY <1>b, <1>7 DEF ClearPixel, GoTo, MainOK
  <2>3. TimeOK' /\ BehindOK' /\ IndexOK' /\ BufferOK' /\ SemOK' /\ LedsOK' /\ OneTransfer'
    BY <1>a, <1>7, PartsKept, OutputKept DEF ClearPixel, time, draw, output
  <2> QED  BY <2>1, <2>2, <2>3
<1>8. CASE SetPixel
  <2>1. PlanesOK'  BY <1>b, <1>8 DEF SetPixel, PlanesOK, BufferOK
  <2>2. main.p \in 1..NUM_PIXELS  BY <1>b DEF MainOK
  <2>3. main.p < NUM_PIXELS => main.p + 1 \in 1..NUM_PIXELS  BY <2>2, ConstantsAreNumbers
  <2>4. MainOK'  BY <1>b, <1>8, <2>3 DEF SetPixel, LastPixel, MainOK
  <2>5. TimeOK' /\ BehindOK' /\ IndexOK' /\ BufferOK' /\ SemOK' /\ LedsOK' /\ OneTransfer'
    BY <1>a, <1>8, PartsKept, OutputKept DEF SetPixel, time, draw, output
  <2> QED  BY <2>1, <2>2, <2>3, <2>4, <2>5
<1>9. CASE Acquire
  <2>1. TimeOK'  BY <1>b, <1>9, ConstantsAreNumbers DEF Acquire, TimeOK
  <2>2. MainOK'  BY <1>9, ConstantsAreNumbers DEF Acquire, MainOK
  <2>3. SemOK'  BY <1>b, <1>9 DEF Acquire, SemOK
  <2>4. LedsOK'  BY <1>b, <1>9, ConstantsAreNumbers DEF Acquire, LedsOK
  <2>5. OneTransfer'
    BY <1>a, <1>9, ConstantsAreNumbers
    DEF Acquire, MayStart, OneTransfer, Free, Sending, Delaying
  <2>6. BehindOK' /\ IndexOK' /\ BufferOK' /\ PlanesOK'
    BY <1>a, <1>9, PartsKept DEF Acquire, draw
  <2> QED  BY <2>1, <2>2, <2>3, <2>4, <2>5, <2>6
<1>10. CASE Fragment
  <2>1. colors[dma] \in AnyFrame  BY <1>b, <1>10 DEF Fragment, PlanesOK, Pixels
  <2>2. LedsOK'  BY <1>b, <1>10, <2>1, ConstantsAreNumbers DEF Fragment, LedsOK, Pixels
  <2>3. Len(wire') = Len(wire) + 1  BY <1>b, <1>10, <2>1 DEF Fragment, LedsOK
  <2>4. OneTransfer'
    BY <1>a, <1>10, <2>3, ConstantsAreNumbers
    DEF Fragment, Pixels, OneTransfer, Free, Sending, Delaying
  <2>5. TimeOK' /\ BehindOK' /\ IndexOK' /\ BufferOK' /\ PlanesOK' /\ MainOK' /\ SemOK'
    BY <1>a, <1>10, PartsKept DEF Fragment, time, draw
  <2> QED  BY <2>1, <2>2, <2>3, <2>4, <2>5
<1>11. CASE DmaComplete
  <2>1. SemOK'  BY <1>b, <1>11 DEF DmaComplete, DelayStarted, SemOK
  <2>2. LedsOK'  BY <1>b, <1>11, ConstantsAreNumbers DEF DmaComplete, LedsOK
  <2>3. OneTransfer'
    BY <1>a, <1>11, ConstantsAreNumbers
    DEF DmaComplete, DelayStarted, OneTransfer, Free, Sending, Delaying
  <2>4. TimeOK' /\ BehindOK' /\ IndexOK' /\ BufferOK' /\ PlanesOK' /\ MainOK'
    BY <1>a, <1>11, PartsKept DEF DmaComplete, time, draw
  <2> QED  BY <2>1, <2>2, <2>3, <2>4
<1>12. CASE Latch
  <2>1. LedsOK'  BY <1>b, <1>12 DEF Latch, LedsOK
  <2>2. OneTransfer'
    BY <1>a, <1>b, <1>12, ConstantsAreNumbers
    DEF Latch, LedsOK, OneTransfer, Free, Sending, Delaying
  <2>3. TimeOK' /\ BehindOK' /\ IndexOK' /\ BufferOK' /\ PlanesOK' /\ MainOK' /\ SemOK'
    BY <1>a, <1>12, PartsKept DEF Latch, time, draw
  <2> QED  BY <2>1, <2>2, <2>3
<1>13. CASE DelayComplete
  <2>1. reset_delay_alarm_id' \in BOOLEAN  BY <1>13, Zenon DEF DelayComplete
  <2>2. SemOK'  BY <1>13, <2>1 DEF DelayComplete, SemOK
  <2>3. OneTransfer'  BY <1>a, <1>13 DEF DelayComplete, OneTransfer, Free, Sending, Delaying
  <2>4. TimeOK' /\ BehindOK' /\ IndexOK' /\ BufferOK' /\ PlanesOK' /\ MainOK' /\ LedsOK'
    BY <1>a, <1>13, PartsKept DEF DelayComplete, time, draw
  <2> QED  BY <2>1, <2>2, <2>3, <2>4
<1>14. CASE UNCHANGED vars
  BY <1>a, <1>14, PartsKept, OutputKept DEF vars, time, draw, output
<1> QED
  BY <1>1, <1>2, <1>3, <1>4, <1>5, <1>6, <1>7, <1>8, <1>9, <1>10, <1>11, <1>12, <1>13, <1>14
  DEF Next, Loop, Output

LEMMA AlwaysIInv == Spec => []IInv
<1> QED  BY InitIInv, NextIInv, PTL DEF Spec

\* Types; in particular the transform stays inside the planes and the DMA inside
\* its list of fragments, however the schedule slips.
THEOREM StairsTypeCorrect == Spec => []TypeOK
<1>1. IInv => TypeOK  BY DEF IInv
<1> QED  BY <1>1, AlwaysIInv, PTL

\* Two transfers never run into each other: what the LEDs latch is one transfer,
\* pixel for pixel, for every schedule and however late the main loop is.
THEOREM TransfersKeptApart == Spec => []OneTransferLatched
<1>1. IInv => OneTransferLatched
  <2> SUFFICES ASSUME IInv PROVE OneTransferLatched  OBVIOUS
  <2>1. Len(shown) = NUM_PIXELS  BY DEF IInv, OneTransfer
  <2>2. Len(wire) <= NUM_PIXELS
    BY ConstantsAreNumbers DEF IInv, OneTransfer, Free, Sending, Delaying
  <2> QED  BY <2>1, <2>2 DEF OneTransferLatched
<1> QED  BY <1>1, AlwaysIInv, PTL

-----------------------------------------------------------------------------
(* Whole frames. *)

\* A pattern period is longer than it takes to notice a frame, to transform it and
\* to send it, if the loop is late by no more than Slack for either task.
InTime == 2 * period_loop + 2 * Slack + Span < period_patt

Same(s) == \A i, j \in DOMAIN s : s[i] = s[j]

Transforming == main.at \in {"clear pixel", "set pixel"}

\* How far the schedule is: from the drawing of a frame to the next start of
\* output, to the end of the transform, and to the end of the transfer.
Schedule ==
  /\ due_patt <= period_patt + Slack /\ due_loop <= period_loop + Slack
  /\ patern_update_framebuf => due_patt <= due_loop + Slack
  /\ Transforming \/ main.at = "acquire" =>
       ~patern_update_framebuf /\ due_patt <= due_loop + period_loop + Slack
  /\ reset_delay_complete_sem = 0 =>
       /\ ~patern_update_framebuf /\ main.at \in {"services", "loop"}
       /\ due_patt <= 2 * period_loop + 2 * Slack + age

\* The planes hold one frame, up to the pixel under transformation; what is sent
\* and shown is one frame.
OneFrame ==
  /\ IF Transforming THEN \A i \in Pixels : i < main.p => colors[i] = framebuf
     ELSE Same(colors)
  /\ Same(wire) /\ Same(shown)
  /\ dma \in Pixels => \A i \in DOMAIN wire : wire[i] = colors[dma]

Whole == ~behind => Schedule /\ OneFrame

LEMMA ConstantsInTime ==
  /\ NUM_PIXELS \in Nat /\ NUM_PIXELS >= 1 /\ Pixels = 1..NUM_PIXELS
  /\ period_patt \in Nat /\ period_loop \in Nat /\ period_loop > 0
  /\ Slack \in Nat /\ Span \in Nat /\ MaxLate \in Nat
<1> QED  BY StairsAssumption DEF Pixels

LEMMA InitWhole == Init => Whole
<1> SUFFICES ASSUME Init PROVE Whole  OBVIOUS
<1>1. Schedule  BY ConstantsInTime DEF Init, Schedule, Transforming
<1>2. OneFrame  BY DEF Init, OneFrame, Same, Solid, Transforming, Pixels
<1> QED  BY <1>1, <1>2 DEF Whole

\* The numbers the schedule is made of.
LEMMA TimesAreNumbers ==
  ASSUME TypeOK
  PROVE  /\ due_patt \in Nat /\ due_loop \in Nat /\ age \in Nat /\ age <= Span
         /\ due_patt <= MaxLate /\ due_loop <= MaxLate
<1>1. TimeOK  BY TypeParts
<1> QED  BY <1>1, ConstantsInTime DEF TimeOK

\* What is not changed by an action stays on schedule and whole.
LEMMA ScheduleKept ==
  ASSUME Schedule,
         UNCHANGED <<due_patt, due_loop, age, patern_update_framebuf, main>>,
         UNCHANGED reset_delay_complete_sem \/ reset_delay_complete_sem' = 1
  PROVE  Schedule'
<1>1. /\ due_patt' <= period_patt + Slack /\ due_loop' <= period_loop + Slack
      /\ patern_update_framebuf' => due_patt' <= due_loop' + Slack
      /\ Transforming' \/ main'.at = "acquire" =>
           ~patern_update_framebuf' /\ due_patt' <= due_loop' + period_loop + Slack
  BY DEF Schedule, Transforming
<1>2. reset_delay_complete_sem' = 0 => reset_delay_complete_sem = 0
  OBVIOUS
<1>3. reset_delay_complete_sem' = 0 =>
       /\ ~patern_update_framebuf' /\ main'.at \in {"services", "loop"}
       /\ due_patt' <= 2 * period_loop + 2 * Slack + age'
  BY <1>2 DEF Schedule
<1> QED  BY <1>1, <1>3 DEF Schedule

LEMMA FrameKept ==
  ASSUME OneFrame, UNCHANGED <<colors, framebuf, dma, wire, shown, main>>
  PROVE  OneFrame'
<1> QED  BY ZenonT(60) DEF OneFrame, Same, Transforming

\* While nothing is transformed, the framebuf may be drawn and the loop go on.
LEMMA QuietFrame ==
  ASSUME OneFrame, ~Transforming, ~Transforming', UNCHANGED <<colors, dma, wire, shown>>
  PROVE  OneFrame'
<1> QED  BY DEF OneFrame, Same

LEMMA WholeNext == InTime /\ IInv /\ Whole /\ [Next]_vars => Whole'
<1> SUFFICES ASSUME InTime, IInv, Whole, [Next]_vars, ~behind' PROVE Schedule' /\ OneFrame'
  BY DEF Whole
<1>a. TypeOK /\ OneTransfer  BY DEF IInv
<1>b. TimeOK /\ BehindOK /\ IndexOK /\ BufferOK /\ PlanesOK /\ MainOK /\ SemOK /\ LedsOK
  BY <1>a, TypeParts
<1>c. /\ due_patt \in Nat /\ due_loop \in Nat /\ age \in Nat /\ age <= Span
  BY <1>a, TimesAreNumbers
<1>d. ~behind
  BY DEF Next, Tick, SetPattern, Loop, PatternNotDue, PatternDue, LoopQuiet, LoopUpdate,
     ClearPixel, SetPixel, Acquire, Output, Fragment, DmaComplete, Latch, DelayComplete,
     time, vars
<1>e. Schedule /\ OneFrame  BY <1>d DEF Whole
<1>1. CASE Tick
  <2>1. OneFrame'  BY <1>e, <1>1, FrameKept DEF Tick, draw, output
  <2>2. /\ due_patt' = due_patt + 1 /\ due_loop' = due_loop + 1
        /\ due_patt' <= period_patt + Slack /\ due_loop' <= period_loop + Slack
        /\ UNCHANGED <<patern_update_framebuf, main, reset_delay_complete_sem>>
        /\ reset_delay_complete_sem = 0 => age' = age + 1
    <3>1. due_patt' = due_patt + 1 /\ due_loop' = due_loop + 1
      BY <1>1 DEF Tick
    <3>2. ~(due_patt' > period_patt + Slack) /\ ~(due_loop' > period_loop + Slack)
      BY <1>1 DEF Tick
    <3> QED  BY <1>1, <1>c, <3>1, <3>2, ConstantsInTime DEF Tick, draw, output
  <2>3. /\ patern_update_framebuf' => due_patt' <= due_loop' + Slack
        /\ Transforming' \/ main'.at = "acquire" =>
             ~patern_update_framebuf' /\ due_patt' <= due_loop' + period_loop + Slack
    <3>1. patern_update_framebuf' => due_patt' <= due_loop' + Slack
      BY <1>c, <1>e, <2>2, ConstantsInTime DEF Schedule
    <3>2. ASSUME Transforming' \/ main'.at = "acquire"
          PROVE  ~patern_update_framebuf' /\ due_patt' <= due_loop' + period_loop + Slack
      <4>1. Transforming \/ main.at = "acquire"  BY <2>2, <3>2 DEF Transforming
      <4>2. ~patern_update_framebuf /\ due_patt <= due_loop + period_loop + Slack
        BY <1>e, <4>1 DEF Schedule
      <4> QED  BY <1>c, <2>2, <4>2, ConstantsInTime
    <3> QED  BY <3>1, <3>2
  <2>4. reset_delay_complete_sem' = 0 =>
         /\ ~patern_update_framebuf' /\ main'.at \in {"services", "loop"}
         /\ due_patt' <= 2 * period_loop + 2 * Slack + age'
    BY <1>c, <1>e, <2>2, ConstantsInTime DEF Schedule
  <2>5. Schedule'  BY <2>2, <2>3, <2>4 DEF Schedule
  <2> QED  BY <2>1, <2>5
<1>2. CASE SetPattern
  <2>1. OneFrame'  BY <1>e, <1>2, FrameKept DEF SetPattern, output
  <2>2. Schedule'  BY <1>e, <1>2 DEF SetPattern, time, output, Schedule, Transforming
  <2> QED  BY <2>1, <2>2
<1>3. CASE PatternNotDue
  <2>1. main.at = "services" /\ main'.at = "loop"
    BY <1>b, <1>3 DEF PatternNotDue, GoTo, MainOK
  <2>2. OneFrame'  BY <1>e, <1>3, <2>1, QuietFrame DEF PatternNotDue, output, Transforming
  <2>3. Schedule'
    BY <1>e, <1>3, <2>1 DEF PatternNotDue, time, draw, output, Schedule, Transforming
  <2> QED  BY <2>2, <2>3
<1>4. CASE PatternDue /\ (Draw \/ Clear \/ Idle)
  <2>1. main.at = "services" /\ main'.at = "loop"
    BY <1>b, <1>4 DEF PatternDue, GoTo, MainOK
  <2>2. OneFrame'  BY <1>e, <1>4, <2>1, QuietFrame DEF PatternDue, output, Transforming
  <2>3. reset_delay_complete_sem # 0
    <3>1. due_patt >= period_patt  BY <1>4 DEF PatternDue
    <3> QED  BY <1>c, <1>e, <3>1, ConstantsInTime DEF Schedule, InTime
  <2>4. /\ due_patt' = due_patt - period_patt /\ due_patt >= period_patt
        /\ UNCHANGED <<due_loop, age, reset_delay_complete_sem>>
    BY <1>4 DEF PatternDue, Done, output
  <2>5. Schedule'
    BY <1>c, <1>e, <2>1, <2>3, <2>4, ConstantsInTime DEF Schedule, Transforming
  <2> QED  BY <2>2, <2>5
<1>5. CASE LoopQuiet
  <2>1. main.at = "loop" /\ main'.at = "services"
    BY <1>b, <1>5 DEF LoopQuiet, GoTo, MainOK
  <2>2. OneFrame'  BY <1>e, <1>5, <2>1, QuietFrame DEF LoopQuiet, output, Transforming
  <2>3. /\ UNCHANGED <<due_patt, age, patern_update_framebuf, reset_delay_complete_sem>>
        /\ due_loop' \in Nat /\ due_loop' <= due_loop
        /\ patern_update_framebuf => due_loop' = due_loop
    BY <1>5, <1>c, ConstantsInTime DEF LoopQuiet, Done, draw, output
  <2>5. due_patt' <= period_patt + Slack /\ due_loop' <= period_loop + Slack
    BY <1>c, <1>e, <2>3, ConstantsInTime DEF Schedule
  <2>6. patern_update_framebuf' => due_patt' <= due_loop' + Slack
    BY <1>e, <2>3 DEF Schedule
  <2>7. reset_delay_complete_sem' = 0 =>
         /\ ~patern_update_framebuf' /\ main'.at \in {"services", "loop"}
         /\ due_patt' <= 2 * period_loop + 2 * Slack + age'
    BY <1>e, <2>1, <2>3 DEF Schedule
  <2>4. Schedule'  BY <2>1, <2>5, <2>6, <2>7 DEF Schedule, Transforming
  <2> QED  BY <2>2, <2>4
<1>6. CASE LoopUpdate
  <2>1. main' = [at |-> "clear pixel", p |-> 1]  BY <1>6, Zenon DEF LoopUpdate
  <2>2. /\ UNCHANGED <<due_patt, age, framebuf, colors, dma, wire, shown, reset_delay_complete_sem>>
        /\ patern_update_framebuf /\ patern_update_framebuf' = FALSE
        /\ due_loop >= period_loop /\ due_loop' = due_loop - period_loop
    BY <1>6 DEF LoopUpdate, Done, output
  <2>3. reset_delay_complete_sem # 0  BY <1>e, <2>2 DEF Schedule
  <2>4. /\ due_patt' <= period_patt + Slack /\ due_loop' <= period_loop + Slack
        /\ due_patt' <= due_loop' + period_loop + Slack
    BY <1>c, <1>e, <2>2, ConstantsInTime DEF Schedule
  <2>5. Schedule'  BY <2>2, <2>3, <2>4 DEF Schedule
  <2>6. main'.at = "clear pixel" /\ main'.p = 1  BY <2>1
  <2>7. ~\E i \in Pixels : i < 1  BY ConstantsInTime
  <2>8. dma \notin Pixels
    BY <1>a, <2>3, ConstantsInTime DEF OneTransfer, Free, Sending, Delaying
  <2>9. Transforming' /\ \A i \in Pixels : i < main'.p => colors'[i] = framebuf'
    BY <2>6, <2>7 DEF Transforming
  <2>10. Same(wire') /\ Same(shown')  BY <1>e, <2>2 DEF OneFrame, Same
  <2>11. OneFrame'  BY <2>2, <2>8, <2>9, <2>10 DEF OneFrame, Same
  <2> QED  BY <2>5, <2>11
<1>7. CASE ClearPixel
  <2>1. main.at = "clear pixel" /\ main'.at = "set pixel" /\ main'.p = main.p
    BY <1>b, <1>7 DEF ClearPixel, GoTo, MainOK
  <2>2. /\ UNCHANGED <<due_patt, due_loop, age, patern_update_framebuf, framebuf, dma, wire,
                      shown, reset_delay_complete_sem>>
        /\ colors' = [colors EXCEPT ![main.p] = 0]
    BY <1>7 DEF ClearPixel, time, draw, output
  <2>3. Schedule'  BY <1>e, <2>1, <2>2 DEF Schedule, Transforming
  <2>4. dma \notin Pixels
    <3>1. reset_delay_complete_sem # 0  BY <1>e, <2>1 DEF Schedule
    <3> QED  BY <1>a, <3>1, ConstantsInTime DEF OneTransfer, Free, Sending, Delaying
  <2>5. \A i \in Pixels : i < main.p => colors'[i] = framebuf
    <3> SUFFICES ASSUME NEW i \in Pixels, i < main.p PROVE colors'[i] = framebuf
      OBVIOUS
    <3>1. main.p \in 1..NUM_PIXELS  BY <1>b DEF MainOK
    <3>2. i # main.p  BY <3>1, ConstantsInTime
    <3>3. colors[i] = framebuf  BY <1>e, <2>1 DEF OneFrame, Transforming
    <3>4. i \in DOMAIN colors  BY <1>b, ConstantsInTime DEF PlanesOK
    <3> QED  BY <2>2, <3>2, <3>3, <3>4
  <2>6. OneFrame'  BY <1>e, <2>1, <2>2, <2>4, <2>5 DEF OneFrame, Same, Transforming
  <2> QED  BY <2>3, <2>6
<1>8. CASE SetPixel
  <2> DEFINE last == ~(main.p < NUM_PIXELS)
  <2>1. /\ main.at = "set pixel" /\ main.p \in 1..NUM_PIXELS
        /\ ~last => main'.at = "clear pixel" /\ main'.p = main.p + 1
        /\ last => main'.at = "acquire"
    BY <1>b, <1>8 DEF SetPixel, LastPixel, MainOK
  <2>2. /\ UNCHANGED <<due_patt, due_loop, age, patern_update_framebuf, framebuf, dma, wire,
                      shown, reset_delay_complete_sem>>
        /\ colors' = [colors EXCEPT ![main.p] = framebuf]
    BY <1>8 DEF SetPixel, time, draw, output
  <2>3. Schedule'  BY <1>e, <2>1, <2>2 DEF Schedule, Transforming
  <2>4. dma \notin Pixels
    <3>1. reset_delay_complete_sem # 0  BY <1>e, <2>1 DEF Schedule
    <3> QED  BY <1>a, <3>1, ConstantsInTime DEF OneTransfer, Free, Sending, Delaying
  <2>5. \A i \in Pixels : i < main.p + 1 => colors'[i] = framebuf
    <3> SUFFICES ASSUME NEW i \in Pixels, i < main.p + 1 PROVE colors'[i] = framebuf
      OBVIOUS
    <3>1. i = main.p \/ i < main.p
      <4>1. i \in 1..NUM_PIXELS /\ main.p \in 1..NUM_PIXELS  BY <2>1, ConstantsInTime
      <4> QED  BY <4>1, ConstantsInTime
    <3>2. i \in DOMAIN colors  BY <1>b, ConstantsInTime DEF PlanesOK
    <3>3. i < main.p => colors[i] = framebuf  BY <1>e, <2>1 DEF OneFrame, Transforming
    <3> QED  BY <2>2, <3>1, <3>2, <3>3
  <2>8. Same(wire') /\ Same(shown') /\ dma' \notin Pixels
    BY <1>e, <2>2, <2>4 DEF OneFrame, Same
  <2>6. CASE ~last
    <3>1. Transforming' /\ \A i \in Pixels : i < main'.p => colors'[i] = framebuf'
      BY <2>1, <2>2, <2>5, <2>6 DEF Transforming
    <3> QED  BY <2>3, <2>8, <3>1 DEF OneFrame, Same
  <2>7. CASE last
    <3>1. \A i \in Pixels : colors'[i] = framebuf
      <4>1. main.p = NUM_PIXELS
        <5>1. main.p \in 1..NUM_PIXELS /\ ~(main.p < NUM_PIXELS) /\ NUM_PIXELS \in Nat
          BY <2>1, <2>7, ConstantsInTime
        <5> QED  BY ONLY <5>1
      <4>2. \A i \in Pixels : i < main.p + 1  BY <4>1, ConstantsInTime
      <4> QED  BY <2>5, <4>2
    <3>2. DOMAIN colors' = Pixels  BY <1>b, <2>2, ConstantsInTime DEF PlanesOK
    <3>3. Same(colors')  BY <3>1, <3>2 DEF Same
    <3>4. ~Transforming'  BY <2>1, <2>7 DEF Transforming
    <3> QED  BY <2>3, <2>8, <3>3, <3>4 DEF OneFrame, Same
  <2> QED  BY <2>3, <2>6, <2>7
<1>9. CASE Acquire
  <2>1. main.at = "acquire" /\ main'.at = "services"  BY <1>9 DEF Acquire
  <2>2. /\ UNCHANGED <<due_patt, due_loop, patern_update_framebuf, framebuf, colors, wire, shown>>
        /\ reset_delay_complete_sem = 1 /\ reset_delay_complete_sem' = 0 /\ age' = 0 /\ dma' = 1
    BY <1>9 DEF Acquire, MayStart, draw
  <2>3. Schedule'
    BY <1>c, <1>e, <2>1, <2>2, ConstantsInTime DEF Schedule, Transforming
  <2>4. wire = <<>>  BY <1>a, <2>2 DEF OneTransfer, Free, Sending, Delaying
  <2>5. OneFrame'  BY <1>e, <2>1, <2>2, <2>4 DEF OneFrame, Same, Transforming
  <2> QED  BY <2>3, <2>5
<1>10. CASE Fragment
  <2>1. /\ dma \in Pixels /\ dma' = dma + 1 /\ wire' = Append(wire, colors[dma])
        /\ UNCHANGED <<due_patt, due_loop, age, patern_update_framebuf, framebuf, colors, main,
                       shown, reset_delay_complete_sem>>
    BY <1>10 DEF Fragment, time, draw
  <2>2. Schedule'  BY <1>e, <2>1, ScheduleKept
  <2>3. reset_delay_complete_sem = 0
    BY <1>a, <2>1, ConstantsInTime DEF OneTransfer, Free, Sending, Delaying
  <2>4. ~Transforming /\ Same(colors)
    BY <1>e, <2>3 DEF Schedule, OneFrame, Transforming
  <2>5. \A i \in DOMAIN wire' : wire'[i] = colors[dma]
    <3> DEFINE c == colors[dma]
    <3>1. c \in AnyFrame /\ wire \in Seq(AnyFrame)
      BY <1>b, <2>1, ConstantsInTime DEF PlanesOK, LedsOK
    <3>2. \A i \in DOMAIN wire : wire[i] = c  BY <1>e, <2>1 DEF OneFrame
    <3> HIDE DEF c
    <3>3. \A i \in DOMAIN Append(wire, c) : Append(wire, c)[i] = c  BY <3>1, <3>2
    <3> QED  BY <2>1, <3>3 DEF c
  <2>6. Same(wire')  BY <2>5 DEF Same
  <2>7. dma' \in Pixels => \A i \in DOMAIN wire' : wire'[i] = colors[dma']
    <3> SUFFICES ASSUME dma' \in Pixels PROVE colors[dma] = colors[dma']
      BY <2>5
    <3>1. DOMAIN colors = Pixels  BY <1>b, ConstantsInTime DEF PlanesOK
    <3> QED  BY <2>1, <2>4, <3>1 DEF Same
  <2>8. OneFrame'  BY <1>e, <2>1, <2>4, <2>6, <2>7 DEF OneFrame, Same, Transforming
  <2> QED  BY <2>2, <2>8
<1>11. CASE DmaComplete
  <2>1. /\ dma' = 0
        /\ UNCHANGED <<due_patt, due_loop, age, patern_update_framebuf, framebuf, colors, main,
                       wire, shown, reset_delay_complete_sem>>
    BY <1>11 DEF DmaComplete, DelayStarted, time, draw
  <2>2. Schedule'  BY <1>e, <2>1, ScheduleKept
  <2>3. dma' \notin Pixels  BY <2>1, ConstantsInTime
  <2>4. OneFrame'
    <3>1. (IF Transforming THEN \A i \in Pixels : i < main.p => colors[i] = framebuf
           ELSE Same(colors))'
      BY <1>e, <2>1 DEF OneFrame, Same, Transforming
    <3>2. Same(wire)' /\ Same(shown)'
      BY <1>e, <2>1 DEF OneFrame, Same
    <3> QED  BY <2>3, <3>1, <3>2 DEF OneFrame
  <2> QED  BY <2>2, <2>4
<1>12. CASE Latch
  <2>1. /\ dma = 0 /\ dma' = 0 /\ shown' = wire /\ wire' = <<>>
        /\ UNCHANGED <<due_patt, due_loop, age, patern_update_framebuf, framebuf, colors, main,
                       reset_delay_complete_sem>>
    BY <1>12 DEF Latch, time, draw
  <2>2. Schedule'  BY <1>e, <2>1, ScheduleKept
  <2>3. Same(wire') /\ Same(shown')
    <3>1. DOMAIN wire' = {}  BY <2>1
    <3>2. Same(wire)  BY <1>e DEF OneFrame
    <3> QED  BY <2>1, <3>1, <3>2 DEF Same
  <2>4. dma' \notin Pixels  BY <2>1, ConstantsInTime
  <2>5. (Same(colors))' = Same(colors) /\ Transforming' = Transforming
    BY <2>1 DEF Same, Transforming
  <2>6. OneFrame'
    <3>1. (IF Transforming THEN \A i \in Pixels : i < main.p => colors[i] = framebuf
           ELSE Same(colors))'
      BY <1>e, <2>1, <2>5 DEF OneFrame
    <3> QED  BY <2>3, <2>4, <3>1 DEF OneFrame
  <2> QED  BY <2>2, <2>6
<1>13. CASE DelayComplete
  <2>1. /\ reset_delay_complete_sem' = 1
        /\ UNCHANGED <<due_patt, due_loop, age, patern_update_framebuf, framebuf, colors, main,
                       dma, wire, shown>>
    BY <1>13 DEF DelayComplete, time, draw
  <2>2. Schedule'  BY <1>e, <2>1, ScheduleKept
  <2>3. OneFrame'  BY <1>e, <2>1, FrameKept
  <2> QED  BY <2>2, <2>3
<1>14. CASE UNCHANGED vars
  <2>1. Schedule'  BY <1>e, <1>14 DEF vars, time, draw, output, Schedule, Transforming
  <2>2. OneFrame'  BY <1>e, <1>14, FrameKept DEF vars, draw, output
  <2> QED  BY <2>1, <2>2
<1> QED
  BY <1>1, <1>2, <1>3, <1>4, <1>5, <1>6, <1>7, <1>8, <1>9, <1>10, <1>11, <1>12, <1>13, <1>14
  DEF Next, Loop, Output

\* As long as the loop is late by no more than Slack, the LEDs show whole frames,
\* although the planes are rewritten before anyone waits for the transfer: by the
\* time there is another frame to transform, the last one has been sent.
THEOREM WholeFrames ==
  ASSUME InTime
  PROVE  Spec => []ShowsOneFrame
<1>1. Whole => ShowsOneFrame
  BY DEF Whole, OneFrame, Same, ShowsOneFrame
<1> QED  BY <1>1, AlwaysIInv, InitWhole, WholeNext, PTL DEF Spec
=============================================================================
