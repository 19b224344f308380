-------------------------- MODULE TreeStrip_proofs --------------------------
(***************************************************************************)
(* Proofs about the tree's LED output, for a strip of any length, patterns *)
(* that draw anything and a loop of any period: the types, and that in     *)
(* time every frame is shown whole although nothing but time keeps the     *)
(* pattern from drawing into the buffer that is being sent.                *)
(***************************************************************************)
EXTENDS TreeStrip, SequenceTheorems, TLAPS

AnyFrame == Frame \union {0}
Mains    == [at: {"services", "draw", "loop"}, p: Pixels, f: AnyFrame]

\* A drawing stays in the strip.
DrawsInside == main.at = "draw" => main.p <= max_led

\* A transfer has handed over what it passed, and all of the strip when it is done.
HandedOver ==
  /\ ws2815_dma_done <=> dma = 0
  /\ dma # 0 => latch /\ Len(wire) >= dma - 1
  /\ dma = 0 /\ wire # <<>> => Len(wire) = NUM_PIXELS

IInv == TypeOK /\ DrawsInside /\ HandedOver

\* What the assumption says of the constants, in the form the provers count with.
LEMMA Sizes ==
  /\ NUM_PIXELS \in Nat /\ NUM_PIXELS >= 1
  /\ period_patt \in Nat /\ period_patt >= 1 /\ period_loop \in Nat /\ period_loop >= 1
  /\ MaxLate \in Nat /\ Span \in Nat /\ Span >= 1 /\ Slack \in Nat /\ Zero \in Nat
  /\ Table \in Nat /\ Table >= 1
BY TreeAssumption

\* The type invariant in parts: what one action changes is one or two of them.
TimeOK  == /\ due_patt \in 0..MaxLate /\ due_loop \in 0..MaxLate
           /\ age \in 0..Span /\ behind \in BOOLEAN
SetOK   == pattern_index \in 0..Table \union {PAT_AUTO, PAT_ZERO} /\ max_led \in 0..NUM_PIXELS
CountOK == counter \in 0..1 /\ zero_counter \in 0..Zero
BufOK   == ws2815_buf \in [Pixels -> AnyFrame] /\ ws2815_refresh_required \in BOOLEAN
MainOK  == main \in Mains
DmaOK   == /\ dma \in 0 .. NUM_PIXELS + 1
           /\ ws2815_dma_done \in BOOLEAN /\ latch \in BOOLEAN
WireOK  == wire \in Seq(AnyFrame) /\ Len(wire) <= NUM_PIXELS
ShownOK == shown \in [Pixels -> AnyFrame]

\* The parts are the whole ...
LEMMA TypeParts ==
  TypeOK <=> /\ TimeOK /\ SetOK /\ CountOK /\ BufOK /\ MainOK
             /\ DmaOK /\ WireOK /\ ShownOK
BY Zenon DEF TypeOK, TimeOK, SetOK, CountOK, BufOK, MainOK, DmaOK, WireOK, ShownOK,
             Mains, AnyFrame

\* main in another place.
LEMMA Goes ==
  ASSUME NEW m \in Mains, NEW place \in {"services", "draw", "loop"},
         NEW n, n = [m EXCEPT !.at = place]
  PROVE  n \in Mains /\ n.at = place /\ n.p = m.p
BY DEF Mains

\* ... after a step as well.
LEMMA TypePartsNext ==
  TimeOK' /\ SetOK' /\ CountOK' /\ BufOK' /\ MainOK' /\ DmaOK' /\ WireOK' /\ ShownOK' => TypeOK'
BY Zenon DEF TypeOK, TimeOK, SetOK, CountOK, BufOK, MainOK, DmaOK, WireOK, ShownOK,
             Mains, AnyFrame

\* What is left alone keeps its type.
LEMMA PartsKept ==
  ASSUME IInv
  PROVE  /\ UNCHANGED time => TimeOK'
         /\ UNCHANGED set => SetOK'
         /\ UNCHANGED <<counter, zero_counter>> => CountOK'
         /\ UNCHANGED <<ws2815_buf, ws2815_refresh_required>> => BufOK'
         /\ UNCHANGED main => MainOK'
         /\ UNCHANGED <<main, max_led>> => DrawsInside'
         /\ UNCHANGED <<dma, ws2815_dma_done, latch>> => DmaOK'
         /\ UNCHANGED wire => WireOK'
         /\ UNCHANGED shown => ShownOK'
         /\ UNCHANGED <<dma, ws2815_dma_done, latch, wire>> => HandedOver'
<1>1. TimeOK /\ SetOK /\ CountOK /\ BufOK /\ MainOK /\ DmaOK /\ WireOK /\ ShownOK
      /\ DrawsInside /\ HandedOver
  BY TypeParts DEF IInv
<1>2. UNCHANGED time => TimeOK'
  BY <1>1 DEF time, TimeOK
<1>3. UNCHANGED set => SetOK'
  BY <1>1 DEF set, SetOK
<1>4. /\ UNCHANGED <<counter, zero_counter>> => CountOK'
      /\ UNCHANGED <<ws2815_buf, ws2815_refresh_required>> => BufOK'
      /\ UNCHANGED main => MainOK'
  BY <1>1 DEF CountOK, BufOK, MainOK
<1>5. UNCHANGED <<main, max_led>> => DrawsInside'
  BY <1>1 DEF DrawsInside
<1>6. /\ UNCHANGED <<dma, ws2815_dma_done, latch>> => DmaOK'
      /\ UNCHANGED wire => WireOK'
      /\ UNCHANGED shown => ShownOK'
  BY <1>1 DEF DmaOK, WireOK, ShownOK
<1>7. UNCHANGED <<dma, ws2815_dma_done, latch, wire>> => HandedOver'
  BY <1>1 DEF HandedOver
<1> QED BY <1>2, <1>3, <1>4, <1>5, <1>6, <1>7

\* At the start nothing is drawn or sent.
LEMMA InitIInv == Init => IInv
<1> SUFFICES ASSUME Init PROVE IInv
  OBVIOUS
<1>1. 0 \in AnyFrame /\ 1 \in Pixels
  BY Sizes DEF AnyFrame, Pixels
<1>2. TimeOK
  <2>1. due_patt \in 0..MaxLate /\ due_loop \in 0..MaxLate /\ age \in 0..Span
    BY Sizes DEF Init
  <2> QED BY <2>1 DEF Init, TimeOK
<1>3. SetOK /\ CountOK
  BY Sizes DEF Init, SetOK, CountOK
<1>4. BufOK /\ ShownOK
  BY <1>1 DEF Init, BufOK, ShownOK, Solid
<1>5. MainOK
  BY <1>1 DEF Init, MainOK, Mains
<1>6. DmaOK
  BY Sizes DEF Init, DmaOK
<1>7. WireOK
  BY Sizes DEF Init, WireOK
<1>8. DrawsInside /\ HandedOver
  BY DEF Init, DrawsInside, HandedOver
<1> QED BY <1>2, <1>3, <1>4, <1>5, <1>6, <1>7, <1>8, TypeParts DEF IInv

\* No step of the timer, telnet, the main loop or the DMA breaks it.
LEMMA NextIInv == IInv /\ [Next]_vars => IInv'
<1> SUFFICES ASSUME IInv, [Next]_vars PROVE IInv'
  OBVIOUS
<1>1. TimeOK /\ SetOK /\ CountOK /\ BufOK /\ MainOK /\ DmaOK /\ WireOK /\ ShownOK
      /\ DrawsInside /\ HandedOver
  BY TypeParts DEF IInv
<1>2. SUFFICES TimeOK' /\ SetOK' /\ CountOK' /\ BufOK' /\ MainOK' /\ DmaOK' /\ WireOK' /\ ShownOK'
               /\ DrawsInside' /\ HandedOver'
  BY TypePartsNext DEF IInv
<1>3. CASE Tick
  <2>1. UNCHANGED <<set, draw, main, output>>
    BY <1>3 DEF Tick
  <2>2. due_patt' \in 0..MaxLate /\ due_loop' \in 0..MaxLate
    BY <1>1, <1>3, Sizes DEF TimeOK, Tick
  <2>3. age' \in 0..Span
    <3>1. CASE Sent
      BY <1>3, <3>1, Sizes DEF Tick
    <3>2. CASE ~Sent
      BY <1>1, <1>3, <3>2, Sizes DEF Tick, TimeOK
    <3> QED BY <3>1, <3>2
  <2>4. behind' \in BOOLEAN
    BY <1>3 DEF Tick
  <2>5. TimeOK'
    BY <2>2, <2>3, <2>4 DEF TimeOK
  <2> QED BY <2>1, <2>5, PartsKept DEF set, draw, output
<1>4. CASE SetPattern
  <2>1. UNCHANGED <<time, max_led, draw, main, output>>
    BY <1>4 DEF SetPattern
  <2>2. SetOK'
    <3>1. PICK index \in Index :
            pattern_index' = IF index > Table THEN PAT_AUTO ELSE IF index = 0 THEN PAT_ZERO ELSE index
      BY <1>4 DEF SetPattern
    <3>2. index \in 0..255
      BY TreeAssumption
    <3> QED BY <1>1, <2>1, <3>1, <3>2, Sizes DEF SetOK
  <2> QED BY <2>1, <2>2, PartsKept DEF draw, output
<1>5. CASE SetMax
  <2>1. UNCHANGED <<time, pattern_index, draw, main, output>> /\ max_led' \in 0..NUM_PIXELS
        /\ main.at = "services"
    BY <1>5 DEF SetMax
  <2>2. SetOK' /\ DrawsInside'
    BY <1>1, <2>1 DEF SetOK, DrawsInside
  <2> QED BY <2>1, <2>2, PartsKept DEF draw, output
<1>6. CASE PatternNotDue
  <2>1. UNCHANGED <<time, set, draw, output>> /\ GoTo("loop")
    BY <1>6 DEF PatternNotDue
  <2>2. MainOK' /\ DrawsInside'
    BY <1>1, <2>1, Goes DEF GoTo, MainOK, DrawsInside
  <2> QED BY <2>1, <2>2, PartsKept DEF draw, output
<1>7. CASE PatternDue
  <2>1. UNCHANGED <<due_loop, age, behind, set, output>> /\ due_patt' = due_patt - period_patt
        /\ due_patt >= period_patt
    BY <1>7 DEF PatternDue
  <2>2. TimeOK'
    BY <1>1, <2>1, Sizes DEF TimeOK
  <2>3. CountOK'
    <3>1. CASE NothingDrawn
      <4>1. counter' \in 0..1
        BY <1>1, <3>1 DEF NothingDrawn, DrawsNow, CountOK
      <4>2. zero_counter' \in 0..Zero
        BY <1>1, <3>1, Sizes DEF NothingDrawn, CountOK
      <4> QED BY <4>1, <4>2 DEF CountOK
    <3>2. CASE DrawStarts
      BY <1>1, <3>2, Sizes DEF DrawStarts, ZeroAgain, CountOK
    <3> QED BY <1>7, <3>1, <3>2 DEF PatternDue
  <2>4. CASE NothingDrawn
    <3>1. UNCHANGED <<ws2815_buf, ws2815_refresh_required>> /\ GoTo("loop")
      BY <2>4 DEF NothingDrawn
    <3>2. MainOK' /\ DrawsInside'
      BY <1>1, <3>1, Goes DEF GoTo, MainOK, DrawsInside
    <3> QED BY <2>1, <2>2, <2>3, <3>1, <3>2, PartsKept DEF output
  <2>5. CASE DrawStarts
    <3>1. PICK f \in AnyFrame : Draw(f) /\ UNCHANGED ws2815_buf
      BY <2>5 DEF DrawStarts, AnyFrame
    <3>2. CASE max_led = 0
      <4>1. GoTo("loop") /\ ws2815_refresh_required' = TRUE
        BY <3>1, <3>2 DEF Draw, Told
      <4>2. MainOK' /\ DrawsInside'
        BY <1>1, <4>1, Goes DEF GoTo, MainOK, DrawsInside
      <4>3. BufOK'
        BY <1>1, <3>1, <4>1 DEF BufOK
      <4> QED BY <2>1, <2>2, <2>3, <4>2, <4>3, PartsKept DEF output
    <3>3. CASE max_led # 0
      <4>1. main' = [at |-> "draw", p |-> 1, f |-> f] /\ UNCHANGED ws2815_refresh_required
        BY <3>1, <3>3 DEF Draw
      <4>2. 1 \in Pixels
        BY Sizes DEF Pixels
      <4>3. MainOK'
        BY <4>1, <4>2 DEF MainOK, Mains
      <4>4. DrawsInside'
        BY <1>1, <2>1, <3>3, <4>1, Sizes DEF DrawsInside, SetOK, set
      <4> QED BY <2>1, <2>2, <2>3, <3>1, <4>1, <4>3, <4>4, PartsKept DEF output
    <3> QED BY <3>2, <3>3
  <2> QED BY <1>7, <2>4, <2>5 DEF PatternDue
<1>8. CASE DrawPixel
  <2>1. UNCHANGED <<time, set, counter, zero_counter, output>> /\ main.at = "draw"
        /\ ws2815_buf' = [ws2815_buf EXCEPT ![main.p] = main.f]
    BY <1>8 DEF DrawPixel
  <2>2. main.p \in Pixels /\ main.f \in AnyFrame /\ main.p <= max_led
    BY <1>1, <2>1 DEF MainOK, Mains, DrawsInside
  <2>3. ws2815_buf' \in [Pixels -> AnyFrame]
    BY <1>1, <2>1, <2>2 DEF BufOK
  <2>4. CASE main.p < max_led /\ main' = [main EXCEPT !.p = @ + 1] /\ UNCHANGED ws2815_refresh_required
    <3>1. main.p + 1 \in Pixels
      BY <1>1, <2>2, <2>4, Sizes DEF Pixels, SetOK
    <3>2. MainOK' /\ main'.p = main.p + 1
      BY <1>1, <2>4, <3>1 DEF MainOK, Mains
    <3>3. DrawsInside'
      BY <1>1, <2>1, <2>2, <2>4, <3>2, Sizes DEF DrawsInside, SetOK, set, Pixels
    <3>4. BufOK'
      BY <1>1, <2>3, <2>4 DEF BufOK
    <3> QED BY <2>1, <3>2, <3>3, <3>4, PartsKept DEF output
  <2>5. CASE main' = [at |-> "loop", p |-> 1, f |-> 0] /\ ws2815_refresh_required' = TRUE
    <3>1. 1 \in Pixels /\ 0 \in AnyFrame
      BY Sizes DEF Pixels, AnyFrame
    <3>2. MainOK' /\ DrawsInside'
      BY <2>5, <3>1 DEF MainOK, Mains, DrawsInside
    <3>3. BufOK'
      BY <2>3, <2>5 DEF BufOK
    <3> QED BY <2>1, <3>2, <3>3, PartsKept DEF output
  <2> QED BY <1>8, <2>4, <2>5 DEF DrawPixel, LastDrawn, Told
<1>9. CASE LoopNotDue
  <2>1. UNCHANGED <<time, set, draw, output>> /\ GoTo("services")
    BY <1>9 DEF LoopNotDue
  <2>2. MainOK' /\ DrawsInside'
    BY <1>1, <2>1, Goes DEF GoTo, MainOK, DrawsInside
  <2> QED BY <2>1, <2>2, PartsKept DEF draw, output
<1>10. CASE LoopQuiet
  <2>1. UNCHANGED <<due_patt, age, behind, set, draw, output>> /\ GoTo("services")
        /\ due_loop >= period_loop /\ due_loop' = due_loop - period_loop
    BY <1>10 DEF LoopQuiet
  <2>2. MainOK' /\ DrawsInside'
    BY <1>1, <2>1, Goes DEF GoTo, MainOK, DrawsInside
  <2>3. TimeOK'
    BY <1>1, <2>1, Sizes DEF TimeOK
  <2> QED BY <2>1, <2>2, <2>3, PartsKept DEF draw, output
<1>11. CASE LoopStarts
  <2>1. /\ UNCHANGED <<due_patt, behind, set, counter, zero_counter, ws2815_buf, latch, wire, shown>>
        /\ GoTo("services") /\ due_loop >= period_loop /\ due_loop' = due_loop - period_loop
        /\ ws2815_refresh_required' = FALSE /\ ws2815_dma_done' = FALSE /\ dma' = 1 /\ age' = 0
        /\ ws2815_dma_done /\ latch
    BY <1>11 DEF LoopStarts, MayStart
  <2>2. MainOK' /\ DrawsInside'
    BY <1>1, <2>1, Goes DEF GoTo, MainOK, DrawsInside
  <2>3. TimeOK'
    <3>1. due_loop' \in 0..MaxLate /\ age' \in 0..Span
      BY <1>1, <2>1, Sizes DEF TimeOK
    <3> QED BY <1>1, <2>1, <3>1 DEF TimeOK
  <2>4. BufOK'
    BY <1>1, <2>1 DEF BufOK
  <2>5. DmaOK'
    <3>1. dma' \in 0 .. NUM_PIXELS + 1
      BY <2>1, Sizes
    <3> QED BY <1>1, <2>1, <3>1 DEF DmaOK
  <2>6. HandedOver'
    <3>1. Len(wire) \in Nat
      BY <1>1, LenProperties DEF WireOK
    <3> QED BY <2>1, <3>1 DEF HandedOver
  <2> QED BY <2>1, <2>2, <2>3, <2>4, <2>5, <2>6, PartsKept
<1>12. CASE ReadWord
  <2>1. UNCHANGED <<time, set, draw, main, ws2815_dma_done, latch, shown>>
        /\ dma \in Pixels /\ dma' = dma + 1
    BY <1>12 DEF ReadWord
  <2>2. ws2815_buf[dma] \in AnyFrame /\ wire \in Seq(AnyFrame) /\ Len(wire) <= NUM_PIXELS
        /\ Len(wire) \in Nat /\ dma \in Nat /\ dma # 0 /\ dma <= NUM_PIXELS
    BY <1>1, <2>1, LenProperties, Sizes DEF BufOK, WireOK, Pixels
  <2>3. DmaOK'
    BY <1>1, <2>1, <2>2, Sizes DEF DmaOK
  <2>4. latch /\ ~ws2815_dma_done /\ Len(wire) >= dma - 1
    BY <1>1, <2>2 DEF HandedOver
  <2>5. WireOK' /\ Len(wire') >= dma
    <3>1. CASE Len(wire) < NUM_PIXELS
      <4>1. wire' = Append(wire, ws2815_buf[dma])
        BY <1>12, <3>1 DEF ReadWord
      <4>2. wire' \in Seq(AnyFrame) /\ Len(wire') = Len(wire) + 1
        BY <2>2, <4>1, AppendProperties
      <4> QED BY <2>2, <2>4, <3>1, <4>2, Sizes DEF WireOK
    <3>2. CASE ~(Len(wire) < NUM_PIXELS)
      <4>1. wire' = wire
        BY <1>12, <3>2 DEF ReadWord
      <4> QED BY <2>2, <3>2, <4>1, Sizes DEF WireOK
    <3> QED BY <3>1, <3>2
  <2>6. HandedOver'
    BY <2>1, <2>2, <2>4, <2>5 DEF HandedOver
  <2>7. UNCHANGED <<main, max_led>>
    BY <2>1 DEF set
  <2> QED BY <2>1, <2>3, <2>5, <2>6, <2>7, PartsKept DEF draw
<1>13. CASE DmaComplete
  <2>1. UNCHANGED <<time, set, draw, main, wire, shown>>
        /\ dma = NUM_PIXELS + 1 /\ dma' = 0 /\ ws2815_dma_done' = TRUE /\ latch' = FALSE
    BY <1>13 DEF DmaComplete
  <2>2. DmaOK'
    <3>1. dma' \in 0 .. NUM_PIXELS + 1
      BY <2>1, Sizes
    <3> QED BY <2>1, <3>1 DEF DmaOK
  <2>3. Len(wire) = NUM_PIXELS
    <3>1. Len(wire) \in Nat /\ Len(wire) <= NUM_PIXELS
      BY <1>1, LenProperties DEF WireOK
    <3>2. Len(wire) >= NUM_PIXELS
      BY <1>1, <2>1, <3>1, Sizes DEF HandedOver
    <3> QED BY <3>1, <3>2, Sizes
  <2>4. HandedOver'
    BY <2>1, <2>3 DEF HandedOver
  <2>5. UNCHANGED <<main, max_led>>
    BY <2>1 DEF set
  <2> QED BY <2>1, <2>2, <2>4, <2>5, PartsKept DEF draw
<1>14. CASE Latch
  <2>1. UNCHANGED <<time, set, draw, main, dma, ws2815_dma_done, latch>>
        /\ dma = 0 /\ wire # <<>> /\ shown' = wire /\ wire' = <<>>
    BY <1>14 DEF Latch
  <2>2. WireOK'
    BY <2>1, Sizes DEF WireOK
  <2>3. ShownOK'
    <3>1. Len(wire) = NUM_PIXELS
      BY <1>1, <2>1 DEF HandedOver
    <3>2. wire \in [1..Len(wire) -> AnyFrame]
      BY <1>1, LenProperties DEF WireOK
    <3> QED BY <2>1, <3>1, <3>2 DEF ShownOK, Pixels
  <2>4. HandedOver'
    BY <1>1, <2>1 DEF HandedOver
  <2>5. UNCHANGED <<main, max_led>>
    BY <2>1 DEF set
  <2> QED BY <2>1, <2>2, <2>3, <2>4, <2>5, PartsKept DEF draw
<1>15. CASE DeadlineReached
  <2>1. UNCHANGED <<time, set, draw, main, dma, ws2815_dma_done, wire, shown>> /\ latch' = TRUE
    BY <1>15 DEF DeadlineReached
  <2>2. DmaOK' /\ HandedOver'
    BY <1>1, <2>1 DEF DmaOK, HandedOver
  <2>3. UNCHANGED <<main, max_led>>
    BY <2>1 DEF set
  <2> QED BY <2>1, <2>2, <2>3, PartsKept DEF draw
<1>16. CASE UNCHANGED vars
  BY <1>16, PartsKept DEF vars, time, set, draw, output
<1> QED
  BY <1>3, <1>4, <1>5, <1>6, <1>7, <1>8, <1>9, <1>10, <1>11, <1>12, <1>13, <1>14, <1>15, <1>16
     DEF Next, Loop, Output

\* Whatever the loop does, however late: the types hold, a drawing stays inside
\* the strip and the DMA inside the buffer (TypeOK; src/tree_ws2815).
THEOREM StripTypeCorrect == Spec => []TypeOK
<1>1. IInv => TypeOK
  BY DEF IInv
<1> QED BY <1>1, InitIInv, NextIInv, PTL DEF Spec

-----------------------------------------------------------------------------
(* Whole frames. *)

\* The time since the last call that may draw began, or less: a call that is late
\* counts from the moment it was due.
SinceDrawn == IF counter = 0 THEN due_patt ELSE due_patt + period_patt

\* Nothing drawn waits for longer than the output is late ...
Waits   == SinceDrawn <= due_loop + Slack
\* ... and nothing is drawn, or waits, while a frame is being sent.
Drawing == main.at = "draw" => Sent /\ Waits
Pending == ws2815_refresh_required => Sent /\ Waits
Sending == ~Sent => SinceDrawn <= period_loop + 2 * Slack + age
\* What is on the wire is what the buffer holds, as far as it was sent.
OnWire  == /\ dma # 0 => Len(wire) = dma - 1
           /\ wire # <<>> => \A p \in 1..Len(wire) : wire[p] = ws2815_buf[p]
\* ... and what was handed over is shown, unless something new was drawn.
Shown   == /\ dma = 0 /\ wire = <<>> /\ ~ws2815_refresh_required /\ main.at # "draw"
           => shown = ws2815_buf
Timely  == due_patt <= period_patt + Slack /\ due_loop <= period_loop + Slack

Whole == ~behind => Timely /\ Drawing /\ Pending /\ Sending /\ OnWire /\ Shown

\* Output, twice the lateness of the loop and a transfer take less time than two
\* calls of the pattern are apart, 2 + 2 * lateness + 15 < 40 ms in the code, so
\* the loop may be late by 11 ms.
InTime == period_loop + 2 * Slack + Span < 2 * period_patt

\* The values the time arguments count with.
LEMMA Numbers ==
  ASSUME IInv
  PROVE  /\ due_patt \in Nat /\ due_loop \in Nat /\ age \in Nat /\ counter \in 0..1
         /\ period_patt \in Nat /\ period_loop \in Nat /\ Slack \in Nat /\ Span \in Nat
         /\ SinceDrawn \in Nat /\ age <= Span
<1>1. TimeOK /\ CountOK
  BY TypeParts DEF IInv
<1>2. due_patt \in Nat /\ due_loop \in Nat /\ age \in Nat /\ age <= Span /\ counter \in 0..1
  BY <1>1, Sizes DEF TimeOK, CountOK
<1>3. SinceDrawn \in Nat
  BY <1>2, Sizes DEF SinceDrawn
<1> QED BY <1>2, <1>3, Sizes

\* A call that draws comes so late that the frame before it is shown.
LEMMA DueIsShown ==
  ASSUME InTime, IInv, Whole, ~behind, DrawsNow, due_patt >= period_patt,
         main.at = "services"
  PROVE  /\ Sent /\ ~ws2815_refresh_required /\ shown = ws2815_buf /\ dma = 0 /\ wire = <<>>
         /\ SinceDrawn >= 2 * period_patt
<1>1. Timely /\ Pending /\ Sending /\ Shown
  BY DEF Whole
<1>2. SinceDrawn >= 2 * period_patt
  BY Numbers DEF DrawsNow, SinceDrawn
<1>3. ~Waits
  BY Numbers, <1>1, <1>2 DEF Waits, Timely, InTime
<1>4. ~ws2815_refresh_required
  BY <1>1, <1>3 DEF Pending
<1>5. Sent
  <2>1. ~(SinceDrawn <= period_loop + 2 * Slack + age)
    BY Numbers, <1>2 DEF InTime
  <2> QED BY <1>1, <2>1 DEF Sending
<1>6. dma = 0 /\ wire = <<>>
  BY <1>5 DEF IInv, HandedOver, Sent
<1> QED BY <1>1, <1>2, <1>4, <1>5, <1>6 DEF Shown

\* A step of the main loop that draws and sends nothing.
LEMMA NothingNew ==
  ASSUME IInv, Whole, ~behind, UNCHANGED <<time, draw, output>>,
         main.at # "draw", (main.at # "draw")'
  PROVE  Whole'
BY DEF Whole, Timely, Drawing, Pending, Sending, OnWire, Shown, Waits, SinceDrawn, Sent,
       time, draw, output

\* At the start the strip is dark, and so is the buffer.
LEMMA InitWhole == Init => Whole
<1> SUFFICES ASSUME Init PROVE Whole
  OBVIOUS
<1>1. Timely
  BY Sizes DEF Init, Timely
<1>2. Drawing /\ Pending /\ Sending /\ OnWire /\ Shown
  BY DEF Init, Drawing, Pending, Sending, OnWire, Shown, Sent
<1> QED BY <1>1, <1>2 DEF Whole

\* In time, no step comes between a drawing and its transfer.
LEMMA NextWhole == InTime /\ IInv /\ Whole /\ [Next]_vars => Whole'
<1> SUFFICES ASSUME InTime, IInv, Whole, [Next]_vars, ~behind' PROVE Whole'
  BY DEF Whole
<1> USE DEF Whole
<1>1. CASE Tick
  <2>1. UNCHANGED <<draw, main, output>> /\ due_patt' = due_patt + 1 /\ due_loop' = due_loop + 1
        /\ age' = (IF Sent THEN 0 ELSE age + 1) /\ ~behind
        /\ ~(due_patt' > period_patt + Slack) /\ ~(due_loop' > period_loop + Slack)
    BY <1>1 DEF Tick
  <2>2. Timely'
    BY <2>1, Numbers DEF Timely
  <2>3. SinceDrawn' = SinceDrawn + 1
    BY <2>1, Numbers DEF SinceDrawn, draw
  <2>4. Sent' = Sent
    BY <2>1 DEF Sent, output
  <2>5. Drawing' /\ Pending'
    <3>1. Waits => Waits'
      BY <2>1, <2>3, Numbers DEF Waits
    <3> QED BY <2>1, <2>4, <3>1 DEF Drawing, Pending, draw
  <2>6. Sending'
    <3> SUFFICES ASSUME ~Sent PROVE SinceDrawn' <= period_loop + 2 * Slack + age'
      BY <2>4 DEF Sending
    <3>1. SinceDrawn <= period_loop + 2 * Slack + age /\ age' = age + 1
      BY <2>1 DEF Sending
    <3> QED BY <2>3, <3>1, Numbers
  <2>7. OnWire' /\ Shown'
    BY <2>1 DEF OnWire, Shown, draw, output
  <2> QED BY <2>2, <2>5, <2>6, <2>7
<1>2. ASSUME ~Tick PROVE UNCHANGED behind /\ ~behind
  BY <1>2 DEF Next, Loop, Output, SetPattern, SetMax, PatternNotDue, PatternDue, DrawPixel, LoopNotDue,
     LoopQuiet, LoopStarts, ReadWord, DmaComplete, Latch, DeadlineReached, time, vars
<1>3. CASE ~Tick /\ (SetPattern \/ SetMax \/ PatternNotDue \/ LoopNotDue)
  <2>1. UNCHANGED <<time, draw, output>> /\ main.at # "draw"
    BY <1>3 DEF SetPattern, SetMax, PatternNotDue, LoopNotDue
  <2>2. (main.at # "draw")'
    <3>1. main \in Mains
      BY TypeParts DEF IInv, MainOK
    <3>2. CASE SetPattern \/ SetMax
      BY <2>1, <3>2 DEF SetPattern, SetMax
    <3>3. CASE PatternNotDue
      BY <3>1, <3>3, Goes DEF PatternNotDue, GoTo
    <3>4. CASE LoopNotDue
      BY <3>1, <3>4, Goes DEF LoopNotDue, GoTo
    <3> QED BY <1>3, <3>2, <3>3, <3>4
  <2> QED BY <1>2, <1>3, <2>1, <2>2, NothingNew
<1>4. CASE ~Tick /\ PatternDue
  <2>1. UNCHANGED <<due_loop, age, behind, output>> /\ due_patt' = due_patt - period_patt
        /\ due_patt >= period_patt /\ main.at = "services" /\ ~behind
        /\ (NothingDrawn \/ DrawStarts) /\ main \in Mains
    BY <1>2, <1>4, TypeParts DEF PatternDue, IInv, MainOK
  <2>2. Timely'
    BY <2>1, Numbers DEF Timely
  <2>3. Sent' = Sent
    BY <2>1 DEF Sent, output
  <2>4. CASE ~DrawsNow
    <3>1. UNCHANGED <<ws2815_buf, ws2815_refresh_required>> /\ GoTo("loop") /\ counter' = counter + 1
      BY <2>1, <2>4 DEF NothingDrawn, DrawStarts
    <3>2. (main.at # "draw")'
      BY <2>1, <3>1, Goes DEF GoTo
    <3>3. SinceDrawn' = SinceDrawn
      BY <2>1, <2>4, <3>1, Numbers DEF SinceDrawn, DrawsNow
    <3>4. Drawing' /\ Pending' /\ Sending'
      BY <2>1, <2>3, <3>1, <3>2, <3>3 DEF Drawing, Pending, Sending, Waits
    <3>5. OnWire' /\ Shown'
      BY <2>1, <3>1, <3>2 DEF OnWire, Shown, output
    <3> QED BY <2>2, <3>4, <3>5
  <2>5. CASE DrawsNow
    <3>1. Sent /\ ~ws2815_refresh_required /\ shown = ws2815_buf /\ dma = 0 /\ wire = <<>>
      BY <2>1, <2>5, DueIsShown
    <3>2. counter' = 0 /\ UNCHANGED ws2815_buf
      BY <2>1, <2>5 DEF NothingDrawn, DrawStarts
    <3>3. Waits'
      <4>1. SinceDrawn' = due_patt - period_patt
        BY <2>1, <3>2 DEF SinceDrawn
      <4> QED BY <2>1, <4>1, Numbers DEF Timely, Waits
    <3>4. Drawing' /\ Pending' /\ Sending'
      BY <2>3, <3>1, <3>3 DEF Drawing, Pending, Sending
    <3>5. OnWire' /\ Shown'
      BY <2>1, <3>1, <3>2 DEF OnWire, Shown, output
    <3> QED BY <2>2, <3>4, <3>5
  <2> QED BY <2>4, <2>5
<1>5. CASE ~Tick /\ DrawPixel
  <2>1. UNCHANGED <<time, counter, output>> /\ main.at = "draw" /\ ~behind
        /\ (UNCHANGED ws2815_refresh_required \/ ws2815_refresh_required' = TRUE)
    BY <1>2, <1>5 DEF DrawPixel, Told
  <2>2. Sent /\ Waits
    BY <2>1 DEF Drawing
  <2>3. Sent' /\ Waits' /\ Timely'
    BY <2>1, <2>2 DEF Sent, Waits, Timely, SinceDrawn, time, output
  <2>4. Drawing' /\ Pending' /\ Sending'
    BY <2>3 DEF Drawing, Pending, Sending
  <2>5. OnWire'
    <3>1. dma = 0 /\ wire = <<>>
      BY <2>2 DEF IInv, HandedOver, Sent
    <3> QED BY <2>1, <3>1 DEF OnWire, output
  <2>6. Shown'
    <3>1. main \in Mains
      BY TypeParts DEF IInv, MainOK
    <3>2. CASE main' = [main EXCEPT !.p = @ + 1]
      BY <2>1, <3>1, <3>2 DEF Shown, Mains
    <3>3. CASE ws2815_refresh_required' = TRUE
      BY <3>3 DEF Shown
    <3> QED BY <1>5, <3>2, <3>3 DEF DrawPixel, Told
  <2> QED BY <2>3, <2>4, <2>5, <2>6
<1>6. CASE ~Tick /\ LoopQuiet
  <2>1. UNCHANGED <<due_patt, age, behind, draw, output>> /\ GoTo("services") /\ main.at = "loop"
        /\ due_loop >= period_loop /\ due_loop' = due_loop - period_loop
        /\ (~MayStart \/ ~ws2815_refresh_required) /\ ~behind /\ main \in Mains
    BY <1>2, <1>6, TypeParts DEF LoopQuiet, IInv, MainOK
  <2>2. Timely'
    BY <2>1, Numbers DEF Timely
  <2>3. ~ws2815_refresh_required
    BY <2>1 DEF Pending, Sent, MayStart
  <2>4. (main.at # "draw")'
    BY <2>1, Goes DEF GoTo
  <2>5. Drawing' /\ Pending'
    BY <2>1, <2>3, <2>4 DEF Drawing, Pending, draw
  <2>6. Sending'
    BY <2>1 DEF Sending, Sent, SinceDrawn, draw, output
  <2>7. OnWire' /\ Shown'
    BY <2>1, <2>4 DEF OnWire, Shown, draw, output
  <2> QED BY <2>2, <2>5, <2>6, <2>7
<1>7. CASE ~Tick /\ LoopStarts
  <2>1. UNCHANGED <<due_patt, behind, counter, ws2815_buf, wire>> /\ GoTo("services")
        /\ due_loop >= period_loop /\ due_loop' = due_loop - period_loop
        /\ ws2815_refresh_required /\ ws2815_refresh_required' = FALSE
        /\ ws2815_dma_done' = FALSE /\ dma' = 1 /\ age' = 0 /\ ~behind /\ main \in Mains
    BY <1>2, <1>7, TypeParts DEF LoopStarts, IInv, MainOK
  <2>2. Timely'
    BY <2>1, Numbers DEF Timely
  <2>3. (main.at # "draw")'
    BY <2>1, Goes DEF GoTo
  <2>4. Sent /\ Waits
    BY <2>1 DEF Pending
  <2>5. Drawing' /\ Pending'
    BY <2>1, <2>3 DEF Drawing, Pending
  <2>6. Sending'
    <3>1. SinceDrawn' = SinceDrawn
      BY <2>1 DEF SinceDrawn
    <3>2. SinceDrawn <= period_loop + 2 * Slack + 0
      BY <2>1, <2>4, Numbers DEF Waits, Timely
    <3> QED BY <2>1, <3>1, <3>2 DEF Sending
  <2>7. OnWire' /\ Shown'
    BY <2>1, <2>4 DEF OnWire, Shown, Sent
  <2> QED BY <2>2, <2>5, <2>6, <2>7
<1>8. ASSUME ~Tick, ~Sent, UNCHANGED <<time, counter, ws2815_refresh_required, main>>
      PROVE  Timely' /\ Drawing' /\ Pending' /\ Sending' /\ main.at # "draw" /\ ~ws2815_refresh_required
  <2>1. main.at # "draw" /\ ~ws2815_refresh_required
    BY <1>2, <1>8 DEF Drawing, Pending
  <2>2. Timely' /\ Sending'
    BY <1>2, <1>8 DEF Timely, Sending, SinceDrawn, time
  <2> QED BY <1>8, <2>1, <2>2 DEF Drawing, Pending
<1>9. CASE ~Tick /\ ReadWord
  <2>1. UNCHANGED <<time, draw, main, ws2815_dma_done, latch, shown>>
        /\ dma \in Pixels /\ dma' = dma + 1
    BY <1>9 DEF ReadWord
  <2>2. dma \in Nat /\ dma # 0 /\ dma <= NUM_PIXELS /\ dma + 1 # 0
    BY <2>1, Sizes DEF Pixels
  <2>3. ~Sent /\ ~behind /\ Len(wire) = dma - 1
    BY <1>2, <1>9, <2>2 DEF IInv, HandedOver, Sent, OnWire
  <2>4. Timely' /\ Drawing' /\ Pending' /\ Sending'
    BY <1>8, <1>9, <2>1, <2>3 DEF draw
  <2>5. wire \in Seq(AnyFrame) /\ ws2815_buf[dma] \in AnyFrame
    BY <2>1, TypeParts DEF IInv, WireOK, BufOK
  <2>6. wire' = Append(wire, ws2815_buf[dma])
    BY <1>9, <2>2, <2>3, Sizes DEF ReadWord
  <2>7. Len(wire') = dma /\ wire'[dma] = ws2815_buf[dma] /\ \A p \in 1..Len(wire) : wire'[p] = wire[p]
    BY <2>2, <2>3, <2>5, <2>6, AppendProperties
  <2>8. \A p \in 1..Len(wire) : wire[p] = ws2815_buf[p]
    BY <2>3, <2>5, EmptySeq, LenProperties DEF OnWire
  <2>9. \A p \in 1..dma : wire'[p] = ws2815_buf[p]
    BY <2>2, <2>3, <2>7, <2>8
  <2>10. OnWire'
    BY <2>1, <2>2, <2>7, <2>9 DEF OnWire, draw
  <2>11. Shown'
    BY <2>1, <2>2 DEF Shown
  <2> QED BY <2>4, <2>10, <2>11
<1>10. CASE ~Tick /\ DmaComplete
  <2>1. UNCHANGED <<time, draw, main, wire, shown>> /\ dma = NUM_PIXELS + 1 /\ dma' = 0
        /\ ws2815_dma_done' = TRUE /\ latch' = FALSE
    BY <1>10 DEF DmaComplete
  <2>2. dma # 0 /\ Len(wire) = NUM_PIXELS /\ ~Sent /\ ~behind
    <3>1. dma # 0
      BY <2>1, Sizes
    <3>2. ~ws2815_dma_done
      BY <3>1 DEF IInv, HandedOver
    <3>3. Len(wire) = dma - 1
      BY <1>2, <1>10, <3>1 DEF OnWire
    <3> QED BY <1>2, <1>10, <2>1, <3>1, <3>2, <3>3, Sizes DEF Sent
  <2>3. Timely' /\ Drawing' /\ Pending' /\ Sending'
    BY <1>8, <1>10, <2>1, <2>2 DEF draw
  <2>4. wire # <<>>
    BY <2>2, Sizes
  <2> QED BY <1>2, <1>10, <2>1, <2>3, <2>4 DEF OnWire, Shown, draw
<1>11. CASE ~Tick /\ Latch
  <2>1. UNCHANGED <<time, draw, main, dma, ws2815_dma_done, latch>>
        /\ dma = 0 /\ wire # <<>> /\ shown' = wire /\ wire' = <<>>
    BY <1>11 DEF Latch
  <2>2. ~Sent /\ ~behind /\ OnWire
    BY <1>2, <1>11, <2>1 DEF Sent
  <2>3. Timely' /\ Drawing' /\ Pending' /\ Sending'
    BY <1>8, <1>11, <2>1, <2>2 DEF draw
  <2>4. wire = ws2815_buf
    <3>1. Len(wire) = NUM_PIXELS
      BY <2>1 DEF IInv, HandedOver
    <3>2. wire \in [Pixels -> AnyFrame] /\ ws2815_buf \in [Pixels -> AnyFrame]
      BY <3>1, TypeParts, LenProperties DEF IInv, WireOK, BufOK, Pixels
    <3>3. \A p \in Pixels : wire[p] = ws2815_buf[p]
      BY <2>1, <2>2, <3>1 DEF OnWire, Pixels
    <3> QED BY <3>2, <3>3
  <2>5. OnWire' /\ Shown'
    BY <2>1, <2>4 DEF OnWire, Shown, draw
  <2> QED BY <2>3, <2>5
<1>12. CASE ~Tick /\ DeadlineReached
  <2>1. UNCHANGED <<time, draw, main, dma, ws2815_dma_done, wire, shown>> /\ ~latch /\ latch' = TRUE
    BY <1>12 DEF DeadlineReached
  <2>2. ~Sent /\ ~behind /\ OnWire /\ Shown
    BY <1>2, <1>12, <2>1 DEF Sent
  <2>3. Timely' /\ Drawing' /\ Pending' /\ Sending'
    BY <1>8, <1>12, <2>1, <2>2 DEF draw
  <2>4. OnWire' /\ Shown'
    BY <2>1, <2>2 DEF OnWire, Shown, draw
  <2> QED BY <2>3, <2>4
<1>13. CASE UNCHANGED vars
  <2>1. UNCHANGED <<time, draw, main, output>>
    BY <1>13 DEF vars
  <2> QED BY <2>1 DEF Timely, Drawing, Pending, Sending, OnWire, Shown, Waits, SinceDrawn, Sent,
                      time, draw, output
<1> QED
  BY <1>1, <1>3, <1>4, <1>5, <1>6, <1>7, <1>9, <1>10, <1>11, <1>12, <1>13 DEF Next, Loop, Output

\* The first call that draws into the buffer finds it shown.
LEMMA StepShows ==
  InTime /\ IInv /\ Whole /\ [Next]_vars
  => [main.at = "services" /\ main'.at = "draw" /\ ~behind => shown = ws2815_buf]_vars
<1> SUFFICES ASSUME InTime, IInv, Whole, Next, main.at = "services", main'.at = "draw", ~behind
             PROVE  shown = ws2815_buf
  OBVIOUS
<1>1. main \in Mains
  BY TypeParts DEF IInv, MainOK
<1>2. PatternDue
  <2>1. ~PatternNotDue
    BY <1>1, Goes DEF PatternNotDue, GoTo
  <2> QED BY <2>1 DEF Next, Loop, Output, Tick, SetPattern, SetMax, DrawPixel, LoopNotDue, LoopQuiet,
                      LoopStarts, ReadWord, DmaComplete, Latch, DeadlineReached
<1>3. DrawsNow
  <2>1. ~NothingDrawn
    BY <1>1, Goes DEF NothingDrawn, GoTo
  <2> QED BY <1>2, <2>1 DEF PatternDue, DrawStarts
<1> QED BY <1>2, <1>3, DueIsShown DEF PatternDue

\* If twice the loop's lateness leaves room for a transfer between two drawings,
\* then while the loop is in time every frame is shown whole before the next is
\* drawn over it (EachFrameShown), although ws2815_pattern_loop looks at nothing
\* before it draws into the buffer the DMA reads.
THEOREM EveryFrameShown ==
  ASSUME InTime
  PROVE  Spec => EachFrameShown
<1>1. Init => IInv /\ Whole
  BY InitIInv, InitWhole
<1>2. IInv /\ Whole /\ [Next]_vars => (IInv /\ Whole)'
  BY NextIInv, NextWhole
<1>3. IInv /\ Whole /\ [Next]_vars
      => [main.at = "services" /\ main'.at = "draw" /\ ~behind => shown = ws2815_buf]_vars
  BY StepShows
<1> QED BY <1>1, <1>2, <1>3, PTL DEF Spec, EachFrameShown
=============================================================================
