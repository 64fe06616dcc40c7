---------------------------- MODULE Airkiss_proofs --------------------------
(***************************************************************************)
(* Proofs about Airkiss, for all times of the button and the LED.          *)
(* What a call of Button_Cycle_Process does is said first of the operators *)
(* it is made of, for any button; the theorems cite that.                  *)
(***************************************************************************)
EXTENDS Airkiss, TLAPS

\* What a call returns.
Results(r) ==
  /\ r.btn \in Buttons /\ r.btn.Long < ByteMax
  /\ r.cb \in {"none", "down", "double", "long", "long_free"}

LEMMA IncType ==
  ASSUME NEW n \in 0..ByteMax
  PROVE  /\ Inc(n) \in 0..ByteMax
         /\ n < ByteMax => Inc(n) = n + 1
BY ButtonAssumption DEF Inc

\* The bounce filter keeps a button a button and its times as they were.
LEMMA DebouncedType ==
  ASSUME NEW b \in Buttons, NEW l \in BOOLEAN
  PROVE  /\ Debounced(b, l) \in Buttons
         /\ Debounced(b, l).Long = b.Long
         /\ Debounced(b, l).Event = b.Event
<1>1. Inc(b.Debounce) \in 0..ByteMax
  BY IncType DEF Buttons
<1>2. 0 \in 0..ByteMax  BY ButtonAssumption
<1>3. CASE l = b.LastLevel
  BY <1>3 DEF Debounced
<1>4. CASE l # b.LastLevel /\ Inc(b.Debounce) < DEBOUNCE_TIME
  BY <1>1, <1>4 DEF Debounced, Buttons
<1>5. CASE l # b.LastLevel /\ ~(Inc(b.Debounce) < DEBOUNCE_TIME)
  BY <1>2, <1>5 DEF Debounced, Buttons, States
<1> QED  BY <1>3, <1>4, <1>5

LEMMA CappedType ==
  ASSUME NEW b \in Buttons
  PROVE  /\ Capped(b) \in Buttons /\ Capped(b).Long < ByteMax
         /\ b.Long >= LONG_TIME => Capped(b).Long >= LONG_TIME
         /\ Capped(b).State = b.State /\ Capped(b).LastLevel = b.LastLevel
         /\ Capped(b).Event = b.Event
<1>1. LONG_TIME \in 0..ByteMax /\ LONG_TIME < ByteMax
  BY ButtonAssumption
<1>2. b.Long \in 0..ByteMax  BY DEF Buttons
<1>3. CASE b.Long = ByteMax
  <2>1. Capped(b) = [b EXCEPT !.Long = LONG_TIME]
    BY <1>3 DEF Capped
  <2>2. Capped(b) \in Buttons
    BY <1>1, <2>1 DEF Buttons
  <2>3. Capped(b).Long = LONG_TIME
    BY <2>1 DEF Buttons
  <2>4. Capped(b).State = b.State /\ Capped(b).Event = b.Event
    BY <2>1 DEF Buttons
  <2>5. Capped(b).LastLevel = b.LastLevel
    BY <2>1 DEF Buttons
  <2>6. Capped(b).Long < ByteMax /\ Capped(b).Long >= LONG_TIME
    BY <1>1, <2>3
  <2> HIDE DEF Capped
  <2> QED  BY <2>2, <2>4, <2>5, <2>6
<1>4. CASE b.Long # ByteMax
  <2>1. Capped(b) = b
    BY <1>4 DEF Capped, Buttons
  <2>2. b.Long < ByteMax  BY <1>2, <1>4, ButtonAssumption
  <2> QED  BY <2>1, <2>2
<1> QED  BY <1>3, <1>4

LEMMA HeldLongType ==
  ASSUME NEW b \in Buttons
  PROVE  Results(HeldLong(b))
<1>1. 0 \in 0..ByteMax  BY ButtonAssumption
<1>2. Inc(b.Cycle) \in 0..ByteMax  BY IncType DEF Buttons
<1>3. [b EXCEPT !.Cycle = 0, !.Event = "long"] \in Buttons
  BY <1>1 DEF Buttons, Events
<1>4. [b EXCEPT !.Cycle = Inc(@)] \in Buttons
  BY <1>2 DEF Buttons
<1> QED  BY <1>3, <1>4, CappedType DEF HeldLong, Results

LEMMA PressedType ==
  ASSUME NEW b \in Buttons, b.Long < ByteMax
  PROVE  /\ Pressed(b) \in Buttons
         /\ Pressed(b).Long = b.Long + 1
         /\ Pressed(b).State = b.State /\ Pressed(b).LastLevel = b.LastLevel
         /\ Pressed(b).Event = "down"
<1>1. Inc(b.Long) \in 0..ByteMax /\ Inc(b.Long) = b.Long + 1
  BY IncType DEF Buttons
<1> QED  BY <1>1 DEF Pressed, Buttons, Events

LEMMA WhileDownType ==
  ASSUME NEW b \in Buttons, b.Long < ByteMax
  PROVE  Results(WhileDown(b))
<1>1. LONG_TIME < ByteMax /\ LONG_TIME \in Nat /\ ByteMax \in Nat
  BY ButtonAssumption
<1>2. Pressed(b).Long \in Nat
  BY PressedType DEF Buttons
<1>3. CASE ~b.LastLevel
  BY <1>3 DEF WhileDown, Results
<1>4. CASE b.LastLevel /\ Pressed(b).Long < LONG_TIME
  <2>1. WhileDown(b) = [btn |-> Pressed(b), cb |-> "none"]
    BY <1>4 DEF WhileDown
  <2>2. Pressed(b).Long < ByteMax
    BY <1>1, <1>2, <1>4
  <2> QED  BY <2>1, <2>2, PressedType DEF Results
<1>5. CASE b.LastLevel /\ ~(Pressed(b).Long < LONG_TIME)
  <2>1. WhileDown(b) = HeldLong(Pressed(b))
    BY <1>5 DEF WhileDown
  <2> QED  BY <2>1, PressedType, HeldLongType
<1> QED  BY <1>3, <1>4, <1>5

LEMMA OnUpType ==
  ASSUME NEW b \in Buttons, b.Long < ByteMax
  PROVE  Results(OnUp(b))
<1>1. 0 \in 0..ByteMax /\ 0 < ByteMax  BY ButtonAssumption
<1>2. Results(Clicked(b))
  BY <1>1 DEF Clicked, Results, Buttons, States, Events
<1>3. Results(LongFree(b))
  BY <1>1 DEF LongFree, Results, Buttons, States
<1>4. CASE b.Event = "down"
  BY <1>2, <1>4 DEF OnUp
<1>5. CASE b.Event = "long"
  BY <1>3, <1>5 DEF OnUp
<1>6. CASE b.Event \notin {"down", "long"}
  BY <1>6 DEF OnUp, Results
<1> QED  BY <1>4, <1>5, <1>6

LEMMA WaitDoubleType ==
  ASSUME NEW b \in Buttons, b.Long < ByteMax
  PROVE  Results(WaitDouble(b))
<1>1. Inc(b.Timer) \in 0..ByteMax  BY IncType DEF Buttons
<1> QED  BY <1>1 DEF WaitDouble, Results, Buttons, States

\* A call keeps a button a button, and its time below 0xFF.
LEMMA CycleType ==
  ASSUME NEW b \in Buttons, b.Long < ByteMax, NEW l \in BOOLEAN
  PROVE  Results(Button_Cycle_Process(b, l))
<1> DEFINE d == Debounced(b, l)
<1>1. d \in Buttons /\ d.Long < ByteMax  BY DebouncedType
<1>2. CASE d.State = "down"
  BY <1>1, <1>2, WhileDownType DEF Button_Cycle_Process
<1>3. CASE d.State = "up"
  BY <1>1, <1>3, OnUpType DEF Button_Cycle_Process
<1>4. CASE d.State = "double"
  BY <1>1, <1>4, WaitDoubleType DEF Button_Cycle_Process
<1>5. CASE d.State \notin {"down", "up", "double"}
  BY <1>1, <1>5 DEF Button_Cycle_Process, Results
<1> QED  BY <1>2, <1>3, <1>4, <1>5

-----------------------------------------------------------------------------
(* A button in step with its level.                                        *)

Upright(b) ==
  /\ b.State = "down" <=> b.LastLevel
  /\ b.State # "up"
  /\ b.State = "down" => b.Event \in {"down", "long"}

\* While it is down its time goes on, or stays above LONG_TIME.
LEMMA WhileDownDoes ==
  ASSUME NEW b \in Buttons, b.Long < ByteMax, b.LastLevel
  PROVE  LET r == WhileDown(b) IN
         /\ r.btn.State = b.State /\ r.btn.LastLevel
         /\ r.btn.Event \in {"down", "long"} /\ r.cb \in {"none", "long"}
         /\ r.cb = "long" => r.btn.Long >= LONG_TIME
         /\ IF b.Long + 1 < LONG_TIME THEN r.btn.Long = b.Long + 1
                                       ELSE r.btn.Long >= LONG_TIME
<1> DEFINE p == Pressed(b)
<1>1. /\ p \in Buttons /\ p.Long = b.Long + 1 /\ p.State = b.State
      /\ p.LastLevel /\ p.Event = "down"
  BY PressedType
<1>2. LONG_TIME \in Nat /\ b.Long \in Nat
  BY ButtonAssumption DEF Buttons
<1>3. CASE p.Long < LONG_TIME
  <2>1. WhileDown(b) = [btn |-> p, cb |-> "none"]
    BY <1>3 DEF WhileDown
  <2> HIDE DEF p
  <2> QED  BY <1>1, <1>2, <1>3, <2>1
<1>4. CASE ~(p.Long < LONG_TIME)
  <2>1. WhileDown(b) = HeldLong(p)
    BY <1>4 DEF WhileDown
  <2> HIDE DEF p
  <2>0. p.Long >= LONG_TIME /\ ~(b.Long + 1 < LONG_TIME)
    BY <1>1, <1>2, <1>4
  <2>2. CASE Inc(p.Cycle) >= LONG_CYCLE
    <3> DEFINE e == [p EXCEPT !.Cycle = 0, !.Event = "long"]
    <3>1. HeldLong(p) = [btn |-> Capped(e), cb |-> "long"]
      BY <2>2 DEF HeldLong
    <3>2. e \in Buttons
      <4>1. 0 \in 0..ByteMax  BY ButtonAssumption
      <4> QED  BY <1>1, <4>1 DEF Buttons, Events
    <3>3. e.Long = p.Long /\ e.State = p.State /\ e.Event = "long"
      BY <1>1 DEF Buttons
    <3>4. e.LastLevel = p.LastLevel
      BY <1>1 DEF Buttons
    <3> HIDE DEF e
    <3>5. e.LastLevel /\ e.Long >= LONG_TIME /\ e.State = b.State
      BY <1>1, <2>0, <3>3, <3>4
    <3>6. /\ Capped(e).State = b.State /\ Capped(e).LastLevel
          /\ Capped(e).Event = "long" /\ Capped(e).Long >= LONG_TIME
      BY <3>2, <3>3, <3>5, CappedType
    <3> QED  BY <2>0, <2>1, <3>1, <3>6
  <2>3. CASE ~(Inc(p.Cycle) >= LONG_CYCLE)
    <3> DEFINE e == [p EXCEPT !.Cycle = Inc(@)]
    <3>1. HeldLong(p) = [btn |-> Capped(e), cb |-> "none"]
      BY <2>3 DEF HeldLong
    <3>2. Inc(p.Cycle) \in 0..ByteMax  BY <1>1, IncType DEF Buttons
    <3>3. e \in Buttons
      BY <1>1, <3>2 DEF Buttons
    <3>4. e.Long = p.Long /\ e.State = p.State /\ e.Event = "down"
      BY <1>1 DEF Buttons
    <3>5. e.LastLevel = p.LastLevel
      BY <1>1 DEF Buttons
    <3> HIDE DEF e
    <3>6. e.LastLevel /\ e.Long >= LONG_TIME /\ e.State = b.State
      BY <1>1, <2>0, <3>4, <3>5
    <3>7. /\ Capped(e).State = b.State /\ Capped(e).LastLevel
          /\ Capped(e).Event = "down" /\ Capped(e).Long >= LONG_TIME
      BY <3>3, <3>4, <3>6, CappedType
    <3> QED  BY <2>0, <2>1, <3>1, <3>7
  <2> QED  BY <2>2, <2>3
<1> QED  BY <1>3, <1>4

\* A release ends in a click, a double click or the end of a long press; only
\* a double click leaves the time of the press.
LEMMA OnUpDoes ==
  ASSUME NEW b \in Buttons, b.Event \in {"down", "long"}
  PROVE  LET r == OnUp(b) IN
         /\ r.btn.State \in {"none", "double"} /\ r.btn.LastLevel = b.LastLevel
         /\ r.cb \in {"down", "double", "long_free"}
         /\ r.cb # "double" => r.btn.Long = 0
<1>1. CASE b.Event = "down"
  BY <1>1 DEF OnUp, Clicked, Buttons
<1>2. CASE b.Event = "long"
  BY <1>2 DEF OnUp, LongFree, Buttons
<1> QED  BY <1>1, <1>2

LEMMA WaitDoubleDoes ==
  ASSUME NEW b \in Buttons, b.State = "double"
  PROVE  LET r == WaitDouble(b) IN
         /\ r.btn.State \in {"none", "double"} /\ r.btn.LastLevel = b.LastLevel
         /\ r.btn.Long = b.Long /\ r.cb = "none"
BY DEF WaitDouble, Buttons

\* After the bounce filter the button is down, released or at rest.
LEMMA DebouncedDoes ==
  ASSUME NEW b \in Buttons, NEW l \in BOOLEAN, Upright(b)
  PROVE  LET d == Debounced(b, l) IN
         \/ d.State = "down" /\ d.LastLevel
         \/ d.State = "up" /\ ~d.LastLevel /\ d.Event \in {"down", "long"}
         \/ d.State \in {"none", "double"} /\ ~d.LastLevel /\ b.State = d.State
BY DEF Debounced, Upright, Buttons, States

\* A call keeps a button in step with its level.
LEMMA CycleInStep ==
  ASSUME NEW b \in Buttons, b.Long < ByteMax, NEW l \in BOOLEAN, Upright(b)
  PROVE  Upright(Button_Cycle_Process(b, l).btn)
<1> DEFINE d == Debounced(b, l)
<1>1. d \in Buttons /\ d.Long < ByteMax  BY DebouncedType
<1>2. CASE d.State = "down" /\ d.LastLevel
  <2>1. Button_Cycle_Process(b, l) = WhileDown(d)
    BY <1>2 DEF Button_Cycle_Process
  <2> HIDE DEF d
  <2> QED  BY <1>1, <1>2, <2>1, WhileDownDoes DEF Upright
<1>3. CASE d.State = "up" /\ ~d.LastLevel /\ d.Event \in {"down", "long"}
  <2>1. Button_Cycle_Process(b, l) = OnUp(d)
    BY <1>3 DEF Button_Cycle_Process
  <2> HIDE DEF d
  <2> QED  BY <1>1, <1>3, <2>1, OnUpDoes DEF Upright
<1>4. CASE d.State = "double" /\ ~d.LastLevel
  <2>1. Button_Cycle_Process(b, l) = WaitDouble(d)
    BY <1>4 DEF Button_Cycle_Process
  <2> HIDE DEF d
  <2> QED  BY <1>1, <1>4, <2>1, WaitDoubleDoes DEF Upright
<1>5. CASE d.State = "none" /\ ~d.LastLevel
  <2>1. Button_Cycle_Process(b, l) = [btn |-> d, cb |-> "none"]
    BY <1>5 DEF Button_Cycle_Process
  <2> HIDE DEF d
  <2> QED  BY <1>5, <2>1 DEF Upright
<1> QED  BY <1>2, <1>3, <1>4, <1>5, DebouncedDoes

-----------------------------------------------------------------------------
(* The time of a press.                                                    *)

\* h is the calls of the press in hand, up to LONG_TIME, and g the gesture
\* before: Long counts the same, but for what a double click left.
Timed(b, h, g) ==
  /\ h \in 0..LONG_TIME
  /\ b.State # "down" => h = 0
  /\ g # "double" =>
       IF b.State = "down"
       THEN h = IF b.Long < LONG_TIME THEN b.Long ELSE LONG_TIME
       ELSE b.Long = 0

\* What btn_timeout makes of held and gesture.
NextHeld(b, h) ==
  CASE b.State # "down" -> 0
    [] b.State = "down" /\ h = LONG_TIME -> h
    [] OTHER -> h + 1
NextGesture(event, g) == IF event \in {"down", "double", "long_free"} THEN event ELSE g

\* A call keeps Long with the calls that were counted, and reports a long
\* press only at LONG_TIME.
LEMMA CycleTimed ==
  ASSUME NEW b \in Buttons, b.Long < ByteMax, NEW l \in BOOLEAN, Upright(b),
         NEW h, NEW g, Timed(b, h, g)
  PROVE  LET r == Button_Cycle_Process(b, l) IN
         /\ Timed(r.btn, NextHeld(r.btn, h), NextGesture(r.cb, g))
         /\ r.cb = "long" => r.btn.State = "down" /\ r.btn.Long >= LONG_TIME
<1> DEFINE d == Debounced(b, l)
           r == Button_Cycle_Process(b, l)
<1>1. d \in Buttons /\ d.Long < ByteMax /\ d.Long = b.Long  BY DebouncedType
<1> SUFFICES
      /\ Timed(r.btn, NextHeld(r.btn, h), NextGesture(r.cb, g))
      /\ r.cb = "long" => r.btn.State = "down" /\ r.btn.Long >= LONG_TIME
  OBVIOUS
<1>2. LONG_TIME \in Nat /\ 0 < LONG_TIME /\ b.Long \in Nat /\ h \in Nat /\ h <= LONG_TIME
  BY ButtonAssumption DEF Buttons, Timed
<1>3. CASE d.State = "down" /\ d.LastLevel
  <2>1. r = WhileDown(d)
    BY <1>3 DEF Button_Cycle_Process
  <2> HIDE DEF d, r
  <2>2. /\ r.btn.State = "down" /\ r.cb \in {"none", "long"}
        /\ r.cb = "long" => r.btn.Long >= LONG_TIME
        /\ IF b.Long + 1 < LONG_TIME THEN r.btn.Long = b.Long + 1
                                      ELSE r.btn.Long >= LONG_TIME
    BY <1>1, <1>3, <2>1, WhileDownDoes
  <2>3. r.btn.Long \in Nat
    BY <1>1, <2>1, WhileDownType DEF Results, Buttons
  <2>4. NextGesture(r.cb, g) = g
    BY <2>2 DEF NextGesture
  <2>5. NextHeld(r.btn, h) = IF h = LONG_TIME THEN h ELSE h + 1
    BY <2>2 DEF NextHeld
  <2>6. g # "double" => h = IF b.Long < LONG_TIME THEN b.Long ELSE LONG_TIME
    BY <1>2 DEF Timed
  <2>7. g # "double" =>
          NextHeld(r.btn, h) = IF r.btn.Long < LONG_TIME THEN r.btn.Long ELSE LONG_TIME
    BY <1>2, <2>2, <2>3, <2>5, <2>6
  <2>8. NextHeld(r.btn, h) \in 0..LONG_TIME
    BY <1>2, <2>5
  <2> QED  BY <2>2, <2>4, <2>7, <2>8 DEF Timed
<1>4. CASE d.State = "up" /\ ~d.LastLevel /\ d.Event \in {"down", "long"}
  <2>1. r = OnUp(d)
    BY <1>4 DEF Button_Cycle_Process
  <2> HIDE DEF d, r
  <2>2. /\ r.btn.State \in {"none", "double"} /\ r.cb \in {"down", "double", "long_free"}
        /\ r.cb # "double" => r.btn.Long = 0
    BY <1>1, <1>4, <2>1, OnUpDoes
  <2> QED  BY <1>2, <2>2 DEF Timed, NextHeld, NextGesture
<1>5. CASE d.State \in {"none", "double"} /\ ~d.LastLevel /\ b.State = d.State
  <2>1. /\ r.btn.State \in {"none", "double"} /\ r.btn.Long = d.Long
        /\ r.cb = "none"
    <3>1. CASE d.State = "double"
      <4>1. r = WaitDouble(d)
        BY <3>1 DEF Button_Cycle_Process
      <4> HIDE DEF d, r
      <4> QED  BY <1>1, <3>1, <4>1, WaitDoubleDoes
    <3>2. CASE d.State = "none"
      <4>1. r = [btn |-> d, cb |-> "none"]
        BY <3>2 DEF Button_Cycle_Process
      <4> HIDE DEF d, r
      <4> QED  BY <3>2, <4>1
    <3> QED  BY <1>5, <3>1, <3>2
  <2> HIDE DEF d, r
  <2> QED  BY <1>1, <1>2, <1>5, <2>1 DEF Timed, NextHeld, NextGesture
<1> QED  BY <1>3, <1>4, <1>5, DebouncedDoes

-----------------------------------------------------------------------------
(* The inductive invariant.                                                *)

ButtonInv ==
  atRest => /\ Upright(btn)
            /\ Timed(btn, held, gesture)
            /\ cb = "long" => btn.State = "down" /\ btn.Long >= LONG_TIME

LEMMA CallBackType ==
  ASSUME TypeOK, NEW e, CallBack(e)
  PROVE  gled' \in Leds /\ running' \in BOOLEAN /\ lit' \in BOOLEAN
         /\ over' \in BOOLEAN /\ torn' \in BOOLEAN
<1>1. 0 \in 0..ByteMax /\ SlowBlink \in 0..ByteMax
  BY ButtonAssumption, AirkissAssumption
<1>2. CASE StartBlink
  BY <1>1, <1>2 DEF StartBlink, Leds
<1>3. CASE UNCHANGED <<led, over, torn>>
  BY <1>3 DEF led, TypeOK
<1> QED  BY <1>2, <1>3 DEF CallBack

LEMMA TimeoutType ==
  ASSUME TypeOK, btn_timeout
  PROVE  TypeOK'
<1> DEFINE r == Button_Cycle_Process(btn, level)
<1>1. Results(r)
  BY CycleType DEF TypeOK
<1>2. btn' = r.btn /\ cb' = r.cb /\ CallBack(r.cb) /\ UNCHANGED <<level, pc, atRest>>
  BY DEF btn_timeout
<1>3. held' = CASE r.btn.State # "down" -> 0
                [] r.btn.State = "down" /\ held = LONG_TIME -> held
                [] OTHER -> held + 1
  BY DEF btn_timeout
<1>4. gap' = CASE r.cb = "down" -> 0
               [] r.cb # "down" /\ ~r.btn.LastLevel /\ gap < DOUBLE_TIME -> gap + 1
               [] OTHER -> gap
  BY DEF btn_timeout
<1>5. gesture' = IF r.cb \in {"down", "double", "long_free"} THEN r.cb ELSE gesture
  BY DEF btn_timeout
<1> HIDE DEF r
<1>6. LONG_TIME \in Nat /\ DOUBLE_TIME \in Nat
  BY ButtonAssumption
<1>7. held' \in 0..LONG_TIME
  BY <1>3, <1>6 DEF TypeOK
<1>8. gap' \in 0..DOUBLE_TIME
  BY <1>4, <1>6 DEF TypeOK
<1>9. gesture' \in {"none", "down", "double", "long_free"}
  BY <1>5 DEF TypeOK
<1> QED  BY <1>1, <1>2, <1>7, <1>8, <1>9, CallBackType DEF TypeOK, Results

LEMMA TypeStep ==
  ASSUME TypeOK, [Next]_vars
  PROVE  TypeOK'
<1> USE DEF TypeOK, button, led, InCall
<1>0. 0 \in 0..ByteMax /\ 1 \in 0..ByteMax
  BY ButtonAssumption
<1>1. CASE UNCHANGED vars
  BY <1>1 DEF vars
<1>2. CASE btn_timeout
  BY <1>2, TimeoutType
<1>3. CASE timer_timeout
  <2>1. Inc(gled.tick) \in 0..ByteMax  BY IncType DEF Leds
  <2>2. gled' \in Leds
    <3>1. \/ gled' = [gled EXCEPT !.tick = 0, !.state = 1 - @]
          \/ gled' = [gled EXCEPT !.tick = Inc(gled.tick)]
      BY <1>3 DEF timer_timeout
    <3>2. 1 - gled.state \in {0, 1}
      BY DEF Leds
    <3>3. [gled EXCEPT !.tick = 0, !.state = 1 - @] \in Leds
      BY <1>0, <3>2 DEF Leds
    <3>4. [gled EXCEPT !.tick = Inc(gled.tick)] \in Leds
      BY <2>1 DEF Leds
    <3> QED  BY <3>1, <3>3, <3>4
  <2>3. lit' \in BOOLEAN
    BY <1>3 DEF timer_timeout
  <2> QED  BY <1>3, <2>2, <2>3 DEF timer_timeout
<1>4. CASE BlinkStop \/ BlinkLit \/ BlinkStart
  <2>1. CASE BlinkStop
    BY <2>1 DEF BlinkStop
  <2>2. CASE BlinkLit
    BY <2>2 DEF BlinkLit
  <2>3. CASE BlinkStart
    BY <2>3 DEF BlinkStart
  <2> QED  BY <1>4, <2>1, <2>2, <2>3
<1>5. CASE BlinkFields
  <2>1. CASE SetField("on", 1, "off")
    BY <1>0, <2>1 DEF SetField, Leds
  <2>2. CASE SetField("off", 1, "tick")
    BY <1>0, <2>2 DEF SetField, Leds
  <2>3. CASE SetField("tick", 0, "state")
    BY <1>0, <2>3 DEF SetField, Leds
  <2>4. CASE SetField("state", 1, "start")
    BY <1>0, <2>4 DEF SetField, Leds
  <2> QED  BY <1>5, <2>1, <2>2, <2>3, <2>4 DEF BlinkFields
<1>6. CASE SessionBegins \/ SteadyLit \/ SessionEnds
  <2>1. CASE SessionBegins
    BY <2>1 DEF SessionBegins
  <2>2. CASE SteadyLit
    BY <2>2 DEF SteadyLit
  <2>3. CASE SessionEnds
    BY <2>3 DEF SessionEnds
  <2> QED  BY <1>6, <2>1, <2>2, <2>3
<1>7. CASE PinChanges
  BY <1>7 DEF PinChanges
<1> QED
  BY <1>1, <1>2, <1>3, <1>4, <1>5, <1>6, <1>7 DEF Next, Timers, Espush

LEMMA ButtonStep ==
  ASSUME TypeOK, ButtonInv, [Next]_vars
  PROVE  ButtonInv'
<1>1. CASE btn_timeout
  <2> SUFFICES ASSUME atRest'
      PROVE  /\ Upright(btn') /\ Timed(btn', held', gesture')
             /\ cb' = "long" => btn'.State = "down" /\ btn'.Long >= LONG_TIME
    BY DEF ButtonInv, Upright, Timed
  <2>1. atRest  BY <1>1 DEF btn_timeout
  <2> DEFINE r == Button_Cycle_Process(btn, level)
  <2>2. /\ btn' = r.btn /\ cb' = r.cb
        /\ held' = NextHeld(r.btn, held) /\ gesture' = NextGesture(r.cb, gesture)
    BY <1>1 DEF btn_timeout, NextHeld, NextGesture
  <2>3. Upright(btn) /\ Timed(btn, held, gesture) /\ btn \in Buttons
        /\ btn.Long < ByteMax /\ level \in BOOLEAN
    BY <2>1 DEF ButtonInv, TypeOK
  <2>4. Upright(r.btn)
    BY <2>3, CycleInStep
  <2>5. /\ Timed(r.btn, NextHeld(r.btn, held), NextGesture(r.cb, gesture))
        /\ r.cb = "long" => r.btn.State = "down" /\ r.btn.Long >= LONG_TIME
    BY <2>3, CycleTimed
  <2> HIDE DEF r
  <2> QED  BY <2>2, <2>4, <2>5
<1>2. CASE UNCHANGED <<btn, cb, atRest, held, gesture>>
  BY <1>2 DEF ButtonInv, Upright, Timed
<1>3. [Next]_vars => btn_timeout \/ UNCHANGED <<btn, cb, atRest, held, gesture>>
  BY DEF Next, Timers, Espush, vars, button, timer_timeout, BlinkStop, BlinkLit,
     BlinkFields, SetField, BlinkStart, SessionBegins, SteadyLit, SessionEnds,
     PinChanges
<1> QED  BY <1>1, <1>2, <1>3

-----------------------------------------------------------------------------

LEMMA InitInv == Init => TypeOK /\ ButtonInv
<1> SUFFICES ASSUME Init PROVE TypeOK /\ ButtonInv
  OBVIOUS
<1>1. 0 \in 0..ByteMax /\ 0 < ByteMax /\ 0 \in 0..LONG_TIME /\ 0 \in 0..DOUBLE_TIME
  BY ButtonAssumption
<1>2. btn \in Buttons /\ btn.Long = 0
  BY <1>1 DEF Init, Created, Buttons, States, Events
<1>3. TypeOK
  BY <1>1, <1>2 DEF Init, TypeOK, Leds, InCall
<1>4. ButtonInv
  BY <1>1 DEF Init, ButtonInv, Created, Upright, Timed
<1> QED  BY <1>3, <1>4

\* Every variable keeps its type, and the time a button is held never comes
\* to 0xFF, whatever the times are.
THEOREM TypeCorrect == Spec => []TypeOK
BY InitInv, TypeStep, PTL DEF Spec

\* The inductive invariant of the button.
THEOREM ButtonCorrect == Spec => [](TypeOK /\ ButtonInv)
BY InitInv, TypeStep, ButtonStep, PTL DEF Spec

\* However it bounces, the state of a button that was at rest when it was
\* created follows its level, and it is never left in BUTTON_UP.
THEOREM StaysInStep == Spec => []InStep
<1>1. TypeOK /\ ButtonInv => InStep
  BY DEF ButtonInv, Upright, InStep
<1> QED  BY <1>1, ButtonCorrect, PTL

\* A long press is reported only after LONG_TIME calls in the press in hand,
\* but for the press after a double click.
THEOREM LongPressIsLong == Spec => []LongMeansHeld
<1>1. TypeOK /\ ButtonInv => LongMeansHeld
  <2> SUFFICES ASSUME TypeOK, ButtonInv, atRest, cb = "long", gesture # "double"
      PROVE  held >= LONG_TIME
    BY DEF LongMeansHeld
  <2>1. btn.State = "down" /\ btn.Long >= LONG_TIME
    BY DEF ButtonInv
  <2>2. btn.Long \in Nat /\ LONG_TIME \in Nat
    BY ButtonAssumption DEF TypeOK, Buttons
  <2>3. held = LONG_TIME
    BY <2>1, <2>2 DEF ButtonInv, Timed
  <2> QED  BY <2>2, <2>3
<1> QED  BY <1>1, ButtonCorrect, PTL

\* In a session the LED is on and stays on until a long press.
SteadyInv ==
  /\ SteadyInSession
  /\ pc = "steady" /\ ~over => ~running

LEMMA SteadyStep ==
  ASSUME SteadyInv, [Next]_vars
  PROVE  SteadyInv'
<1> USE DEF SteadyInv, SteadyInSession
<1>1. CASE UNCHANGED vars
  BY <1>1 DEF vars, led
<1>2. CASE btn_timeout
  <2>1. StartBlink \/ UNCHANGED <<led, over, torn>>
    BY <1>2 DEF btn_timeout, CallBack
  <2>2. UNCHANGED pc
    BY <1>2 DEF btn_timeout
  <2> QED  BY <2>1, <2>2 DEF StartBlink, led
<1>3. CASE timer_timeout
  BY <1>3 DEF timer_timeout
<1>4. CASE Espush
  BY <1>4 DEF Espush, BlinkStop, BlinkLit, BlinkFields, SetField, BlinkStart,
     SessionBegins, SteadyLit, SessionEnds, led
<1>5. CASE PinChanges
  BY <1>5 DEF PinChanges, led
<1> QED  BY <1>1, <1>2, <1>3, <1>4, <1>5 DEF Next, Timers

\* The LED is steady in every session, unless a long press made it blink.
THEOREM LedSteady == Spec => []SteadyInSession
<1>1. Init => SteadyInv  BY DEF Init, SteadyInv, SteadyInSession
<1>2. SteadyInv => SteadyInSession  BY DEF SteadyInv
<1> QED  BY <1>1, <1>2, SteadyStep, PTL DEF Spec
\* What the espush thread has done of led_blink(1, 1), if no blink began within.
PhaseInv ==
  /\ BlinkInPhase
  /\ running /\ ~torn => gled.on \in Nat \ {0} /\ gled.off \in Nat \ {0}
  /\ ~torn =>
       /\ pc \in InCall => ~running
       /\ pc \in {"on", "off", "tick", "state", "start"} => lit
       /\ pc \in {"off", "tick", "state", "start"} => gled.on = 1
       /\ pc \in {"tick", "state", "start"} => gled.off = 1
       /\ pc \in {"state", "start"} => gled.tick = 0
       /\ pc = "start" => gled.state = 1

LEMMA TickInPhase ==
  ASSUME TypeOK, PhaseInv, timer_timeout
  PROVE  PhaseInv'
<1> SUFFICES ASSUME ~torn'
    PROVE  PhaseInv'
  BY DEF PhaseInv, BlinkInPhase
<1>1. /\ running /\ ~torn /\ pc \notin InCall /\ UNCHANGED <<running, torn, pc>>
  BY DEF timer_timeout, PhaseInv
<1>2. /\ gled.on \in Nat \ {0} /\ gled.off \in Nat \ {0} /\ gled.tick \in Nat
      /\ gled.state \in {0, 1} /\ gled \in Leds /\ lit \in BOOLEAN
  BY <1>1 DEF PhaseInv, TypeOK, Leds
<1>3. gled.on <= ByteMax /\ gled.off <= ByteMax /\ ByteMax \in Nat
  BY ButtonAssumption DEF TypeOK, Leds
<1>4. gled.tick < IF gled.state = 1 THEN gled.on ELSE gled.off
  BY <1>1 DEF PhaseInv, BlinkInPhase
<1>5. Inc(gled.tick) = gled.tick + 1
  BY <1>2, <1>3, <1>4, IncType
<1>6. CASE IF gled.state = 1 THEN gled.tick + 1 >= gled.on ELSE gled.tick + 1 >= gled.off
  <2>1. gled' = [gled EXCEPT !.tick = 0, !.state = 1 - @] /\ lit' = (gled.state = 0)
    BY <1>5, <1>6 DEF timer_timeout
  <2>2. /\ gled'.on = gled.on /\ gled'.off = gled.off /\ gled'.tick = 0
        /\ gled'.state = 1 - gled.state
    BY <1>2, <2>1 DEF Leds
  <2>3. lit' <=> gled'.state = 1
    <3>1. gled'.state = 1 <=> gled.state = 0
      BY <1>2, <2>2
    <3>2. lit' <=> gled.state = 0
      BY <2>1, Zenon
    <3> QED  BY <3>1, <3>2
  <2>4. gled'.tick < IF gled'.state = 1 THEN gled'.on ELSE gled'.off
    BY <1>2, <2>2
  <2>5. BlinkInPhase'
    BY <2>3, <2>4 DEF BlinkInPhase
  <2> QED  BY <1>1, <1>2, <2>2, <2>5 DEF PhaseInv, InCall
<1>7. CASE ~(IF gled.state = 1 THEN gled.tick + 1 >= gled.on ELSE gled.tick + 1 >= gled.off)
  <2>1. gled' = [gled EXCEPT !.tick = gled.tick + 1] /\ lit' = lit
    BY <1>5, <1>7 DEF timer_timeout
  <2>2. /\ gled'.on = gled.on /\ gled'.off = gled.off /\ gled'.tick = gled.tick + 1
        /\ gled'.state = gled.state
    BY <1>2, <2>1 DEF Leds
  <2>3. lit <=> gled.state = 1
    BY <1>1 DEF PhaseInv, BlinkInPhase
  <2>4. gled'.tick < IF gled'.state = 1 THEN gled'.on ELSE gled'.off
    BY <1>2, <1>7, <2>2
  <2>5. lit' <=> gled'.state = 1
    BY <2>1, <2>2, <2>3
  <2>6. BlinkInPhase'
    BY <2>4, <2>5 DEF BlinkInPhase
  <2> QED  BY <1>1, <1>2, <2>2, <2>6 DEF PhaseInv, InCall
<1> QED  BY <1>6, <1>7

LEMMA PhaseStep ==
  ASSUME TypeOK, PhaseInv, [Next]_vars
  PROVE  PhaseInv'
<1> USE DEF InCall, led
<1>1. CASE UNCHANGED <<led, pc, torn>>
  BY <1>1 DEF PhaseInv, BlinkInPhase
<1>2. CASE btn_timeout
  <2>1. StartBlink \/ UNCHANGED <<led, over, torn>>
    BY <1>2 DEF btn_timeout, CallBack
  <2>2. UNCHANGED pc
    BY <1>2 DEF btn_timeout
  <2>3. CASE StartBlink
    <3>1. SlowBlink \in Nat \ {0}  BY ButtonAssumption, AirkissAssumption
    <3>2. /\ gled'.on = SlowBlink /\ gled'.off = SlowBlink
          /\ gled'.tick = 0 /\ gled'.state = 1 /\ lit'
      BY <2>3 DEF StartBlink
    <3>3. BlinkInPhase'
      BY <3>1, <3>2 DEF BlinkInPhase
    <3>4. ~torn' => pc' \notin InCall
      BY <2>2, <2>3 DEF StartBlink
    <3> QED  BY <3>1, <3>2, <3>3, <3>4 DEF PhaseInv
  <2> QED  BY <1>1, <2>1, <2>2, <2>3
<1>3. CASE timer_timeout
  BY <1>3, TickInPhase
<1>4. CASE BlinkStop \/ BlinkLit \/ SessionBegins \/ SteadyLit \/ SessionEnds
  BY <1>4 DEF PhaseInv, BlinkInPhase, BlinkStop, BlinkLit, SessionBegins, SteadyLit,
     SessionEnds
<1>5. CASE BlinkFields
  <2>1. gled \in Leds  BY DEF TypeOK
  <2>2. CASE SetField("on", 1, "off")
    BY <2>1, <2>2 DEF SetField, PhaseInv, BlinkInPhase, Leds
  <2>3. CASE SetField("off", 1, "tick")
    BY <2>1, <2>3 DEF SetField, PhaseInv, BlinkInPhase, Leds
  <2>4. CASE SetField("tick", 0, "state")
    BY <2>1, <2>4 DEF SetField, PhaseInv, BlinkInPhase, Leds
  <2>5. CASE SetField("state", 1, "start")
    BY <2>1, <2>5 DEF SetField, PhaseInv, BlinkInPhase, Leds
  <2> QED  BY <1>5, <2>2, <2>3, <2>4, <2>5 DEF BlinkFields
<1>6. CASE BlinkStart
  BY <1>6 DEF BlinkStart, PhaseInv, BlinkInPhase
<1>7. CASE PinChanges
  BY <1>1, <1>7 DEF PinChanges
<1> QED
  BY <1>1, <1>2, <1>3, <1>4, <1>5, <1>6, <1>7 DEF Next, Timers, Espush, vars

\* A LED that blinks keeps its phase, for all lengths of its two parts, unless
\* a long press interrupted the espush thread in a call.
THEOREM LedInPhase == Spec => []BlinkInPhase
<1>1. Init => PhaseInv
  BY DEF Init, PhaseInv, BlinkInPhase, InCall
<1>2. PhaseInv => BlinkInPhase  BY DEF PhaseInv
<1> QED  BY <1>1, <1>2, TypeCorrect, PhaseStep, PTL DEF Spec

-----------------------------------------------------------------------------
(* Double clicks.                                                          *)

\* A click is remembered, with the gesture g and the n calls at rest since.
Waiting(b, g, n) ==
  b.LastState = "double" =>
    /\ b.State \in {"down", "double"}
    /\ g = "down" /\ b.Timer = n /\ n < DOUBLE_TIME

\* A button that was held when it was created: its levels are the wrong way
\* round for ever and nothing is reported.
Inverted(b) ==
  /\ b.Event = "none" /\ b.LastState = "none"
  /\ b.State \in {"none", "down", "up"}
  /\ b.State = "none" => b.LastLevel
  /\ b.State = "down" => ~b.LastLevel

\* What btn_timeout makes of gap.
NextGap(r, n) ==
  CASE r.cb = "down" -> 0
    [] r.cb # "down" /\ ~r.btn.LastLevel /\ n < DOUBLE_TIME -> n + 1
    [] OTHER -> n

LEMMA DebouncedKeeps ==
  ASSUME NEW b \in Buttons, NEW l \in BOOLEAN
  PROVE  /\ Debounced(b, l).LastState = b.LastState
         /\ Debounced(b, l).Timer = b.Timer
BY DEF Debounced, Buttons

LEMMA WhileDownKeeps ==
  ASSUME NEW b \in Buttons, b.Long < ByteMax
  PROVE  /\ WhileDown(b).btn.LastState = b.LastState
         /\ WhileDown(b).btn.Timer = b.Timer
<1>1. /\ Pressed(b).LastState = b.LastState /\ Pressed(b).Timer = b.Timer
      /\ Pressed(b) \in Buttons
  BY PressedType DEF Pressed, Buttons
<1>2. ASSUME NEW p \in Buttons
      PROVE  /\ HeldLong(p).btn.LastState = p.LastState
             /\ HeldLong(p).btn.Timer = p.Timer
  BY DEF HeldLong, Capped, Buttons
<1>3. /\ HeldLong(Pressed(b)).btn.LastState = b.LastState
      /\ HeldLong(Pressed(b)).btn.Timer = b.Timer
  BY <1>1, <1>2
<1> QED  BY <1>1, <1>3 DEF WhileDown

\* A click starts the wait; a double click was one that waited.
LEMMA OnUpWaits ==
  ASSUME NEW b \in Buttons, b.Event \in {"down", "long"}
  PROVE  LET r == OnUp(b) IN
         /\ r.cb = "double" => b.LastState = "double"
         /\ r.btn.LastState = "double" =>
              r.cb = "down" /\ r.btn.State = "double" /\ r.btn.Timer = 0
<1>1. CASE b.Event = "down"
  BY <1>1 DEF OnUp, Clicked, Buttons
<1>2. CASE b.Event = "long"
  BY <1>2 DEF OnUp, LongFree, Buttons
<1> QED  BY <1>1, <1>2

LEMMA WaitDoubleWaits ==
  ASSUME NEW b \in Buttons
  PROVE  LET r == WaitDouble(b) IN
         r.btn.LastState = "double" =>
           /\ b.LastState = "double" /\ r.btn.State = b.State
           /\ r.btn.Timer = Inc(b.Timer) /\ r.btn.Timer < DOUBLE_TIME
<1>1. Inc(b.Timer) \in Nat /\ DOUBLE_TIME \in Nat
  BY IncType, ButtonAssumption DEF Buttons
<1>2. CASE Inc(b.Timer) >= DOUBLE_TIME
  BY <1>2 DEF WaitDouble, Buttons
<1>3. CASE ~(Inc(b.Timer) >= DOUBLE_TIME)
  <2> DEFINE w == [b EXCEPT !.Timer = Inc(b.Timer), !.State = b.State,
                            !.LastState = b.LastState]
  <2>1. WaitDouble(b) = [btn |-> w, cb |-> "none"]
    BY <1>3 DEF WaitDouble
  <2>2. w.Timer = Inc(b.Timer) /\ w.State = b.State /\ w.LastState = b.LastState
    BY DEF Buttons
  <2>3. Inc(b.Timer) < DOUBLE_TIME
    BY <1>1, <1>3
  <2> HIDE DEF w
  <2> QED  BY <2>1, <2>2, <2>3
<1> QED  BY <1>2, <1>3

\* A call of a button in step with its level.
LEMMA CycleWaits ==
  ASSUME NEW b \in Buttons, b.Long < ByteMax, NEW l \in BOOLEAN, Upright(b),
         NEW g, NEW n \in 0..DOUBLE_TIME, Waiting(b, g, n)
  PROVE  LET r == Button_Cycle_Process(b, l) IN
         /\ Waiting(r.btn, NextGesture(r.cb, g), NextGap(r, n))
         /\ r.cb = "double" => g = "down" /\ n < DOUBLE_TIME
<1> DEFINE d == Debounced(b, l)
           r == Button_Cycle_Process(b, l)
<1> SUFFICES /\ Waiting(r.btn, NextGesture(r.cb, g), NextGap(r, n))
             /\ r.cb = "double" => g = "down" /\ n < DOUBLE_TIME
  OBVIOUS
<1>1. /\ d \in Buttons /\ d.Long < ByteMax
      /\ d.LastState = b.LastState /\ d.Timer = b.Timer
  BY DebouncedType, DebouncedKeeps
<1>2. DOUBLE_TIME \in Nat /\ 0 < DOUBLE_TIME /\ DOUBLE_TIME <= ByteMax /\ n \in Nat
  BY ButtonAssumption
<1>3. CASE d.State = "down" /\ d.LastLevel
  <2>1. r = WhileDown(d)
    BY <1>3 DEF Button_Cycle_Process
  <2> HIDE DEF d, r
  <2>2. /\ r.btn.State = "down" /\ r.btn.LastLevel /\ r.cb \in {"none", "long"}
        /\ r.btn.LastState = b.LastState /\ r.btn.Timer = b.Timer
    BY <1>1, <1>3, <2>1, WhileDownDoes, WhileDownKeeps
  <2>3. NextGesture(r.cb, g) = g /\ NextGap(r, n) = n
    BY <2>2 DEF NextGesture, NextGap
  <2> QED  BY <2>2, <2>3 DEF Waiting
<1>4. CASE d.State = "up" /\ ~d.LastLevel /\ d.Event \in {"down", "long"}
  <2>1. r = OnUp(d)
    BY <1>4 DEF Button_Cycle_Process
  <2> HIDE DEF d, r
  <2>2. /\ r.cb = "double" => d.LastState = "double"
        /\ r.btn.LastState = "double" =>
             r.cb = "down" /\ r.btn.State = "double" /\ r.btn.Timer = 0
    BY <1>1, <1>4, <2>1, OnUpWaits
  <2>3. r.cb = "down" => NextGesture(r.cb, g) = "down" /\ NextGap(r, n) = 0
    BY DEF NextGesture, NextGap
  <2> QED  BY <1>1, <1>2, <2>2, <2>3 DEF Waiting
<1>5. CASE d.State = "double" /\ ~d.LastLevel
  <2>1. r = WaitDouble(d)
    BY <1>5 DEF Button_Cycle_Process
  <2> HIDE DEF d, r
  <2>2. /\ r.cb = "none" /\ ~r.btn.LastLevel
        /\ r.btn.LastState = "double" =>
             /\ d.LastState = "double" /\ r.btn.State = "double"
             /\ r.btn.Timer = Inc(d.Timer) /\ r.btn.Timer < DOUBLE_TIME
    BY <1>1, <1>5, <2>1, WaitDoubleDoes, WaitDoubleWaits
  <2>3. b.LastState = "double" => g = "down" /\ b.Timer = n /\ n < DOUBLE_TIME
    BY DEF Waiting
  <2>4. n < DOUBLE_TIME => Inc(n) = n + 1 /\ NextGap(r, n) = n + 1
    <3> SUFFICES ASSUME n < DOUBLE_TIME
                 PROVE  Inc(n) = n + 1 /\ NextGap(r, n) = n + 1
      OBVIOUS
    <3>1. n \in 0..ByteMax /\ n < ByteMax
      BY <1>2, ButtonAssumption
    <3>2. NextGap(r, n) = n + 1
      <4>1. r.cb # "down" /\ ~r.btn.LastLevel /\ n < DOUBLE_TIME
        BY <2>2
      <4> QED  BY ONLY <4>1, Zenon DEF NextGap
    <3> QED  BY <3>1, <3>2, IncType
  <2>5. NextGesture(r.cb, g) = g
    BY <2>2 DEF NextGesture
  <2> QED  BY <1>1, <2>2, <2>3, <2>4, <2>5 DEF Waiting
<1>6. CASE d.State = "none" /\ ~d.LastLevel /\ b.State = d.State
  <2>1. r = [btn |-> d, cb |-> "none"]
    BY <1>6 DEF Button_Cycle_Process
  <2>2. b.LastState # "double"
    BY <1>6 DEF Waiting
  <2> HIDE DEF d, r
  <2> QED  BY <1>1, <2>1, <2>2 DEF Waiting
<1> QED  BY <1>3, <1>4, <1>5, <1>6, DebouncedDoes

LEMMA CycleInverted ==
  ASSUME NEW b \in Buttons, NEW l \in BOOLEAN, Inverted(b)
  PROVE  LET r == Button_Cycle_Process(b, l) IN Inverted(r.btn) /\ r.cb = "none"
<1> DEFINE d == Debounced(b, l)
<1>1. d \in Buttons /\ d.Event = "none" /\ d.LastState = "none"
  BY DebouncedType, DebouncedKeeps DEF Inverted
<1>2. Inverted(d)
  BY <1>1 DEF Debounced, Inverted, Buttons
<1>3. Button_Cycle_Process(b, l) = [btn |-> d, cb |-> "none"]
  BY <1>1, <1>2 DEF Button_Cycle_Process, WhileDown, OnUp, Inverted
<1> QED  BY <1>2, <1>3

DoubleInv == IF atRest THEN Waiting(btn, gesture, gap) ELSE Inverted(btn)

LEMMA DoubleStep ==
  ASSUME TypeOK, ButtonInv, DoubleInv, [Next]_vars
  PROVE  /\ DoubleInv'
         /\ cb # "double" /\ cb' = "double" => gesture = "down" /\ gap < DOUBLE_TIME
<1>1. CASE btn_timeout
  <2> DEFINE r == Button_Cycle_Process(btn, level)
  <2>1. /\ btn' = r.btn /\ cb' = r.cb /\ atRest' = atRest
        /\ gesture' = NextGesture(r.cb, gesture) /\ gap' = NextGap(r, gap)
    BY <1>1 DEF btn_timeout, NextGesture, NextGap
  <2>2. btn \in Buttons /\ btn.Long < ByteMax /\ level \in BOOLEAN
        /\ gap \in 0..DOUBLE_TIME /\ atRest \in BOOLEAN
    BY DEF TypeOK
  <2>3. CASE atRest
    <3>1. Upright(btn) /\ Waiting(btn, gesture, gap)
      BY <2>3 DEF ButtonInv, DoubleInv
    <3>2. /\ Waiting(r.btn, NextGesture(r.cb, gesture), NextGap(r, gap))
          /\ r.cb = "double" => gesture = "down" /\ gap < DOUBLE_TIME
      BY <2>2, <3>1, CycleWaits
    <3> HIDE DEF r
    <3> QED  BY <2>1, <2>3, <3>2 DEF DoubleInv
  <2>4. CASE ~atRest
    <3>1. Inverted(r.btn) /\ r.cb = "none"
      BY <2>2, <2>4, CycleInverted DEF DoubleInv
    <3> HIDE DEF r
    <3> QED  BY <2>1, <2>4, <3>1 DEF DoubleInv
  <2> QED  BY <2>3, <2>4
<1>2. CASE UNCHANGED <<btn, cb, atRest, gesture, gap>>
  BY <1>2 DEF DoubleInv, Waiting, Inverted
<1>3. [Next]_vars => btn_timeout \/ UNCHANGED <<btn, cb, atRest, gesture, gap>>
  BY DEF Next, Timers, Espush, vars, button, timer_timeout, BlinkStop, BlinkLit,
     BlinkFields, SetField, BlinkStart, SessionBegins, SteadyLit, SessionEnds,
     PinChanges
<1> QED  BY <1>1, <1>2, <1>3

\* For all times of the button: a double click is never made of presses with a
\* long press, or DOUBLE_TIME calls at rest, between them.
THEOREM DoubleClickIsTwo == Spec => DoubleAfterClick
<1>1. Init => DoubleInv
  <2> SUFFICES ASSUME Init PROVE DoubleInv
    OBVIOUS
  <2>1. /\ btn.State = "none" /\ btn.LastState = "none" /\ btn.Event = "none"
        /\ btn.LastLevel = level /\ level \in BOOLEAN /\ atRest = ~level
    BY DEF Init, Created
  <2>2. CASE atRest
    BY <2>1, <2>2 DEF DoubleInv, Waiting
  <2>3. CASE ~atRest
    BY <2>1, <2>3 DEF DoubleInv, Inverted
  <2> QED  BY <2>2, <2>3
<1>2. TypeOK /\ ButtonInv /\ DoubleInv /\ [Next]_vars => DoubleInv'
  BY DoubleStep
<1>3. TypeOK /\ ButtonInv /\ DoubleInv /\ [Next]_vars =>
        [cb # "double" /\ cb' = "double" => gesture = "down" /\ gap < DOUBLE_TIME]_vars
  BY DoubleStep
<1> QED  BY <1>1, <1>2, <1>3, ButtonCorrect, PTL DEF Spec, DoubleAfterClick
=============================================================================
