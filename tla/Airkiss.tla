------------------------------- MODULE Airkiss ------------------------------
(***************************************************************************)
(* The button and the LED of the device (airkiss.c, ledblink.c) and the    *)
(* threads that work on them.  The timer thread calls btn_timeout and the  *)
(* LED's timer_timeout; it has a higher priority (4) than the espush       *)
(* thread (24), which it may interrupt between any two steps of led_blink  *)
(* and led_always_on but which never interrupts it.                        *)
(***************************************************************************)
EXTENDS Integers

CONSTANTS
  DEBOUNCE_TIME, LONG_CYCLE, DOUBLE_TIME, LONG_TIME,
  ByteMax,       \* 0xFF, the most an rt_uint8_t holds
  SlowBlink      \* the 10 of led_blink(10, 10)

ASSUME ButtonAssumption ==
  /\ ByteMax \in Nat /\ LONG_TIME \in Nat
  /\ 0 < LONG_TIME /\ LONG_TIME < ByteMax
  /\ DEBOUNCE_TIME \in 1..ByteMax
  /\ LONG_CYCLE \in 1..ByteMax
  /\ DOUBLE_TIME \in 1..ByteMax

ASSUME AirkissAssumption == SlowBlink \in 1..ByteMax

-----------------------------------------------------------------------------
(* One button of packages/button: Button_Create and one call of            *)
(* Button_Cycle_Process, as operators on the button's structure.  None of  *)
(* CONTINUOS_TRIGGER, SINGLE_AND_DOUBLE_TRIGGER and LONG_FREE_TRIGGER is   *)
(* defined in this build.                                                  *)
(*                                                                         *)
(* Levels are TRUE for the trigger level.  What a call does is a record:   *)
(* btn, the button after it, and cb, the event whose callback it made.     *)

States == {"none", "down", "up", "double", "long"}
Events == {"none", "down", "double", "long"}

Buttons ==
  [State : States \ {"long"}, LastState : {"none", "double", "long"},
   Event : Events, LastLevel : BOOLEAN,
   Debounce : 0..ByteMax, Cycle : 0..ByteMax,
   Timer : 0..ByteMax, Long : 0..ByteMax]

\* Button_Create: the level it finds is the level of rest.
Created(level) ==
  [State |-> "none", LastState |-> "none", Event |-> "none",
   LastLevel |-> level, Debounce |-> 0, Cycle |-> 0, Timer |-> 0, Long |-> 0]

\* ++ of an rt_uint8_t.
Inc(n) == (n + 1) % (ByteMax + 1)

\* Fault variant: whatever the button does is a press.
Debounced_any(b, level) ==
  IF level = b.LastLevel THEN b
  ELSE IF Inc(b.Debounce) < DEBOUNCE_TIME
  THEN [b EXCEPT !.Debounce = Inc(@)]
  ELSE [b EXCEPT !.LastLevel = level, !.Debounce = 0, !.State = "down"]

\* The level changed in DEBOUNCE_TIME samples since the last change that
\* counted (samples in between that show no change do not start it again).
Debounced(b, level) ==
  IF level = b.LastLevel THEN b
  ELSE IF Inc(b.Debounce) < DEBOUNCE_TIME
  THEN [b EXCEPT !.Debounce = Inc(@)]
  ELSE [b EXCEPT !.LastLevel = level, !.Debounce = 0,
                 !.State = CASE @ \in {"none", "double"} -> "down"
                             [] @ = "down" -> "up"
                             [] OTHER -> @]

\* Fault variant: the time a button is held runs over.
HeldLong_wraps(b) ==
  IF Inc(b.Cycle) >= LONG_CYCLE
  THEN [btn |-> [b EXCEPT !.Cycle = 0, !.Event = "long"], cb |-> "long"]
  ELSE [btn |-> [b EXCEPT !.Cycle = Inc(@)], cb |-> "none"]

\* "Update time overflow": Long stays below 0xFF.
Capped(b) == [b EXCEPT !.Long = IF @ = ByteMax THEN LONG_TIME ELSE @]

\* The button is held for LONG_TIME or more.
HeldLong(b) ==
  IF Inc(b.Cycle) >= LONG_CYCLE
  THEN [btn |-> Capped([b EXCEPT !.Cycle = 0, !.Event = "long"]), cb |-> "long"]
  ELSE [btn |-> Capped([b EXCEPT !.Cycle = Inc(@)]), cb |-> "none"]

\* One more call with the button down.
Pressed(b) == [b EXCEPT !.Event = "down", !.Long = Inc(@)]

\* case BUTTON_DOWM
WhileDown(b) ==
  IF ~b.LastLevel THEN [btn |-> b, cb |-> "none"]
  ELSE IF Pressed(b).Long < LONG_TIME THEN [btn |-> Pressed(b), cb |-> "none"]
  ELSE HeldLong(Pressed(b))

\* Fault variant: the time of a press counts for the next.
Clicked_keeps(b) ==
  IF b.Timer <= DOUBLE_TIME /\ b.LastState = "double"
  THEN [btn |-> [b EXCEPT !.Event = "double", !.State = "none", !.LastState = "none"],
        cb |-> "double"]
  ELSE [btn |-> [b EXCEPT !.Timer = 0, !.State = "double", !.LastState = "double"],
        cb |-> "down"]

\* Released after a press that was not long: a click, or, soon enough after
\* one, a double click.  A double click leaves Long as it is.
Clicked(b) ==
  IF b.Timer <= DOUBLE_TIME /\ b.LastState = "double"
  THEN [btn |-> [b EXCEPT !.Event = "double", !.State = "none", !.LastState = "none"],
        cb |-> "double"]
  ELSE [btn |-> [b EXCEPT !.Timer = 0, !.Long = 0, !.State = "double",
                          !.LastState = "double"],
        cb |-> "down"]

\* Fault variant: a button that was held stays in BUTTON_UP.
LongFree_stuck(b) ==
  [btn |-> [b EXCEPT !.Long = 0, !.LastState = "long"], cb |-> "long_free"]

LongFree(b) ==
  [btn |-> [b EXCEPT !.Long = 0, !.State = "none", !.LastState = "long"],
   cb |-> "long_free"]

\* case BUTTON_UP
OnUp(b) ==
  CASE b.Event = "down" -> Clicked(b)
    [] b.Event = "long" -> LongFree(b)
    [] OTHER -> [btn |-> b, cb |-> "none"]

\* Fault variant: the wait for a second click does not forget the first.
WaitDouble_keeps(b) ==
  [btn |-> [b EXCEPT !.Timer = Inc(@),
                     !.State = IF Inc(b.Timer) >= DOUBLE_TIME THEN "none" ELSE @],
   cb |-> "none"]

\* case BUTTON_DOUBLE
WaitDouble(b) ==
  LET over == Inc(b.Timer) >= DOUBLE_TIME
  IN  [btn |-> [b EXCEPT !.Timer = Inc(@),
                         !.State = IF over THEN "none" ELSE @,
                         !.LastState = IF over THEN "none" ELSE @],
       cb |-> "none"]

\* One call, with the level it reads.
Button_Cycle_Process(b, level) ==
  LET d == Debounced(b, level)
  IN  CASE d.State = "down"   -> WhileDown(d)
        [] d.State = "up"     -> OnUp(d)
        [] d.State = "double" -> WaitDouble(d)
        [] OTHER              -> [btn |-> d, cb |-> "none"]

-----------------------------------------------------------------------------
(* The button's timer and the LED.                                         *)

VARIABLES
  level,      \* what rt_pin_read finds, TRUE for the trigger level
  btn,        \* airkiss_btn
  cb,         \* the event of the callback of the last btn_timeout
  gled,       \* ledblink.c: on, off, tick, state
  running,    \* the LED's timer is started
  lit,        \* the pin of the LED
  pc,         \* where the espush thread is
  atRest,     \* history: the button was not held when it was created
  held,       \* history: calls with the button down, in this press
  gesture,    \* history: the last click, double click or long press
  gap,        \* history: calls with the button at rest, since the last click
  over,       \* history: a blink began since led_always_on was called
  torn        \* history: a blink began within a call of the espush thread

button == <<level, btn, cb, atRest, held, gesture, gap>>
led    == <<gled, running, lit>>
vars   == <<button, led, pc, over, torn>>

Leds == [on : 0..ByteMax, off : 0..ByteMax, tick : 0..ByteMax, state : {0, 1}]

\* The espush thread within led_blink(1, 1) or led_always_on, after the stop.
InCall == {"lit", "on", "off", "tick", "state", "start", "steady"}

Init ==
  /\ level \in BOOLEAN /\ atRest = ~level
  /\ btn = Created(level) /\ cb = "none"
  /\ gled = [on |-> 0, off |-> 0, tick |-> 0, state |-> 0]
  /\ running = FALSE /\ lit = FALSE
  /\ pc = "blink"
  /\ held = 0 /\ gesture = "none" /\ gap = 0 /\ over = FALSE /\ torn = FALSE

-----------------------------------------------------------------------------
(* The timer thread.                                                       *)

\* Fault variant: led_blink does not start with the LED on.
StartBlink_dark ==
  /\ gled' = [on |-> SlowBlink, off |-> SlowBlink, tick |-> 0, state |-> 1]
  /\ running' = TRUE /\ UNCHANGED lit
  /\ over' = TRUE
  /\ torn' = (pc \in InCall)

\* led_blink(10, 10), in the timer thread.
StartBlink ==
  /\ gled' = [on |-> SlowBlink, off |-> SlowBlink, tick |-> 0, state |-> 1]
  /\ running' = TRUE /\ lit' = TRUE
  /\ over' = TRUE
  /\ torn' = (pc \in InCall)

\* The callbacks of airkiss.c: a click and a double click are logged; a long
\* press starts the blink and smartconfig_demo when the mode could be set.
CallBack(event) ==
  \/ event = "long" /\ StartBlink
  \/ UNCHANGED <<led, over, torn>>

\* btn_timeout: Button_Process with its one button.
btn_timeout ==
  /\ LET r == Button_Cycle_Process(btn, level) IN
     /\ btn' = r.btn /\ cb' = r.cb
     /\ CallBack(r.cb)
     /\ held' = CASE r.btn.State # "down" -> 0
                  [] r.btn.State = "down" /\ held = LONG_TIME -> held
                  [] OTHER -> held + 1
     /\ gap' = CASE r.cb = "down" -> 0
                 [] r.cb # "down" /\ ~r.btn.LastLevel /\ gap < DOUBLE_TIME -> gap + 1
                 [] OTHER -> gap
     /\ gesture' = IF r.cb \in {"down", "double", "long_free"} THEN r.cb ELSE gesture
  /\ UNCHANGED <<level, pc, atRest>>

\* The LED's timer: after on or off ticks the LED changes.
timer_timeout ==
  /\ running
  /\ LET tick == Inc(gled.tick)
         last == IF gled.state = 1 THEN tick >= gled.on ELSE tick >= gled.off
     IN  IF last
         THEN /\ gled' = [gled EXCEPT !.tick = 0, !.state = 1 - @]
              /\ lit' = (gled.state = 0)
         ELSE gled' = [gled EXCEPT !.tick = tick] /\ UNCHANGED lit
  /\ UNCHANGED <<button, running, pc, over, torn>>

-----------------------------------------------------------------------------
(* The espush thread: led_blink(1, 1), then led_always_on in every session.*)

\* rt_timer_stop, the first step of both.
BlinkStop ==
  /\ pc = "blink" /\ pc' = "lit"
  /\ running' = FALSE /\ torn' = FALSE
  /\ UNCHANGED <<button, gled, lit, over>>

BlinkLit ==
  /\ pc = "lit" /\ pc' = "on"
  /\ lit' = TRUE
  /\ UNCHANGED <<button, gled, running, over, torn>>

SetField(field, value, next) ==
  /\ pc = field /\ pc' = next
  /\ gled' = [gled EXCEPT ![field] = value]
  /\ UNCHANGED <<button, running, lit, over, torn>>

BlinkFields ==
  \/ SetField("on", 1, "off") \/ SetField("off", 1, "tick")
  \/ SetField("tick", 0, "state") \/ SetField("state", 1, "start")

\* rt_timer_start: the cycle begins; a timer that runs is started again.
BlinkStart ==
  /\ pc = "start" /\ pc' = "away"
  /\ running' = TRUE
  /\ UNCHANGED <<button, gled, lit, over, torn>>

\* Fault variant: led_always_on leaves the timer as it is.
SessionBegins_runs ==
  /\ pc = "away" /\ pc' = "steady"
  /\ over' = FALSE /\ torn' = FALSE
  /\ UNCHANGED <<button, led>>

\* The login was accepted: led_always_on stops the timer ...
SessionBegins ==
  /\ pc = "away" /\ pc' = "steady"
  /\ running' = FALSE /\ over' = FALSE /\ torn' = FALSE
  /\ UNCHANGED <<button, gled, lit>>

\* ... and sets the LED on.
SteadyLit ==
  /\ pc = "steady" /\ pc' = "session"
  /\ lit' = TRUE
  /\ UNCHANGED <<button, gled, running, over, torn>>

\* The session ends; the LED is left as it is.
SessionEnds ==
  /\ pc = "session" /\ pc' = "away"
  /\ UNCHANGED <<button, led, over, torn>>

-----------------------------------------------------------------------------

\* The button is pressed or released, or bounces.
PinChanges ==
  /\ level' = ~level
  /\ UNCHANGED <<btn, cb, atRest, held, gesture, gap, led, pc, over, torn>>

Timers == btn_timeout \/ timer_timeout

Espush ==
  \/ BlinkStop \/ BlinkLit \/ BlinkFields \/ BlinkStart
  \/ SessionBegins \/ SteadyLit \/ SessionEnds

Next == Timers \/ Espush \/ PinChanges

Spec == Init /\ [][Next]_vars

\* The two timers are periodic.
FairSpec == Spec /\ WF_vars(btn_timeout) /\ WF_vars(timer_timeout)

-----------------------------------------------------------------------------
(* Properties.                                                             *)

\* Types; however long the button is held its time never comes to 0xFF, so
\* it never runs over (Button_Cycle_Process, "update time overflow").
TypeOK ==
  /\ level \in BOOLEAN /\ btn \in Buttons /\ atRest \in BOOLEAN
  /\ btn.Long < ByteMax
  /\ cb \in {"none", "down", "double", "long", "long_free"}
  /\ gled \in Leds /\ running \in BOOLEAN /\ lit \in BOOLEAN
  /\ pc \in InCall \union {"blink", "away", "session"}
  /\ held \in 0..LONG_TIME
  /\ gesture \in {"none", "down", "double", "long_free"}
  /\ gap \in 0..DOUBLE_TIME
  /\ over \in BOOLEAN /\ torn \in BOOLEAN

\* Of a button that was not held when it was created, the state never gets
\* out of step with its level, and every call gets it out of BUTTON_UP,
\* however it bounces (Button_Cycle_Process).
InStep ==
  atRest => /\ btn.State = "down" <=> btn.LastLevel
            /\ btn.State # "up"

\* A long press is reported, and the configuration of the network started,
\* only when the button was down for LONG_TIME calls in this one press;
\* except for the press after a double click, which may find the time of the
\* last one still there.
LongMeansHeld ==
  atRest /\ cb = "long" /\ gesture # "double" => held >= LONG_TIME

\* A double click is reported only after a click, with no other gesture in
\* between and the button at rest for less than DOUBLE_TIME calls.
DoubleAfterClick ==
  [][cb # "double" /\ cb' = "double" => gesture = "down" /\ gap < DOUBLE_TIME]_vars

\* A button that is held for ever is reported as a long press for ever, with
\* whatever came before.
HoldIsSeen ==
  atRest /\ <>[]level => []<>(cb = "long")

\* In a session the LED is on and stays on, unless a long press began a blink
\* since (led_always_on).
SteadyInSession == pc = "session" /\ ~over => lit /\ ~running

\* A LED that blinks is on in the first part of its cycle and off in the
\* second, except after a blink that began within a call of the espush thread.
BlinkInPhase ==
  running /\ ~torn => /\ lit <=> gled.state = 1
                      /\ gled.tick < IF gled.state = 1 THEN gled.on ELSE gled.off
=============================================================================
