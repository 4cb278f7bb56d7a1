---------------------------------- MODULE Gpio ---------------------------------
(***************************************************************************)
(* One pin: pinMode(), attachInterrupt(), attachInterruptParam(),          *)
(* detachInterrupt() and gpio_isr_handler(), which runs between any two    *)
(* statements of the sketch.  The GPIO hardware is external: an edge of    *)
(* the armed kind raises the interrupt's flag while it is enabled.         *)
(***************************************************************************)
EXTENDS Naturals

CONSTANTS MaxCalls, MaxEdges  \* bounds: calls of the sketch, edges of the pin

\* What the constants have to be; the module of a run assumes it.
ConstantsOK ==
  /\ MaxCalls \in Nat /\ MaxEdges \in Nat

PinMode == {"INPUT", "OUTPUT", "INPUT_PULLUP", "INPUT_PULLDOWN"}
Trigger == {"RISING", "FALLING", "CHANGE"} \* bound: LOW and HIGH interrupt without end
\* A function without a parameter, and two with one that is theirs.
Function == {"f", "g1", "g2"}
ParamOf == [g1 |-> "p1", g2 |-> "p2"]

VARIABLES
  callback, callbackParam, param, hasParam, mode, currentIntType, \* s_interruptCallbacks
  s_pinMode, pull, input,  \* s_pinModes; the pad
  level,                   \* of the pin
  type, enabled, flag,     \* the interrupt's hardware
  pc, arg,                 \* where the sketch is, the arguments of its call and its local intType
  ipc,                     \* where the handler is, "idle" outside
  called,                  \* the function that the handler called last, with its parameter
  attached,                \* history: attached and not detached since
  excuse, calls, edges     \* history: what may part edge and level, or function and parameter

slot == <<callback, callbackParam, param, hasParam>>
pad == <<s_pinMode, pull, input>>
vars == <<slot, mode, currentIntType, pad, level, type, enabled, flag, pc, arg, ipc, called,
          attached, excuse, calls, edges>>

None == "none"
Own == {<<None, None>>, <<"f", None>>, <<"g1", "p1">>, <<"g2", "p2">>}
NoArg == [fn |-> None, mode |-> "RISING", type |-> "rising"]

Init ==
  /\ callback = None /\ callbackParam = None /\ param = None /\ hasParam = FALSE
  /\ mode = "RISING" /\ currentIntType = "rising" /\ s_pinMode = "INPUT" /\ pull = None
  /\ input = FALSE /\ level \in {0, 1} /\ type = "rising" /\ enabled = FALSE /\ flag = FALSE
  /\ pc = "idle" /\ arg = NoArg /\ ipc = "idle" /\ called = <<None, None>>
  /\ attached = FALSE /\ excuse = {} /\ calls = 0 /\ edges = 0

------------------------------------------------------------------------------
pullOf(m) == CASE m = "INPUT_PULLUP" -> "up" [] m = "INPUT_PULLDOWN" -> "down" [] OTHER -> None

\* The handler has the processor until it returns.
Sketch(at) == pc = at /\ ipc = "idle"

pinMode(m) ==
  /\ Sketch("idle") /\ calls < MaxCalls /\ calls' = calls + 1
  /\ s_pinMode' = m /\ pull' = pullOf(m) /\ input' = (m # "OUTPUT")
  /\ UNCHANGED <<slot, mode, currentIntType, level, type, enabled, flag, pc, arg, ipc, called,
                 attached, excuse, edges>>

\* mutant: hasParam is set before the rest
afterHasParamFirst(at) ==
  CASE at = "attach" -> "hasParam" [] at = "hasParam" -> "callback"
    [] at = "callback" -> "callbackParam" [] at = "callbackParam" -> "param"
    [] at = "param" -> "configure"

\* The order of the assignments.
after(at) ==
  CASE at = "attach" -> "callback" [] at = "callback" -> "callbackParam"
    [] at = "callbackParam" -> "param" [] at = "param" -> "hasParam"
    [] at = "hasParam" -> "configure"

attachInterrupt(f, m) ==
  /\ Sketch("idle") /\ calls < MaxCalls /\ calls' = calls + 1
  /\ arg' = [NoArg EXCEPT !.fn = f, !.mode = m] /\ pc' = after("attach")
  /\ excuse' = (IF attached THEN excuse \cup {"again"} ELSE {})
               \cup (IF attached /\ hasParam /\ f # "f" THEN {"swap"} ELSE {})
  /\ attached' = TRUE /\ called' = <<None, None>>
  /\ UNCHANGED <<slot, mode, currentIntType, pad, level, type, enabled, flag, ipc, edges>>

\* The statements of attachInterrupt() and attachInterruptParam().
assign ==
  /\ pc \in {"callback", "callbackParam", "param", "hasParam"} /\ ipc = "idle"
  /\ callback' = IF pc = "callback" THEN IF arg.fn = "f" THEN "f" ELSE None ELSE callback
  /\ callbackParam' = IF pc = "callbackParam" THEN IF arg.fn = "f" THEN None ELSE arg.fn
                      ELSE callbackParam
  /\ param' = IF pc = "param" THEN IF arg.fn = "f" THEN None ELSE ParamOf[arg.fn] ELSE param
  /\ hasParam' = IF pc = "hasParam" THEN arg.fn # "f" ELSE hasParam
  /\ pc' = after(pc)
  /\ UNCHANGED <<mode, currentIntType, pad, level, type, enabled, flag, arg, ipc, called, attached,
                 excuse, calls, edges>>

interruptPull == pullOf(s_pinMode)

\* configureInterruptPinInput()
configure ==
  /\ Sketch("configure") /\ pull' = interruptPull /\ input' = TRUE /\ pc' = "type"
  /\ UNCHANGED <<slot, mode, currentIntType, s_pinMode, level, type, enabled, flag, arg, ipc, called,
                 attached, excuse, calls, edges>>

\* arduinoPinStatusToGpioIntType(), and for CHANGE the edge that comes next
firstType(m) ==
  IF m = "CHANGE" THEN IF level = 1 THEN "falling" ELSE "rising"
  ELSE IF m = "RISING" THEN "rising" ELSE "falling"

\* enableGpioInterrupt(): the type is chosen,
chooseType ==
  /\ Sketch("type") /\ arg' = [arg EXCEPT !.type = firstType(arg.mode)] /\ pc' = "mode"
  /\ UNCHANGED <<slot, mode, currentIntType, pad, level, type, enabled, flag, ipc, called, attached,
                 excuse, calls, edges>>

\* kept for the handler, mode and type one after the other,
keepMode ==
  /\ Sketch("mode") /\ mode' = arg.mode /\ pc' = "keep"
  /\ UNCHANGED <<slot, currentIntType, pad, level, type, enabled, flag, arg, ipc, called, attached,
                 excuse, calls, edges>>

keepType ==
  /\ Sketch("keep") /\ currentIntType' = arg.type /\ pc' = "arm"
  /\ UNCHANGED <<slot, mode, pad, level, type, enabled, flag, arg, ipc, called, attached, excuse,
                 calls, edges>>

\* and the hardware is armed with it, whatever a handler has kept since.
arm ==
  /\ Sketch("arm") /\ type' = arg.type /\ flag' = FALSE /\ enabled' = TRUE
  /\ pc' = "idle" /\ arg' = NoArg
  /\ UNCHANGED <<slot, mode, currentIntType, pad, level, ipc, called, attached, excuse, calls, edges>>

detachInterrupt ==
  /\ Sketch("idle") /\ attached /\ calls < MaxCalls /\ calls' = calls + 1
  /\ enabled' = FALSE /\ attached' = FALSE /\ pc' = "clear"
  /\ UNCHANGED <<slot, mode, currentIntType, pad, level, type, flag, arg, ipc, called, excuse, edges>>

clear ==
  /\ Sketch("clear") /\ callback' = None /\ callbackParam' = None /\ param' = None
  /\ hasParam' = FALSE /\ pc' = "idle"
  /\ UNCHANGED <<mode, currentIntType, pad, level, type, enabled, flag, arg, ipc, called, attached,
                 excuse, calls, edges>>

------------------------------------------------------------------------------
(* The pin and its handler.                                                *)

\* An edge while the handler or attachInterrupt() is at work, or while one is
\* still to be handled, may pass unseen; an edge that is seen ends that.
Edge ==
  LET seen == enabled /\ type = IF level = 0 THEN "rising" ELSE "falling"
  IN  /\ edges < MaxEdges /\ edges' = edges + 1 /\ level' = 1 - level
      /\ flag' = (flag \/ seen)
      /\ excuse' = IF ipc # "idle" \/ flag \/ pc # "idle" THEN excuse \cup {"quick"}
                   ELSE IF seen THEN excuse \ {"quick"} ELSE excuse
      /\ UNCHANGED <<slot, mode, currentIntType, pad, type, enabled, pc, arg, ipc, called, attached,
                     calls>>

\* gpio_isr_handler(): the flag is cleared and the function called,
Handler ==
  /\ flag /\ enabled /\ ipc = "idle" /\ flag' = FALSE /\ ipc' = "rearm"
  /\ called' = IF hasParam /\ callbackParam # None THEN <<callbackParam, param>>
               ELSE <<callback, None>>
  /\ UNCHANGED <<slot, mode, currentIntType, pad, level, type, enabled, pc, arg, attached, excuse,
                 calls, edges>>

otherEdge(e) == IF e = "rising" THEN "falling" ELSE "rising"

\* and for CHANGE the other edge is armed; what an attach over another has
\* parted is at least the same in slot and hardware again.
rearm ==
  /\ ipc = "rearm" /\ ipc' = "idle"
  /\ IF mode = "CHANGE"
     THEN /\ currentIntType' = otherEdge(currentIntType) /\ type' = currentIntType'
          /\ excuse' = IF pc = "idle" /\ "again" \in excuse
                       THEN (excuse \ {"again"}) \cup {"quick"} ELSE excuse
     ELSE UNCHANGED <<currentIntType, type, excuse>>
  /\ UNCHANGED <<slot, mode, pad, level, enabled, flag, pc, arg, called, attached, calls, edges>>

Next ==
  \/ \E m \in PinMode : pinMode(m)
  \/ \E f \in Function, m \in Trigger : attachInterrupt(f, m)
  \/ assign \/ configure \/ chooseType \/ keepMode \/ keepType \/ arm \/ detachInterrupt \/ clear
  \/ Edge \/ Handler \/ rearm

Spec == Init /\ [][Next]_vars

------------------------------------------------------------------------------
\* The handler calls a function with the parameter that was attached with it,
\* at whatever point of a call it runs, an attach over another one included;
\* excepted is a function with a parameter over another such.
ParamIsOwn == "swap" \notin excuse => called \in Own

\* In CHANGE mode the edge that is armed is the one that comes next.  A change
\* that came while another was at work may part the two, but only until the
\* next edge that is seen has been handled; an attach over another one, whose
\* local type the handler may have overtaken, until the second such.
NextEdgeArmed ==
  enabled /\ mode = "CHANGE" /\ ~flag /\ pc = "idle" /\ ipc = "idle"
    /\ excuse \cap {"quick", "again"} = {} => type = (IF level = 0 THEN "rising" ELSE "falling")

\* Between calls, the pad has the pull that pinMode() gave it.
PullKept == pc = "idle" => pull = pullOf(s_pinMode)

\* The three together: an interrupt does what attachInterrupt() was told.
InterruptIsOwn == ParamIsOwn /\ NextEdgeArmed /\ PullKept
=============================================================================
