----------------------------- MODULE HardwareTimer -----------------------------
(***************************************************************************)
(* HardwareTimer objects and hardwareTimerThunk(), which the timer's       *)
(* interrupt calls between any two statements of the sketch.  The timer    *)
(* driver is external: a timer that is started interrupts again and again. *)
(***************************************************************************)
EXTENDS Naturals, FiniteSets

CONSTANTS Object,      \* the HardwareTimer objects
          TimerId,     \* object to its timer_id
          TIMER_ID_MAX,
          NoObject,    \* the null pointer
          MaxCalls     \* bound: calls of start()

ASSUME IdAssumption == TIMER_ID_MAX \in Nat /\ TimerId \in [Object -> Nat] /\ NoObject \notin Object
ASSUME BoundAssumption == MaxCalls \in Nat

Id == 0 .. TIMER_ID_MAX - 1

VARIABLES
  m_callback,     \* "none", "plain", or "stop": the callback stops its timer
  m_initialized, m_running,
  g_hardware_timers, g_timer_driver_initialized,
  enabled,        \* the timers that count
  alive,          \* objects not destroyed
  pc, self,       \* where the sketch's call is and whose it is
  invoked,        \* history: the object that the last interrupt invoked, alive or not
  excuse, calls   \* history: a timer with two objects; calls

object == <<m_callback, m_initialized, m_running>>
vars == <<object, g_hardware_timers, g_timer_driver_initialized, enabled, alive, pc, self, invoked,
          excuse, calls>>

Init ==
  /\ m_callback = [o \in Object |-> "none"] /\ m_initialized = [o \in Object |-> FALSE]
  /\ m_running = [o \in Object |-> FALSE]
  /\ g_hardware_timers = [i \in Id |-> NoObject] /\ g_timer_driver_initialized = FALSE
  /\ enabled = {} /\ alive = Object /\ pc = "idle" /\ self = NoObject
  /\ invoked = [object |-> NoObject, alive |-> TRUE] /\ excuse = {} /\ calls = 0

attachInterrupt(o, f) ==
  /\ pc = "idle" /\ o \in alive /\ m_callback' = [m_callback EXCEPT ![o] = f]
  /\ UNCHANGED <<m_initialized, m_running, g_hardware_timers, g_timer_driver_initialized, enabled,
                 alive, pc, self, invoked, excuse, calls>>

\* begin(), by itself and at the head of start(); driver: bk_timer_driver_init() succeeds.
begins(o, driver) == TimerId[o] \in Id /\ (g_timer_driver_initialized \/ driver)

begun(o, driver) ==
  IF begins(o, driver)
  THEN /\ g_timer_driver_initialized' = TRUE
       /\ g_hardware_timers' = [g_hardware_timers EXCEPT ![TimerId[o]] = o]
       /\ m_initialized' = [m_initialized EXCEPT ![o] = TRUE]
       /\ excuse' = IF g_hardware_timers[TimerId[o]] \notin {NoObject, o}
                    THEN excuse \cup {TimerId[o]} ELSE excuse
  ELSE UNCHANGED <<g_timer_driver_initialized, g_hardware_timers, m_initialized, excuse>>

begin(o, driver) ==
  /\ pc = "idle" /\ o \in alive /\ begun(o, driver)
  /\ UNCHANGED <<m_callback, m_running, enabled, alive, pc, self, invoked, calls>>

\* start() and startMicroseconds(), up to the test in stop()
start(o, driver) ==
  /\ pc = "idle" /\ o \in alive /\ calls < MaxCalls /\ calls' = calls + 1
  /\ IF m_initialized[o] THEN UNCHANGED <<g_timer_driver_initialized, g_hardware_timers,
                                           m_initialized, excuse>>
     ELSE begun(o, driver)
  /\ IF m_initialized'[o]
     THEN self' = o /\ pc' = IF m_running[o] THEN "restop" ELSE "start"
     ELSE UNCHANGED <<pc, self>>
  /\ UNCHANGED <<m_callback, m_running, enabled, alive, invoked>>

\* mutant: m_running whatever the driver said
runningAnyway(ok) == TRUE

runningAfter(ok) == ok

started(ok) ==
  /\ pc = "start"
  /\ enabled' = IF ok THEN enabled \cup {TimerId[self]} ELSE enabled
  /\ IF runningAfter(ok) THEN pc' = "mark" /\ UNCHANGED self ELSE pc' = "idle" /\ self' = NoObject
  /\ UNCHANGED <<object, g_hardware_timers, g_timer_driver_initialized, alive, invoked, excuse, calls>>

marked ==
  /\ pc = "mark" /\ m_running' = [m_running EXCEPT ![self] = TRUE]
  /\ pc' = "idle" /\ self' = NoObject
  /\ UNCHANGED <<m_callback, m_initialized, g_hardware_timers, g_timer_driver_initialized, enabled,
                 alive, invoked, excuse, calls>>

\* mutant: the destructor does not stop the timer
survives(o) == FALSE

mustStop(o) == m_running[o]

\* stop(), and the destructor, up to its test
stop(o, destroy) ==
  /\ pc = "idle" /\ o \in alive
  /\ IF mustStop(o) THEN pc' = (IF destroy THEN "destroy" ELSE "stop") /\ self' = o
     ELSE UNCHANGED <<pc, self>>
  /\ alive' = IF destroy /\ ~mustStop(o) THEN alive \ {o} ELSE alive
  /\ UNCHANGED <<object, g_hardware_timers, g_timer_driver_initialized, enabled, invoked, excuse, calls>>

driverStop ==
  /\ pc \in {"stop", "destroy", "restop"} /\ enabled' = enabled \ {TimerId[self]}
  /\ pc' = CASE pc = "stop" -> "clear" [] pc = "destroy" -> "clearDestroy" [] pc = "restop" -> "clearStart"
  /\ UNCHANGED <<object, g_hardware_timers, g_timer_driver_initialized, alive, self, invoked, excuse, calls>>

cleared ==
  /\ pc \in {"clear", "clearDestroy", "clearStart"}
  /\ m_running' = [m_running EXCEPT ![self] = FALSE]
  /\ alive' = IF pc = "clearDestroy" THEN alive \ {self} ELSE alive
  /\ IF pc = "clearStart" THEN pc' = "start" /\ UNCHANGED self ELSE pc' = "idle" /\ self' = NoObject
  /\ UNCHANGED <<m_callback, m_initialized, g_hardware_timers, g_timer_driver_initialized, enabled,
                 invoked, excuse, calls>>

\* The interrupt: hardwareTimerThunk(), invoke(), and the callback, which may
\* call stop().
Interrupt(i) ==
  LET o == g_hardware_timers[i] IN
  /\ i \in enabled /\ o # NoObject /\ invoked' = [object |-> o, alive |-> o \in alive]
  /\ IF m_callback[o] = "stop" /\ m_running[o]
     THEN /\ enabled' = enabled \ {TimerId[o]} /\ m_running' = [m_running EXCEPT ![o] = FALSE]
     ELSE UNCHANGED <<enabled, m_running>>
  /\ UNCHANGED <<m_callback, m_initialized, g_hardware_timers, g_timer_driver_initialized, alive, pc,
                 self, excuse, calls>>

Next ==
  \/ \E o \in Object :
       \/ \E f \in {"none", "plain", "stop"} : attachInterrupt(o, f)
       \/ \E b \in BOOLEAN : begin(o, b) \/ start(o, b) \/ stop(o, b)
  \/ \E ok \in BOOLEAN : started(ok)
  \/ marked \/ driverStop \/ cleared \/ \E i \in Id : Interrupt(i)

Spec == Init /\ [][Next]_vars

------------------------------------------------------------------------------
\* An interrupt never invokes an object that has been destroyed, unless its
\* timer has had two objects: the table keeps what the destructor leaves.
InvokesLive == invoked.alive \/ TimerId[invoked.object] \in excuse

\* Between calls, m_running is whether the timer counts, also when a callback
\* has stopped its timer in the middle of a call; excepted is a timer with two
\* objects.
RunningIsEnabled ==
  pc = "idle" => \A o \in alive :
    m_initialized[o] /\ TimerId[o] \notin excuse => (m_running[o] <=> TimerId[o] \in enabled)

\* What the interrupt and the sketch rely on: no dead object is invoked, and
\* m_running tells whether the timer counts.
TimersAgree == InvokesLive /\ RunningIsEnabled
=============================================================================
