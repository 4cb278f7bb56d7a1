----------------------------- MODULE BoardProofs ------------------------------
(***************************************************************************)
(* What holds of the drivers of the board core for every value of their    *)
(* constants, each by itself: HardwareTimer, Ticker, the interrupt of a pin,*)
(* and Wire.                                                               *)
(***************************************************************************)
EXTENDS Board, Integers, Sequences, FiniteSets, TLAPS

\* The sum moves as its parts do: a step of it is a step of each, or leaves it as
\* it is.
LEMMA PartsMove ==
  /\ PartsInit => T!Init /\ G!Init /\ W!Init
  /\ [PartsNext]_allVars => [T!Next]_T!vars /\ [G!Next]_G!vars /\ [W!Next]_W!vars
BY DEF PartsInit, PartsNext, allVars, tickerVars, gpioVars, wireVars,
       T!vars, G!vars, W!vars, G!slot, G!pad, W!bus, W!driver, W!round, W!rx, W!callbacks

------------------------------------------------------------------------------
Clears == {"clear", "clearDestroy", "clearStart"}
Stops == {"stop", "destroy", "restop"}

\* The types that the argument needs; the callbacks are free.
Types ==
  /\ m_initialized \in [Object -> BOOLEAN] /\ m_running \in [Object -> BOOLEAN]
  /\ g_hardware_timers \in [Id -> Object \cup {NoObject}]
  /\ enabled \subseteq Id /\ alive \subseteq Object
  /\ pc \in {"idle", "start", "mark"} \cup Stops \cup Clears

\* The table has an object in its own place, and there is the object that has
\* begun, unless another one has begun on the same timer.
TableIsOwn ==
  /\ \A i \in Id : g_hardware_timers[i] # NoObject => TimerId[g_hardware_timers[i]] = i
  /\ \A o \in Object : m_running[o] => m_initialized[o]
  /\ \A o \in Object :
       m_initialized[o] =>
         /\ TimerId[o] \in Id
         /\ TimerId[o] \notin excuse => g_hardware_timers[TimerId[o]] = o

\* A call is of a live object that has begun; where it has got to says what
\* the timer does.
CallIsOwn ==
  pc # "idle" =>
    /\ self \in alive /\ m_initialized[self]
    /\ pc \in {"start", "mark"} => ~m_running[self]
    /\ TimerId[self] \notin excuse =>
         /\ pc = "mark" => TimerId[self] \in enabled
         /\ pc \in Clears => TimerId[self] \notin enabled

\* A timer that counts is that of a live object whose m_running is set, or is
\* about to be set.
CountingIsLive ==
  \A i \in enabled \ excuse :
    /\ g_hardware_timers[i] \in alive
    /\ m_running[g_hardware_timers[i]] \/ (pc = "mark" /\ self = g_hardware_timers[i])

\* m_running is set while the timer counts, or is about to be cleared.
RunningCounts ==
  \A o \in Object :
    m_running[o] /\ TimerId[o] \notin excuse =>
      TimerId[o] \in enabled \/ (pc \in Clears /\ self = o)

\* The inductive invariant.
IInv == Types /\ TableIsOwn /\ CallIsOwn /\ CountingIsLive /\ RunningCounts /\ InvokesLive

------------------------------------------------------------------------------
\* A freshly started program satisfies the invariant.
LEMMA InitHolds == Init => IInv
<1> SUFFICES ASSUME Init PROVE IInv
  OBVIOUS
<1> USE IdAssumption DEF Init
<1>1. Types
  BY DEF Types
<1>2. TableIsOwn /\ CallIsOwn /\ CountingIsLive /\ RunningCounts
  BY DEF TableIsOwn, CallIsOwn, CountingIsLive, RunningCounts
<1>3. InvokesLive
  BY DEF InvokesLive
<1> QED
  BY <1>1, <1>2, <1>3 DEF IInv

\* begin(), which start() calls too: the table gets the object, and the timer
\* is excused if it had another.
LEMMA BegunHolds ==
  ASSUME IInv, NEW o \in Object, NEW driver \in BOOLEAN, begun(o, driver), pc = "idle", o \in alive,
         UNCHANGED <<m_running, enabled, alive, invoked>>
  PROVE  /\ m_initialized' \in [Object -> BOOLEAN]
         /\ g_hardware_timers' \in [Id -> Object \cup {NoObject}]
         /\ TableIsOwn' /\ InvokesLive'
         /\ excuse \subseteq excuse'
         /\ \A i \in enabled \ excuse' :
              /\ g_hardware_timers'[i] = g_hardware_timers[i]
              /\ g_hardware_timers[i] \in alive /\ m_running[g_hardware_timers[i]]
<1> USE IdAssumption
<1>1. CASE begins(o, driver)
  <2>1. TimerId[o] \in Id
    BY <1>1 DEF begins
  <2>2. m_initialized' = [m_initialized EXCEPT ![o] = TRUE]
    BY <1>1 DEF begun
  <2>3. g_hardware_timers' = [g_hardware_timers EXCEPT ![TimerId[o]] = o]
    BY <1>1 DEF begun
  <2>4. /\ excuse \subseteq excuse'
        /\ g_hardware_timers[TimerId[o]] \in {NoObject, o} \/ TimerId[o] \in excuse'
    BY <1>1 DEF begun
  <2>5. m_initialized' \in [Object -> BOOLEAN] /\ g_hardware_timers' \in [Id -> Object \cup {NoObject}]
    BY <2>1, <2>2, <2>3 DEF IInv, Types
  <2>6. \A i \in Id : g_hardware_timers'[i] # NoObject => TimerId[g_hardware_timers'[i]] = i
    BY <2>1, <2>3 DEF IInv, Types, TableIsOwn
  <2>7. \A p \in Object : m_running'[p] => m_initialized'[p]
    BY <2>2 DEF IInv, Types, TableIsOwn
  <2>8. \A p \in Object :
          m_initialized'[p] =>
            /\ TimerId[p] \in Id
            /\ TimerId[p] \notin excuse' => g_hardware_timers'[TimerId[p]] = p
    BY <2>1, <2>2, <2>3, <2>4 DEF IInv, Types, TableIsOwn
  <2>9. InvokesLive'
    BY <2>4 DEF IInv, InvokesLive
  <2>10. \A i \in enabled \ excuse' :
           /\ g_hardware_timers'[i] = g_hardware_timers[i]
           /\ g_hardware_timers[i] \in alive /\ m_running[g_hardware_timers[i]]
    BY <2>1, <2>3, <2>4 DEF IInv, Types, CountingIsLive
  <2> QED
    BY <2>4, <2>5, <2>6, <2>7, <2>8, <2>9, <2>10 DEF TableIsOwn
<1>2. CASE ~begins(o, driver)
  BY <1>2 DEF begun, IInv, Types, TableIsOwn, InvokesLive, CountingIsLive
<1> QED
  BY <1>1, <1>2

\* attachInterrupt() touches the callback only.
LEMMA AttachHolds ==
  ASSUME IInv, NEW o \in Object, NEW f, attachInterrupt(o, f)
  PROVE  IInv'
BY DEF IInv, Types, TableIsOwn, CallIsOwn, CountingIsLive, RunningCounts, InvokesLive, attachInterrupt

\* begin() on its own.
LEMMA BeginHolds ==
  ASSUME IInv, NEW o \in Object, NEW driver \in BOOLEAN, begin(o, driver)
  PROVE  IInv'
<1>1. /\ pc = "idle" /\ o \in alive /\ begun(o, driver) /\ pc' = "idle"
      /\ UNCHANGED <<m_running, enabled, alive, invoked>>
  BY DEF begin
<1>2. /\ m_initialized' \in [Object -> BOOLEAN]
      /\ g_hardware_timers' \in [Id -> Object \cup {NoObject}]
      /\ TableIsOwn' /\ InvokesLive' /\ excuse \subseteq excuse'
      /\ \A i \in enabled \ excuse' :
           /\ g_hardware_timers'[i] = g_hardware_timers[i]
           /\ g_hardware_timers[i] \in alive /\ m_running[g_hardware_timers[i]]
  BY <1>1, BegunHolds
<1>3. Types'
  BY <1>1, <1>2 DEF IInv, Types
<1>4. CallIsOwn'
  BY <1>1 DEF CallIsOwn
<1>5. CountingIsLive'
  BY <1>1, <1>2 DEF CountingIsLive
<1>6. RunningCounts'
  BY <1>1, <1>2 DEF IInv, RunningCounts, Clears
<1> QED
  BY <1>2, <1>3, <1>4, <1>5, <1>6 DEF IInv

\* start() and startMicroseconds() up to the test in stop().
LEMMA StartHolds ==
  ASSUME IInv, NEW o \in Object, NEW driver \in BOOLEAN, start(o, driver)
  PROVE  IInv'
<1>1. /\ pc = "idle" /\ o \in alive
      /\ UNCHANGED <<m_running, enabled, alive, invoked>>
  BY DEF start
<1>2. /\ m_initialized' \in [Object -> BOOLEAN]
      /\ g_hardware_timers' \in [Id -> Object \cup {NoObject}]
      /\ TableIsOwn' /\ InvokesLive' /\ excuse \subseteq excuse'
      /\ \A i \in enabled \ excuse' :
           /\ g_hardware_timers'[i] = g_hardware_timers[i]
           /\ g_hardware_timers[i] \in alive /\ m_running[g_hardware_timers[i]]
  <2>1. CASE m_initialized[o]
    BY <1>1, <2>1 DEF start, IInv, Types, TableIsOwn, InvokesLive, CountingIsLive
  <2>2. CASE ~m_initialized[o]
    <3>1. begun(o, driver)
      BY <2>2 DEF start
    <3> QED
      BY <1>1, <3>1, BegunHolds
  <2> QED
    BY <2>1, <2>2
<1>3. CASE m_initialized'[o]
  <2>1. self' = o /\ pc' = IF m_running[o] THEN "restop" ELSE "start"
    BY <1>3 DEF start
  <2>2. Types'
    BY <1>1, <1>2, <2>1 DEF IInv, Types, Stops
  <2>3. CallIsOwn'
    BY <1>1, <1>3, <2>1 DEF CallIsOwn, Clears
  <2>4. CountingIsLive'
    BY <1>1, <1>2 DEF CountingIsLive
  <2>5. RunningCounts'
    BY <1>1, <1>2 DEF IInv, RunningCounts, Clears
  <2> QED
    BY <1>2, <2>2, <2>3, <2>4, <2>5 DEF IInv
<1>4. CASE ~m_initialized'[o]
  <2>1. pc' = "idle"
    BY <1>1, <1>4 DEF start
  <2>2. Types'
    BY <1>1, <1>2, <2>1 DEF IInv, Types
  <2>3. CallIsOwn' /\ CountingIsLive'
    BY <1>1, <1>2, <2>1 DEF CallIsOwn, CountingIsLive
  <2>4. RunningCounts'
    BY <1>1, <1>2 DEF IInv, RunningCounts, Clears
  <2> QED
    BY <1>2, <2>2, <2>3, <2>4 DEF IInv
<1> QED
  BY <1>3, <1>4

\* The driver has started the timer, or refused.
LEMMA StartedHolds ==
  ASSUME IInv, NEW ok \in BOOLEAN, started(ok)
  PROVE  IInv'
<1> USE IdAssumption DEF IInv, Types, TableIsOwn, CallIsOwn, CountingIsLive, RunningCounts, Clears, Stops
<1>1. /\ pc = "start" /\ UNCHANGED <<m_initialized, m_running, g_hardware_timers, alive, invoked, excuse>>
  BY DEF started, object
<1>2. self \in Object /\ TimerId[self] \in Id
  BY <1>1
<1>3. InvokesLive'
  BY <1>1 DEF InvokesLive
<1>4. CASE ok
  <2>1. enabled' = enabled \cup {TimerId[self]} /\ pc' = "mark" /\ self' = self
    BY <1>4 DEF started, runningAfter
  <2>2. Types' /\ TableIsOwn'
    BY <1>1, <1>2, <2>1
  <2>3. CallIsOwn' /\ RunningCounts'
    BY <1>1, <1>2, <2>1
  <2>4. CountingIsLive'
    BY <1>1, <1>2, <2>1
  <2> QED
    BY <1>3, <2>2, <2>3, <2>4
<1>5. CASE ~ok
  <2>1. enabled' = enabled /\ pc' = "idle"
    BY <1>5 DEF started, runningAfter
  <2> QED
    BY <1>1, <1>3, <2>1
<1> QED
  BY <1>4, <1>5

\* m_running is set.
LEMMA MarkedHolds ==
  ASSUME IInv, marked
  PROVE  IInv'
<1> USE DEF IInv, Types, TableIsOwn, CallIsOwn, CountingIsLive, RunningCounts, Clears, Stops
<1>1. /\ pc = "mark" /\ pc' = "idle" /\ m_running' = [m_running EXCEPT ![self] = TRUE]
      /\ UNCHANGED <<m_initialized, g_hardware_timers, enabled, alive, invoked, excuse>>
  BY DEF marked
<1>2. self \in Object
  BY <1>1
<1>3. InvokesLive'
  BY <1>1 DEF InvokesLive
<1>4. Types' /\ TableIsOwn' /\ CallIsOwn'
  BY <1>1, <1>2
<1>5. CountingIsLive'
  BY <1>1, <1>2
<1>6. RunningCounts'
  BY <1>1, <1>2
<1> QED
  BY <1>3, <1>4, <1>5, <1>6

\* stop() and the destructor up to the test of m_running.
LEMMA StopHolds ==
  ASSUME IInv, NEW o \in Object, NEW destroy \in BOOLEAN, stop(o, destroy)
  PROVE  IInv'
<1> USE DEF IInv, Types, TableIsOwn, CallIsOwn, CountingIsLive, RunningCounts, Clears, Stops
<1>1. /\ pc = "idle" /\ o \in alive
      /\ UNCHANGED <<m_initialized, m_running, g_hardware_timers, enabled, invoked, excuse>>
  BY DEF stop, object
<1>2. InvokesLive'
  BY <1>1 DEF InvokesLive
<1>3. CASE m_running[o]
  <2>1. alive' = alive /\ self' = o /\ pc' \in {"stop", "destroy"}
    BY <1>3 DEF stop, mustStop
  <2> QED
    BY <1>1, <1>2, <1>3, <2>1
<1>4. CASE ~m_running[o]
  <2>1. alive' \in {alive, alive \ {o}} /\ pc' = "idle"
    BY <1>1, <1>4 DEF stop, mustStop
  <2> QED
    BY <1>1, <1>2, <1>4, <2>1
<1> QED
  BY <1>3, <1>4

\* The driver stops the timer of the call.
LEMMA DriverStopHolds ==
  ASSUME IInv, driverStop
  PROVE  IInv'
<1> USE DEF IInv, Types, TableIsOwn, CallIsOwn, CountingIsLive, RunningCounts, Clears, Stops
<1>1. /\ pc \in Stops /\ pc' \in Clears /\ enabled' = enabled \ {TimerId[self]}
      /\ UNCHANGED <<m_initialized, m_running, g_hardware_timers, alive, self, invoked, excuse>>
  BY DEF driverStop, object
<1>2. InvokesLive'
  BY <1>1 DEF InvokesLive
<1>3. Types' /\ TableIsOwn'
  BY <1>1
<1>4. CallIsOwn' /\ CountingIsLive'
  BY <1>1
<1>5. RunningCounts'
  BY <1>1
<1> QED
  BY <1>2, <1>3, <1>4, <1>5

\* m_running is cleared, and the object of a destructor is gone.
LEMMA ClearedHolds ==
  ASSUME IInv, cleared
  PROVE  IInv'
<1> USE DEF IInv, Types, TableIsOwn, CallIsOwn, CountingIsLive, RunningCounts, Clears, Stops
<1>1. /\ pc \in Clears /\ m_running' = [m_running EXCEPT ![self] = FALSE]
      /\ UNCHANGED <<m_initialized, g_hardware_timers, enabled, invoked, excuse>>
  BY DEF cleared
<1>2. /\ self \in Object /\ self \in alive /\ m_initialized[self] /\ TimerId[self] \in Id
      /\ TimerId[self] \notin excuse => TimerId[self] \notin enabled
  BY <1>1
<1>3. \/ pc' = "idle" /\ alive' \in {alive, alive \ {self}}
      \/ pc' = "start" /\ self' = self /\ alive' = alive
  BY DEF cleared
<1>4. InvokesLive'
  BY <1>1 DEF InvokesLive
<1>5. Types' /\ TableIsOwn'
  BY <1>1, <1>2, <1>3
<1>6. CallIsOwn'
  BY <1>1, <1>2, <1>3
<1>7. CountingIsLive'
  BY <1>1, <1>2, <1>3, IdAssumption
<1>8. RunningCounts'
  BY <1>1, <1>2, <1>3
<1> QED
  BY <1>4, <1>5, <1>6, <1>7, <1>8

\* The interrupt, with a callback that may stop its timer.
LEMMA InterruptHolds ==
  ASSUME IInv, NEW i \in Id, Interrupt(i)
  PROVE  IInv'
<1> USE IdAssumption DEF IInv, Types, TableIsOwn, CallIsOwn, CountingIsLive, RunningCounts, Clears, Stops
<1> DEFINE o == g_hardware_timers[i]
<1>1. /\ i \in enabled /\ o \in Object /\ TimerId[o] = i
      /\ invoked' = [object |-> o, alive |-> o \in alive]
      /\ UNCHANGED <<m_initialized, g_hardware_timers, alive, pc, self, excuse>>
  BY DEF Interrupt
<1>2. i \in excuse \/ o \in alive
  BY <1>1
<1>3. InvokesLive'
  BY <1>1, <1>2 DEF InvokesLive
<1>4. CASE /\ enabled' = enabled \ {TimerId[o]} /\ m_running[o]
           /\ m_running' = [m_running EXCEPT ![o] = FALSE]
  <2>1. Types' /\ TableIsOwn'
    BY <1>1, <1>4
  <2>2. CallIsOwn'
    BY <1>1, <1>4
  <2>3. CountingIsLive'
    BY <1>1, <1>4
  <2>4. RunningCounts'
    BY <1>1, <1>4
  <2> QED
    BY <1>3, <2>1, <2>2, <2>3, <2>4
<1>5. CASE UNCHANGED <<enabled, m_running>>
  BY <1>1, <1>3, <1>5
<1> QED
  BY <1>4, <1>5 DEF Interrupt

\* Every step preserves the invariant.
LEMMA NextHolds == IInv /\ [Next]_vars => IInv'
<1> SUFFICES ASSUME IInv, [Next]_vars PROVE IInv'
  OBVIOUS
<1>1. CASE UNCHANGED vars
  BY <1>1 DEF IInv, Types, TableIsOwn, CallIsOwn, CountingIsLive, RunningCounts, InvokesLive, vars, object
<1>2. CASE \E o \in Object, f \in {"none", "plain", "stop"} : attachInterrupt(o, f)
  BY <1>2, AttachHolds
<1>3. CASE \E o \in Object, b \in BOOLEAN : begin(o, b) \/ start(o, b) \/ stop(o, b)
  BY <1>3, BeginHolds, StartHolds, StopHolds
<1>4. CASE \E ok \in BOOLEAN : started(ok)
  BY <1>4, StartedHolds
<1>5. CASE marked \/ driverStop \/ cleared
  BY <1>5, MarkedHolds, DriverStopHolds, ClearedHolds
<1>6. CASE \E i \in Id : Interrupt(i)
  BY <1>6, InterruptHolds
<1> QED
  BY <1>1, <1>2, <1>3, <1>4, <1>5, <1>6 DEF Next

\* The invariant gives both halves of TimersAgree.
LEMMA InvAgrees == IInv => TimersAgree
<1> SUFFICES ASSUME IInv PROVE RunningIsEnabled
  BY DEF IInv, TimersAgree
<1> SUFFICES ASSUME pc = "idle", NEW o \in alive, m_initialized[o], TimerId[o] \notin excuse
             PROVE  m_running[o] <=> TimerId[o] \in enabled
  BY DEF RunningIsEnabled
<1>1. o \in Object /\ g_hardware_timers[TimerId[o]] = o
  BY DEF IInv, Types, TableIsOwn
<1>2. m_running[o] => TimerId[o] \in enabled
  BY <1>1 DEF IInv, RunningCounts, Clears
<1>3. TimerId[o] \in enabled => m_running[o]
  BY <1>1 DEF IInv, CountingIsLive
<1>4. m_running[o] \in BOOLEAN
  BY <1>1 DEF IInv, Types
<1> QED
  BY <1>2, <1>3, <1>4

\* hardwareTimerThunk() invokes no destroyed HardwareTimer, and m_running tells
\* whether the timer counts, for any number of objects and timers and wherever
\* in a call the interrupt comes.
THEOREM TimersSafe == Spec => []TimersAgree
<1>1. Init => IInv
  BY InitHolds
<1>2. IInv /\ [Next]_vars => IInv'
  BY NextHolds
<1>3. IInv => TimersAgree
  BY InvAgrees
<1> QED
  BY <1>1, <1>2, <1>3, PTL DEF Spec

------------------------------------------------------------------------------
(***************************************************************************)
(* Ticker, when the callback does not block: the timer task runs a thunk   *)
(* to its end while the sketch stands still.                               *)
(***************************************************************************)

\* The arming at hand has its members right and, if it is a one-shot, has
\* been called n times at most.
Armed(n) ==
  /\ m_active /\ ticker_m_callback # NoCallback /\ arming \in 1 .. count
  /\ m_repeat <=> arming \notin once
  /\ arming \in once => fired[arming] <= n

TickerTypes ==
  /\ ticker_m_callback \in T!Script \cup {NoCallback} /\ m_repeat \in BOOLEAN /\ m_active \in BOOLEAN
  /\ count \in 0 .. MaxArm /\ arming \in 0 .. count
  /\ call \in T!Call
  /\ fired \in [T!Arming -> Nat] /\ once \subseteq 1 .. count

\* Later armings have not been made, let alone called.
Unborn == \A a \in T!Arming : a > count => fired[a] = 0

\* A timer runs for the arming at hand only.
TimerIsOwn ==
  /\ ~leaked
  /\ timer = "running" /\ thunk = "idle" => Armed(0)
  /\ timer = "running" => user \in {"idle", "test", "stop"}
  /\ ~m_active => timer = "none"

\* The sketch's call: once deinit is behind it nothing runs, and the members
\* that start() has assigned are those of an arming never called.
CallStands ==
  /\ user \in {"clearCallback", "clearActive", "assign", "launch"} => timer = "none"
  /\ user \in {"assign", "launch"} => call.kind = "start"
  /\ user = "assign" => ~m_active
  /\ user = "launch" => Armed(0)
  /\ user \in {"idle", "test", "stop", "deinit", "clearCallback", "clearActive", "assign", "launch"}
  /\ user \notin {"idle", "launch"} /\ call.kind = "start" => count < MaxArm

\* The thunk: its one-shot has been called, once, and is still at hand or has
\* been replaced by an arming that has not.
ThunkStands ==
  /\ thunk \in {"idle", "callback", "return"}
  /\ thunk # "idle" => user \in {"idle", "test", "stop"}
  /\ thunk = "callback" => Armed(1)
  /\ thunk = "return" /\ m_active => Armed(1)

TickerInv ==
  /\ TickerTypes /\ Unborn /\ TimerIsOwn /\ CallStands /\ ThunkStands
  /\ T!OnceAtMostOnce

LEMMA TickerInit == T!ConstantsOK /\ T!Init => TickerInv
<1> SUFFICES ASSUME T!ConstantsOK, T!Init
             PROVE  TickerInv
  OBVIOUS
<1>1. /\ m_repeat = FALSE /\ m_active = FALSE /\ leaked = FALSE /\ once = {}
      /\ m_repeat \in BOOLEAN /\ m_active \in BOOLEAN
      /\ ticker_m_callback = NoCallback
  BY Zenon DEF T!Init
<1>2. /\ timer = "none" /\ arming = 0 /\ count = 0 /\ user = "idle" /\ thunk = "idle"
      /\ call = [kind |-> "detach"] /\ fired = [a \in T!Arming |-> 0]
      /\ MaxArm \in Nat \ {0}
  BY DEF T!Init, T!ConstantsOK
<1>3. TickerTypes
  <2>1. call \in T!Call
    BY <1>2 DEF T!Call
  <2>2. ticker_m_callback \in T!Script \cup {NoCallback}
    BY <1>1
  <2> QED
    BY <1>1, <1>2, <2>1, <2>2 DEF TickerTypes, T!Arming
<1>4. Unborn /\ T!OnceAtMostOnce
  BY <1>1, <1>2 DEF Unborn, T!OnceAtMostOnce
<1>5. TimerIsOwn /\ CallStands /\ ThunkStands
  BY <1>1, <1>2 DEF TimerIsOwn, CallStands, ThunkStands
<1> QED
  BY <1>3, <1>4, <1>5 DEF TickerInv

\* What Armed() depends on.
LEMMA ArmedSame ==
  ASSUME NEW n, Armed(n), UNCHANGED <<m_active, ticker_m_callback, m_repeat, arming, count, once, fired>>
  PROVE  Armed(n)'
BY DEF Armed

\* The sketch's steps up to the assignments of start().
LEMMA TickerDetaches ==
  ASSUME T!ConstantsOK, ~CallbackBlocks, TickerInv,
         \/ T!DetachTest \/ T!DetachStop \/ T!DetachDeinit \/ T!DetachClearCallback
         \/ T!DetachClearActive
  PROVE  TickerInv'
<1>1. thunk = "idle"
  BY DEF T!DetachTest, T!DetachStop, T!DetachDeinit, T!DetachClearCallback, T!DetachClearActive,
     T!SketchRuns
<1>2. UNCHANGED <<m_repeat, leaked, arming, count, call, thunk, fired, once>>
  BY DEF T!DetachTest, T!DetachStop, T!DetachDeinit, T!DetachClearCallback, T!DetachClearActive,
     T!members, T!history
<1>3. TickerTypes' /\ Unborn' /\ T!OnceAtMostOnce'
  <2>1. ticker_m_callback' \in T!Script \cup {NoCallback} /\ m_active' \in BOOLEAN
    BY DEF T!DetachTest, T!DetachStop, T!DetachDeinit, T!DetachClearCallback, T!DetachClearActive,
       T!members, TickerInv, TickerTypes
  <2> QED
    BY <1>2, <2>1 DEF TickerInv, TickerTypes, Unborn, T!OnceAtMostOnce
<1>4. TimerIsOwn' /\ CallStands' /\ ThunkStands'
  <2>1. CASE T!DetachTest
    BY <1>1, <1>2, <2>1 DEF T!DetachTest, T!members, T!AfterDetach, TickerInv, TimerIsOwn,
       CallStands, ThunkStands, Armed, TickerTypes
  <2>2. CASE T!DetachStop
    BY <1>1, <1>2, <2>2 DEF T!DetachStop, TickerInv, TimerIsOwn,
       CallStands, ThunkStands, Armed, TickerTypes
  <2>3. CASE T!DetachDeinit
    BY <1>1, <1>2, <2>3 DEF T!DetachDeinit, TickerInv, TimerIsOwn,
       CallStands, ThunkStands, Armed, TickerTypes
  <2>4. CASE T!DetachClearCallback
    BY <1>1, <1>2, <2>4 DEF T!DetachClearCallback, TickerInv, TimerIsOwn,
       CallStands, ThunkStands, Armed, TickerTypes
  <2>5. CASE T!DetachClearActive
    BY <1>1, <1>2, <2>5 DEF T!DetachClearActive, T!AfterDetach, TickerInv, TimerIsOwn,
       CallStands, ThunkStands, Armed, TickerTypes
  <2> QED
    BY <2>1, <2>2, <2>3, <2>4, <2>5
<1> QED
  BY <1>3, <1>4 DEF TickerInv

\* The sketch calls start() or detach().
LEMMA TickerCalls ==
  ASSUME T!ConstantsOK, ~CallbackBlocks, TickerInv,
         T!CallDetach \/ \E r \in BOOLEAN, c \in T!Script : T!CallStart(r, c)
  PROVE  TickerInv'
<1>1. /\ thunk = "idle" /\ user = "idle" /\ user' = "test"
      /\ UNCHANGED <<ticker_m_callback, m_repeat, m_active, timer, leaked, arming, count, thunk, fired, once>>
      /\ call' \in T!Call /\ (call'.kind = "start" => count < MaxArm)
  BY DEF T!CallDetach, T!CallStart, T!SketchRuns, T!members, T!history, T!Call
<1> QED
  BY <1>1 DEF TickerInv, TickerTypes, Unborn, TimerIsOwn, CallStands, ThunkStands, Armed,
     T!OnceAtMostOnce

\* start() assigns the members of a new arming and launches the timer.
LEMMA TickerStarts ==
  ASSUME T!ConstantsOK, ~CallbackBlocks, TickerInv, T!StartAssign \/ T!StartLaunch
  PROVE  TickerInv'
<1>1. CASE T!StartAssign
  <2>1. /\ thunk = "idle" /\ user = "assign" /\ user' = "launch" /\ m_active' = TRUE
        /\ ticker_m_callback' = call.callback /\ m_repeat' = call.repeat
        /\ count' = count + 1 /\ arming' = count + 1
        /\ once' = IF call.repeat THEN once ELSE once \cup {count + 1}
        /\ UNCHANGED <<timer, leaked, call, thunk, fired>>
    BY <1>1 DEF T!StartAssign, T!SketchRuns
  <2>2. /\ call.kind = "start" /\ timer = "none" /\ count < MaxArm
        /\ count \in Nat /\ MaxArm \in Nat
    BY <2>1 DEF TickerInv, CallStands, TickerTypes, T!ConstantsOK
  <2>3. call.callback \in T!Script /\ call.repeat \in BOOLEAN /\ call.callback # NoCallback
    BY <2>2 DEF TickerInv, TickerTypes, T!Call, T!ConstantsOK
  <2>4. count + 1 \in T!Arming /\ fired[count + 1] = 0 /\ count + 1 \notin once
    BY <2>2 DEF TickerInv, Unborn, T!Arming, TickerTypes
  <2>5. Armed(0)'
    BY <2>1, <2>2, <2>3, <2>4 DEF Armed
  <2>6. TickerTypes'
    BY <2>1, <2>2, <2>3, <2>4 DEF TickerInv, TickerTypes
  <2>7. Unborn' /\ T!OnceAtMostOnce'
    BY <2>1, <2>2, <2>4 DEF TickerInv, TickerTypes, Unborn, T!OnceAtMostOnce, T!Arming
  <2> QED
    BY <2>1, <2>2, <2>5, <2>6, <2>7 DEF TickerInv, TimerIsOwn, CallStands, ThunkStands
<1>2. CASE T!StartLaunch
  <2>1. /\ thunk = "idle" /\ user = "launch" /\ user' = "idle"
        /\ leaked' = (leaked \/ timer = "running")
        /\ UNCHANGED <<ticker_m_callback, m_repeat, m_active, arming, count, call, thunk, fired, once>>
    BY <1>2 DEF T!StartLaunch, T!SketchRuns, T!history
  <2>2. timer = "none" /\ Armed(0)
    BY <2>1 DEF TickerInv, CallStands
  <2>3. Armed(0)'
    BY <2>1, <2>2, ArmedSame
  <2>4. m_active'
    BY <2>3 DEF Armed
  <2> QED
    BY <2>1, <2>2, <2>3, <2>4 DEF TickerInv, TickerTypes, Unborn, TimerIsOwn, CallStands,
       ThunkStands, T!OnceAtMostOnce
<1> QED
  BY <1>1, <1>2

\* timerThunk() and what its callback does.
LEMMA TickerThunk ==
  ASSUME T!ConstantsOK, TickerInv, T!TimerTask
  PROVE  TickerInv'
<1>1. CASE T!Fire
  <2>1. /\ thunk = "idle" /\ thunk' = "callback" /\ (timer = "running" \/ leaked)
        /\ fired' = [fired EXCEPT ![arming] = IF @ < 2 THEN @ + 1 ELSE 2]
        /\ UNCHANGED <<ticker_m_callback, m_repeat, m_active, timer, leaked, arming, count, user, call, once>>
    BY <1>1 DEF T!Fire, T!members
  <2>2. timer = "running" /\ Armed(0) /\ user \in {"idle", "test", "stop"}
    BY <2>1 DEF TickerInv, TimerIsOwn
  <2>3. /\ arming \in T!Arming /\ arming <= count /\ fired \in [T!Arming -> Nat]
        /\ MaxArm \in Nat /\ count \in 0 .. MaxArm
    BY <2>2 DEF Armed, T!Arming, TickerInv, TickerTypes, T!ConstantsOK
  <2>4. /\ fired' \in [T!Arming -> Nat]
        /\ arming \in once => fired'[arming] <= 1
        /\ \A a \in T!Arming : a # arming => fired'[a] = fired[a]
    BY <2>1, <2>2, <2>3 DEF Armed
  <2>5. Armed(1)'
    BY <2>1, <2>2, <2>4 DEF Armed
  <2>6. TickerTypes'
    BY <2>1, <2>4 DEF TickerInv, TickerTypes
  <2>7. Unborn' /\ T!OnceAtMostOnce'
    BY <2>1, <2>3, <2>4 DEF TickerInv, TickerTypes, Unborn, T!OnceAtMostOnce, T!Arming
  <2> QED
    BY <2>1, <2>2, <2>5, <2>6, <2>7 DEF TickerInv, TimerIsOwn, CallStands, ThunkStands
<1>2. CASE T!CallbackPlain
  <2>1. /\ thunk = "callback" /\ thunk' = "return"
        /\ UNCHANGED <<ticker_m_callback, m_repeat, m_active, timer, leaked, arming, count, user, call,
                       fired, once>>
    BY <1>2 DEF T!CallbackPlain, T!members, T!history
  <2> QED
    BY <2>1 DEF TickerInv, TickerTypes, Unborn, TimerIsOwn, CallStands, ThunkStands, Armed,
       T!OnceAtMostOnce
<1>3. CASE T!CallbackDetach
  <2>1. /\ thunk = "callback" /\ thunk' = "return" /\ T!detach
        /\ UNCHANGED <<m_repeat, leaked, arming, count, user, call, fired, once>>
    BY <1>3 DEF T!CallbackDetach, T!history
  <2>2. m_active
    BY <2>1 DEF TickerInv, ThunkStands, Armed
  <2>3. timer' = "none" /\ ticker_m_callback' = NoCallback /\ m_active' = FALSE
    BY <2>1, <2>2 DEF T!detach
  <2> QED
    BY <2>1, <2>3 DEF TickerInv, TickerTypes, Unborn, TimerIsOwn, CallStands, ThunkStands, Armed,
       T!OnceAtMostOnce
<1>4. CASE T!CallbackRearm
  <2>1. /\ thunk = "callback" /\ thunk' = "return" /\ T!RearmFits
        /\ m_repeat' = (current = "rearmRepeat") /\ ticker_m_callback' = "plain" /\ m_active' = TRUE
        /\ leaked' = (leaked \/ (~m_active /\ timer = "running"))
        /\ count' = count + 1 /\ arming' = count + 1
        /\ once' = IF current = "rearmRepeat" THEN once ELSE once \cup {count + 1}
        /\ UNCHANGED <<user, call, fired>>
    BY <1>4 DEF T!CallbackRearm
  <2>2. m_active /\ ~leaked /\ user \in {"idle", "test", "stop"}
    BY <2>1 DEF TickerInv, ThunkStands, TimerIsOwn, Armed
  <2>3. /\ count \in Nat /\ MaxArm \in Nat /\ count < MaxArm
        /\ user \notin {"idle", "launch"} /\ call.kind = "start" => count + 1 < MaxArm
    BY <2>1, <2>2 DEF T!RearmFits, TickerInv, TickerTypes, T!ConstantsOK, T!Call
  <2>4. count + 1 \in T!Arming /\ fired[count + 1] = 0 /\ count + 1 \notin once
    BY <2>3 DEF TickerInv, Unborn, T!Arming, TickerTypes
  <2>5. "plain" \in T!Script /\ "plain" # NoCallback
    BY DEF T!Script, T!ConstantsOK
  <2>6. Armed(1)'
    <3>1. m_repeat' <=> arming' \notin once'
      BY <2>1, <2>4, Zenon
    <3> QED
      BY <2>1, <2>3, <2>4, <2>5, <3>1 DEF Armed
  <2>7. TickerTypes'
    BY <2>1, <2>3, <2>4, <2>5 DEF TickerInv, TickerTypes
  <2>8. Unborn' /\ T!OnceAtMostOnce'
    BY <2>1, <2>3, <2>4 DEF TickerInv, TickerTypes, Unborn, T!OnceAtMostOnce, T!Arming
  <2> QED
    BY <2>1, <2>2, <2>3, <2>6, <2>7, <2>8 DEF TickerInv, TimerIsOwn, CallStands, ThunkStands
<1>5. CASE T!ThunkReturn
  <2>1. /\ thunk = "return" /\ thunk' = "idle"
        /\ IF m_repeat THEN UNCHANGED <<timer, ticker_m_callback, m_active>> ELSE T!detach
        /\ UNCHANGED <<m_repeat, leaked, arming, count, user, call, fired, once>>
    BY <1>5 DEF T!ThunkReturn
  <2>2. CASE m_repeat
    BY <2>1, <2>2 DEF TickerInv, TickerTypes, Unborn, TimerIsOwn, CallStands, ThunkStands, Armed,
       T!OnceAtMostOnce
  <2>3. CASE ~m_repeat
    BY <2>1, <2>3 DEF T!detach, TickerInv, TickerTypes, Unborn, TimerIsOwn, CallStands,
       ThunkStands, Armed, T!OnceAtMostOnce
  <2> QED
    BY <2>2, <2>3
<1> QED
  BY <1>1, <1>2, <1>3, <1>4, <1>5 DEF T!TimerTask

LEMMA TickerNext ==
  ASSUME T!ConstantsOK, ~CallbackBlocks, TickerInv, T!Next \/ UNCHANGED T!vars
  PROVE  TickerInv'
<1>1. CASE UNCHANGED T!vars
  BY <1>1 DEF T!vars, TickerInv, TickerTypes, Unborn, TimerIsOwn, CallStands, ThunkStands, Armed,
     T!OnceAtMostOnce
<1> QED
  BY <1>1, TickerCalls, TickerDetaches, TickerStarts, TickerThunk DEF T!Next, T!Sketch

\* once_ms() calls its callback at most once, although the RTOS timer behind it
\* is periodic, also when rtos_init_timer() fails: for every number of armings,
\* if callbacks do not block.
THEOREM OnceSafe ==
  ASSUME ~CallbackBlocks
  PROVE  PartsSpec => []T!OnceAtMostOnce
<1>1. PartsInit => TickerInv
  BY TickerInit, BoardAssumption, PartsMove
<1>2. TickerInv /\ [PartsNext]_allVars => TickerInv'
  BY TickerNext, BoardAssumption, PartsMove
<1>3. TickerInv => T!OnceAtMostOnce
  BY DEF TickerInv
<1> QED
  BY <1>1, <1>2, <1>3, PTL DEF PartsSpec

(***************************************************************************)
(* If the RTOS gives every timer that it is asked for, m_active outside of *)
(* detach() and start() means that one runs.                               *)
(***************************************************************************)
RunningInv ==
  m_active /\ user \in {"idle", "test"} => timer = "running" /\ ticker_m_callback # NoCallback

LEMMA RunningNext ==
  ASSUME T!ConstantsOK, ~CallbackBlocks, ~InitMayFail, TickerInv, RunningInv,
         T!Next \/ UNCHANGED T!vars
  PROVE  RunningInv'
<1>1. CASE T!StartLaunch
  <2>1. timer' = "running" /\ user = "launch" /\ ticker_m_callback' = ticker_m_callback
    BY <1>1 DEF T!StartLaunch, T!Launched
  <2>2. ticker_m_callback # NoCallback
    BY <2>1 DEF TickerInv, CallStands, Armed
  <2> QED
    BY <2>1, <2>2 DEF RunningInv
<1>2. CASE T!CallbackRearm
  <2>1. "plain" # NoCallback
    BY DEF T!Script, T!ConstantsOK
  <2> QED
    BY <1>2, <2>1 DEF T!CallbackRearm, T!Launched, RunningInv
<1>3. CASE T!CallDetach \/ \E r \in BOOLEAN, c \in T!Script : T!CallStart(r, c)
  BY <1>3 DEF T!CallDetach, T!CallStart, T!members, RunningInv
<1>4. CASE T!DetachTest \/ T!DetachStop \/ T!DetachDeinit \/ T!DetachClearCallback \/ T!StartAssign
  BY <1>4 DEF T!DetachTest, T!DetachStop, T!DetachDeinit, T!DetachClearCallback, T!StartAssign,
     T!AfterDetach, T!members, RunningInv
<1>5. CASE T!DetachClearActive
  BY <1>5 DEF T!DetachClearActive, RunningInv
<1>6. CASE T!Fire \/ T!CallbackPlain \/ UNCHANGED T!vars
  BY <1>6 DEF T!Fire, T!CallbackPlain, T!vars, T!members, RunningInv
<1>7. CASE T!CallbackDetach \/ T!ThunkReturn
  BY <1>7 DEF T!CallbackDetach, T!ThunkReturn, T!detach, RunningInv
<1> QED
  BY <1>1, <1>2, <1>3, <1>4, <1>5, <1>6, <1>7 DEF T!Next, T!Sketch, T!TimerTask

\* And between calls active() says whether a timer runs that will call the
\* callback, and none is out of detach()'s reach: for every number of armings,
\* if callbacks do not block and the RTOS has timers enough.
THEOREM ActiveSafe ==
  ASSUME ~CallbackBlocks, ~InitMayFail
  PROVE  PartsSpec => []OnceAtMostOnce
<1>1. PartsInit => TickerInv /\ RunningInv
  <2>1. T!Init => RunningInv
    BY DEF T!Init, RunningInv
  <2> QED
    BY <2>1, TickerInit, BoardAssumption, PartsMove
<1>2. TickerInv /\ RunningInv /\ [PartsNext]_allVars => TickerInv' /\ RunningInv'
  BY TickerNext, RunningNext, BoardAssumption, PartsMove
<1>3. TickerInv /\ RunningInv => OnceAtMostOnce
  BY DEF OnceAtMostOnce, TickerInv, TimerIsOwn, RunningInv, T!ActiveIsRunning, T!Quiet
<1> QED
  BY <1>1, <1>2, <1>3, PTL DEF PartsSpec

------------------------------------------------------------------------------
(***************************************************************************)
(* The interrupt of a pin.                                                 *)
(***************************************************************************)

\* attachInterrupt() is about to assign a member of the slot.
Assigning == {"callback", "callbackParam", "param", "hasParam"}
Attaching == Assigning \cup {"configure", "type", "mode", "keep", "arm"}

\* The handler cannot run unless an interrupt is attached, and not inside
\* detachInterrupt().
HandlerStands ==
  /\ gpio_pc \in Attaching \cup {"idle", "clear"} /\ ipc \in {"idle", "rearm"}
  /\ {gpio_enabled, attached, flag} \subseteq BOOLEAN
  /\ ~attached => ~gpio_enabled /\ gpio_pc \in {"idle", "clear"}
  /\ gpio_pc = "clear" => ~attached
  /\ ipc # "idle" => gpio_enabled
  /\ gpio_pc \in Attaching /\ gpio_enabled => "again" \in gpio_excuse
  /\ gpio_pc \in Attaching => arg \in [fn : G!Function, mode : G!Trigger, type : {"rising", "falling"}]

\* Which members of the slot are old and which are new, statement by statement;
\* over a function with a parameter only one without is attached, or "swap" is
\* known.
SlotStands ==
  /\ hasParam \in BOOLEAN /\ callback \in {G!None, "f"} /\ callbackParam \in {G!None, "g1", "g2"}
  /\ hasParam /\ gpio_pc \notin {"param", "hasParam"} =>
       callbackParam # G!None /\ param = G!ParamOf[callbackParam]
  /\ gpio_pc \in {"param", "hasParam"} => callbackParam = IF arg.fn = "f" THEN G!None ELSE arg.fn
  /\ gpio_pc = "hasParam" /\ arg.fn # "f" => param = G!ParamOf[arg.fn]
  /\ gpio_pc \in {"callbackParam", "param", "hasParam"} /\ arg.fn = "f" => callback = "f"
  /\ gpio_pc \in Assigning /\ arg.fn # "f" /\ "swap" \notin gpio_excuse => ~hasParam
  /\ ~attached /\ gpio_pc = "idle" => ~hasParam

\* The edge that brings the pin to its level, and the one that takes it away.
LastEdge == IF level = 1 THEN "rising" ELSE "falling"
NextEdge == IF level = 0 THEN "rising" ELSE "falling"

Clean == gpio_excuse \cap {"quick", "again"} = {}
First == "again" \notin gpio_excuse

\* An edge turns NextEdge into LastEdge and raises the flag; the handler clears
\* the flag and arms the other edge, before the next one comes.  Slot and
\* hardware have the same type unless the attach was over another.
EdgeStands ==
  /\ level \in {0, 1}
  /\ First /\ gpio_pc \in {"keep", "arm"} => mode = arg.mode
  /\ First /\ gpio_pc = "arm" => currentIntType = arg.type
  /\ Clean /\ gpio_pc \in {"mode", "keep", "arm"} /\ arg.mode = "CHANGE" => arg.type = NextEdge
  /\ First /\ gpio_enabled /\ mode = "CHANGE" => type = currentIntType
  /\ Clean /\ gpio_enabled /\ mode = "CHANGE" =>
       /\ ~(flag /\ ipc = "rearm")
       /\ type = IF flag \/ ipc = "rearm" THEN LastEdge ELSE NextEdge

GpioInv ==
  /\ HandlerStands /\ SlotStands /\ EdgeStands
  /\ pull = G!pullOf(s_pinMode)
  /\ G!ParamIsOwn

LEMMA GpioInit == G!Init => GpioInv
<1> SUFFICES ASSUME G!Init
             PROVE  GpioInv
  OBVIOUS
<1>1. /\ hasParam = FALSE /\ gpio_enabled = FALSE /\ flag = FALSE /\ attached = FALSE
      /\ {gpio_enabled, attached, flag} \subseteq BOOLEAN /\ hasParam \in BOOLEAN
  BY Zenon DEF G!Init
<1>2. HandlerStands /\ SlotStands
  BY <1>1 DEF G!Init, HandlerStands, SlotStands, Attaching, Assigning
<1>3. EdgeStands
  BY <1>1 DEF G!Init, EdgeStands
<1>4. pull = G!pullOf(s_pinMode)
  BY DEF G!Init, G!pullOf
<1>5. G!ParamIsOwn
  BY DEF G!Init, G!ParamIsOwn, G!Own
<1> QED
  BY <1>2, <1>3, <1>4, <1>5 DEF GpioInv

\* Steps that leave slot, interrupt and call alone.
LEMMA GpioSame ==
  ASSUME GpioInv, UNCHANGED <<callback, callbackParam, param, hasParam, mode, currentIntType, level,
                              type, gpio_enabled, flag, gpio_pc, arg, ipc, called, attached, gpio_excuse>>,
         pull' = G!pullOf(s_pinMode')
  PROVE  GpioInv'
BY DEF GpioInv, HandlerStands, SlotStands, EdgeStands, LastEdge, NextEdge, Clean, First, G!ParamIsOwn

LEMMA GpioAttach ==
  ASSUME GpioInv, NEW f \in G!Function, NEW m \in G!Trigger, G!attachInterrupt(f, m)
  PROVE  GpioInv'
<1>1. /\ gpio_pc = "idle" /\ ipc = "idle" /\ gpio_pc' = "callback" /\ arg' = [fn |-> f, mode |-> m, type |-> "rising"]
      /\ attached' = TRUE /\ called' = <<G!None, G!None>>
      /\ UNCHANGED <<callback, callbackParam, param, hasParam, mode, currentIntType, level, type,
                     gpio_enabled, flag, ipc, s_pinMode, pull>>
  BY DEF G!attachInterrupt, G!Sketch, G!after, G!slot, G!pad, G!NoArg
<1>2. /\ attached => "again" \in gpio_excuse'
      /\ attached /\ hasParam /\ f # "f" => "swap" \in gpio_excuse'
  BY DEF G!attachInterrupt
<1>3. ~attached => ~gpio_enabled /\ ~hasParam
  BY <1>1 DEF GpioInv, HandlerStands, SlotStands
<1>4. HandlerStands'
  BY <1>1, <1>2, <1>3 DEF GpioInv, HandlerStands, Attaching, Assigning
<1>5. SlotStands'
  BY <1>1, <1>2, <1>3 DEF GpioInv, SlotStands, Assigning
<1>6. EdgeStands'
  BY <1>1, <1>2, <1>3 DEF GpioInv, EdgeStands, Clean, First
<1>7. G!ParamIsOwn'
  BY <1>1 DEF G!ParamIsOwn, G!Own
<1> QED
  BY <1>1, <1>4, <1>5, <1>6, <1>7 DEF GpioInv

LEMMA GpioAssign ==
  ASSUME GpioInv, G!assign
  PROVE  GpioInv'
<1>1. /\ gpio_pc \in Assigning /\ ipc = "idle" /\ gpio_pc' = G!after(gpio_pc)
      /\ callback' = IF gpio_pc = "callback" THEN IF arg.fn = "f" THEN "f" ELSE G!None ELSE callback
      /\ callbackParam' = IF gpio_pc = "callbackParam" THEN IF arg.fn = "f" THEN G!None ELSE arg.fn
                          ELSE callbackParam
      /\ param' = IF gpio_pc = "param" THEN IF arg.fn = "f" THEN G!None ELSE G!ParamOf[arg.fn] ELSE param
      /\ hasParam' = IF gpio_pc = "hasParam" THEN arg.fn # "f" ELSE hasParam
      /\ UNCHANGED <<mode, currentIntType, level, type, gpio_enabled, flag, arg, ipc, called, attached,
                     gpio_excuse, s_pinMode, pull>>
  BY DEF G!assign, Assigning, G!pad
<1>2. arg.fn \in {"f", "g1", "g2"} /\ attached
  BY <1>1 DEF GpioInv, HandlerStands, Attaching, Assigning, G!Function
<1>3. /\ gpio_pc = "callback" => gpio_pc' = "callbackParam"
      /\ gpio_pc = "callbackParam" => gpio_pc' = "param"
      /\ gpio_pc = "param" => gpio_pc' = "hasParam"
      /\ gpio_pc = "hasParam" => gpio_pc' = "configure"
  BY <1>1 DEF G!after
<1>4. HandlerStands'
  BY <1>1, <1>2, <1>3 DEF GpioInv, HandlerStands, Attaching, Assigning
<1>5. SlotStands'
  <2>1. CASE gpio_pc = "callback"
    BY <1>1, <1>2, <1>3, <2>1 DEF GpioInv, SlotStands, Assigning
  <2>2. CASE gpio_pc = "callbackParam"
    BY <1>1, <1>2, <1>3, <2>2 DEF GpioInv, SlotStands, Assigning
  <2>3. CASE gpio_pc = "param"
    BY <1>1, <1>2, <1>3, <2>3 DEF GpioInv, SlotStands, Assigning
  <2>4. CASE gpio_pc = "hasParam"
    <3>1. G!None \notin {"g1", "g2"}
      BY DEF G!None
    <3>2. hasParam' = (arg.fn # "f") /\ hasParam' \in BOOLEAN
      BY <1>1, <2>4
    <3> QED
      BY <1>1, <1>2, <1>3, <2>4, <3>1, <3>2 DEF GpioInv, SlotStands, Assigning
  <2> QED
    BY <1>1, <2>1, <2>2, <2>3, <2>4 DEF Assigning
<1>6. EdgeStands' /\ G!ParamIsOwn'
  BY <1>1, <1>3 DEF GpioInv, EdgeStands, Clean, First, LastEdge, NextEdge, G!ParamIsOwn, Assigning
<1> QED
  BY <1>1, <1>4, <1>5, <1>6 DEF GpioInv

\* configureInterruptPinInput() and enableGpioInterrupt(): the slot is whole.
LEMMA GpioEnable ==
  ASSUME GpioInv, G!configure \/ G!chooseType \/ G!keepMode \/ G!keepType \/ G!arm
  PROVE  GpioInv'
<1>1. /\ ipc = "idle"
      /\ UNCHANGED <<callback, callbackParam, param, hasParam, level, ipc, called, attached, gpio_excuse,
                     s_pinMode>>
      /\ pull' = pull \/ pull' = G!pullOf(s_pinMode)
  BY DEF G!configure, G!chooseType, G!keepMode, G!keepType, G!arm, G!Sketch, G!slot, G!pad,
     G!interruptPull
<1>2. /\ gpio_pc \in {"configure", "type", "mode", "keep", "arm"}
      /\ gpio_pc' \in {"type", "mode", "keep", "arm", "idle"}
      /\ gpio_pc' = "idle" <=> gpio_pc = "arm"
      /\ gpio_pc # "arm" => gpio_enabled' = gpio_enabled /\ flag' = flag
      /\ gpio_pc \notin {"type", "arm"} => arg' = arg
      /\ gpio_pc = "type" => arg' = [arg EXCEPT !.type = G!firstType(arg.mode)]
      /\ gpio_pc = "arm" => gpio_enabled' = TRUE /\ flag' = FALSE
  BY DEF G!configure, G!chooseType, G!keepMode, G!keepType, G!arm, G!Sketch
<1>3. attached
  BY <1>2 DEF GpioInv, HandlerStands
<1>4. gpio_pc # "arm" => arg' \in [fn : G!Function, mode : G!Trigger, type : {"rising", "falling"}]
  <2>1. arg \in [fn : G!Function, mode : G!Trigger, type : {"rising", "falling"}]
    BY <1>2 DEF GpioInv, HandlerStands, Attaching, Assigning
  <2>2. G!firstType(arg.mode) \in {"rising", "falling"}
    BY DEF G!firstType
  <2> QED
    BY <1>2, <2>1, <2>2
<1>5. HandlerStands'
  <2>1. {gpio_enabled', attached', flag'} \subseteq BOOLEAN
    BY <1>1, <1>2, Zenon DEF GpioInv, HandlerStands
  <2> QED
    BY <1>1, <1>2, <1>3, <1>4, <2>1 DEF GpioInv, HandlerStands, Attaching, Assigning
<1>6. SlotStands'
  BY <1>1, <1>2, <1>3 DEF GpioInv, SlotStands, Assigning
<1>7. EdgeStands'
  <2>0. First => ~gpio_enabled
    BY <1>2 DEF GpioInv, HandlerStands, Attaching, Assigning, First
  <2>1. CASE G!configure
    BY <1>1, <2>0, <2>1 DEF G!configure, G!Sketch, GpioInv, EdgeStands, Clean, First
  <2>2. CASE G!chooseType
    <3>1. /\ gpio_pc' = "mode" /\ gpio_enabled' = gpio_enabled /\ arg'.mode = arg.mode
          /\ arg'.type = G!firstType(arg.mode)
      BY <1>2, <2>2 DEF G!chooseType, G!Sketch, GpioInv, HandlerStands, Attaching
    <3>2. arg'.mode = "CHANGE" => arg'.type = NextEdge'
      BY <1>1, <3>1 DEF G!firstType, NextEdge, GpioInv, EdgeStands
    <3> QED
      BY <1>1, <2>0, <3>1, <3>2 DEF GpioInv, EdgeStands, Clean, First
  <2>3. CASE G!keepMode \/ G!keepType
    <3>1. /\ gpio_pc = "mode" => gpio_pc' = "keep" /\ mode' = arg.mode
          /\ gpio_pc = "keep" => gpio_pc' = "arm" /\ mode' = mode /\ currentIntType' = arg.type
          /\ gpio_pc \in {"mode", "keep"} /\ gpio_enabled' = gpio_enabled /\ arg' = arg
      BY <2>3 DEF G!keepMode, G!keepType, G!Sketch
    <3> QED
      BY <1>1, <2>0, <3>1 DEF GpioInv, EdgeStands, Clean, First, NextEdge
  <2>4. CASE G!arm
    <3>1. /\ gpio_pc = "arm" /\ gpio_pc' = "idle" /\ type' = arg.type /\ flag' = FALSE
          /\ UNCHANGED <<mode, currentIntType>>
      BY <2>4 DEF G!arm, G!Sketch
    <3> QED
      BY <1>1, <3>1 DEF GpioInv, EdgeStands, Clean, First, NextEdge, LastEdge
  <2> QED
    BY <2>1, <2>2, <2>3, <2>4
<1>8. G!ParamIsOwn' /\ pull' = G!pullOf(s_pinMode')
  BY <1>1 DEF GpioInv, G!ParamIsOwn
<1> QED
  BY <1>5, <1>6, <1>7, <1>8 DEF GpioInv

LEMMA GpioDetach ==
  ASSUME GpioInv, G!detachInterrupt \/ G!clear
  PROVE  GpioInv'
<1>1. UNCHANGED <<mode, currentIntType, level, type, flag, ipc, called, gpio_excuse, s_pinMode, pull>>
  BY DEF G!detachInterrupt, G!clear, G!pad
<1>2. CASE G!detachInterrupt
  <2>1. /\ gpio_pc = "idle" /\ ipc = "idle" /\ gpio_pc' = "clear" /\ attached' = FALSE /\ gpio_enabled' = FALSE
        /\ UNCHANGED <<callback, callbackParam, param, hasParam>>
    BY <1>2 DEF G!detachInterrupt, G!Sketch, G!slot
  <2> QED
    BY <1>1, <2>1 DEF GpioInv, HandlerStands, SlotStands, EdgeStands, Clean, First, Attaching, Assigning,
       G!ParamIsOwn
<1>3. CASE G!clear
  <2>1. /\ gpio_pc = "clear" /\ ipc = "idle" /\ gpio_pc' = "idle" /\ hasParam' = FALSE
        /\ callback' = G!None /\ callbackParam' = G!None /\ UNCHANGED <<gpio_enabled, attached>>
    BY <1>3 DEF G!clear, G!Sketch
  <2>2. ~attached /\ ~gpio_enabled
    BY <2>1 DEF GpioInv, HandlerStands
  <2> QED
    BY <1>1, <2>1, <2>2 DEF GpioInv, HandlerStands, SlotStands, EdgeStands, Clean, First, Attaching,
       Assigning, G!ParamIsOwn
<1> QED
  BY <1>2, <1>3

LEMMA GpioEdge ==
  ASSUME GpioInv, G!Edge
  PROVE  GpioInv'
<1>1. /\ level' = 1 - level
      /\ flag' = (flag \/ (gpio_enabled /\ type = NextEdge))
      /\ gpio_excuse' = IF ipc # "idle" \/ flag \/ gpio_pc # "idle" THEN gpio_excuse \cup {"quick"}
                        ELSE IF gpio_enabled /\ type = NextEdge THEN gpio_excuse \ {"quick"} ELSE gpio_excuse
      /\ UNCHANGED <<callback, callbackParam, param, hasParam, mode, currentIntType, type, gpio_enabled,
                     gpio_pc, arg, ipc, called, attached, s_pinMode, pull>>
  BY DEF G!Edge, NextEdge, G!slot, G!pad
<1>2. flag' \in BOOLEAN /\ level \in {0, 1}
  BY <1>1 DEF GpioInv, EdgeStands
<1>3. /\ "again" \in gpio_excuse <=> "again" \in gpio_excuse'
      /\ "swap" \in gpio_excuse <=> "swap" \in gpio_excuse'
      /\ Clean' => First /\ ipc = "idle" /\ ~flag /\ gpio_pc = "idle"
      /\ Clean' /\ ~Clean => gpio_enabled /\ type = NextEdge
  BY <1>1 DEF Clean, First
<1>4. HandlerStands' /\ SlotStands' /\ G!ParamIsOwn'
  BY <1>1, <1>2, <1>3 DEF GpioInv, HandlerStands, SlotStands, G!ParamIsOwn
<1>5. level' \in {0, 1} /\ LastEdge' = NextEdge
  BY <1>1, <1>2 DEF LastEdge, NextEdge
<1>6. EdgeStands'
  <2> SUFFICES ASSUME Clean', gpio_enabled', mode' = "CHANGE"
               PROVE  ~(flag' /\ ipc' = "rearm") /\ type' = LastEdge' /\ flag'
    BY <1>1, <1>3, <1>5 DEF GpioInv, EdgeStands, First
  <2>1. type = NextEdge /\ ipc = "idle"
    BY <1>1, <1>3 DEF GpioInv, EdgeStands
  <2> QED
    BY <1>1, <1>5, <2>1
<1> QED
  BY <1>1, <1>4, <1>6 DEF GpioInv

\* The handler reads the slot at whatever statement of the sketch it comes.
LEMMA GpioHandler ==
  ASSUME GpioInv, G!Handler
  PROVE  GpioInv'
<1>1. /\ flag /\ gpio_enabled /\ ipc = "idle" /\ flag' = FALSE /\ ipc' = "rearm"
      /\ called' = IF hasParam /\ callbackParam # G!None THEN <<callbackParam, param>>
                   ELSE <<callback, G!None>>
      /\ UNCHANGED <<callback, callbackParam, param, hasParam, mode, currentIntType, level, type,
                     gpio_enabled, gpio_pc, arg, attached, gpio_excuse, s_pinMode, pull>>
  BY DEF G!Handler, G!slot, G!pad
<1>2. HandlerStands' /\ SlotStands'
  BY <1>1 DEF GpioInv, HandlerStands, SlotStands
<1>3. EdgeStands'
  BY <1>1 DEF GpioInv, EdgeStands, Clean, First, LastEdge, NextEdge
<1>4. G!ParamIsOwn'
  <2> SUFFICES ASSUME "swap" \notin gpio_excuse
               PROVE  called' \in G!Own
    BY <1>1 DEF G!ParamIsOwn
  <2>1. callback \in {G!None, "f"} /\ callbackParam \in {G!None, "g1", "g2"}
    BY DEF GpioInv, SlotStands
  <2>2. hasParam /\ callbackParam # G!None => param = G!ParamOf[callbackParam]
    <3>1. gpio_pc \in {"param", "hasParam"} => arg.fn \in {"f", "g1", "g2"}
      BY DEF GpioInv, HandlerStands, Attaching, Assigning, G!Function
    <3> QED
      BY <3>1 DEF GpioInv, SlotStands, Assigning
  <2>3. G!ParamOf["g1"] = "p1" /\ G!ParamOf["g2"] = "p2"
    BY DEF G!ParamOf
  <2> QED
    BY <1>1, <2>1, <2>2, <2>3 DEF G!Own
<1> QED
  BY <1>1, <1>2, <1>3, <1>4 DEF GpioInv

LEMMA GpioRearm ==
  ASSUME GpioInv, G!rearm
  PROVE  GpioInv'
<1>1. /\ ipc = "rearm" /\ ipc' = "idle"
      /\ UNCHANGED <<callback, callbackParam, param, hasParam, mode, level, gpio_enabled, flag, gpio_pc, arg,
                     called, attached, s_pinMode, pull>>
  BY DEF G!rearm, G!slot, G!pad
<1>2. /\ mode = "CHANGE" => currentIntType' = G!otherEdge(currentIntType) /\ type' = currentIntType'
      /\ mode # "CHANGE" => UNCHANGED <<currentIntType, type, gpio_excuse>>
  BY DEF G!rearm
<1>3. /\ "swap" \in gpio_excuse <=> "swap" \in gpio_excuse'
      /\ gpio_pc # "idle" => gpio_excuse' = gpio_excuse
      /\ First => gpio_excuse' = gpio_excuse
      /\ Clean' => Clean /\ First
  BY DEF G!rearm, Clean, First
<1>4. HandlerStands' /\ SlotStands' /\ G!ParamIsOwn'
  BY <1>1, <1>3 DEF GpioInv, HandlerStands, SlotStands, G!ParamIsOwn, Attaching, Assigning
<1>5. EdgeStands'
  <2>0. gpio_enabled
    BY <1>1 DEF GpioInv, HandlerStands
  <2>1. First => gpio_pc \notin {"mode", "keep", "arm"}
    BY <2>0 DEF GpioInv, HandlerStands, Attaching, First
  <2>2. Clean /\ mode = "CHANGE" => type = currentIntType /\ ~flag /\ type = LastEdge
    BY <1>1, <2>0 DEF GpioInv, EdgeStands, First, Clean
  <2>3. Clean' /\ mode = "CHANGE" => type' = NextEdge' /\ ~flag'
    BY <1>1, <1>2, <1>3, <2>2 DEF LastEdge, NextEdge, G!otherEdge, GpioInv, EdgeStands
  <2>4. First' /\ gpio_pc # "idle" => First
    BY <1>3 DEF First
  <2>5. Clean' => First
    BY <1>3
  <2> QED
    BY <1>1, <1>2, <1>3, <2>1, <2>3, <2>4, <2>5 DEF GpioInv, EdgeStands, First
<1> QED
  BY <1>1, <1>4, <1>5 DEF GpioInv

\* At whatever statement of a call the handler runs, it calls a function with
\* its own parameter; a CHANGE interrupt waits for the edge that comes next, or
\* does so again once the next seen edge or two are handled; and the pull stays
\* what pinMode() made it: for any number of calls and edges, with the exceptions
\* that ParamIsOwn and NextEdgeArmed name.
THEOREM InterruptSafe == PartsSpec => []InterruptIsOwn
<1>1. G!Init => GpioInv
  BY GpioInit
<1>2. GpioInv /\ [G!Next]_G!vars => GpioInv'
  <2> SUFFICES ASSUME GpioInv, G!Next \/ UNCHANGED G!vars
               PROVE  GpioInv'
    OBVIOUS
  <2>1. CASE UNCHANGED G!vars
    BY <2>1, GpioSame DEF G!vars, G!slot, G!pad, GpioInv
  <2>2. ASSUME NEW m \in G!PinMode, G!pinMode(m)
        PROVE  GpioInv'
    BY <2>2, GpioSame DEF G!pinMode, G!slot
  <2> QED
    BY <2>1, <2>2, GpioAttach, GpioAssign, GpioEnable, GpioDetach, GpioEdge, GpioHandler, GpioRearm
       DEF G!Next
<1>3. GpioInv => InterruptIsOwn
  <2>1. GpioInv => G!NextEdgeArmed
    BY DEF GpioInv, EdgeStands, NextEdge, Clean, G!NextEdgeArmed
  <2> QED
    BY <2>1 DEF InterruptIsOwn, GpioInv, G!PullKept, G!InterruptIsOwn
<1> QED
  BY <1>1, <1>2, <1>3, PartsMove, PTL DEF PartsSpec

------------------------------------------------------------------------------
(***************************************************************************)
(* Wire.                                                                   *)
(***************************************************************************)

Popping == {"popRead", "popWrite"}
Gone == {"none", "stuck"}

\* The event of the transfer that the thread waits for.
Awaited == [mode |-> IF tpc = "popRead" THEN "read" ELSE "write",
            len |-> IF tpc = "popRead" THEN buffer ELSE 0]

\* The thread has a queue for as long as it runs.
QueueStands ==
  /\ thread \/ tpc = "none"
  /\ tpc \notin Gone => queue # W!NoQueue
  /\ queue = W!NoQueue \/ queue \in Seq(W!Event)
  /\ due \in Seq(W!Event) /\ buffer \in MessageLen \cup {0}

\* As long as no event has come too late, the one of the transfer at hand is
\* the only one there is, in the queue or on its way to it.
OneEvent ==
  ~late => IF tpc \in Popping
           THEN \/ queue = <<>> /\ due = <<Awaited>>
                \/ queue = <<Awaited>> /\ due = <<>>
           ELSE queue \in {<<>>, W!NoQueue} /\ due = <<>>

WireInv == QueueStands /\ OneEvent /\ verdict = "ok"

\* An event is not what stands for no queue.
LEMMA QueuesDiffer == W!NoQueue \notin Seq(W!Event) /\ <<>> # W!NoQueue
<1>1. W!NoQueue[1].mode = "none" /\ W!NoQueue # <<>> /\ Len(W!NoQueue) = 1
  BY DEF W!NoQueue
<1>2. ASSUME W!NoQueue \in Seq(W!Event)
      PROVE  FALSE
  <2>1. W!NoQueue[1] \in W!Event
    BY <1>1, <1>2
  <2> QED
    BY <1>1, <2>1 DEF W!Event
<1> QED
  BY <1>1, <1>2

LEMMA WireInit == W!Init => WireInv
BY DEF W!Init, WireInv, QueueStands, OneEvent, Popping, Gone

\* Steps that touch no event and do not start or end a transfer.
LEMMA WireSame ==
  ASSUME WireInv, UNCHANGED <<queue, due, late, buffer, verdict>>,
         tpc' = tpc \/ (tpc \notin Popping /\ tpc' \notin Popping),
         tpc \in Gone => tpc' \in Gone, thread' \/ tpc' = "none"
  PROVE  WireInv'
<1>1. Awaited' = Awaited \/ tpc' \notin Popping
  BY DEF Awaited
<1> QED
  BY <1>1 DEF WireInv, QueueStands, OneEvent

\* initSlaveEventQueue() and the thread.
LEMMA WireServe ==
  ASSUME WireInv, NEW made \in BOOLEAN, W!serve(made), UNCHANGED <<buffer, verdict>>
  PROVE  WireInv'
<1>1. /\ queue' = IF queue = W!NoQueue THEN <<>> ELSE queue
      /\ UNCHANGED <<due, late>>
      /\ thread => UNCHANGED <<thread, tpc>>
      /\ ~thread => thread' = made /\ tpc' = IF made THEN "top" ELSE tpc
  BY DEF W!serve
<1>2. queue' # W!NoQueue /\ queue' \in Seq(W!Event)
  BY <1>1, QueuesDiffer DEF WireInv, QueueStands
<1>3. ~thread => tpc = "none"
  BY DEF WireInv, QueueStands
<1>4. QueueStands'
  BY <1>1, <1>2, <1>3 DEF WireInv, QueueStands
<1>5. OneEvent'
  <2>1. CASE thread
    <3>1. tpc' = tpc /\ Awaited' = Awaited
      BY <1>1, <2>1 DEF Awaited
    <3>2. tpc \in Popping => queue' = queue
      BY <1>1 DEF WireInv, QueueStands, Popping, Gone
    <3> QED
      BY <1>1, <3>1, <3>2 DEF WireInv, OneEvent
  <2>2. CASE ~thread
    <3>1. tpc \notin Popping /\ tpc' \notin Popping
      BY <1>1, <1>3, <2>2 DEF Popping
    <3> QED
      BY <1>1, <3>1 DEF WireInv, OneEvent
  <2> QED
    BY <2>1, <2>2
<1> QED
  BY <1>4, <1>5 DEF WireInv

\* The sketch's calls, but for what end() does when the thread has gone.
LEMMA WireSketch ==
  ASSUME WireInv, W!Sketch
  PROVE  WireInv'
<1>0. thread \/ tpc = "none"
  BY DEF WireInv, QueueStands
<1>1. ASSUME NEW slave \in BOOLEAN, NEW ok \in BOOLEAN, NEW made \in BOOLEAN,
             W!begin(slave, ok, made) \/ W!beginAgain(ok, made)
      PROVE  WireInv'
  <2>1. UNCHANGED <<buffer, verdict>>
    BY <1>1 DEF W!begin, W!beginAgain, W!rx
  <2>2. W!serve(made) \/ UNCHANGED <<queue, due, late, thread, tpc>>
    BY <1>1 DEF W!begin, W!beginAgain, W!up, W!noService, W!driver
  <2> QED
    BY <1>0, <2>1, <2>2, WireServe, WireSame
<1>2. ASSUME NEW receive \in BOOLEAN, NEW request \in BOOLEAN, NEW made \in BOOLEAN,
             W!register(receive, request, made)
      PROVE  WireInv'
  <2>1. UNCHANGED <<buffer, verdict>>
    BY <1>2 DEF W!register, W!rx
  <2>2. W!serve(made) \/ UNCHANGED <<queue, due, late, thread, tpc>>
    BY <1>2 DEF W!register, W!noService
  <2> QED
    BY <1>0, <2>1, <2>2, WireServe, WireSame
<1>3. CASE W!end \/ W!endTransmission \/ W!read
           \/ \E k \in MessageLen : W!write(k) \/ \E ok \in BOOLEAN : W!requestFrom(k, ok)
  <2>1. UNCHANGED <<queue, due, late, buffer, verdict, tpc, thread>>
    BY <1>3 DEF W!end, W!endTransmission, W!read, W!write, W!requestFrom, W!driver, W!round, W!rx
  <2> QED
    BY <1>0, <2>1, WireSame
<1> QED
  BY <1>1, <1>2, <1>3 DEF W!Sketch

\* end() takes down the queue of a thread that has gone.
LEMMA WireEnded ==
  ASSUME WireInv, W!Ended
  PROVE  WireInv'
<1> PICK ok \in BOOLEAN, made \in BOOLEAN : W!ended(ok, made)
  BY DEF W!Ended
<1>1. tpc \in Gone /\ due' = <<>> /\ UNCHANGED <<buffer, verdict>>
  BY DEF W!ended, W!joined, Gone, W!rx
<1>2. \/ queue' = W!NoQueue /\ thread' = (tpc = "stuck") /\ tpc' = tpc
      \/ queue' = <<>> /\ tpc = "stuck" /\ UNCHANGED <<thread, tpc>>
      \/ queue' = <<>> /\ tpc # "stuck" /\ thread' = made /\ tpc' = IF made THEN "top" ELSE "none"
  BY DEF W!ended
<1>3. /\ thread' \/ tpc' = "none"
      /\ tpc' \notin Gone => queue' # W!NoQueue
      /\ tpc' \notin Popping /\ queue' \in {<<>>, W!NoQueue}
  BY <1>1, <1>2, QueuesDiffer DEF Gone, Popping, WireInv, QueueStands
<1>4. QueueStands'
  <2>0. <<>> \in Seq(W!Event)
    OBVIOUS
  <2>1. queue' = W!NoQueue \/ queue' \in Seq(W!Event)
    BY <1>3, <2>0, Zenon
  <2>2. due' \in Seq(W!Event)
    BY <1>1
  <2> QED
    BY <1>1, <1>3, <2>1, <2>2 DEF WireInv, QueueStands
<1> QED
  BY <1>1, <1>3, <1>4 DEF WireInv, OneEvent

\* The event of the transfer arrives.
LEMMA WirePosted ==
  ASSUME WireInv, W!Posted
  PROVE  WireInv'
<1>1. /\ due # <<>> /\ queue # W!NoQueue /\ queue' = Append(queue, Head(due)) /\ due' = Tail(due)
      /\ UNCHANGED <<late, tpc, thread, buffer, verdict>>
  BY DEF W!Posted, W!round, W!rx
<1>2. queue \in Seq(W!Event) /\ due \in Seq(W!Event)
  BY <1>1 DEF WireInv, QueueStands
<1>3. queue' \in Seq(W!Event) /\ due' \in Seq(W!Event)
  BY <1>1, <1>2
<1>4. QueueStands'
  BY <1>1, <1>3, QueuesDiffer DEF WireInv, QueueStands
<1>5. OneEvent'
  <2> SUFFICES ASSUME ~late
               PROVE  tpc \in Popping /\ queue' = <<Awaited>> /\ due' = <<>>
    BY <1>1 DEF OneEvent, Awaited
  <2>1. tpc \in Popping /\ queue = <<>> /\ due = <<Awaited>>
    BY <1>1 DEF WireInv, OneEvent
  <2> QED
    BY <1>1, <2>1
<1> QED
  BY <1>1, <1>4, <1>5 DEF WireInv

\* A transfer begins: its event is on its way, and there is no other.
LEMMA WireTransfer ==
  ASSUME W!ConstantsOK, WireInv, NEW ok \in BOOLEAN, W!slaveRead(ok) \/ W!slaveWrite(ok)
  PROVE  WireInv'
<1>1. /\ UNCHANGED <<queue, late, thread, verdict>>
      /\ tpc \in {"slaveRead", "slaveWrite"}
  BY DEF W!slaveRead, W!slaveWrite, W!idle, W!rx
<1>2. CASE ~ok
  <2>1. tpc' = "stage" /\ UNCHANGED <<due, buffer>>
    BY <1>2 DEF W!slaveRead, W!slaveWrite, W!rx
  <2> QED
    BY <1>1, <2>1, WireSame DEF Popping, Gone, WireInv, QueueStands
<1>3. CASE ok
  <2>1. /\ tpc' \in Popping /\ due' = Append(due, Awaited')
        /\ buffer' \in MessageLen \cup {0} /\ Awaited' \in W!Event
    <3>1. CASE W!slaveRead(ok)
      <4>1. PICK n \in MessageLen : buffer' = n /\ due' = Append(due, [mode |-> "read", len |-> n])
        BY <1>3, <3>1 DEF W!slaveRead
      <4>2. tpc' = "popRead"
        BY <1>3, <3>1 DEF W!slaveRead
      <4> QED
        BY <4>1, <4>2 DEF Popping, Awaited, W!Event
    <3>2. CASE W!slaveWrite(ok)
      BY <1>3, <3>2 DEF W!slaveWrite, W!rx, Popping, Awaited, W!Event, WireInv, QueueStands
    <3> QED
      BY <3>1, <3>2
  <2>2. QueueStands'
    BY <1>1, <2>1 DEF WireInv, QueueStands, Gone, Popping
  <2>3. ~late => queue = <<>> /\ due = <<>>
    BY <1>1 DEF WireInv, OneEvent, QueueStands, Popping, Gone
  <2>4. OneEvent'
    BY <1>1, <2>1, <2>3 DEF OneEvent
  <2> QED
    BY <1>1, <2>2, <2>4 DEF WireInv
<1> QED
  BY <1>2, <1>3

\* The thread takes the event of its transfer, or gives up on it.
LEMMA WirePop ==
  ASSUME W!ConstantsOK, WireInv, W!popRead \/ W!popWrite
  PROVE  WireInv'
<1>1. /\ tpc \in Popping /\ tpc' \in {"onReceive", "stage"} /\ queue' = W!afterPop
      /\ late' = (late \/ queue = <<>>)
      /\ UNCHANGED <<due, thread, buffer>>
  BY DEF W!popRead, W!popWrite, W!takenByWrite, W!idle, W!rx, Popping
<1>2. queue \in Seq(W!Event) /\ queue' \in Seq(W!Event)
  BY <1>1 DEF WireInv, QueueStands, Popping, Gone, W!afterPop
<1>3. QueueStands'
  BY <1>1, <1>2, QueuesDiffer DEF WireInv, QueueStands, Popping, Gone
<1>4. ~late' => ~late /\ queue = <<Awaited>> /\ due = <<>>
  BY <1>1 DEF WireInv, OneEvent
<1>5. OneEvent'
  <2>1. ~late' => queue' = <<>>
    BY <1>1, <1>4 DEF W!afterPop
  <2> QED
    BY <1>1, <1>4, <2>1 DEF OneEvent, Popping
<1>6. verdict' = "ok"
  <2>1. CASE W!popWrite
    BY <2>1 DEF W!popWrite, W!rx, WireInv
  <2>2. CASE W!popRead
    <3>1. ~late' => W!popped = [mode |-> "read", len |-> buffer]
      <4>1. tpc = "popRead"
        BY <2>2 DEF W!popRead
      <4> QED
        BY <1>4, <4>1 DEF W!popped, Awaited
    <3>2. buffer \in Nat /\ BufferSize \in Nat
      BY DEF W!ConstantsOK, WireInv, QueueStands
    <3> QED
      BY <2>2, <3>1, <3>2 DEF W!popRead
  <2> QED
    BY <2>1, <2>2
<1> QED
  BY <1>3, <1>5, <1>6 DEF WireInv

\* The other steps of the thread.
LEMMA WireThread ==
  ASSUME W!ConstantsOK, WireInv, W!Thread \/ W!endInCallback
  PROVE  WireInv'
<1>0. tpc # "none" => thread
  BY DEF WireInv, QueueStands
<1>1. CASE W!exit \/ W!top \/ W!received \/ W!endInCallback \/ \E k \in {0, 1} : W!onRequest(k)
  <2>1. /\ UNCHANGED <<queue, due, late, buffer, verdict, thread>>
        /\ tpc \notin Popping /\ tpc' \notin Popping /\ tpc \notin Gone
    BY <1>1 DEF W!exit, W!top, W!received, W!endInCallback, W!onRequest, W!driver, W!rx, W!idle,
       Popping, Gone
  <2> QED
    BY <1>0, <2>1, WireSame DEF Gone
<1>2. CASE W!stage
  <2>1. /\ UNCHANGED <<queue, due, late, buffer, verdict, thread>>
        /\ tpc = "stage" /\ tpc' \in {"top", "stage", "slaveRead", "onRequest"}
    BY <1>2 DEF W!stage, W!driver, W!idle
  <2> QED
    BY <1>0, <2>1, WireSame DEF Gone, Popping
<1> QED
  BY <1>1, <1>2, WireTransfer, WirePop DEF W!Thread

\* A message that the bus received reaches onReceive() with its own length,
\* and the thread pops from a queue that exists: for every buffer size, every
\* set of messages and any number of calls, whoever ends the bus and brings it
\* up again.
THEOREM MessageSafe ==
  PartsSpec => []MessageDelivered
<1>1. W!Init => WireInv
  BY WireInit
<1>2. WireInv /\ [W!Next]_W!vars => WireInv'
  <2> SUFFICES ASSUME WireInv, W!Next \/ UNCHANGED W!vars
               PROVE  WireInv'
    OBVIOUS
  <2>1. CASE UNCHANGED W!vars \/ \E what \in {"write", "read"} : W!Master(what)
    <3>1. UNCHANGED <<queue, due, late, buffer, verdict, tpc, thread>>
      BY <2>1 DEF W!vars, W!Master, W!driver, W!round, W!rx
    <3> QED
      BY <3>1, WireSame DEF WireInv, QueueStands
  <2> QED
    BY <2>1, WireSketch, WireEnded, WirePosted, WireThread, BoardAssumption DEF W!Next
<1>3. WireInv => MessageDelivered
  BY DEF MessageDelivered, WireInv, QueueStands, Gone, W!MessageDelivered, W!QueueLives
<1> QED
  BY <1>1, <1>2, <1>3, PartsMove, PTL DEF PartsSpec
===============================================================================
