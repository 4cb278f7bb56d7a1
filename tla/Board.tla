------------------------------- MODULE Board -------------------------------
(* The drivers of the board core, each by itself: HardwareTimer, Ticker,  *)
(* the interrupt of a pin, and Wire.  They have no variable in common.    *)
EXTENDS HardwareTimer

CONSTANTS
  MaxArm, CallbackBlocks, InitMayFail, NoCallback,
  gpio_MaxCalls, MaxEdges,
  BufferSize, MessageLen, wire_MaxCalls, MaxMessages

VARIABLES
  part,  \* the component that runs: it is chosen at the start
  ticker_m_callback, m_repeat, m_active, timer, leaked, arming, count, user,
  call, thunk, current, fired, once, dropped,
  callback, callbackParam, param, hasParam, mode, currentIntType, s_pinMode,
  pull, input, level, type, gpio_enabled, flag, gpio_pc, arg, ipc, called,
  attached, gpio_excuse, gpio_calls, edges,
  wire_m_initialized, m_slave_mode, m_slave_thread_running, thread, queue,
  m_next_slave_event_write, m_tx_length, m_rx_length, m_rx_index,
  m_on_receive, m_on_request, wire_pc, tpc, left, wants, due, buffer, verdict,
  late, wire_calls, messages

T == INSTANCE Ticker WITH
  m_callback <- ticker_m_callback
G == INSTANCE Gpio WITH
  MaxCalls <- gpio_MaxCalls, enabled <- gpio_enabled, pc <- gpio_pc,
  excuse <- gpio_excuse, calls <- gpio_calls
W == INSTANCE Wire WITH
  MaxCalls <- wire_MaxCalls, m_initialized <- wire_m_initialized,
  pc <- wire_pc, calls <- wire_calls

ASSUME BoardAssumption == T!ConstantsOK /\ G!ConstantsOK /\ W!ConstantsOK

tickerVars == <<
  ticker_m_callback, m_repeat, m_active, timer, leaked, arming, count, user,
  call, thunk, current, fired, once, dropped>>
gpioVars == <<
  callback, callbackParam, param, hasParam, mode, currentIntType, s_pinMode,
  pull, input, level, type, gpio_enabled, flag, gpio_pc, arg, ipc, called,
  attached, gpio_excuse, gpio_calls, edges>>
wireVars == <<
  wire_m_initialized, m_slave_mode, m_slave_thread_running, thread, queue,
  m_next_slave_event_write, m_tx_length, m_rx_length, m_rx_index,
  m_on_receive, m_on_request, wire_pc, tpc, left, wants, due, buffer, verdict,
  late, wire_calls, messages>>

Part == {"timer", "ticker", "gpio", "wire"}
allVars == <<part, vars, tickerVars, gpioVars, wireVars>>

PartsInit ==
  /\ part \in Part
  /\ Init /\ T!Init /\ G!Init /\ W!Init
  /\ part # "gpio" => level = 0

\* One component moves, with its own steps; the others rest.
PartsNext ==
  \/ part = "timer" /\ Next /\ UNCHANGED <<part, tickerVars, gpioVars, wireVars>>
  \/ part = "ticker" /\ T!Next /\ UNCHANGED <<part, vars, gpioVars, wireVars>>
  \/ part = "gpio" /\ G!Next /\ UNCHANGED <<part, vars, tickerVars, wireVars>>
  \/ part = "wire" /\ W!Next /\ UNCHANGED <<part, vars, tickerVars, gpioVars>>

PartsSpec ==
  /\ PartsInit /\ [][PartsNext]_allVars
  /\ WF_tickerVars(part = "ticker" /\ T!Sketch)
  /\ WF_tickerVars(part = "ticker" /\ T!TimerTask)
  /\ WF_wireVars(part = "wire" /\ W!Thread)
  /\ WF_wireVars(part = "wire" /\ W!Ended)

\* once_ms() calls its callback at most once, although the RTOS timer behind
\* it is periodic, and between calls active() agrees with that timer.
OnceAtMostOnce == T!OnceAtMostOnce /\ T!ActiveIsRunning

\* gpio_isr_handler() never calls a function with the parameter of another,
\* although attachInterrupt() rewrites the slot with the interrupt enabled
\* (excepted a function with a parameter over another such); a CHANGE interrupt
\* that missed an edge, or was attached over another, waits for the edge that
\* comes next again once an edge or two have been handled; and the pull that
\* the sketch asked for survives.
InterruptIsOwn == G!InterruptIsOwn

\* onReceive() gets the messages of the master with their lengths, and the
\* slave thread never uses the event queue after end() has deleted it.
MessageDelivered == W!MessageDelivered /\ W!QueueLives

\* A one-shot Ticker does not stay armed, whatever the sketch and the callback
\* call meanwhile, and Wire's end() returns: the slave thread that it waits for
\* leaves its loop.
WaitsEnd == T!OnceCompletes /\ W!EndReturns
============================================================================
