-------------------------------- MODULE Ticker -------------------------------
(***************************************************************************)
(* A Ticker object shared by the sketch, which runs in the loop task, and  *)
(* by timerThunk(), which runs in the RTOS timer task.                     *)
(*                                                                         *)
(* The timer task has the higher priority: what it does is not interrupted *)
(* by the sketch unless the user's callback blocks (CallbackBlocks), and   *)
(* it may run between any two statements of the sketch's call.  The RTOS   *)
(* timer is periodic: only the thunk's trailing detach() makes once_ms() a *)
(* one-shot.                                                               *)
(*                                                                         *)
(* Every successful call of start() is an arming, numbered 1, 2, ...       *)
(***************************************************************************)
EXTENDS Naturals, FiniteSets

CONSTANTS MaxArm,         \* bound: armings in a behaviour
          CallbackBlocks, \* may the user's callback block (delay(), a lock)?
          InitMayFail,    \* may rtos_init_timer() or rtos_start_timer() fail?
          NoCallback      \* the null m_callback


(***************************************************************************)
(* What a user's callback does with the Ticker that calls it: nothing,     *)
(* once_ms() or attach_ms() again, or detach().                            *)
(***************************************************************************)
Script == {"plain", "rearmOnce", "rearmRepeat", "detach"}

\* What the constants have to be; the module of a run assumes it.
ConstantsOK ==
  /\ MaxArm \in Nat \ {0}
  /\ {CallbackBlocks, InitMayFail} \subseteq BOOLEAN
  /\ NoCallback \notin Script

VARIABLES
  m_callback, m_repeat, m_active, \* the members of the same names
  timer,   \* m_timer: "none", "stopped" or "running"
  leaked,  \* has rtos_init_timer() overwritten the handle of a running timer?
  arming,  \* number of the arming that m_callback belongs to, 0 if none yet
  count,   \* armings so far
  user,    \* where the sketch is inside start() or detach(), "idle" outside
  call,    \* the call it is inside
  thunk,   \* where the timer task is inside timerThunk(), "idle" outside
  current, \* the callback that the thunk is calling
  fired,   \* history: the number of calls of each arming's callback, 2 for more
  once,    \* history: the armings made by once_ms()
  dropped  \* history: armings that the thunk's own detach() took down unfired

members == <<m_callback, m_repeat, m_active, timer, leaked, arming>>
history == <<fired, once, dropped>>
vars == <<m_callback, m_repeat, m_active, timer, leaked, arming, count, user, call,
          thunk, current, fired, once, dropped>>

Arming == 1 .. MaxArm
Call == [kind : {"start"}, repeat : BOOLEAN, callback : Script]
          \cup {[kind |-> "detach"]}

\* mutant: the constructor leaves m_active uninitialised
InitUninitialised ==
  /\ m_callback = NoCallback /\ m_repeat = FALSE /\ m_active \in BOOLEAN
  /\ timer = "none" /\ leaked = FALSE /\ arming = 0 /\ count = 0
  /\ user = "idle" /\ call = [kind |-> "detach"]
  /\ thunk = "idle" /\ current = NoCallback
  /\ fired = [a \in Arming |-> 0] /\ once = {} /\ dropped = {}

Init ==
  /\ m_callback = NoCallback /\ m_repeat = FALSE /\ m_active = FALSE
  /\ timer = "none" /\ leaked = FALSE /\ arming = 0 /\ count = 0
  /\ user = "idle" /\ call = [kind |-> "detach"]
  /\ thunk = "idle" /\ current = NoCallback
  /\ fired = [a \in Arming |-> 0] /\ once = {} /\ dropped = {}

------------------------------------------------------------------------------
(***************************************************************************)
(* The sketch's calls, one statement at a time.  start() begins with       *)
(* detach().                                                               *)
(***************************************************************************)
\* While the callback blocks, before ("callback") or after ("return") it has
\* used the Ticker, the sketch runs.
SketchRuns == thunk = "idle" \/ CallbackBlocks

CallStart(repeat, callback) ==
  /\ SketchRuns /\ user = "idle" /\ count < MaxArm
  /\ call' = [kind |-> "start", repeat |-> repeat, callback |-> callback]
  /\ user' = "test"
  /\ UNCHANGED <<members, count, thunk, current, history>>

CallDetach ==
  /\ SketchRuns /\ user = "idle"
  /\ call' = [kind |-> "detach"]
  /\ user' = "test"
  /\ UNCHANGED <<members, count, thunk, current, history>>

AfterDetach == IF call.kind = "start" THEN "assign" ELSE "idle"

DetachTest ==
  /\ SketchRuns /\ user = "test"
  /\ user' = IF m_active THEN "stop" ELSE AfterDetach
  /\ UNCHANGED <<members, count, call, thunk, current, history>>

DetachStop ==
  /\ SketchRuns /\ user = "stop"
  /\ timer' = IF timer = "running" THEN "stopped" ELSE timer
  /\ user' = "deinit"
  /\ UNCHANGED <<m_callback, m_repeat, m_active, leaked, arming, count, call,
                 thunk, current, history>>

DetachDeinit ==
  /\ SketchRuns /\ user = "deinit"
  /\ timer' = "none"
  /\ user' = "clearCallback"
  /\ UNCHANGED <<m_callback, m_repeat, m_active, leaked, arming, count, call,
                 thunk, current, history>>

DetachClearCallback ==
  /\ SketchRuns /\ user = "clearCallback"
  /\ m_callback' = NoCallback
  /\ user' = "clearActive"
  /\ UNCHANGED <<m_repeat, m_active, timer, leaked, arming, count, call, thunk,
                 current, history>>

DetachClearActive ==
  /\ SketchRuns /\ user = "clearActive"
  /\ m_active' = FALSE
  /\ user' = AfterDetach
  /\ UNCHANGED <<m_callback, m_repeat, timer, leaked, arming, count, call, thunk,
                 current, history>>

(***************************************************************************)
(* rtos_init_timer() and rtos_start_timer(): their results are not looked  *)
(* at.  A timer that still runs under the old handle is beyond reach.      *)
(***************************************************************************)
Launched == IF InitMayFail THEN {"none", "stopped", "running"} ELSE {"running"}

StartAssign ==
  /\ SketchRuns /\ user = "assign"
  /\ m_callback' = call.callback
  /\ m_repeat' = call.repeat
  /\ m_active' = TRUE
  /\ count' = count + 1
  /\ arming' = count + 1
  /\ once' = IF call.repeat THEN once ELSE once \cup {count + 1}
  /\ user' = "launch"
  /\ UNCHANGED <<timer, leaked, call, thunk, current, fired, dropped>>

StartLaunch ==
  /\ SketchRuns /\ user = "launch"
  /\ timer' \in Launched
  /\ leaked' = (leaked \/ timer = "running")
  /\ user' = "idle"
  /\ UNCHANGED <<m_callback, m_repeat, m_active, arming, count, call, thunk,
                 current, history>>

------------------------------------------------------------------------------
(***************************************************************************)
(* The timer task: timerThunk() and, inside the callback, the same calls   *)
(* made without interruption.                                              *)
(***************************************************************************)
Fire ==
  /\ thunk = "idle" /\ (timer = "running" \/ leaked)
  /\ m_callback # NoCallback
  /\ thunk' = "callback"
  /\ current' = m_callback
  /\ fired' = [fired EXCEPT ![arming] = IF @ < 2 THEN @ + 1 ELSE 2]
  /\ UNCHANGED <<members, count, user, call, once, dropped>>

\* An arming is left for the callback: the bound also counts the sketch's own.
RearmFits == count + (IF user \in {"idle", "launch"} \/ call.kind = "detach"
                      THEN 0 ELSE 1) < MaxArm

CallbackPlain ==
  /\ thunk = "callback"
  /\ current = "plain" \/ (current \in {"rearmOnce", "rearmRepeat"} /\ ~RearmFits)
  /\ thunk' = "return"
  /\ UNCHANGED <<members, count, user, call, current, history>>

\* mutant: the RTOS timer is neither stopped nor deleted
detachKeepsTimer ==
  IF m_active
  THEN m_callback' = NoCallback /\ m_active' = FALSE /\ UNCHANGED timer
  ELSE UNCHANGED <<timer, m_callback, m_active>>

detach ==
  IF m_active
  THEN timer' = "none" /\ m_callback' = NoCallback /\ m_active' = FALSE
  ELSE UNCHANGED <<timer, m_callback, m_active>>

CallbackDetach ==
  /\ thunk = "callback" /\ current = "detach"
  /\ detach
  /\ thunk' = "return"
  /\ UNCHANGED <<m_repeat, leaked, arming, count, user, call, current, history>>

CallbackRearm ==
  /\ thunk = "callback" /\ current \in {"rearmOnce", "rearmRepeat"}
  /\ RearmFits
  /\ m_repeat' = (current = "rearmRepeat")
  /\ m_callback' = "plain" /\ m_active' = TRUE
  /\ timer' \in Launched
  /\ leaked' = (leaked \/ (~m_active /\ timer = "running"))
  /\ count' = count + 1 /\ arming' = count + 1
  /\ once' = IF current = "rearmRepeat" THEN once ELSE once \cup {count + 1}
  /\ thunk' = "return"
  /\ UNCHANGED <<user, call, current, fired, dropped>>

\* mutant: the callback of a one-shot is not followed by detach()
ThunkReturnKeeps ==
  /\ thunk = "return"
  /\ thunk' = "idle"
  /\ UNCHANGED <<members, count, user, call, current, history>>

ThunkReturn ==
  /\ thunk = "return"
  /\ thunk' = "idle"
  /\ IF m_repeat THEN UNCHANGED <<timer, m_callback, m_active>> ELSE detach
  /\ dropped' = IF ~m_repeat /\ m_active /\ fired[arming] = 0
                THEN dropped \cup {arming} ELSE dropped
  /\ UNCHANGED <<m_repeat, leaked, arming, count, user, call, current, fired, once>>

------------------------------------------------------------------------------
Sketch ==
  \/ DetachTest \/ DetachStop \/ DetachDeinit \/ DetachClearCallback
  \/ DetachClearActive \/ StartAssign \/ StartLaunch

TimerTask ==
  Fire \/ CallbackPlain \/ CallbackDetach \/ CallbackRearm \/ ThunkReturn

Next ==
  \/ \E r \in BOOLEAN, c \in Script : CallStart(r, c)
  \/ CallDetach
  \/ Sketch
  \/ TimerTask

(***************************************************************************)
(* A call that the sketch has made runs to its end, and the RTOS goes on   *)
(* expiring a running timer and runs its task, the system's most urgent.   *)
(* Nothing obliges the sketch to call.                                     *)
(***************************************************************************)
Fairness == WF_vars(Sketch) /\ WF_vars(TimerTask)

Spec == Init /\ [][Next]_vars /\ Fairness

------------------------------------------------------------------------------
TypeOK ==
  /\ m_callback \in Script \cup {NoCallback}
  /\ m_repeat \in BOOLEAN /\ m_active \in BOOLEAN
  /\ timer \in {"none", "stopped", "running"} /\ leaked \in BOOLEAN
  /\ count \in 0 .. MaxArm
  /\ arming \in IF m_active THEN Arming ELSE 0 .. MaxArm
  /\ user \in {"idle", "test", "stop", "deinit", "clearCallback", "clearActive",
               "assign", "launch"}
  /\ call \in Call
  /\ thunk \in {"idle", "callback", "return"} /\ current \in Script \cup {NoCallback}
  /\ fired \in [Arming -> 0 .. 2]
  /\ once \subseteq Arming /\ dropped \subseteq Arming

(***************************************************************************)
(* once_ms() calls its callback at most once, although the RTOS timer      *)
(* behind it is periodic and whatever the sketch and the callback call.    *)
(***************************************************************************)
OnceAtMostOnce == \A a \in once : fired[a] <= 1

Quiet == user = "idle" /\ thunk = "idle"

(***************************************************************************)
(* active(): "true if timer is active, false otherwise".  Between calls an *)
(* active Ticker has a callback and a running timer, and an inactive one   *)
(* has no timer: an orphan would go on expiring, out of detach()'s reach.  *)
(***************************************************************************)
ActiveIsRunning ==
  Quiet => /\ ~leaked
           /\ IF m_active THEN timer = "running" /\ m_callback # NoCallback
              ELSE timer = "none"

(***************************************************************************)
(* once_ms(): "Attach a callback function to be called only once".  The    *)
(* Ticker itself never takes down an arming whose callback was not called. *)
(* This is NOT an invariant: a callback that arms its own Ticker with      *)
(* once_ms() loses that arming to timerThunk()'s trailing detach().        *)
(***************************************************************************)
NoArmingDropped == dropped = {}

(***************************************************************************)
(* A one-shot does not stay armed: it fires and leaves the Ticker          *)
(* inactive, unless it is turned into a periodic one.                      *)
(***************************************************************************)
OnceCompletes == (m_active /\ ~m_repeat) ~> (~m_active \/ m_repeat)
==============================================================================
