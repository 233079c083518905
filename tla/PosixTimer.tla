----------------------------- MODULE PosixTimer -----------------------------
(***************************************************************************)
(* The timers of platforms/linux/src/platform.c: a TimerEvent_t object in  *)
(* user space, a POSIX timer in the kernel, and SIGUSR1 between them.  One *)
(* thread calls the functions; the signal handler interrupts it between    *)
(* any two of its steps, so each call is cut where the handler can come    *)
(* in: the test of `started', the system call, and the store to `started'. *)
(***************************************************************************)
EXTENDS Integers

CONSTANTS
  Timers,       \* the TimerEvent_t objects
  Durations,    \* the milliseconds TimerSetValue is given
  EarlyExpiry   \* TRUE: a timer may expire before TimerStart has returned

ASSUME TimerAssumption ==
  /\ Durations \subseteq Nat
  /\ EarlyExpiry \in BOOLEAN

VARIABLES
  duration,     \* [Timers -> it_value]: TimerEvent_t.duration
  started,      \* [Timers -> BOOLEAN]: TimerEvent_t.started
  armed,        \* the timers that are counting down in the kernel
  pending,      \* the timers whose SIGUSR1 is queued and not delivered yet
  call          \* the call in progress: <<step, timer>>, or Returned

timerVars == <<duration, started, armed, pending, call>>

Returned == <<"returned">>

Steps == {"arm", "store", "disarm", "clear"}
Busy(t) == call \in Steps \X {t}

\* SIGUSR1 is not blocked outside its handler: no instruction of the thread
\* runs while one is queued.  A system call in progress finishes first.
InUserMode == pending = {}

\* TimerInit for each object.
TimerInit ==
  /\ duration = [t \in Timers |-> [sec |-> 0, msec |-> 0]]
  /\ started = [t \in Timers |-> FALSE]
  /\ armed = {}
  /\ pending = {}
  /\ call = Returned

-----------------------------------------------------------------------------
\* it_value, with tv_nsec counted in milliseconds; timer_settime() refuses
\* a whole second or more of them.
ItValues == [sec : Nat, msec : 0 .. 999]
ItZero == [sec |-> 0, msec |-> 0]

\* Mutant: tv_nsec is not set, and less than a second becomes nothing.
WholeSeconds(value) == [sec |-> value \div 1000, msec |-> 0]

\* Mutant: the seconds are not taken out of tv_nsec.
SecondsTwice(value) == [sec |-> value \div 1000, msec |-> value]

\* TimerSetValue: the it_value that stands for value milliseconds.
ItValue(value) == [sec |-> value \div 1000, msec |-> value % 1000]

\* cb_start_timer, the only caller: TimerSetValue, then TimerStart, which
\* leaves a timer that is started already alone, with a warning.
StartTimer(t, value) ==
  /\ InUserMode /\ call = Returned
  /\ duration' = [duration EXCEPT ![t] = ItValue(value)]
  /\ call' = IF started[t] THEN Returned ELSE <<"arm", t>>
  /\ UNCHANGED <<started, armed, pending>>

\* timer_settime() with a zero it_value disarms the timer.
SetTime(t) ==
  /\ call = <<"arm", t>>
  /\ armed' = IF duration[t] = ItZero THEN armed \ {t} ELSE armed \cup {t}
  /\ call' = <<"store", t>>
  /\ UNCHANGED <<duration, started, pending>>

StoreStarted(t) ==
  /\ InUserMode /\ call = <<"store", t>>
  /\ started' = [started EXCEPT ![t] = TRUE]
  /\ call' = Returned
  /\ UNCHANGED <<duration, armed, pending>>

TimerStop(t) ==
  /\ InUserMode /\ call = Returned
  /\ call' = <<"disarm", t>>
  /\ UNCHANGED <<duration, started, armed, pending>>

\* Mutant: TimerStop() clears the flag and forgets the kernel timer.
KeepArmed(t) ==
  /\ call = <<"disarm", t>>
  /\ call' = <<"clear", t>>
  /\ UNCHANGED <<duration, started, armed, pending>>

Disarm(t) ==
  /\ call = <<"disarm", t>>
  /\ armed' = armed \ {t}
  /\ call' = <<"clear", t>>
  /\ UNCHANGED <<duration, started, pending>>

ClearStarted(t) ==
  /\ InUserMode /\ call = <<"clear", t>>
  /\ started' = [started EXCEPT ![t] = FALSE]
  /\ call' = Returned
  /\ UNCHANGED <<duration, armed, pending>>

\* started = false, then TimerStart(): the running countdown is replaced.
\* For a timer that was given a value; no file of the repository calls it.
TimerReset(t) ==
  /\ InUserMode /\ call = Returned
  /\ duration[t] # ItZero
  /\ started' = [started EXCEPT ![t] = FALSE]
  /\ call' = <<"arm", t>>
  /\ UNCHANGED <<duration, armed, pending>>

\* The kernel: the countdown ends and the signal is queued, one per timer.
Expire(t) ==
  /\ t \in armed
  /\ EarlyExpiry \/ call # <<"store", t>>
  /\ armed' = armed \ {t}
  /\ pending' = pending \cup {t}
  /\ UNCHANGED <<duration, started, call>>

\* Mutant: the handler runs the callback and leaves `started' set.
CallbackOnly(t) ==
  /\ t \in pending /\ call \notin ({"arm", "disarm"} \X Timers)
  /\ pending' = pending \ {t}
  /\ UNCHANGED <<duration, started, armed, call>>

\* _sighandler: started = false, then the callback.  It runs when the thread
\* is about to execute in user mode, so not inside a system call.
SigHandler(t) ==
  /\ t \in pending /\ call \notin ({"arm", "disarm"} \X Timers)
  /\ pending' = pending \ {t}
  /\ started' = [started EXCEPT ![t] = FALSE]
  /\ UNCHANGED <<duration, armed, call>>

TimerNext ==
  \E t \in Timers :
    \/ \E value \in Durations : StartTimer(t, value)
    \/ SetTime(t) \/ StoreStarted(t)
    \/ TimerStop(t) \/ Disarm(t) \/ ClearStarted(t)
    \/ TimerReset(t)
    \/ Expire(t)
    \/ SigHandler(t)

TimerSpec == TimerInit /\ [][TimerNext]_timerVars

\* Time passes, the kernel delivers what it queued, and the thread, which
\* never blocks inside these functions, returns from each of them.
Fairness ==
  \A t \in Timers :
    /\ WF_timerVars(Expire(t))
    /\ WF_timerVars(SigHandler(t))
    /\ WF_timerVars(SetTime(t)) /\ WF_timerVars(StoreStarted(t))
    /\ WF_timerVars(Disarm(t)) /\ WF_timerVars(ClearStarted(t))

FairSpec == TimerSpec /\ Fairness

-----------------------------------------------------------------------------
\* Types.  Every it_value TimerSetValue computes is one timer_settime() accepts.
TimerTypeOK ==
  /\ duration \in [Timers -> ItValues]
  /\ started \in [Timers -> BOOLEAN]
  /\ armed \in SUBSET Timers
  /\ pending \in SUBSET Timers
  /\ call \in (Steps \X Timers) \cup {Returned}

\* Once TimerStop has returned, and until the next start, nothing is left that
\* could still run the callback: the kernel timer is off and no signal of it is
\* queued, whatever the expiry did while TimerStop ran (platform.c:176-184).
StoppedIsSilent ==
  \A t \in Timers : ~started[t] /\ ~Busy(t) => t \notin armed \cup pending

\* A timer whose `started' flag is set is really running, so the callback will
\* come; TimerStart refuses such a timer with the words "timer already
\* started" (platform.c:165-169).
StartedIsRunning ==
  \A t \in Timers : started[t] /\ ~Busy(t) => t \in armed \cup pending

\* Every start is followed by the callback, or by a stop or a reset: the SDK
\* goes on only when mgt_timer_timeout is called (platform.c:86-99).
StartedEnds == \A t \in Timers : started[t] ~> ~started[t]

\* The strengthening: what each step of a call has established.
InFlight ==
  \A t \in Timers :
    /\ call \in {"arm", "store"} \X {t} => ~started[t]
    /\ call = <<"clear", t>> => t \notin armed
    /\ t \in armed \cap pending => call = <<"store", t>>

\* What a start in progress has established when no timer can expire inside it
\* and none is given a duration of zero.
SafeDurations == ~EarlyExpiry /\ 0 \notin Durations

ArmedInTime ==
  SafeDurations =>
    \A t \in Timers :
      /\ call = <<"arm", t>> => duration[t] # ItZero
      /\ call = <<"store", t>> => t \in armed

TimerInv ==
  /\ TimerTypeOK /\ StoppedIsSilent /\ InFlight
  /\ ArmedInTime /\ (SafeDurations => StartedIsRunning)
=============================================================================
