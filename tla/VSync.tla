-------------------------------- MODULE VSync --------------------------------
(* The thread of hwcomposer_wayland/vsync.cpp that stands in for the vertical *)
(* blank of a display: it sleeps until the next multiple of the period and    *)
(* reports it.  Time is counted in units of which a period has Period.        *)
EXTENDS Integers

CONSTANTS Period, MaxNow  \* MaxNow bounds the clock and the delay by signals

ASSUME PeriodAssumption == Period \in Nat \ {0}

VARIABLES now, enabled,  \* mEnabled
          next,          \* mNextFakeVSync
          thread,        \* where threadLoop is: loop, compute, sleep
          target,        \* next_vsync, what it sleeps until
          fired,         \* the last time it has reported
          late           \* reports since it was disabled

vsyncVars == <<now, enabled, next, thread, target, fired, late>>

\* A mutant of NextVSync: a period from now on.
NextFromNow == IF next >= now THEN next ELSE now + Period

\* The first multiple after now when the one that was due has been missed.
NextVSync == IF next >= now THEN next ELSE now + Period - ((now - next) % Period)

SetEnabled(on) ==
  /\ enabled' = on
  /\ late' = IF on THEN 0 ELSE late
  /\ UNCHANGED <<now, next, thread, target, fired>>

\* The flag is looked at under the lock, and not again before the report.
Awake ==
  /\ thread = "loop" /\ enabled
  /\ thread' = "compute"
  /\ UNCHANGED <<now, enabled, next, target, fired, late>>

Compute ==
  /\ thread = "compute"
  /\ target' = NextVSync /\ next' = NextVSync + Period
  /\ thread' = "sleep"
  /\ UNCHANGED <<now, enabled, fired, late>>

Report ==
  /\ thread = "sleep" /\ now >= target
  /\ thread' = "loop" /\ fired' = target
  /\ late' = IF enabled THEN late ELSE late + 1
  /\ UNCHANGED <<now, enabled, next, target>>

\* clock_nanosleep returns the number of the error, a positive one, and does not
\* set errno: a signal ends the sleep and the loop, nothing is reported, and the
\* next report is a period later.
Interrupted ==
  /\ thread = "sleep" /\ now < target /\ target < MaxNow
  /\ thread' = "loop"
  /\ UNCHANGED <<now, enabled, next, target, fired, late>>

Tick ==
  /\ now < MaxNow
  /\ now' = now + 1
  /\ UNCHANGED <<enabled, next, thread, target, fired, late>>

VSyncInit ==
  /\ now = 1 /\ enabled = FALSE /\ next = 0
  /\ thread = "loop" /\ target = 0 /\ fired = 0 /\ late = 0

VSyncNext ==
  \/ \E on \in BOOLEAN : SetEnabled(on)
  \/ Awake \/ Compute \/ Report \/ Interrupted \/ Tick

VSyncSpec == VSyncInit /\ [][VSyncNext]_vsyncVars

-----------------------------------------------------------------------------

\* The reported times are multiples of the period, each reported at most once, in
\* order, never before it is over, whatever the thread has missed; and at most one
\* follows a setEnabled(false) (vsync.cpp:33 reads the flag, :61 reports).
VSyncIsRegular ==
  /\ fired % Period = 0 /\ fired <= now /\ late <= 1
  /\ fired = 0 \/ fired < next
  /\ thread = "sleep" => fired < target /\ target < next
=============================================================================
