---------------------------- MODULE StoryAnimation ----------------------------
(***************************************************************************)
(* The clock of the animation by which two people compare their stories.   *)
(* Each frame sets a timer for the next; the frame to show is read from the *)
(* computer's clock, so that two computers show the same one.               *)
(***************************************************************************)
EXTENDS Naturals

CONSTANT KEYFRAMES

ASSUME StoryAnimationAssumption == KEYFRAMES \in Nat \ {0}

VARIABLES
  now,            \* the frame by the clock
  keyframe,       \* the frame shown
  waitingTimers,  \* timers for the next frame
  due,            \* timers whose time has come
  late,           \* frames since a timer last ran, up to a whole period; for the property
  missed          \* whether a timer ran a whole period after the one before it; the same

animationVars == <<now, keyframe, waitingTimers, due, late, missed>>

AnimationTypeOK ==
  /\ now \in 0..(KEYFRAMES - 1) /\ keyframe \in 0..(KEYFRAMES - 1)
  /\ waitingTimers \in 0..2 /\ due \in 0..2
  /\ late \in 0..KEYFRAMES /\ missed \in BOOLEAN

\* The first render sets a timer, and another when its frame was not the right one.
AnimationInit ==
  /\ now \in 0..(KEYFRAMES - 1) /\ keyframe = now
  /\ waitingTimers = IF now = 0 THEN 1 ELSE 2
  /\ due = 0 /\ late = 0 /\ missed = FALSE

\* The computer may be busy, or asleep, for any number of frames.
FramePasses ==
  /\ now' = (now + 1) % KEYFRAMES
  /\ due' = due + waitingTimers /\ waitingTimers' = 0
  /\ late' = IF late < KEYFRAMES THEN late + 1 ELSE late
  /\ UNCHANGED <<keyframe, missed>>

\* A timer has run.
Note == late' = 0 /\ missed' = (missed \/ late = KEYFRAMES)

\* Mutant: frames are counted.
CountFrames ==
  /\ due > 0
  /\ keyframe' = (keyframe + 1) % KEYFRAMES
  /\ due' = due - 1 /\ waitingTimers' = waitingTimers + 1
  /\ Note
  /\ UNCHANGED now

\* Mutant: setInterval, which is never cleared either.
FireAgain ==
  /\ due > 0
  /\ keyframe' = now
  /\ due' = due - 1
  /\ waitingTimers' = waitingTimers + (IF now # keyframe THEN 2 ELSE 1)
  /\ Note
  /\ UNCHANGED now

\* Mutant: without the ten milliseconds a timer may run before the frame is over.
FireEarly ==
  /\ due + waitingTimers > 0
  /\ keyframe' = now
  /\ due' = IF due > 0 THEN due - 1 ELSE 0
  /\ waitingTimers' = waitingTimers + (IF now # keyframe THEN 1 ELSE 0)
                                    - (IF due > 0 THEN 0 ELSE 1)
  /\ Note
  /\ UNCHANGED now

\* The timer sets the frame, and the effect of a frame that is new the next timer.
Fire ==
  /\ due > 0
  /\ keyframe' = now
  /\ due' = due - 1
  /\ waitingTimers' = waitingTimers + (IF now # keyframe THEN 1 ELSE 0)
  /\ Note
  /\ UNCHANGED now

AnimationNext == FramePasses \/ Fire

AnimationSpec == AnimationInit /\ [][AnimationNext]_animationVars

-----------------------------------------------------------------------------

\* A computer that waits for the next frame shows the frame of its clock ("two computers
\* showing the same animation will be synced"), also after it was busy or asleep.
InStep == waitingTimers > 0 => keyframe = now

\* There are never more timers than the two of the first render, although none is cleared.
TimersDoNotPile == waitingTimers + due <= 2

\* The second of two timers, which finds the frame unchanged, does not end the animation;
\* only one that runs a whole period late can.
TimersLast == ~ missed => waitingTimers + due > 0

\* The animation goes with the clock, and goes on unless a timer runs a whole period late,
\* as after a suspend (StoryAnimation).
KeepsTime == InStep /\ TimersDoNotPile /\ TimersLast

=============================================================================
