------------------------------- MODULE Screens -------------------------------
(***************************************************************************)
(* The buffers of a screen: SetActiveResolution, GetFreeBuffer and         *)
(* QueueBuffer of the Bochs adapter (kernel/src/pci/bga.cpp) and of the    *)
(* Raspberry Pi (rpi/framebuffer.cpp), used as include/Screen.h says, and  *)
(* by the compositor, which so far draws one splash screen.  A buffer is   *)
(* its number; the controller is external and shows the buffer at an       *)
(* offset it is told.                                                      *)
(***************************************************************************)
EXTENDS Integers

CONSTANTS
  Adapters,    \* "bga", "rpi"
  NoBuffer

VARIABLES
  adapter,
  bufferCount, \* 0 before a resolution is set
  displayBufferId, queuedBufferId,
  shown,       \* the number of the buffer that the controller shows
  free,        \* the buffer that the client has been given and not queued
  queued       \* the last buffer that was queued, since the resolution was set

vars == <<adapter, bufferCount, displayBufferId, queuedBufferId, shown, free, queued>>

\* The members are what was in the memory; larger numbers add nothing.
Init ==
  /\ adapter \in Adapters
  /\ bufferCount = 0 /\ shown = 0 /\ free = NoBuffer /\ queued = NoBuffer
  /\ displayBufferId \in 0..3 /\ queuedBufferId \in 0..3

\* Only the Bochs adapter begins with its numbers at the start.
SetActiveResolution(count) ==
  /\ bufferCount' = count /\ shown' = 0
  /\ IF adapter = "bga" THEN displayBufferId' = 0 /\ queuedBufferId' = 3
                        ELSE UNCHANGED <<displayBufferId, queuedBufferId>>

Configure ==
  /\ \E count \in 1..3 : SetActiveResolution(count)
  /\ free' = NoBuffer /\ queued' = NoBuffer
  /\ UNCHANGED adapter

\* Numbers are those of a byte.
FreeBuffer ==
  CASE bufferCount = 1 -> 0
    [] bufferCount = 2 -> (1 - displayBufferId) % 256
    [] bufferCount = 3 /\ queuedBufferId = 3 -> IF displayBufferId = 0 THEN 1 ELSE 0
    [] bufferCount = 3 /\ queuedBufferId # 3 -> (3 - (displayBufferId + queuedBufferId)) % 256

GetFreeBuffer ==
  /\ bufferCount # 0 /\ free = NoBuffer
  /\ free' = FreeBuffer
  /\ UNCHANGED <<adapter, bufferCount, displayBufferId, queuedBufferId, shown, queued>>

\* "Have no way to detect vsync": the controller is told at once.  The Bochs
\* adapter notes the number in a variable of the function's own; the Raspberry
\* Pi shows the buffer that it notes.
QueueBuffer ==
  /\ free # NoBuffer
  /\ queued' = free /\ free' = NoBuffer
  /\ IF bufferCount = 1 THEN UNCHANGED <<displayBufferId, shown>>
     ELSE IF adapter = "bga"
       THEN shown' = (IF free = 0 THEN 0 ELSE 1) /\ UNCHANGED displayBufferId
       ELSE /\ displayBufferId' = IF free = 0 THEN 1 ELSE 0
            /\ shown' = displayBufferId'
  /\ UNCHANGED <<adapter, bufferCount, queuedBufferId>>

\* Compositor::AddScreen, of the first screen: CreateSplashScreen draws all of
\* the one buffer and queues it.
AddScreen ==
  /\ bufferCount = 0
  /\ SetActiveResolution(1)
  /\ queued' = 0
  /\ UNCHANGED <<adapter, free>>

Next == Configure \/ GetFreeBuffer \/ QueueBuffer \/ AddScreen

Spec == Init /\ [][Next]_vars

-----------------------------------------------------------------------------
(* Properties.                                                             *)

\* With two buffers, the one that GetFreeBuffer gives after another was queued
\* is "a free one" (Screen.h:48), which is not on the screen while it is drawn.
FreeIsNotShown == bufferCount = 2 /\ queued # NoBuffer /\ free # NoBuffer => free # shown
=============================================================================
