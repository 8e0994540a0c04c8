------------------------------- MODULE Outputs -------------------------------
(***************************************************************************)
(* The outputs of src/src/output.c with what hangs on them: the lock       *)
(* surface, the two shared memory buffers of src/src/buffer.c and the      *)
(* frame callbacks of src/src/render.c, with the compositor's side of each.*)
(* Startup says when the handlers run.                                     *)
(*                                                                         *)
(* The compositor sends events that wait in the client's queue; requests   *)
(* take effect at once.  Events about different outputs touch different    *)
(* state, so the order is kept for each output.  An event for an object     *)
(* that the client has destroyed waits in the queue as well, and libwayland*)
(* drops it when its turn comes; frame callbacks outlive their surface, so *)
(* their events are not dropped.                                           *)
(***************************************************************************)
EXTENDS Integers, Sequences, FiniteSets

CONSTANTS
  Outputs,         \* registry names of outputs
  MaxConfigures,   \* bound of the model: configure events per output
  MaxFaults,       \* bound of the model: calls that fail
  ReleasesInTime   \* does the compositor release a replaced buffer before it
                   \* says that the frame which replaced it is shown?

ASSUME OutputsAssumption ==
  /\ MaxConfigures \in [Outputs -> Nat]
  /\ MaxFaults \in Nat
  /\ ReleasesInTime \in BOOLEAN

VARIABLES
  plugged,     \* compositor: "absent", "present" or "gone"
  events,      \* per output, the events that are not dispatched yet
  configures,  \* per output, how many configure events were sent
  held,        \* compositor: the buffers it may still read
  shown,       \* compositor: the buffer of the last commit
  committed,   \* compositor: frame callbacks to answer
  outputs,     \* the list state->outputs
  surface,     \* surface and lock surface: "NULL", "live" or "freed"
  requested,   \* frame callbacks that wait for a commit
  slot,        \* render_state->buffers, as in Slot
  busy,        \* the buffers whose busy flag is set
  stale,       \* the surfaces that do not show the current text
  initialization_failed,  \* state->initialization_failed
  faults,      \* how many calls have failed
  undefined    \* what made the behaviour undefined, or "nothing"

compositorVars == <<plugged, configures, held, shown, committed>>
surfaceVars    == <<surface, requested, slot, busy, stale>>
outputsVars == <<compositorVars, events, outputs, surfaceVars,
                 initialization_failed, faults, undefined>>

Buffer   == {0, 1}
NoBuffer == -1
Event == [type : {"global", "global_remove", "configure", "done", "dropped"},
          buffer : {NoBuffer}]
           \cup [type : {"release"}, buffer : Buffer]

(* A pointer in buffers[]: NULL, to a complete buffer, to one whose proxy  *)
(* and Cairo surface were never set, or to freed memory.  A render_state   *)
(* that is NULL behaves as one with two NULL pointers.                     *)
Slot == {"NULL", "live", "raw", "freed"}

Signal(type) == [type |-> type, buffer |-> NoBuffer]
Release(k)   == [type |-> "release", buffer |-> k]

Send(n, e)  == events' = [events EXCEPT ![n] = Append(events[n], e)]
Received(n, type) == events[n] # << >> /\ Head(events[n]).type = type
Taken(n)    == events' = [events EXCEPT ![n] = Tail(events[n])]

(* What becomes of the events of these types when their objects go. *)
WithoutReceiver(q, types) ==
  [j \in DOMAIN q |-> IF q[j].type \in types THEN Signal("dropped") ELSE q[j]]

(* A call fails. *)
Fault == faults < MaxFaults /\ faults' = faults + 1

OutputsInit ==
  /\ plugged \in [Outputs -> {"absent", "present"}]
  /\ events = [n \in Outputs |->
                 IF plugged[n] = "present" THEN <<Signal("global")>> ELSE << >>]
  /\ configures = [n \in Outputs |-> 0]
  /\ held = [n \in Outputs |-> {}]
  /\ shown = [n \in Outputs |-> NoBuffer]
  /\ committed = [n \in Outputs |-> 0]
  /\ outputs = {}
  /\ surface = [n \in Outputs |-> "NULL"]
  /\ requested = [n \in Outputs |-> 0]
  /\ slot = [n \in Outputs |-> [k \in Buffer |-> "NULL"]]
  /\ busy = [n \in Outputs |-> {}]
  /\ stale = {}
  /\ initialization_failed = FALSE
  /\ faults = 0
  /\ undefined = "nothing"

-----------------------------------------------------------------------------
(* The compositor. *)

Plug(n) ==
  /\ plugged[n] = "absent"
  /\ plugged' = [plugged EXCEPT ![n] = "present"]
  /\ Send(n, Signal("global"))
  /\ UNCHANGED <<configures, held, shown, committed, outputs, surfaceVars,
                 initialization_failed, faults, undefined>>

Unplug(n) ==
  /\ plugged[n] = "present"
  /\ plugged' = [plugged EXCEPT ![n] = "gone"]
  /\ Send(n, Signal("global_remove"))
  /\ UNCHANGED <<configures, held, shown, committed, outputs, surfaceVars,
                 initialization_failed, faults, undefined>>

(* The first size of a lock surface, or a new one. *)
CompositorConfigures(n) ==
  /\ plugged[n] = "present"
  /\ surface[n] = "live"
  /\ configures[n] < MaxConfigures[n]
  /\ configures' = [configures EXCEPT ![n] = configures[n] + 1]
  /\ Send(n, Signal("configure"))
  /\ UNCHANGED <<plugged, held, shown, committed, outputs, surfaceVars,
                 initialization_failed, faults, undefined>>

(* The compositor has replaced or copied a buffer. *)
CompositorReleases(n, k) ==
  /\ k \in held[n]
  /\ held' = [held EXCEPT ![n] = held[n] \ {k}]
  /\ Send(n, Release(k))
  /\ UNCHANGED <<plugged, configures, shown, committed, outputs, surfaceVars,
                 initialization_failed, faults, undefined>>

(* A frame was shown: its callback is answered. *)
CompositorPresents(n) ==
  /\ committed[n] > 0
  /\ ReleasesInTime => held[n] \subseteq {shown[n]}
  /\ committed' = [committed EXCEPT ![n] = committed[n] - 1]
  /\ Send(n, Signal("done"))
  /\ UNCHANGED <<plugged, configures, held, shown, outputs, surfaceVars,
                 initialization_failed, faults, undefined>>

-----------------------------------------------------------------------------
(* Buffers and drawing. *)

(* Slip: the loop starts at 1. *)
FindFreeBufferFromOne(b) ==
  IF 1 \notin b THEN 1 ELSE IF 2 \notin b THEN 2 ELSE NoBuffer

(* find_free_buffer *)
FindFreeBuffer(b) ==
  IF 0 \notin b THEN 0 ELSE IF 1 \notin b THEN 1 ELSE NoBuffer

(* draw_screen into buffer k of output n: what is attached is committed,   *)
(* with the frame callbacks that were waiting for a commit.                *)
Present(n, k, alreadyBusy, alreadyHeld, waiting) ==
  /\ busy' = [busy EXCEPT ![n] = alreadyBusy \cup {k}]
  /\ held' = [held EXCEPT ![n] = alreadyHeld \cup {k}]
  /\ shown' = [shown EXCEPT ![n] = k]
  /\ committed' = [committed EXCEPT ![n] = committed[n] + waiting]
  /\ requested' = [requested EXCEPT ![n] = 0]
  /\ stale' = stale \ {n}

(* clean_up_render_state frees what the pointers point to and leaves the   *)
(* pointers as they are.                                                   *)
CleanUp(s) == [k \in Buffer |-> IF s[k] = "NULL" THEN "NULL" ELSE "freed"]

(* It follows every pointer that is not NULL. *)
Dangling   == {"raw", "freed"}
Unsound(s) == \E k \in Buffer : s[k] \in Dangling

BothLive == [k \in Buffer |-> "live"]

(* The pointers after a setup that failed: with the pool, or at buffer 0   *)
(* or 1, where malloc, wl_shm_pool_create_buffer or Cairo fails.           *)
FailedSetups(s) ==
  {s} \cup { [s EXCEPT ![0] = x] : x \in {"NULL", "raw", "live"} }
      \cup { [BothLive EXCEPT ![1] = x] : x \in {"NULL", "raw", "live"} }

NothingShown(n) ==
  /\ busy' = [busy EXCEPT ![n] = {}]
  /\ held' = [held EXCEPT ![n] = {}]
  /\ shown' = [shown EXCEPT ![n] = NoBuffer]

Undefined(what) == undefined' = what

(* A pointer that is not what it should be is followed. *)
Follow(s, bad) == \E k \in Buffer : s[k] \in bad /\ Undefined(s[k])

(* Slip: a resize asks for a frame callback, too. *)
SetupLockScreenAsking(n) ==
  /\ ~ Unsound(slot[n])
  /\ slot' = [slot EXCEPT ![n] = BothLive]
  /\ Present(n, FindFreeBuffer({}), {}, {}, requested[n] + 1)
  /\ UNCHANGED <<faults, undefined>>

(* setup_lock_screen: the buffers of the old size go, new ones come, and   *)
(* the first is drawn.                                                     *)
SetupLockScreen(n) ==
  /\ ~ Unsound(slot[n])
  /\ slot' = [slot EXCEPT ![n] = BothLive]
  /\ Present(n, FindFreeBuffer({}), {}, {}, requested[n])
  /\ UNCHANGED <<faults, undefined>>

SetupLockScreenFails(n) ==
  /\ ~ Unsound(slot[n])
  /\ Fault
  /\ \E s \in FailedSetups(CleanUp(slot[n])) :
       /\ slot' = [slot EXCEPT ![n] = CleanUp(s)]
       /\ IF Unsound(s) THEN Follow(s, Dangling) ELSE UNCHANGED undefined
  /\ NothingShown(n)
  /\ UNCHANGED <<committed, requested, stale>>

SetupLockScreenUndefined(n) ==
  /\ Follow(slot[n], Dangling)
  /\ UNCHANGED <<slot, busy, held, shown, committed, requested, stale, faults>>

(* lock_surface_configure.  Events of the old buffers have no receiver.    *)
LockSurfaceConfigure(n) ==
  /\ Received(n, "configure")
  /\ events' = [events EXCEPT ![n] = WithoutReceiver(Tail(events[n]), {"release"})]
  /\ SetupLockScreen(n) \/ SetupLockScreenFails(n) \/ SetupLockScreenUndefined(n)
  /\ UNCHANGED <<plugged, configures, outputs, surface, initialization_failed>>

(* Slip: a buffer that was shown is free. *)
BufferReleaseNone(n) ==
  /\ Received(n, "release")
  /\ UNCHANGED busy
  /\ Taken(n)
  /\ UNCHANGED <<compositorVars, outputs, surface, requested, slot, stale,
                 initialization_failed, faults, undefined>>

(* buffer_release *)
BufferRelease(n) ==
  /\ Received(n, "release")
  /\ busy' = [busy EXCEPT ![n] = busy[n] \ {Head(events[n]).buffer}]
  /\ Taken(n)
  /\ UNCHANGED <<compositorVars, outputs, surface, requested, slot, stale,
                 initialization_failed, faults, undefined>>

(* Slip: the next frame is asked for after the commit, not before it.      *)
NextFrameAfterCommit(n) ==
  LET k == FindFreeBuffer(busy[n]) IN
  /\ k # NoBuffer
  /\ busy' = [busy EXCEPT ![n] = busy[n] \cup {k}]
  /\ held' = [held EXCEPT ![n] = held[n] \cup {k}]
  /\ shown' = [shown EXCEPT ![n] = k]
  /\ requested' = [requested EXCEPT ![n] = 1]
  /\ committed' = [committed EXCEPT ![n] = committed[n] + requested[n]]
  /\ stale' = stale \ {n}

(* surface_frame_done asks for the next frame and draws; a frame without a *)
(* free buffer is skipped, and nothing is committed.                       *)
NextFrame(n) ==
  LET k == FindFreeBuffer(busy[n]) IN
  \/ k # NoBuffer /\ Present(n, k, busy[n], held[n], requested[n] + 1)
  \/ /\ k = NoBuffer
     /\ requested' = [requested EXCEPT ![n] = requested[n] + 1]
     /\ UNCHANGED <<busy, held, shown, committed, stale>>

SurfaceFrameDone(n) ==
  /\ Received(n, "done")
  /\ n \in outputs
  /\ slot[n] = BothLive
  /\ NextFrame(n)
  /\ Taken(n)
  /\ UNCHANGED <<plugged, configures, outputs, surface, slot,
                 initialization_failed, faults, undefined>>

(* The callback points to an output that was freed, or draws into buffers  *)
(* that are not there.                                                     *)
SurfaceFrameDoneUndefined(n) ==
  /\ Received(n, "done")
  /\ \/ n \notin outputs /\ Undefined("callback")
     \/ n \in outputs /\ Follow(slot[n], {"NULL"} \cup Dangling)
  /\ Taken(n)
  /\ UNCHANGED <<compositorVars, outputs, surfaceVars, initialization_failed, faults>>

(* The turn of an event whose object is gone. *)
DropEvent(n) ==
  /\ Received(n, "dropped")
  /\ Taken(n)
  /\ UNCHANGED <<compositorVars, outputs, surfaceVars, initialization_failed,
                 faults, undefined>>

-----------------------------------------------------------------------------
(* The list of outputs. *)

(* create_and_bind_anvi_output *)
CreateAndBindOutput(n) ==
  /\ Received(n, "global")
  /\ Taken(n)
  /\ \/ /\ outputs' = outputs \cup {n}
        /\ UNCHANGED <<initialization_failed, faults>>
     \/ /\ Fault
        /\ initialization_failed' = TRUE
        /\ UNCHANGED outputs
  /\ UNCHANGED <<compositorVars, surfaceVars, undefined>>

(* What destroy_anvi_output frees, if it follows a dangling pointer. *)
DestroyUndefined(n) ==
  \/ Follow(slot[n], Dangling)
  \/ ~ Unsound(slot[n]) /\ surface[n] = "freed" /\ Undefined("surface")

Sound(n) == ~ Unsound(slot[n]) /\ surface[n] # "freed"

(* destroy_anvi_output for the outputs in S.  What the compositor has yet  *)
(* to say is lost with the objects, but for frame callbacks.               *)
DestroyOutputs(S) ==
  /\ surface' = [n \in Outputs |-> IF n \in S THEN "NULL" ELSE surface[n]]
  /\ requested' = [n \in Outputs |-> IF n \in S THEN 0 ELSE requested[n]]
  /\ slot' = [n \in Outputs |-> IF n \in S THEN [k \in Buffer |-> "NULL"] ELSE slot[n]]
  /\ busy' = [n \in Outputs |-> IF n \in S THEN {} ELSE busy[n]]
  /\ held' = [n \in Outputs |-> IF n \in S THEN {} ELSE held[n]]
  /\ shown' = [n \in Outputs |-> IF n \in S THEN NoBuffer ELSE shown[n]]
  /\ committed' = [n \in Outputs |-> IF n \in S THEN 0 ELSE committed[n]]
  /\ stale' = stale \ S
  /\ outputs' = outputs \ S

(* Slip: the output is destroyed but stays in the list. *)
RemoveOutputKeepingNode(n) ==
  /\ Received(n, "global_remove")
  /\ n \in outputs /\ Sound(n)
  /\ slot' = [slot EXCEPT ![n] = CleanUp(slot[n])]
  /\ surface' = [surface EXCEPT ![n] = "freed"]
  /\ events' = [events EXCEPT ![n] = << >>]
  /\ UNCHANGED <<compositorVars, outputs, requested, busy, stale,
                 initialization_failed, faults, undefined>>

(* remove_anvi_output; a name that is not in the list is ignored. *)
RemoveOutput(n) ==
  /\ Received(n, "global_remove")
  /\ n \in outputs => Sound(n)
  /\ DestroyOutputs({n})
  /\ events' = [events EXCEPT ![n] = WithoutReceiver(Tail(events[n]), {"configure", "release"})]
  /\ UNCHANGED <<plugged, configures, initialization_failed, faults, undefined>>

RemoveOutputUndefined(n) ==
  /\ Received(n, "global_remove")
  /\ n \in outputs
  /\ DestroyUndefined(n)
  /\ Taken(n)
  /\ UNCHANGED <<compositorVars, outputs, surfaceVars, initialization_failed, faults>>

-----------------------------------------------------------------------------
(* The setup's part. *)

(* One turn of create_surfaces_for_outputs. *)
CreateSurface(n) ==
  /\ n \in outputs
  /\ surface[n] = "NULL"
  /\ surface' = [surface EXCEPT ![n] = "live"]
  /\ stale' = stale \cup {n}
  /\ UNCHANGED <<compositorVars, events, outputs, requested, slot, busy,
                 initialization_failed, faults, undefined>>

(* It fails; the surface without a lock surface is destroyed but not       *)
(* forgotten.                                                              *)
CreateSurfaceFails(n) ==
  /\ n \in outputs
  /\ surface[n] = "NULL"
  /\ Fault
  /\ \E s \in {"NULL", "freed"} : surface' = [surface EXCEPT ![n] = s]
  /\ UNCHANGED <<compositorVars, events, outputs, requested, slot, busy, stale,
                 initialization_failed, undefined>>

(* add_surface_frame_listeners_for_outputs *)
AddSurfaceFrameListeners ==
  /\ requested' = [n \in Outputs |-> IF n \in outputs THEN requested[n] + 1
                                                      ELSE requested[n]]
  /\ UNCHANGED <<compositorVars, events, outputs, surface, slot, busy, stale,
                 initialization_failed, faults, undefined>>

(* Text was typed: all surfaces are to be drawn again. *)
TextChanges ==
  /\ stale' = { n \in Outputs : surface[n] = "live" }
  /\ UNCHANGED <<compositorVars, events, outputs, surface, requested, slot, busy,
                 initialization_failed, faults, undefined>>
=============================================================================
