------------------------------- MODULE Startup -------------------------------
(***************************************************************************)
(* The life of the program around its outputs: setup_initial_state with    *)
(* every step that may fail and its three round trips, the main loop as    *)
(* far as it dispatches events of outputs, and destroy_anvi_state          *)
(* (session_setup.c, main.c).                                              *)
(*                                                                         *)
(* A request is only sent when the connection is flushed: by a round trip  *)
(* or by the main loop.  A setup that gives up closes the connection       *)
(* without a flush.                                                        *)
(***************************************************************************)
EXTENDS Outputs

VARIABLES
  pc,         \* the step of the setup, "run" or "ended"
  announced,  \* globals other than outputs whose event is not dispatched yet
  bound,      \* pointers of anvi_state to globals that are not NULL
  lock,       \* the lock request: "none", "buffered" or "sent"
  storage     \* state->storage: "NULL", "raw" (document_fd not set) or "open"

controlVars == <<pc, announced, bound, lock, storage>>
vars == <<controlVars, outputsVars>>

Globals  == {"session_lock_manager", "wl_compositor", "wl_shm", "seat"}
Required == {"session_lock_manager", "wl_compositor", "wl_shm"}

(* Steps that only allocate or connect, with the step after each; those    *)
(* that clean up when they fail; the round trips.                          *)
StepAfter == [ defaults |-> "load", load |-> "renderer", renderer |-> "document",
               document |-> "prompt_input", prompt_input |-> "display",
               display |-> "registry", registry |-> "listener",
               listener |-> "globals" ]
CleansUp   == {"registry", "listener"}
RoundTrips == {"globals", "capabilities", "keymap"}
PC == DOMAIN StepAfter \cup RoundTrips \cup
      {"lock", "surfaces", "giving up", "frames", "storage", "document_fd", "save_timer_fd",
       "start_timer", "run", "ended"}

Init ==
  /\ OutputsInit
  /\ pc = "defaults"
  /\ announced \in SUBSET Globals
  /\ bound = {}
  /\ lock = "none"
  /\ storage = "NULL"

Defined == undefined = "nothing"

At(step) == Defined /\ pc = step

Goto(from, to) == At(from) /\ pc' = to

-----------------------------------------------------------------------------
(* destroy_anvi_state.  The connection is gone, and so are events; the     *)
(* descriptor of a document that was never opened is whatever malloc left. *)
DestroyAnviState ==
  /\ pc' = "ended"
  /\ events' = [n \in Outputs |-> << >>]
  /\ announced' = {}
  /\ bound' = {}
  /\ storage' = "NULL"
  /\ UNCHANGED <<plugged, configures, initialization_failed, lock>>
  /\ IF \A n \in outputs : Sound(n)
     THEN /\ DestroyOutputs(outputs)
          /\ undefined' \in (IF storage = "raw" THEN {"nothing", "descriptor"}
                                                ELSE {"nothing"})
     ELSE /\ \E n \in outputs : DestroyUndefined(n)
          /\ UNCHANGED <<held, shown, committed, outputs, surfaceVars>>

-----------------------------------------------------------------------------
(* Up to the registry, main and setup_initial_state allocate and connect.  *)
SetupStep ==
  /\ pc \in DOMAIN StepAfter
  /\ pc' = StepAfter[pc]
  /\ UNCHANGED <<announced, bound, lock, storage, outputsVars>>

(* One of them fails; before there is a registry nothing is cleaned up.    *)
SetupStepFails ==
  /\ pc \in DOMAIN StepAfter
  /\ Fault
  /\ IF pc \in CleansUp
     THEN DestroyAnviState
     ELSE /\ pc' = "ended"
          /\ UNCHANGED <<announced, bound, lock, storage, compositorVars, events,
                         outputs, surfaceVars, initialization_failed, undefined>>

(* Events are dispatched in the round trips and in the loop, which needs   *)
(* its keyboard to poll.                                                   *)
Dispatching == Defined /\ (pc \in RoundTrips \/ (pc = "run" /\ "keyboard" \in bound))

(* registry_global for a global that is not an output.  Binding fails: a   *)
(* seat's listener is added all the same.                                  *)
RegistryGlobal(g) ==
  /\ Dispatching
  /\ g \in announced
  /\ announced' = announced \ {g}
  /\ \/ /\ bound' = bound \cup {g}
        /\ UNCHANGED <<initialization_failed, faults, undefined>>
     \/ /\ Fault
        /\ initialization_failed' = (initialization_failed \/ g = "wl_shm")
        /\ IF g = "seat" THEN Undefined("seat") ELSE UNCHANGED undefined
        /\ UNCHANGED bound
  /\ UNCHANGED <<pc, lock, storage, compositorVars, events, outputs, surfaceVars>>

(* seat_capabilities with and without a keyboard.  Creating one fails: it  *)
(* is missed at once, or, without its timer, it is used after it was freed.*)
(* What happens to it later is in Keyboard.                                *)
SeatCapabilities ==
  /\ At("capabilities") \/ At("keymap")
  /\ "seat" \in bound
  /\ \/ /\ bound' \in {bound \cup {"keyboard"}, bound \ {"keyboard"}}
        /\ UNCHANGED <<initialization_failed, faults, undefined>>
     \/ /\ "keyboard" \notin bound
        /\ Fault
        /\ \/ initialization_failed' = TRUE /\ UNCHANGED undefined
           \/ Undefined("keyboard") /\ UNCHANGED initialization_failed
        /\ UNCHANGED bound
  /\ UNCHANGED <<pc, announced, lock, storage, compositorVars, events, outputs,
                 surfaceVars>>

(* What the setup asks after each round trip. *)
GlobalsFound  == outputs # {} /\ Required \subseteq bound /\ ~ initialization_failed
KeyboardFound == "keyboard" \in bound /\ ~ initialization_failed
Delivered     == announced = {} /\ \A n \in Outputs : events[n] = << >>

(* A flush sends what waits in the connection's buffer. *)
Flushed == IF lock = "buffered" THEN "sent" ELSE lock

RoundTripEnds(from, to, found) ==
  /\ Delivered
  /\ found
  /\ Goto(from, to)
  /\ lock' = Flushed
  /\ UNCHANGED <<announced, bound, storage, outputsVars>>

GlobalsRoundTrip      == RoundTripEnds("globals", "capabilities", GlobalsFound)
CapabilitiesRoundTrip == RoundTripEnds("capabilities", "keymap", KeyboardFound)


(* Slip: what failed in the last round trip is not noticed. *)
KeymapRoundTripUnchecked == RoundTripEnds("keymap", "lock", TRUE)

KeymapRoundTrip == RoundTripEnds("keymap", "lock", ~ initialization_failed)

(* The connection fails, or something that is needed is missing.           *)
RoundTripFails ==
  /\ \/ Defined /\ pc \in RoundTrips /\ Fault
     \/ /\ Delivered
        /\ \/ At("globals") /\ ~ GlobalsFound
           \/ At("capabilities") /\ ~ KeyboardFound
           \/ At("keymap") /\ initialization_failed
        /\ UNCHANGED faults
  /\ DestroyAnviState

(* Slip: the request is followed by a round trip. *)
RequestLockAndWait ==
  /\ Goto("lock", "surfaces")
  /\ lock' = "sent"
  /\ UNCHANGED <<announced, bound, storage, outputsVars>>

(* The lock request waits in the connection's buffer. *)
RequestLock ==
  /\ Goto("lock", "surfaces")
  /\ lock' = "buffered"
  /\ UNCHANGED <<announced, bound, storage, outputsVars>>

CreateSurfaces ==
  /\ At("surfaces")
  /\ \E n \in outputs : CreateSurface(n)
  /\ UNCHANGED controlVars

CreateSurfacesFails ==
  /\ At("surfaces")
  /\ \E n \in outputs : CreateSurfaceFails(n)
  /\ pc' = "giving up"
  /\ UNCHANGED <<announced, bound, lock, storage>>

GiveUp ==
  /\ At("giving up")
  /\ UNCHANGED faults
  /\ DestroyAnviState

(* Slip: the loop over the outputs ends early. *)
SurfacesCreatedEarly ==
  /\ \E n \in outputs : surface[n] = "live"
  /\ Goto("surfaces", "frames")
  /\ UNCHANGED <<announced, bound, lock, storage, outputsVars>>

SurfacesCreated ==
  /\ \A n \in outputs : surface[n] = "live"
  /\ Goto("surfaces", "frames")
  /\ UNCHANGED <<announced, bound, lock, storage, outputsVars>>

AddFrameListeners ==
  /\ Goto("frames", "storage")
  /\ AddSurfaceFrameListeners
  /\ UNCHANGED <<announced, bound, lock, storage>>

AllocateStorage ==
  /\ Goto("storage", "document_fd")
  /\ storage' = "raw"
  /\ UNCHANGED <<announced, bound, lock, outputsVars>>

CreateDocumentFd ==
  /\ Goto("document_fd", "save_timer_fd")
  /\ storage' = "open"
  /\ UNCHANGED <<announced, bound, lock, outputsVars>>

CreateAndStartTimer ==
  /\ Goto("save_timer_fd", "start_timer") \/ Goto("start_timer", "run")
  /\ UNCHANGED <<announced, bound, lock, storage, outputsVars>>

(* From the lock request on, a step that fails cleans up. *)
LateStepFails ==
  /\ pc \in {"lock", "storage", "document_fd", "save_timer_fd", "start_timer"}
  /\ Fault
  /\ DestroyAnviState

-----------------------------------------------------------------------------
(* The main loop. *)

Flush ==
  /\ At("run")
  /\ lock = "buffered"
  /\ lock' = Flushed
  /\ UNCHANGED <<pc, announced, bound, storage, outputsVars>>

(* poll_for_events_and_timer_completion without a keyboard. *)
PollUndefined ==
  /\ At("run")
  /\ "keyboard" \notin bound
  /\ Undefined("keyboard")
  /\ UNCHANGED <<controlVars, compositorVars, events, outputs, surfaceVars,
                 initialization_failed, faults>>

TypeText ==
  /\ At("run") /\ "keyboard" \in bound
  /\ TextChanges
  /\ UNCHANGED controlVars

(* The loop ends with a cleanup, or without one when poll fails.           *)
LeaveLoop ==
  /\ At("run") /\ "keyboard" \in bound
  /\ UNCHANGED faults
  /\ DestroyAnviState

LeaveLoopAtOnce ==
  /\ At("run") /\ "keyboard" \in bound
  /\ pc' = "ended"
  /\ UNCHANGED <<announced, bound, lock, storage, outputsVars>>

(* Handlers that the dispatch calls. *)
Handle(n) ==
  /\ Dispatching
  /\ \/ CreateAndBindOutput(n)
     \/ RemoveOutput(n) \/ RemoveOutputUndefined(n)
     \/ LockSurfaceConfigure(n)
     \/ BufferRelease(n)
     \/ SurfaceFrameDone(n) \/ SurfaceFrameDoneUndefined(n)
     \/ DropEvent(n)
  /\ UNCHANGED controlVars

(* The compositor tells of outputs once there is a registry, and of lock   *)
(* surfaces once it has the request.                                       *)
Compositor(n) ==
  /\ Defined
  /\ pc \notin DOMAIN StepAfter \cup {"ended"}
  /\ \/ Plug(n) \/ Unplug(n)
     \/ lock = "sent" /\ CompositorConfigures(n)
     \/ \E k \in Buffer : CompositorReleases(n, k)
     \/ CompositorPresents(n)
  /\ UNCHANGED controlVars

Stopped == (pc = "ended" \/ ~ Defined) /\ UNCHANGED vars

Setup ==
  \/ SetupStep \/ SetupStepFails
  \/ \E g \in Globals : RegistryGlobal(g)
  \/ SeatCapabilities
  \/ GlobalsRoundTrip \/ CapabilitiesRoundTrip \/ KeymapRoundTrip \/ RoundTripFails
  \/ RequestLock \/ CreateSurfaces \/ CreateSurfacesFails \/ GiveUp
  \/ SurfacesCreated \/ AddFrameListeners
  \/ AllocateStorage \/ CreateDocumentFd \/ CreateAndStartTimer \/ LateStepFails

MainLoop == Flush \/ PollUndefined \/ TypeText \/ LeaveLoop \/ LeaveLoopAtOnce

Next ==
  \/ Setup \/ MainLoop
  \/ \E n \in Outputs : Handle(n) \/ Compositor(n)
  \/ Stopped

Running(A) == At("run") /\ UNCHANGED controlVars /\ A

(* The loop dispatches; the compositor shows what it gets and releases     *)
(* what it has replaced.                                                   *)
Fairness ==
  \A n \in Outputs :
    /\ WF_vars(Handle(n))
    /\ WF_vars(Running(CompositorPresents(n)))
    /\ WF_vars(Running(\E k \in Buffer \ {shown[n]} : CompositorReleases(n, k)))

Spec     == Init /\ [][Next]_vars
FairSpec == Spec /\ Fairness

-----------------------------------------------------------------------------
(* Properties.                                                             *)

(* Type invariant of setup and outputs. *)
StartupTypeOK ==
  /\ pc \in PC
  /\ announced \subseteq Globals
  /\ bound \subseteq Globals \cup {"keyboard"}
  /\ lock \in {"none", "buffered", "sent"}
  /\ storage \in {"NULL", "raw", "open"}
  /\ plugged \in [Outputs -> {"absent", "present", "gone"}]
  /\ events \in [Outputs -> Seq(Event)]
  /\ configures \in [Outputs -> Nat]
  /\ \A n \in Outputs : configures[n] <= MaxConfigures[n]
  /\ held \in [Outputs -> SUBSET Buffer]
  /\ shown \in [Outputs -> Buffer \cup {NoBuffer}]
  /\ committed \in [Outputs -> Nat]
  /\ outputs \subseteq Outputs
  /\ surface \in [Outputs -> {"NULL", "live", "freed"}]
  /\ requested \in [Outputs -> Nat]
  /\ slot \in [Outputs -> [Buffer -> Slot]]
  /\ busy \in [Outputs -> SUBSET Buffer]
  /\ stale \subseteq Outputs
  /\ initialization_failed \in BOOLEAN
  /\ faults \in 0 .. MaxFaults
  /\ undefined \in {"nothing", "NULL", "raw", "freed", "callback", "surface",
                    "descriptor", "seat", "keyboard"}

Count(q, type) == Cardinality({ j \in DOMAIN q : q[j].type = type })

(* While the program runs, each output that it set up has exactly one      *)
(* frame callback: asked for, with the compositor, or answered and not yet *)
(* handled.  None is lost by a resize or by a frame that is skipped, and   *)
(* no second chain of frames starts (render.c:229-246, output.c:132).      *)
OneFrameCallback ==
  At("run") =>
    \A n \in outputs :
      requested[n] + committed[n] + Count(events[n], "done")
        = IF surface[n] = "live" THEN 1 ELSE 0

(* A buffer is busy exactly while the compositor may read it or its        *)
(* release is on the way: nothing is drawn over what is on the screen, and *)
(* no buffer is lost (buffer.c:20-25, 102-112, render.c:218).              *)
BusyIsAccurate ==
  At("run") =>
    \A n \in Outputs : slot[n] = BothLive =>
      busy[n] = held[n] \cup { k \in Buffer :
                                 \E j \in DOMAIN events[n] : events[n][j] = Release(k) }

(* Whatever is plugged, unplugged, resized, released and shown in whatever *)
(* order, and wherever setup or loop end: no pointer is followed that was  *)
(* freed or never set, unless a call has failed.  The exception, a frame   *)
(* callback of a removed output, is not covered (buffer.c:191, output.c).  *)
SoundWithoutFaults ==
  faults = 0 => undefined \in {"nothing", "callback", "keyboard"}

(* No pointer to a buffer is followed after its buffer was freed, even     *)
(* when a resize fails: "In the case of resize, we need to clean up the    *)
(* previous state" (buffer.c:250), once.                                   *)
BuffersFreedOnce == undefined # "freed"

(* When the frames are asked for and until the program runs, the outputs   *)
(* in the list are covered by a lock surface, and nothing else is, whatever*)
(* came and went in the three round trips (output.c:161-190).              *)
SetupCoversOutputs ==
  pc \in {"frames", "storage", "document_fd", "save_timer_fd", "start_timer"} =>
    \A n \in Outputs : surface[n] = IF n \in outputs THEN "live" ELSE "NULL"

(* A setup that gives up never leaves the session locked: until the main   *)
(* loop runs the request stays in the buffer of a connection that is       *)
(* closed without a flush (session_setup.c:351-381).                       *)
FailedSetupNeverLocks ==
  [][lock # "sent" /\ lock' = "sent" => pc = "run"]_vars

(* The lock is asked for only with everything bound and after no handler   *)
(* of the three round trips has failed (session_setup.c:314-351).          *)
LocksOnlyWhenReady ==
  [][(lock = "none" /\ lock' # "none")
       => Required \subseteq bound /\ ~ initialization_failed]_vars

(* What is typed gets to the screen: a surface that has a size and shows   *)
(* an old text is drawn again, unless its output or the program goes, or a *)
(* resize failed (render.c:209-234).                                       *)
ScreenCatchesUp ==
  \A n \in Outputs :
    (pc = "run" /\ "keyboard" \in bound /\ configures[n] > 0 /\ n \in stale)
      ~> (n \notin stale \/ pc = "ended" \/ ~ Defined \/ faults > 0)
=============================================================================
