----------------------------- MODULE StartupProofs -----------------------------
(***************************************************************************)
(* Theorems about Startup, for any set of outputs, any number of sizes and *)
(* any number of failing calls.                                            *)
(*                                                                         *)
(* SetupInv is about the steps of the setup: when the lock is asked for,   *)
(* when the request is sent, what the lock surfaces cover.  Events need    *)
(* not be known for it: a handler adds and removes outputs, and a surface  *)
(* that was never created stays NULL.                                      *)
(*                                                                         *)
(* OutputsInv is about each output with its queue: which releases and      *)
(* frame callbacks wait in it, and what the pointers of the output point   *)
(* to while no call has failed.                                            *)
(***************************************************************************)
EXTENDS Startup, TLAPS, SequenceTheorems, FiniteSetTheorems

Allocating   == DOMAIN StepAfter
BeforeLock   == Allocating \cup RoundTrips \cup {"lock"}
AfterCovered == {"frames", "storage", "document_fd", "save_timer_fd", "start_timer"}

(* Before the request nothing is locked and nothing is covered. *)
NothingYet ==
  pc \in BeforeLock => lock = "none" /\ \A n \in Outputs : surface[n] = "NULL"

(* What was bound for the first round trip is not lost in the others. *)
StaysBound == pc \in {"capabilities", "keymap", "lock"} => Required \subseteq bound

ReadyToLock == pc = "lock" => ~ initialization_failed

(* While they are created, surfaces belong to outputs in the list. *)
SurfacesAreOfOutputs ==
  pc = "surfaces" =>
    \A n \in Outputs : surface[n] \in (IF n \in outputs THEN {"NULL", "live"} ELSE {"NULL"})

SurfacesOK == surface \in [Outputs -> {"NULL", "live", "freed"}]

SetupInv ==
  SurfacesOK /\ NothingYet /\ StaysBound /\ ReadyToLock /\ SurfacesAreOfOutputs
    /\ SetupCoversOutputs

(* The steps by name, since what follows asks where a step leads. *)
LEMMA AllocatingSteps ==
  /\ Allocating = {"defaults", "load", "renderer", "document", "prompt_input", "display",
                   "registry", "listener"}
  /\ \A s \in Allocating : StepAfter[s] \in Allocating \cup {"globals"}
  BY DEF Allocating, StepAfter

-----------------------------------------------------------------------------
(* What the handlers of outputs do to the state that the invariant is of.  *)

(* DestroyAnviState ends the program. *)
LEMMA DestroyEnds ==
  ASSUME SurfacesOK, DestroyAnviState
  PROVE  pc' = "ended" /\ lock' = lock /\ SurfacesOK'
  BY DEF SurfacesOK, DestroyAnviState, DestroyOutputs, surfaceVars

(* A handler creates no surface, and destroys one with its output only. *)
LEMMA HandlerKeepsSurfaces ==
  ASSUME SurfacesOK, NEW n \in Outputs, Handle(n)
  PROVE  /\ UNCHANGED controlVars
         /\ Dispatching
         /\ SurfacesOK'
         /\ \A m \in Outputs : surface'[m] \in {surface[m], "NULL"}
<1>1. UNCHANGED controlVars /\ Dispatching
  BY DEF Handle
<1>2. CASE RemoveOutput(n)
  BY <1>1, <1>2 DEF RemoveOutput, DestroyOutputs, SurfacesOK
<1>3. CASE ~ RemoveOutput(n)
  <2>1. surface' = surface
    BY <1>3 DEF Handle, CreateAndBindOutput, RemoveOutputUndefined, LockSurfaceConfigure,
       BufferRelease, SurfaceFrameDone, SurfaceFrameDoneUndefined, DropEvent, surfaceVars
  <2>. QED BY <1>1, <2>1 DEF SurfacesOK
<1>. QED BY <1>2, <1>3

(* The compositor touches only its own state and the queue. *)
LEMMA CompositorKeepsClient ==
  ASSUME NEW n \in Outputs, Compositor(n)
  PROVE  UNCHANGED <<controlVars, surface, outputs, initialization_failed>>
  BY DEF Compositor, Plug, Unplug, CompositorConfigures, CompositorReleases,
     CompositorPresents, surfaceVars

(* Main loop: a step runs at "run" and ends there or in "ended". *)
LEMMA LoopStays ==
  ASSUME SurfacesOK, MainLoop
  PROVE  pc = "run" /\ pc' \in {"run", "ended"} /\ SurfacesOK'
<1>1. CASE LeaveLoop
  BY <1>1, DestroyEnds DEF LeaveLoop, At
<1>2. CASE Flush \/ PollUndefined \/ TypeText \/ LeaveLoopAtOnce
  BY <1>2 DEF Flush, PollUndefined, TypeText, TextChanges, LeaveLoopAtOnce, At,
     outputsVars, surfaceVars, controlVars, SurfacesOK
<1>. QED BY <1>1, <1>2 DEF MainLoop

-----------------------------------------------------------------------------
(* The invariant.                                                          *)

(* At the start nothing is locked and nothing is covered.                  *)
LEMMA SetupInvInit == Init => SetupInv
<1>. SUFFICES ASSUME Init PROVE SetupInv
  OBVIOUS
<1>1. pc = "defaults" /\ lock = "none" /\ surface = [n \in Outputs |-> "NULL"]
  BY DEF Init, OutputsInit
<1>. QED BY <1>1 DEF SetupInv, SurfacesOK, NothingYet, StaysBound, ReadyToLock,
         SurfacesAreOfOutputs, SetupCoversOutputs

(* A step that ends the program leaves nothing to show. *)
LEMMA EndedIsFine ==
  ASSUME SurfacesOK', pc' = "ended"
  PROVE  SetupInv'
<1>1. pc' \notin BeforeLock
  BY AllocatingSteps DEF BeforeLock, RoundTrips
<1>. QED BY <1>1 DEF SetupInv, NothingYet, StaysBound, ReadyToLock, SurfacesAreOfOutputs,
         SetupCoversOutputs

(* The same where only the main loop can follow. *)
LEMMA RunIsFine ==
  ASSUME SurfacesOK', pc' = "run"
  PROVE  SetupInv'
<1>1. pc' \notin BeforeLock
  BY AllocatingSteps DEF BeforeLock, RoundTrips
<1>. QED BY <1>1 DEF SetupInv, NothingYet, StaysBound, ReadyToLock, SurfacesAreOfOutputs,
         SetupCoversOutputs

(* Every step of the setup that goes on. *)
SetupGoesOn ==
  \/ SetupStep
  \/ \E g \in Globals : RegistryGlobal(g)
  \/ SeatCapabilities
  \/ GlobalsRoundTrip \/ CapabilitiesRoundTrip \/ KeymapRoundTrip
  \/ RequestLock \/ CreateSurfaces \/ SurfacesCreated \/ AddFrameListeners
  \/ AllocateStorage \/ CreateDocumentFd \/ CreateAndStartTimer

SetupFails == SetupStepFails \/ RoundTripFails \/ CreateSurfacesFails \/ GiveUp \/ LateStepFails

(* A setup that fails leaves nothing that the invariant is of.             *)
LEMMA FailingSetupIsFine ==
  ASSUME SetupInv, SetupFails
  PROVE  SetupInv'
<1>. USE DEF SetupInv
<1>1. CASE SetupStepFails
  <2>1. pc' = "ended" /\ SurfacesOK'
    BY <1>1, DestroyEnds DEF SetupStepFails, surfaceVars, SurfacesOK
  <2>. QED BY <2>1, EndedIsFine
<1>2. CASE RoundTripFails \/ GiveUp \/ LateStepFails
  <2>1. DestroyAnviState
    BY <1>2 DEF RoundTripFails, GiveUp, LateStepFails
  <2>. QED BY <2>1, DestroyEnds, EndedIsFine
<1>3. CASE CreateSurfacesFails
  <2>1. pc' = "giving up" /\ SurfacesOK'
    BY <1>3 DEF CreateSurfacesFails, CreateSurfaceFails, SurfacesOK
  <2>2. pc' \notin BeforeLock
    BY <2>1, AllocatingSteps DEF BeforeLock, RoundTrips
  <2>. QED BY <2>1, <2>2 DEF NothingYet, StaysBound, ReadyToLock,
           SurfacesAreOfOutputs, SetupCoversOutputs
<1>. QED BY <1>1, <1>2, <1>3 DEF SetupFails

(* Each step of the setup, by what it asks before it goes on.              *)
LEMMA SetupStepIsFine ==
  ASSUME SetupInv, SetupGoesOn
  PROVE  SetupInv'
<1>. USE DEF SetupInv
<1>1. CASE SetupStep
  <2>1. pc \in BeforeLock /\ pc' \in Allocating \cup {"globals"}
    BY <1>1, AllocatingSteps DEF SetupStep, BeforeLock, Allocating
  <2>2. UNCHANGED <<lock, surface>>
    BY <1>1 DEF SetupStep, outputsVars, surfaceVars
  <2>. QED BY <2>1, <2>2, AllocatingSteps DEF BeforeLock, RoundTrips, NothingYet, StaysBound,
           ReadyToLock, SurfacesAreOfOutputs, SetupCoversOutputs, SurfacesOK
<1>2. ASSUME NEW g \in Globals, RegistryGlobal(g)
      PROVE  SetupInv'
  <2>1. /\ UNCHANGED <<pc, lock, surface, outputs>>
        /\ bound \subseteq bound'
        /\ pc \in RoundTrips \/ pc = "run"
    BY <1>2 DEF RegistryGlobal, Dispatching, surfaceVars
  <2>. QED BY <2>1, RunIsFine DEF RoundTrips, NothingYet, StaysBound, ReadyToLock,
           SurfacesAreOfOutputs, SetupCoversOutputs, SurfacesOK
<1>3. CASE SeatCapabilities
  <2>1. /\ UNCHANGED <<pc, lock, surface, outputs>>
        /\ bound \ {"keyboard"} \subseteq bound'
        /\ pc \in RoundTrips
    BY <1>3 DEF SeatCapabilities, At, RoundTrips, surfaceVars
  <2>. QED BY <2>1 DEF Required, RoundTrips, NothingYet, StaysBound, ReadyToLock,
           SurfacesAreOfOutputs, SetupCoversOutputs, SurfacesOK
<1>4. CASE GlobalsRoundTrip
  <2>1. /\ pc = "globals" /\ pc' = "capabilities"
        /\ lock' = Flushed /\ Required \subseteq bound'
        /\ UNCHANGED <<surface, outputs>>
    BY <1>4 DEF GlobalsRoundTrip, RoundTripEnds, GlobalsFound, Goto, At, outputsVars,
       surfaceVars
  <2>. QED BY <2>1 DEF Flushed, RoundTrips, BeforeLock, NothingYet, StaysBound, ReadyToLock,
           SurfacesAreOfOutputs, SetupCoversOutputs, SurfacesOK
<1>5. CASE CapabilitiesRoundTrip
  <2>1. /\ pc = "capabilities" /\ pc' = "keymap"
        /\ lock' = Flushed /\ UNCHANGED <<bound, surface, outputs>>
    BY <1>5 DEF CapabilitiesRoundTrip, RoundTripEnds, Goto, At, outputsVars, surfaceVars
  <2>. QED BY <2>1 DEF Flushed, RoundTrips, BeforeLock, NothingYet, StaysBound, ReadyToLock,
           SurfacesAreOfOutputs, SetupCoversOutputs, SurfacesOK
<1>6. CASE KeymapRoundTrip
  <2>1. /\ pc = "keymap" /\ pc' = "lock" /\ ~ initialization_failed
        /\ lock' = Flushed /\ UNCHANGED <<bound, surface, outputs, initialization_failed>>
    BY <1>6 DEF KeymapRoundTrip, RoundTripEnds, Goto, At, outputsVars, surfaceVars
  <2>. QED BY <2>1 DEF Flushed, RoundTrips, BeforeLock, NothingYet, StaysBound, ReadyToLock,
           SurfacesAreOfOutputs, SetupCoversOutputs, SurfacesOK
<1>7. CASE RequestLock
  <2>1. pc = "lock" /\ pc' = "surfaces" /\ UNCHANGED <<surface, outputs>>
    BY <1>7 DEF RequestLock, Goto, At, outputsVars, surfaceVars
  <2>2. pc' \notin BeforeLock
    BY <2>1, AllocatingSteps DEF BeforeLock, RoundTrips
  <2>. QED BY <2>1, <2>2 DEF BeforeLock, NothingYet, StaysBound, ReadyToLock,
           SurfacesAreOfOutputs, SetupCoversOutputs, SurfacesOK
<1>8. CASE CreateSurfaces
  <2>1. PICK n \in outputs : CreateSurface(n)
    BY <1>8 DEF CreateSurfaces
  <2>2. pc = "surfaces" /\ pc' = "surfaces"
    BY <1>8 DEF CreateSurfaces, At, controlVars
  <2>3. surface' = [surface EXCEPT ![n] = "live"] /\ UNCHANGED outputs
    BY <2>1 DEF CreateSurface
  <2>4. pc' \notin BeforeLock
    BY <2>2, AllocatingSteps DEF BeforeLock, RoundTrips
  <2>. QED BY <2>2, <2>3, <2>4 DEF NothingYet, StaysBound, ReadyToLock,
           SurfacesAreOfOutputs, SetupCoversOutputs, SurfacesOK
<1>9. CASE SurfacesCreated
  <2>1. /\ pc = "surfaces" /\ pc' = "frames" /\ UNCHANGED <<surface, outputs>>
        /\ \A n \in outputs : surface[n] = "live"
    BY <1>9 DEF SurfacesCreated, Goto, At, outputsVars, surfaceVars
  <2>2. pc' \notin BeforeLock
    BY <2>1, AllocatingSteps DEF BeforeLock, RoundTrips
  <2>. QED BY <2>1, <2>2 DEF NothingYet, StaysBound, ReadyToLock,
           SurfacesAreOfOutputs, SetupCoversOutputs, SurfacesOK
<1>10. CASE AddFrameListeners \/ AllocateStorage \/ CreateDocumentFd \/ CreateAndStartTimer
  <2>1. /\ pc \in AfterCovered /\ pc' \in AfterCovered \cup {"run"}
        /\ UNCHANGED <<surface, outputs>>
    BY <1>10 DEF AddFrameListeners, AddSurfaceFrameListeners, AllocateStorage,
       CreateDocumentFd, CreateAndStartTimer, Goto, At, AfterCovered, outputsVars, surfaceVars
  <2>2. pc' \notin BeforeLock
    BY <2>1, AllocatingSteps DEF BeforeLock, RoundTrips, AfterCovered
  <2>. QED BY <2>1, <2>2 DEF AfterCovered, NothingYet, StaysBound, ReadyToLock,
           SurfacesAreOfOutputs, SetupCoversOutputs, SurfacesOK
<1>. QED
  BY <1>1, <1>2, <1>3, <1>4, <1>5, <1>6, <1>7, <1>8, <1>9, <1>10 DEF SetupGoesOn

(* A step of the setup goes on or fails.                                   *)
LEMMA SetupSplits == Setup => SetupGoesOn \/ SetupFails
  BY DEF Setup, SetupGoesOn, SetupFails

(* Every step keeps the invariant of the setup.                            *)
LEMMA SetupInvStep == SetupInv /\ [Next]_vars => SetupInv'
<1>. SUFFICES ASSUME SetupInv, [Next]_vars PROVE SetupInv'
  OBVIOUS
<1>1. CASE Setup
  BY <1>1, SetupSplits, SetupStepIsFine, FailingSetupIsFine
<1>2. CASE MainLoop
  BY <1>2, LoopStays, RunIsFine, EndedIsFine DEF SetupInv
<1>3. ASSUME NEW n \in Outputs, Handle(n)
      PROVE  SetupInv'
  <2>1. UNCHANGED <<pc, bound, lock>> /\ (pc \in RoundTrips \/ pc = "run") /\ SurfacesOK'
    BY <1>3, HandlerKeepsSurfaces DEF SetupInv, Dispatching, controlVars
  <2>2. CASE pc = "run"
    BY <2>1, <2>2, RunIsFine
  <2>3. CASE pc \in RoundTrips
    <3>1. \A m \in Outputs : surface'[m] = "NULL"
      BY <1>3, <2>3, HandlerKeepsSurfaces DEF SetupInv, NothingYet, BeforeLock
    <3>. QED BY <2>1, <2>3, <3>1 DEF SetupInv, RoundTrips, NothingYet, StaysBound,
             ReadyToLock, SurfacesAreOfOutputs, SetupCoversOutputs, BeforeLock
  <2>. QED BY <2>1, <2>2, <2>3
<1>4. ASSUME NEW n \in Outputs, Compositor(n)
      PROVE  SetupInv'
  <2>1. UNCHANGED <<pc, bound, lock, surface, outputs, initialization_failed>>
    BY <1>4, CompositorKeepsClient DEF controlVars
  <2>. QED BY <2>1 DEF SetupInv, SurfacesOK, NothingYet, StaysBound, ReadyToLock,
           SurfacesAreOfOutputs, SetupCoversOutputs
<1>5. CASE UNCHANGED vars
  BY <1>5 DEF vars, controlVars, outputsVars, surfaceVars, SetupInv, SurfacesOK,
     NothingYet, StaysBound, ReadyToLock, SurfacesAreOfOutputs, SetupCoversOutputs
<1>6. CASE Stopped
  BY <1>5, <1>6 DEF Stopped
<1>. QED BY <1>1, <1>2, <1>3, <1>4, <1>5, <1>6 DEF Next

(* The invariant of the setup holds in every run.                          *)
LEMMA SetupInvAlways == Spec => []SetupInv
  BY SetupInvInit, SetupInvStep, PTL DEF Spec

-----------------------------------------------------------------------------
(* Theorems.                                                               *)

(* Between the creation of the surfaces and the main loop exactly the      *)
(* outputs in the list are covered, however many came and went in the      *)
(* three round trips (output.c:161-190).                                   *)
THEOREM EveryOutputIsCovered == Spec => []SetupCoversOutputs
  BY SetupInvAlways, PTL DEF SetupInv

(* What a step does to the lock request. *)
LEMMA LockSteps ==
  ASSUME SetupInv, [Next]_vars
  PROVE  \/ lock' = lock
         \/ pc = "lock" /\ lock' = "buffered"
         \/ pc = "run" /\ lock = "buffered"
<1>. USE DEF SetupInv
<1>1. CASE SetupGoesOn
  <2>1. CASE GlobalsRoundTrip \/ CapabilitiesRoundTrip \/ KeymapRoundTrip
    <3>1. pc \in RoundTrips /\ lock' = Flushed
      BY <2>1 DEF GlobalsRoundTrip, CapabilitiesRoundTrip, KeymapRoundTrip, RoundTripEnds,
         Goto, At, RoundTrips
    <3>. QED BY <3>1 DEF Flushed, NothingYet, BeforeLock
  <2>2. CASE RequestLock
    BY <2>2 DEF RequestLock, Goto, At
  <2>3. CASE ~ (GlobalsRoundTrip \/ CapabilitiesRoundTrip \/ KeymapRoundTrip \/ RequestLock)
    BY <1>1, <2>3 DEF SetupGoesOn, SetupStep, RegistryGlobal, SeatCapabilities,
       CreateSurfaces, SurfacesCreated, AddFrameListeners, AllocateStorage,
       CreateDocumentFd, CreateAndStartTimer, controlVars
  <2>. QED BY <2>1, <2>2, <2>3
<1>2. CASE SetupFails
  BY <1>2 DEF SetupFails, SetupStepFails, RoundTripFails, CreateSurfacesFails, GiveUp,
     LateStepFails, DestroyAnviState
<1>3. CASE MainLoop
  BY <1>3 DEF MainLoop, Flush, PollUndefined, TypeText, LeaveLoop, LeaveLoopAtOnce,
     DestroyAnviState, At, controlVars
<1>4. ASSUME NEW n \in Outputs, Handle(n) \/ Compositor(n)
      PROVE  lock' = lock
  BY <1>4, HandlerKeepsSurfaces, CompositorKeepsClient DEF controlVars
<1>5. CASE Stopped \/ UNCHANGED vars
  BY <1>5 DEF Stopped, vars, controlVars
<1>. QED BY <1>1, <1>2, <1>3, <1>4, <1>5, SetupSplits DEF Next

(* A setup that gives up never leaves the session locked: the request is   *)
(* flushed by the main loop and nowhere else (session_setup.c:351-381).    *)
THEOREM GivingUpNeverLocks == Spec => FailedSetupNeverLocks
<1>1. SetupInv /\ [Next]_vars => [lock # "sent" /\ lock' = "sent" => pc = "run"]_vars
  BY LockSteps
<1>. QED BY <1>1, SetupInvAlways, PTL DEF Spec, FailedSetupNeverLocks

(* The lock is asked for only with everything bound and after no handler   *)
(* of the three round trips has failed (session_setup.c:314-351).          *)
THEOREM LockNeedsEverything == Spec => LocksOnlyWhenReady
<1>1. SetupInv /\ [Next]_vars =>
        [(lock = "none" /\ lock' # "none")
           => Required \subseteq bound /\ ~ initialization_failed]_vars
  <2>. SUFFICES ASSUME SetupInv, [Next]_vars, lock = "none", lock' # "none"
                PROVE  Required \subseteq bound /\ ~ initialization_failed
    OBVIOUS
  <2>. QED BY LockSteps DEF SetupInv, StaysBound, ReadyToLock
<1>. QED BY <1>1, SetupInvAlways, PTL DEF Spec, LocksOnlyWhenReady

-----------------------------------------------------------------------------
(* Queues of events.                                                       *)

(* What a queue holds. *)
Holds(q, e) == \E j \in DOMAIN q : q[j] = e

(* Each release waits at most once; `global' can only be the next event.   *)
ReleasesOnce(q) ==
  \A i, j \in DOMAIN q : q[i] = q[j] /\ q[i].type = "release" => i = j
GlobalFirst(q) == \A j \in DOMAIN q : q[j].type = "global" => j = 1

(* What an event is made of.                                               *)
LEMMA EventTypes ==
  /\ \A t \in {"global", "global_remove", "configure", "done", "dropped"} :
       Signal(t) \in Event /\ Signal(t).type = t
  /\ \A k \in Buffer : Release(k) \in Event /\ Release(k).type = "release"
                         /\ Release(k).buffer = k
  /\ \A e \in Event : e.type = "release" => e.buffer \in Buffer /\ e = Release(e.buffer)
  /\ \A e \in Event : e.type = "global" => e = Signal("global")
  BY DEF Event, Signal, Release, Buffer

(* Events in a queue are counted by natural numbers.                       *)
LEMMA CountType ==
  ASSUME NEW q \in Seq(Event), NEW t
  PROVE  /\ IsFiniteSet({ j \in DOMAIN q : q[j].type = t })
         /\ Count(q, t) \in Nat
  <1>1. IsFiniteSet(1 .. Len(q))
    BY FS_Interval
  <1>2. { j \in DOMAIN q : q[j].type = t } \in SUBSET (1 .. Len(q))
    OBVIOUS
  <1>. QED
    BY <1>1, <1>2, FS_Subset, FS_CardinalityType DEF Count

(* An empty queue holds none.                                              *)
LEMMA CountEmpty ==
  ASSUME NEW t
  PROVE  Count(<< >>, t) = 0
  <1>1. { j \in DOMAIN << >> : << >>[j].type = t } = {}
    OBVIOUS
  <1>. QED
    BY <1>1, FS_EmptySet DEF Count

(* One more event in the queue. *)
LEMMA Appended ==
  ASSUME NEW q \in Seq(Event), NEW e \in Event
  PROVE  /\ Append(q, e) \in Seq(Event)
         /\ \A f : Holds(Append(q, e), f) <=> Holds(q, f) \/ f = e
         /\ \A t : Count(Append(q, e), t) =
                     IF e.type = t THEN Count(q, t) + 1 ELSE Count(q, t)
         /\ ReleasesOnce(q) /\ (e.type = "release" => ~ Holds(q, e))
              => ReleasesOnce(Append(q, e))
         /\ GlobalFirst(q) /\ (e.type = "global" => q = << >>)
              => GlobalFirst(Append(q, e))
  <1>. DEFINE r == Append(q, e)
  <1>1. /\ r \in Seq(Event) /\ Len(q) \in Nat
        /\ DOMAIN q = 1 .. Len(q) /\ DOMAIN r = 1 .. Len(q) + 1
        /\ \A i \in 1 .. Len(q) : r[i] = q[i]
        /\ r[Len(q) + 1] = e
    BY AppendProperties
  <1>. HIDE DEF r
  <1>2. \A f : Holds(r, f) <=> Holds(q, f) \/ f = e
    <2>. TAKE f
    <2>1. ASSUME Holds(r, f) PROVE Holds(q, f) \/ f = e
      <3>1. PICK j \in 1 .. Len(q) + 1 : r[j] = f
        BY <1>1, <2>1 DEF Holds
      <3>2. CASE j = Len(q) + 1
        BY <1>1, <3>1, <3>2
      <3>3. CASE j # Len(q) + 1
        <4>1. j \in 1 .. Len(q)
          BY <1>1, <3>3
        <4>. QED
          BY <1>1, <3>1, <4>1 DEF Holds
      <3>. QED
        BY <3>2, <3>3
    <2>2. ASSUME Holds(q, f) PROVE Holds(r, f)
      <3>1. PICK j \in 1 .. Len(q) : q[j] = f
        BY <1>1, <2>2 DEF Holds
      <3>2. j \in 1 .. Len(q) + 1 /\ r[j] = f
        BY <1>1, <3>1
      <3>. QED
        BY <1>1, <3>2 DEF Holds
    <2>3. ASSUME f = e PROVE Holds(r, f)
      <3>1. Len(q) + 1 \in DOMAIN r
        BY <1>1
      <3>. QED
        BY <1>1, <2>3, <3>1 DEF Holds
    <2>. QED
      BY <2>1, <2>2, <2>3
  <1>3. \A t : Count(r, t) = IF e.type = t THEN Count(q, t) + 1 ELSE Count(q, t)
    <2>. TAKE t
    <2>. DEFINE S == { j \in DOMAIN q : q[j].type = t }
                T == { j \in DOMAIN r : r[j].type = t }
    <2>1. IsFiniteSet(S) /\ Count(q, t) = Cardinality(S) /\ Count(r, t) = Cardinality(T)
      BY CountType DEF Count
    <2>2. CASE e.type = t
      <3>1. T = S \cup {Len(q) + 1} /\ Len(q) + 1 \notin S
        BY <1>1, <2>2
      <3>. HIDE DEF S, T
      <3>2. Cardinality(S \cup {Len(q) + 1}) = Cardinality(S) + 1
        BY <2>1, <3>1, FS_AddElement
      <3>. QED
        BY <2>1, <2>2, <3>1, <3>2
    <2>3. CASE e.type # t
      <3>1. T = S
        BY <1>1, <2>3
      <3>. QED
        BY <2>1, <2>3, <3>1
    <2>. QED
      BY <2>2, <2>3
  <1>4. ASSUME ReleasesOnce(q), e.type = "release" => ~ Holds(q, e)
        PROVE  ReleasesOnce(r)
    <2>. SUFFICES ASSUME NEW i \in 1 .. Len(q) + 1, NEW j \in 1 .. Len(q) + 1,
                         r[i] = r[j], r[i].type = "release"
                  PROVE  i = j
      BY <1>1 DEF ReleasesOnce
    <2>1. CASE i = Len(q) + 1 /\ j # Len(q) + 1
      <3>1. j \in 1 .. Len(q) /\ r[i] = e
        BY <1>1, <2>1
      <3>. QED
        BY <1>1, <1>4, <3>1 DEF Holds
    <2>2. CASE j = Len(q) + 1 /\ i # Len(q) + 1
      <3>1. i \in 1 .. Len(q) /\ r[j] = e
        BY <1>1, <2>2
      <3>. QED
        BY <1>1, <1>4, <3>1 DEF Holds
    <2>3. CASE i # Len(q) + 1 /\ j # Len(q) + 1
      <3>1. i \in 1 .. Len(q) /\ j \in 1 .. Len(q)
        BY <1>1, <2>3
      <3>. QED
        BY <1>1, <1>4, <3>1 DEF ReleasesOnce
    <2>. QED
      BY <2>1, <2>2, <2>3
  <1>5. ASSUME GlobalFirst(q), e.type = "global" => q = << >>
        PROVE  GlobalFirst(r)
    <2>. SUFFICES ASSUME NEW j \in 1 .. Len(q) + 1, r[j].type = "global"
                  PROVE  j = 1
      BY <1>1 DEF GlobalFirst
    <2>1. CASE j = Len(q) + 1
      <3>1. Len(q) = 0
        BY <1>1, <1>5, <2>1
      <3>. QED
        BY <2>1, <3>1
    <2>2. CASE j # Len(q) + 1
      <3>1. j \in 1 .. Len(q)
        BY <1>1, <2>2
      <3>. QED
        BY <1>1, <1>5, <3>1 DEF GlobalFirst
    <2>. QED
      BY <2>1, <2>2
  <1>. QED
    BY <1>1, <1>2, <1>3, <1>4, <1>5 DEF r

(* The next event is taken from the queue. *)
LEMMA TailTaken ==
  ASSUME NEW q \in Seq(Event), q # << >>
  PROVE  /\ Tail(q) \in Seq(Event) /\ Head(q) \in Event
         /\ \A f : Holds(q, f) <=> Holds(Tail(q), f) \/ f = Head(q)
         /\ \A t : Count(q, t) = IF Head(q).type = t THEN Count(Tail(q), t) + 1
                                                     ELSE Count(Tail(q), t)
         /\ ReleasesOnce(q) =>
              /\ ReleasesOnce(Tail(q))
              /\ Head(q).type = "release" => ~ Holds(Tail(q), Head(q))
         /\ GlobalFirst(q) => \A j \in DOMAIN Tail(q) : Tail(q)[j].type # "global"
  <1>. DEFINE r == Tail(q)
  <1>1. /\ r \in Seq(Event) /\ Len(r) \in Nat
        /\ DOMAIN r = 1 .. Len(r) /\ DOMAIN q = 1 .. Len(r) + 1
        /\ \A i \in 1 .. Len(r) : r[i] = q[i + 1]
        /\ q[1] = Head(q) /\ Head(q) \in Event
    BY HeadTailProperties
  <1>. HIDE DEF r
  <1>2. \A f : Holds(q, f) <=> Holds(r, f) \/ f = Head(q)
    <2>. TAKE f
    <2>1. ASSUME Holds(q, f) PROVE Holds(r, f) \/ f = Head(q)
      <3>1. PICK j \in 1 .. Len(r) + 1 : q[j] = f
        BY <1>1, <2>1 DEF Holds
      <3>2. CASE j = 1
        BY <1>1, <3>1, <3>2
      <3>3. CASE j # 1
        <4>1. j - 1 \in 1 .. Len(r) /\ (j - 1) + 1 = j
          BY <1>1, <3>3
        <4>2. r[j - 1] = f
          BY <1>1, <3>1, <4>1
        <4>. QED
          BY <1>1, <4>1, <4>2 DEF Holds
      <3>. QED
        BY <3>2, <3>3
    <2>2. ASSUME Holds(r, f) PROVE Holds(q, f)
      <3>1. PICK j \in 1 .. Len(r) : r[j] = f
        BY <1>1, <2>2 DEF Holds
      <3>2. j + 1 \in DOMAIN q /\ q[j + 1] = f
        BY <1>1, <3>1
      <3>. QED
        BY <3>2 DEF Holds
    <2>3. ASSUME f = Head(q) PROVE Holds(q, f)
      <3>1. 1 \in DOMAIN q
        BY <1>1
      <3>. QED
        BY <1>1, <2>3, <3>1 DEF Holds
    <2>. QED
      BY <2>1, <2>2, <2>3
  <1>3. \A t : Count(q, t) = IF Head(q).type = t THEN Count(r, t) + 1 ELSE Count(r, t)
    <2>. TAKE t
    <2>. DEFINE S == { j \in DOMAIN r : r[j].type = t }
                U == { j \in DOMAIN q : q[j].type = t } \ {1}
                T == { j \in DOMAIN q : q[j].type = t }
                f == [j \in S |-> j + 1]
    <2>1. /\ IsFiniteSet(S) /\ IsFiniteSet(T)
          /\ Count(r, t) = Cardinality(S) /\ Count(q, t) = Cardinality(T)
          /\ Cardinality(S) \in Nat /\ Cardinality(T) \in Nat
      BY <1>1, CountType DEF Count
    <2>2. f \in Bijection(S, U)
      <3>1. \A j \in S : f[j] \in U
        BY <1>1
      <3>2. \A i, j \in S : f[i] = f[j] => i = j
        BY <1>1
      <3>3. \A k \in U : \E j \in S : f[j] = k
        <4>. SUFFICES ASSUME NEW k \in U PROVE \E j \in S : f[j] = k
          OBVIOUS
        <4>1. k - 1 \in 1 .. Len(r) /\ (k - 1) + 1 = k
          BY <1>1
        <4>2. k - 1 \in S
          BY <1>1, <4>1
        <4>. QED
          BY <4>1, <4>2
      <3>. HIDE DEF S, U
      <3>4. f \in [S -> U]
        BY <3>1
      <3>. HIDE DEF f
      <3>. QED
        BY <3>2, <3>3, <3>4, Zenon DEF Bijection, Injection, Surjection, IsInjective
    <2>3. Cardinality(U) = Cardinality(S)
      <3>1. ExistsBijection(S, U)
        <4>. HIDE DEF f
        <4>. QED
          BY <2>2 DEF ExistsBijection
      <3>. HIDE DEF S, U
      <3>. QED
        BY <2>1, <3>1, FS_Bijection
    <2>4. U = T \ {1}
      OBVIOUS
    <2>5. Cardinality(T \ {1}) = IF 1 \in T THEN Cardinality(T) - 1 ELSE Cardinality(T)
      <3>. HIDE DEF T
      <3>. QED
        BY <2>1, FS_RemoveElement
    <2>6. 1 \in T <=> Head(q).type = t
      BY <1>1
    <2>. HIDE DEF S, T, U
    <2>. QED
      BY <2>1, <2>3, <2>4, <2>5, <2>6
  <1>4. ASSUME ReleasesOnce(q)
        PROVE  /\ ReleasesOnce(r)
               /\ Head(q).type = "release" => ~ Holds(r, Head(q))
    <2>1. ASSUME NEW i \in DOMAIN r, NEW j \in DOMAIN r, r[i] = r[j], r[i].type = "release"
          PROVE  i = j
      <3>1. /\ i + 1 \in DOMAIN q /\ j + 1 \in DOMAIN q
            /\ q[i + 1] = q[j + 1] /\ q[i + 1].type = "release"
        BY <1>1, <2>1
      <3>2. i + 1 = j + 1
        BY <1>4, <3>1 DEF ReleasesOnce
      <3>. QED
        BY <1>1, <3>2
    <2>2. ASSUME Head(q).type = "release", Holds(r, Head(q))
          PROVE  FALSE
      <3>1. PICK j \in DOMAIN r : r[j] = Head(q)
        BY <2>2 DEF Holds
      <3>2. /\ 1 \in DOMAIN q /\ j + 1 \in DOMAIN q
            /\ q[1] = q[j + 1] /\ q[1].type = "release" /\ 1 # j + 1
        BY <1>1, <2>2, <3>1
      <3>. QED
        BY <1>4, <3>2 DEF ReleasesOnce
    <2>. QED
      BY <2>1, <2>2 DEF ReleasesOnce
  <1>5. ASSUME GlobalFirst(q), NEW j \in DOMAIN r
        PROVE  r[j].type # "global"
    <2>1. j + 1 \in DOMAIN q /\ r[j] = q[j + 1] /\ j + 1 # 1
      BY <1>1
    <2>. QED
      BY <1>5, <2>1 DEF GlobalFirst
  <1>. QED
    BY <1>1, <1>2, <1>3, <1>4, <1>5 DEF r

(* The objects of some events in the queue go. *)
LEMMA Orphaned ==
  ASSUME NEW q \in Seq(Event), NEW T \in SUBSET {"configure", "release"}, "release" \in T
  PROVE  /\ WithoutReceiver(q, T) \in Seq(Event)
         /\ Count(WithoutReceiver(q, T), "done") = Count(q, "done")
         /\ \A k \in Buffer : ~ Holds(WithoutReceiver(q, T), Release(k))
         /\ ReleasesOnce(WithoutReceiver(q, T))
         /\ (\A j \in DOMAIN q : q[j].type # "global") =>
               /\ GlobalFirst(WithoutReceiver(q, T))
               /\ ~ Holds(WithoutReceiver(q, T), Signal("global"))
  <1>. DEFINE r == WithoutReceiver(q, T)
  <1>1. Signal("dropped") \in Event /\ Signal("dropped").type = "dropped"
    BY EventTypes
  <1>2. /\ DOMAIN r = DOMAIN q
        /\ \A j \in DOMAIN q : r[j] = IF q[j].type \in T THEN Signal("dropped") ELSE q[j]
    BY DEF WithoutReceiver
  <1>3. r \in Seq(Event)
    <2>1. r \in [1 .. Len(q) -> Event]
      BY <1>1 DEF WithoutReceiver
    <2>. QED
      BY <2>1
  <1>. HIDE DEF r
  <1>4. \A j \in DOMAIN q : /\ r[j].type \notin T
                            /\ r[j].type = "done" <=> q[j].type = "done"
                            /\ r[j].type = "global" => q[j].type = "global"
    BY <1>1, <1>2
  <1>5. Count(r, "done") = Count(q, "done")
    <2>1. { j \in DOMAIN r : r[j].type = "done" } = { j \in DOMAIN q : q[j].type = "done" }
      BY <1>2, <1>4
    <2>. QED
      BY <2>1 DEF Count
  <1>6. \A k \in Buffer : ~ Holds(r, Release(k))
    BY <1>2, <1>4, EventTypes DEF Holds
  <1>7. ReleasesOnce(r)
    BY <1>2, <1>4 DEF ReleasesOnce
  <1>8. ASSUME \A j \in DOMAIN q : q[j].type # "global"
        PROVE  GlobalFirst(r) /\ ~ Holds(r, Signal("global"))
    <2>1. \A j \in DOMAIN r : r[j].type # "global"
      BY <1>2, <1>4, <1>8
    <2>2. Signal("global").type = "global"
      BY EventTypes
    <2>. QED
      BY <2>1, <2>2 DEF GlobalFirst, Holds
  <1>. QED
    BY <1>3, <1>5, <1>6, <1>7, <1>8 DEF r

-----------------------------------------------------------------------------
(* Types.                                                                  *)

(* The types of what Outputs declares. *)
OutputsTypes ==
  /\ plugged \in [Outputs -> {"absent", "present", "gone"}]
  /\ events \in [Outputs -> Seq(Event)]
  /\ configures \in [Outputs -> Nat]
  /\ \A n \in Outputs : configures[n] <= MaxConfigures[n]
  /\ held \in [Outputs -> SUBSET Buffer]
  /\ shown \in [Outputs -> Buffer \cup {NoBuffer}]
  /\ committed \in [Outputs -> Nat]
  /\ outputs \subseteq Outputs
  /\ surface \in [Outputs -> {"NULL", "live", "freed"}]
  /\ requested \in [Outputs -> Nat]
  /\ slot \in [Outputs -> [Buffer -> Slot]]
  /\ busy \in [Outputs -> SUBSET Buffer]
  /\ stale \subseteq Outputs
  /\ initialization_failed \in BOOLEAN
  /\ faults \in 0 .. MaxFaults
  /\ undefined \in {"nothing", "NULL", "raw", "freed", "callback", "surface",
                    "descriptor", "seat", "keyboard"}

ControlTypes ==
  /\ pc \in PC
  /\ announced \subseteq Globals
  /\ bound \subseteq Globals \cup {"keyboard"}
  /\ lock \in {"none", "buffered", "sent"}
  /\ storage \in {"NULL", "raw", "open"}

(* The type invariant in two halves.                                       *)
LEMMA TypesSplit == StartupTypeOK <=> ControlTypes /\ OutputsTypes
  BY DEF StartupTypeOK, ControlTypes, OutputsTypes

(* A fault is counted, within the bound.                                   *)
LEMMA FaultType ==
  ASSUME faults \in 0 .. MaxFaults, Fault
  PROVE  faults' \in 0 .. MaxFaults /\ faults' # 0
  BY OutputsAssumption DEF Fault

(* All steps by name.                                                      *)
LEMMA PCValues ==
  PC = {"defaults", "load", "renderer", "document", "prompt_input", "display",
        "registry", "listener", "globals", "capabilities", "keymap",
        "lock", "surfaces", "giving up", "frames", "storage", "document_fd",
        "save_timer_fd", "start_timer", "run", "ended"}
  BY AllocatingSteps DEF PC, RoundTrips, Allocating

(* What a bad pointer makes undefined.                                     *)
LEMMA FollowType ==
  ASSUME NEW s, Follow(s, {"NULL"} \cup Dangling) \/ Follow(s, Dangling)
  PROVE  undefined' \in {"NULL", "raw", "freed"}
  BY DEF Follow, Dangling, Undefined

(* Queues stay sequences of events.                                        *)
LEMMA QueueTypes ==
  ASSUME OutputsTypes, NEW n \in Outputs
  PROVE  /\ events[n] \in Seq(Event)
         /\ \A e \in Event : Send(n, e) => events' \in [Outputs -> Seq(Event)]
         /\ \A t : Received(n, t) => events[n] # << >>
         /\ (events[n] # << >> /\ Taken(n)) => events' \in [Outputs -> Seq(Event)]
  <1>1. events[n] \in Seq(Event)
    BY DEF OutputsTypes
  <1>2. ASSUME NEW e \in Event, Send(n, e)
        PROVE  events' \in [Outputs -> Seq(Event)]
    <2>1. Append(events[n], e) \in Seq(Event)
      BY <1>1, Appended
    <2>. QED
      BY <1>2, <2>1 DEF Send, OutputsTypes
  <1>3. ASSUME events[n] # << >>, Taken(n)
        PROVE  events' \in [Outputs -> Seq(Event)]
    <2>1. Tail(events[n]) \in Seq(Event)
      BY <1>1, <1>3, TailTaken
    <2>. QED
      BY <1>3, <2>1 DEF Taken, OutputsTypes
  <1>. QED
    BY <1>1, <1>2, <1>3 DEF Received

(* The types and plugging.                                                 *)
LEMMA PlugTypes ==
  ASSUME OutputsTypes, NEW n \in Outputs, Plug(n) \/ Unplug(n)
  PROVE  OutputsTypes'
  <1>1. events' \in [Outputs -> Seq(Event)]
    BY QueueTypes, EventTypes DEF Plug, Unplug
  <1>2. plugged' \in [Outputs -> {"absent", "present", "gone"}]
    BY DEF Plug, Unplug, OutputsTypes
  <1>. QED
    BY <1>1, <1>2 DEF Plug, Unplug, OutputsTypes, surfaceVars

(* The types and what the compositor does with a surface.                  *)
LEMMA CompositorTypes ==
  ASSUME OutputsTypes, NEW n \in Outputs,
         CompositorConfigures(n) \/ CompositorPresents(n)
           \/ \E k \in Buffer : CompositorReleases(n, k)
  PROVE  OutputsTypes'
  <1>1. events' \in [Outputs -> Seq(Event)]
    BY QueueTypes, EventTypes
    DEF CompositorConfigures, CompositorPresents, CompositorReleases
  <1>2. CASE CompositorConfigures(n)
    <2>1. /\ configures' \in [Outputs -> Nat]
          /\ \A m \in Outputs : configures'[m] <= MaxConfigures[m]
      <3>1. /\ configures \in [Outputs -> Nat] /\ MaxConfigures \in [Outputs -> Nat]
            /\ configures[n] < MaxConfigures[n]
            /\ configures' = [configures EXCEPT ![n] = configures[n] + 1]
        BY <1>2, OutputsAssumption DEF CompositorConfigures, OutputsTypes
      <3>2. configures[n] \in Nat /\ MaxConfigures[n] \in Nat
        BY <3>1
      <3>3. configures[n] + 1 \in Nat /\ configures[n] + 1 <= MaxConfigures[n]
        BY <3>1, <3>2
      <3>. QED
        BY <3>1, <3>3 DEF OutputsTypes
    <2>. QED
      BY <1>1, <1>2, <2>1 DEF CompositorConfigures, OutputsTypes, surfaceVars
  <1>3. CASE CompositorPresents(n)
    <2>1. committed' \in [Outputs -> Nat]
      BY <1>3 DEF CompositorPresents, OutputsTypes
    <2>. QED
      BY <1>1, <1>3, <2>1 DEF CompositorPresents, OutputsTypes, surfaceVars
  <1>4. CASE \E k \in Buffer : CompositorReleases(n, k)
    <2>1. held' \in [Outputs -> SUBSET Buffer]
      BY <1>4 DEF CompositorReleases, OutputsTypes
    <2>. QED
      BY <1>1, <1>4, <2>1 DEF CompositorReleases, OutputsTypes, surfaceVars
  <1>. QED
    BY <1>2, <1>3, <1>4

(* A buffer that is found is free; the first is found when all are free.   *)
LEMMA FreeBuffer ==
  ASSUME NEW b
  PROVE  /\ FindFreeBuffer(b) \in Buffer \cup {NoBuffer}
         /\ FindFreeBuffer(b) # NoBuffer =>
               FindFreeBuffer(b) \in Buffer /\ FindFreeBuffer(b) \notin b
         /\ FindFreeBuffer({}) = 0 /\ 0 \in Buffer
  BY DEF FindFreeBuffer, Buffer, NoBuffer

(* The types of what is drawn.                                             *)
LEMMA PresentTypes ==
  ASSUME OutputsTypes, NEW n \in Outputs, NEW k \in Buffer, NEW b \in SUBSET Buffer,
         NEW h \in SUBSET Buffer, NEW w \in Nat, Present(n, k, b, h, w)
  PROVE  /\ busy' \in [Outputs -> SUBSET Buffer]
         /\ held' \in [Outputs -> SUBSET Buffer]
         /\ shown' \in [Outputs -> Buffer \cup {NoBuffer}]
         /\ committed' \in [Outputs -> Nat]
         /\ requested' \in [Outputs -> Nat]
         /\ stale' \subseteq Outputs
  BY DEF Present, OutputsTypes

(* The pointers to buffers after a cleanup and after a failed setup.       *)
LEMMA SlotTypes ==
  ASSUME NEW s \in [Buffer -> Slot]
  PROVE  /\ CleanUp(s) \in [Buffer -> Slot]
         /\ BothLive \in [Buffer -> Slot]
         /\ FailedSetups(s) \subseteq [Buffer -> Slot]
  BY DEF CleanUp, BothLive, FailedSetups, Slot, Buffer

(* The types and a new size.                                               *)
LEMMA ConfigureTypes ==
  ASSUME OutputsTypes, NEW n \in Outputs, LockSurfaceConfigure(n)
  PROVE  OutputsTypes'
  <1>1. events' \in [Outputs -> Seq(Event)]
    <2>1. Tail(events[n]) \in Seq(Event)
      BY QueueTypes, TailTaken DEF LockSurfaceConfigure
    <2>2. WithoutReceiver(Tail(events[n]), {"release"}) \in Seq(Event)
      BY <2>1, Orphaned
    <2>. QED
      BY <2>2 DEF LockSurfaceConfigure, OutputsTypes
  <1>2. CASE SetupLockScreen(n)
    <2>1. Present(n, 0, {}, {}, requested[n]) /\ 0 \in Buffer /\ requested[n] \in Nat
      BY <1>2, FreeBuffer DEF SetupLockScreen, OutputsTypes
    <2>2. slot' \in [Outputs -> [Buffer -> Slot]]
      BY <1>2, SlotTypes DEF SetupLockScreen, OutputsTypes
    <2>3. /\ busy' \in [Outputs -> SUBSET Buffer]
          /\ held' \in [Outputs -> SUBSET Buffer]
          /\ shown' \in [Outputs -> Buffer \cup {NoBuffer}]
          /\ committed' \in [Outputs -> Nat]
          /\ requested' \in [Outputs -> Nat]
          /\ stale' \subseteq Outputs
      BY <2>1, PresentTypes
    <2>. QED
      BY <1>1, <1>2, <2>2, <2>3 DEF SetupLockScreen, LockSurfaceConfigure, OutputsTypes
  <1>3. CASE SetupLockScreenFails(n)
    <2>1. slot' \in [Outputs -> [Buffer -> Slot]]
      <3>1. CleanUp(slot[n]) \in [Buffer -> Slot]
        BY SlotTypes DEF OutputsTypes
      <3>2. \A s \in FailedSetups(CleanUp(slot[n])) : CleanUp(s) \in [Buffer -> Slot]
        BY <3>1, SlotTypes
      <3>. QED
        BY <1>3, <3>2 DEF SetupLockScreenFails, OutputsTypes
    <2>2. /\ busy' \in [Outputs -> SUBSET Buffer]
          /\ held' \in [Outputs -> SUBSET Buffer]
          /\ shown' \in [Outputs -> Buffer \cup {NoBuffer}]
      BY <1>3 DEF SetupLockScreenFails, NothingShown, OutputsTypes
    <2>3. faults' \in 0 .. MaxFaults
      BY <1>3, FaultType DEF SetupLockScreenFails, OutputsTypes
    <2>4. undefined' \in {"NULL", "raw", "freed"} \/ undefined' = undefined
      BY <1>3, FollowType DEF SetupLockScreenFails
    <2>. QED
      BY <1>1, <1>3, <2>1, <2>2, <2>3, <2>4
      DEF SetupLockScreenFails, LockSurfaceConfigure, OutputsTypes
  <1>4. CASE SetupLockScreenUndefined(n)
    <2>1. undefined' \in {"NULL", "raw", "freed"}
      BY <1>4, FollowType DEF SetupLockScreenUndefined
    <2>. QED
      BY <1>1, <1>4, <2>1
      DEF SetupLockScreenUndefined, LockSurfaceConfigure, OutputsTypes
  <1>. QED
    BY <1>2, <1>3, <1>4 DEF LockSurfaceConfigure

(* The types and handlers of frames and buffers.                           *)
LEMMA FrameTypes ==
  ASSUME OutputsTypes, NEW n \in Outputs,
         SurfaceFrameDone(n) \/ SurfaceFrameDoneUndefined(n) \/ BufferRelease(n)
           \/ DropEvent(n)
  PROVE  OutputsTypes'
  <1>1. events' \in [Outputs -> Seq(Event)]
    BY QueueTypes
    DEF SurfaceFrameDone, SurfaceFrameDoneUndefined, BufferRelease, DropEvent
  <1>2. CASE SurfaceFrameDone(n)
    <2>. DEFINE k == FindFreeBuffer(busy[n])
    <2>1. requested[n] \in Nat /\ busy[n] \in SUBSET Buffer /\ held[n] \in SUBSET Buffer
      BY DEF OutputsTypes
    <2>2. CASE k # NoBuffer /\ Present(n, k, busy[n], held[n], requested[n] + 1)
      <3>. DEFINE w == requested[n] + 1
      <3>1. k \in Buffer /\ w \in Nat
        BY <2>1, <2>2, FreeBuffer
      <3>0. Present(n, k, busy[n], held[n], w)
        BY <2>2
      <3>. HIDE DEF k, w
      <3>2. /\ busy' \in [Outputs -> SUBSET Buffer]
            /\ held' \in [Outputs -> SUBSET Buffer]
            /\ shown' \in [Outputs -> Buffer \cup {NoBuffer}]
            /\ committed' \in [Outputs -> Nat]
            /\ requested' \in [Outputs -> Nat]
            /\ stale' \subseteq Outputs
        BY <2>1, <3>0, <3>1, PresentTypes
      <3>. QED
        BY <1>1, <1>2, <3>2 DEF SurfaceFrameDone, OutputsTypes
    <2>3. CASE /\ requested' = [requested EXCEPT ![n] = requested[n] + 1]
               /\ UNCHANGED <<busy, held, shown, committed, stale>>
      BY <1>1, <1>2, <2>3 DEF SurfaceFrameDone, OutputsTypes
    <2>. QED
      BY <1>2, <2>2, <2>3 DEF SurfaceFrameDone, NextFrame
  <1>3. CASE SurfaceFrameDoneUndefined(n)
    <2>1. undefined' \in {"NULL", "raw", "freed", "callback"}
      BY <1>3, FollowType DEF SurfaceFrameDoneUndefined, Undefined
    <2>. QED
      BY <1>1, <1>3, <2>1
      DEF SurfaceFrameDoneUndefined, OutputsTypes, compositorVars, surfaceVars
  <1>4. CASE BufferRelease(n)
    <2>1. busy' \in [Outputs -> SUBSET Buffer]
      BY <1>4 DEF BufferRelease, OutputsTypes
    <2>. QED
      BY <1>1, <1>4, <2>1 DEF BufferRelease, OutputsTypes, compositorVars
  <1>5. CASE DropEvent(n)
    BY <1>1, <1>5 DEF DropEvent, OutputsTypes, compositorVars, surfaceVars
  <1>. QED
    BY <1>2, <1>3, <1>4, <1>5

(* The types of outputs that are destroyed.                                *)
LEMMA DestroyTypes ==
  ASSUME OutputsTypes, NEW S, DestroyOutputs(S)
  PROVE  /\ surface' \in [Outputs -> {"NULL", "live", "freed"}]
         /\ requested' \in [Outputs -> Nat]
         /\ slot' \in [Outputs -> [Buffer -> Slot]]
         /\ busy' \in [Outputs -> SUBSET Buffer]
         /\ held' \in [Outputs -> SUBSET Buffer]
         /\ shown' \in [Outputs -> Buffer \cup {NoBuffer}]
         /\ committed' \in [Outputs -> Nat]
         /\ stale' \subseteq Outputs
         /\ outputs' \subseteq Outputs
  <1>1. [k \in Buffer |-> "NULL"] \in [Buffer -> Slot]
    BY DEF Slot
  <1>2. slot' \in [Outputs -> [Buffer -> Slot]]
    BY <1>1 DEF DestroyOutputs, OutputsTypes
  <1>. QED
    BY <1>2 DEF DestroyOutputs, OutputsTypes

(* The types and handlers of the list of outputs.                          *)
LEMMA ListTypes ==
  ASSUME OutputsTypes, NEW n \in Outputs,
         CreateAndBindOutput(n) \/ RemoveOutput(n) \/ RemoveOutputUndefined(n)
  PROVE  OutputsTypes'
  <1>1. CASE CreateAndBindOutput(n)
    <2>1. events' \in [Outputs -> Seq(Event)]
      BY <1>1, QueueTypes DEF CreateAndBindOutput
    <2>2. /\ faults' \in 0 .. MaxFaults /\ outputs' \subseteq Outputs
          /\ initialization_failed' \in BOOLEAN
      BY <1>1, FaultType DEF CreateAndBindOutput, OutputsTypes
    <2>. QED
      BY <1>1, <2>1, <2>2
      DEF CreateAndBindOutput, OutputsTypes, compositorVars, surfaceVars
  <1>2. CASE RemoveOutput(n)
    <2>1. events' \in [Outputs -> Seq(Event)]
      <3>1. Tail(events[n]) \in Seq(Event)
        BY <1>2, QueueTypes, TailTaken DEF RemoveOutput
      <3>2. WithoutReceiver(Tail(events[n]), {"configure", "release"}) \in Seq(Event)
        BY <3>1, Orphaned
      <3>. QED
        BY <1>2, <3>2 DEF RemoveOutput, OutputsTypes
    <2>2. DestroyOutputs({n})
      BY <1>2 DEF RemoveOutput
    <2>. QED
      BY <1>2, <2>1, <2>2, DestroyTypes DEF RemoveOutput, OutputsTypes
  <1>3. CASE RemoveOutputUndefined(n)
    <2>1. events' \in [Outputs -> Seq(Event)]
      BY <1>3, QueueTypes DEF RemoveOutputUndefined
    <2>2. undefined' \in {"NULL", "raw", "freed", "surface"}
      BY <1>3, FollowType DEF RemoveOutputUndefined, DestroyUndefined, Undefined
    <2>. QED
      BY <1>3, <2>1, <2>2
      DEF RemoveOutputUndefined, OutputsTypes, compositorVars, surfaceVars
  <1>. QED
    BY <1>1, <1>2, <1>3

(* The types, handlers and compositor together.                            *)
LEMMA HandlerTypes ==
  ASSUME OutputsTypes, NEW n \in Outputs, Handle(n) \/ Compositor(n)
  PROVE  OutputsTypes' /\ UNCHANGED controlVars
  BY ListTypes, FrameTypes, ConfigureTypes, CompositorTypes, PlugTypes
  DEF Handle, Compositor

(* The types when the program cleans up.                                   *)
LEMMA DestroyAllTypes ==
  ASSUME StartupTypeOK, faults' \in 0 .. MaxFaults, DestroyAnviState
  PROVE  StartupTypeOK'
  <1>1. ControlTypes'
    BY PCValues DEF DestroyAnviState, ControlTypes, StartupTypeOK
  <1>2. events' \in [Outputs -> Seq(Event)]
    <2>1. << >> \in Seq(Event)
      OBVIOUS
    <2>. QED
      BY <2>1 DEF DestroyAnviState
  <1>3. OutputsTypes
    BY TypesSplit
  <1>4. CASE \A n \in outputs : Sound(n)
    <2>1. DestroyOutputs(outputs) /\ undefined' \in {"nothing", "descriptor"}
      BY <1>4 DEF DestroyAnviState
    <2>2. OutputsTypes'
      BY <1>2, <1>3, <2>1, DestroyTypes DEF DestroyAnviState, OutputsTypes
    <2>. QED
      BY <1>1, <2>2, TypesSplit, PTL
  <1>5. CASE ~ \A n \in outputs : Sound(n)
    <2>1. undefined' \in {"NULL", "raw", "freed", "surface"}
      BY <1>5, FollowType DEF DestroyAnviState, DestroyUndefined, Undefined
    <2>2. OutputsTypes'
      BY <1>2, <1>3, <1>5, <2>1 DEF DestroyAnviState, OutputsTypes, surfaceVars
    <2>. QED
      BY <1>1, <2>2, TypesSplit, PTL
  <1>. QED
    BY <1>4, <1>5

(* The types when the setup fails.                                         *)
LEMMA FailingTypes ==
  ASSUME StartupTypeOK, SetupFails
  PROVE  StartupTypeOK'
  <1>1. faults \in 0 .. MaxFaults
    BY DEF StartupTypeOK
  <1>2. CASE SetupStepFails
    <2>1. faults' \in 0 .. MaxFaults
      BY <1>1, <1>2, FaultType DEF SetupStepFails
    <2>2. CASE DestroyAnviState
      BY <2>1, <2>2, DestroyAllTypes
    <2>3. CASE ~ DestroyAnviState
      BY <1>2, <2>1, <2>3, PCValues DEF SetupStepFails, StartupTypeOK, compositorVars, surfaceVars
    <2>. QED
      BY <2>2, <2>3
  <1>3. CASE RoundTripFails \/ GiveUp \/ LateStepFails
    <2>1. DestroyAnviState /\ faults' \in 0 .. MaxFaults
      BY <1>1, <1>3, FaultType DEF RoundTripFails, GiveUp, LateStepFails
    <2>. QED
      BY <2>1, DestroyAllTypes
  <1>4. CASE CreateSurfacesFails
    <2>1. PICK n \in outputs : CreateSurfaceFails(n)
      BY <1>4 DEF CreateSurfacesFails
    <2>2. faults' \in 0 .. MaxFaults /\ surface' \in [Outputs -> {"NULL", "live", "freed"}]
      BY <1>1, <2>1, FaultType DEF CreateSurfaceFails, StartupTypeOK
    <2>. QED
      BY <1>4, <2>1, <2>2, PCValues
      DEF CreateSurfacesFails, CreateSurfaceFails, StartupTypeOK, compositorVars
  <1>. QED
    BY <1>2, <1>3, <1>4 DEF SetupFails

(* The types when the setup goes on.                                       *)
LEMMA SetupTypes ==
  ASSUME StartupTypeOK, SetupGoesOn
  PROVE  StartupTypeOK'
  <1>0. ControlTypes /\ OutputsTypes
    BY TypesSplit
  <1>1. CASE \/ SetupStep \/ GlobalsRoundTrip \/ CapabilitiesRoundTrip \/ KeymapRoundTrip
             \/ RequestLock \/ SurfacesCreated \/ AllocateStorage \/ CreateDocumentFd
             \/ CreateAndStartTimer
    <2>1. UNCHANGED outputsVars
      BY <1>1 DEF SetupStep, GlobalsRoundTrip, CapabilitiesRoundTrip, KeymapRoundTrip,
         RoundTripEnds, RequestLock, SurfacesCreated, AllocateStorage, CreateDocumentFd,
         CreateAndStartTimer
    <2>2. OutputsTypes'
      BY <1>0, <2>1 DEF OutputsTypes, outputsVars, compositorVars, surfaceVars
    <2>3. pc' \in PC
      BY <1>1, PCValues, AllocatingSteps
      DEF SetupStep, GlobalsRoundTrip, CapabilitiesRoundTrip, KeymapRoundTrip, RoundTripEnds,
          RequestLock, SurfacesCreated, AllocateStorage, CreateDocumentFd,
          CreateAndStartTimer, Goto, Allocating
    <2>4. ControlTypes'
      BY <1>0, <1>1, <2>3
      DEF SetupStep, GlobalsRoundTrip, CapabilitiesRoundTrip, KeymapRoundTrip, RoundTripEnds,
          RequestLock, SurfacesCreated, AllocateStorage, CreateDocumentFd,
          CreateAndStartTimer, Flushed, ControlTypes
    <2>. QED
      BY <2>2, <2>4, TypesSplit, PTL
  <1>2. ASSUME NEW g \in Globals, RegistryGlobal(g)
        PROVE  StartupTypeOK'
    <2>1. faults' \in 0 .. MaxFaults
      BY <1>0, <1>2, FaultType DEF RegistryGlobal, OutputsTypes
    <2>2. ControlTypes'
      BY <1>0, <1>2 DEF RegistryGlobal, ControlTypes
    <2>3. initialization_failed' \in BOOLEAN
      <3>1. initialization_failed' \in {initialization_failed,
                                        initialization_failed \/ g = "wl_shm"}
        BY <1>2, Zenon DEF RegistryGlobal
      <3>. QED
        BY <1>0, <3>1, Zenon DEF OutputsTypes
    <2>4. undefined' \in {undefined, "seat"}
      BY <1>2 DEF RegistryGlobal, Undefined
    <2>5. OutputsTypes'
      BY <1>0, <1>2, <2>1, <2>3, <2>4
      DEF RegistryGlobal, OutputsTypes, compositorVars, surfaceVars
    <2>. QED
      BY <2>2, <2>5, TypesSplit, PTL
  <1>3. CASE SeatCapabilities
    <2>1. faults' \in 0 .. MaxFaults
      BY <1>0, <1>3, FaultType DEF SeatCapabilities, OutputsTypes
    <2>2. ControlTypes'
      BY <1>0, <1>3 DEF SeatCapabilities, ControlTypes
    <2>3. initialization_failed' \in BOOLEAN /\ undefined' \in {undefined, "keyboard"}
      BY <1>0, <1>3 DEF SeatCapabilities, Undefined, OutputsTypes
    <2>4. OutputsTypes'
      BY <1>0, <1>3, <2>1, <2>3
      DEF SeatCapabilities, OutputsTypes, compositorVars, surfaceVars
    <2>. QED
      BY <2>2, <2>4, TypesSplit, PTL
  <1>4. CASE CreateSurfaces
    <2>1. PICK n \in outputs : CreateSurface(n)
      BY <1>4 DEF CreateSurfaces
    <2>2. surface' \in [Outputs -> {"NULL", "live", "freed"}] /\ stale' \subseteq Outputs
      BY <1>0, <2>1 DEF CreateSurface, OutputsTypes
    <2>. QED
      BY <1>4, <2>1, <2>2
      DEF CreateSurfaces, CreateSurface, StartupTypeOK, compositorVars, controlVars
  <1>5. CASE AddFrameListeners
    <2>1. AddSurfaceFrameListeners /\ UNCHANGED <<announced, bound, lock, storage>>
          /\ pc' = "storage"
      BY <1>5 DEF AddFrameListeners, Goto
    <2>2. requested' \in [Outputs -> Nat]
      <3>1. \A n \in Outputs : requested[n] \in Nat /\ requested[n] + 1 \in Nat
        BY <1>0 DEF OutputsTypes
      <3>. QED
        BY <2>1, <3>1 DEF AddSurfaceFrameListeners
    <2>. QED
      BY <2>1, <2>2, PCValues DEF AddSurfaceFrameListeners, StartupTypeOK, compositorVars
  <1>. QED
    BY <1>1, <1>2, <1>3, <1>4, <1>5 DEF SetupGoesOn

(* The types and the main loop.                                            *)
LEMMA LoopTypes ==
  ASSUME StartupTypeOK, MainLoop
  PROVE  StartupTypeOK'
  <1>1. CASE LeaveLoop
    BY <1>1, DestroyAllTypes DEF LeaveLoop, StartupTypeOK
  <1>2. CASE Flush \/ LeaveLoopAtOnce
    <2>1. CASE Flush
      BY <2>1, PCValues
      DEF Flush, Flushed, StartupTypeOK, outputsVars, compositorVars, surfaceVars
    <2>2. CASE LeaveLoopAtOnce
      BY <2>2, PCValues
      DEF LeaveLoopAtOnce, StartupTypeOK, outputsVars, compositorVars, surfaceVars
    <2>. QED
      BY <1>2, <2>1, <2>2
  <1>3. CASE PollUndefined
    BY <1>3
    DEF PollUndefined, Undefined, StartupTypeOK, controlVars, compositorVars, surfaceVars
  <1>4. CASE TypeText
    BY <1>4 DEF TypeText, TextChanges, StartupTypeOK, controlVars, compositorVars
  <1>. QED
    BY <1>1, <1>2, <1>3, <1>4 DEF MainLoop

(* The types hold at the start.                                            *)
LEMMA TypesInit == Init => StartupTypeOK
  <1>. SUFFICES ASSUME Init PROVE StartupTypeOK
    OBVIOUS
  <1>1. events \in [Outputs -> Seq(Event)]
    <2>1. Signal("global") \in Event
      BY EventTypes
    <2>2. <<Signal("global")>> \in Seq(Event) /\ << >> \in Seq(Event)
      BY <2>1
    <2>. QED
      BY <2>2 DEF Init, OutputsInit
  <1>2. /\ slot \in [Outputs -> [Buffer -> Slot]]
        /\ busy \in [Outputs -> SUBSET Buffer] /\ held \in [Outputs -> SUBSET Buffer]
        /\ shown \in [Outputs -> Buffer \cup {NoBuffer}]
    BY DEF Init, OutputsInit, Slot
  <1>3. /\ configures \in [Outputs -> Nat]
        /\ \A n \in Outputs : configures[n] <= MaxConfigures[n]
        /\ faults \in 0 .. MaxFaults
    BY OutputsAssumption DEF Init, OutputsInit
  <1>. QED
    BY <1>1, <1>2, <1>3, PCValues DEF Init, OutputsInit, StartupTypeOK

(* Every step keeps the types.                                             *)
LEMMA TypesNext == StartupTypeOK /\ [Next]_vars => StartupTypeOK'
  <1>. SUFFICES ASSUME StartupTypeOK, [Next]_vars PROVE StartupTypeOK'
    OBVIOUS
  <1>1. CASE Setup
    BY <1>1, SetupSplits, SetupTypes, FailingTypes
  <1>2. CASE MainLoop
    BY <1>2, LoopTypes
  <1>3. ASSUME NEW n \in Outputs, Handle(n) \/ Compositor(n)
        PROVE  StartupTypeOK'
    <2>1. OutputsTypes' /\ UNCHANGED controlVars
      BY <1>3, HandlerTypes, TypesSplit
    <2>2. ControlTypes'
      BY <2>1, TypesSplit DEF ControlTypes, controlVars
    <2>. QED
      BY <2>1, <2>2, TypesSplit, PTL
  <1>4. CASE UNCHANGED vars
    BY <1>4
    DEF StartupTypeOK, vars, controlVars, outputsVars, compositorVars, surfaceVars
  <1>. QED
    BY <1>1, <1>2, <1>3, <1>4 DEF Next, Stopped

(* The state of setup and outputs has its types, for any outputs, sizes    *)
(* and failing calls.                                                      *)
THEOREM StartupTypeCorrect == Spec => []StartupTypeOK
  BY TypesInit, TypesNext, PTL DEF Spec

-----------------------------------------------------------------------------
(* What a step does to a queue.                                            *)

(* The buffers whose release waits in a queue. *)
Waiting(q) == { k \in Buffer : Holds(q, Release(k)) }

(* The compositor sends an event that is no release.                       *)
LEMMA SignalSent ==
  ASSUME NEW q \in Seq(Event), NEW t \in {"global_remove", "configure", "done"}
  PROVE  /\ Waiting(Append(q, Signal(t))) = Waiting(q)
         /\ ReleasesOnce(q) => ReleasesOnce(Append(q, Signal(t)))
         /\ GlobalFirst(q) => GlobalFirst(Append(q, Signal(t)))
         /\ Holds(Append(q, Signal(t)), Signal("global")) <=> Holds(q, Signal("global"))
         /\ Count(Append(q, Signal(t)), "done") =
              IF t = "done" THEN Count(q, "done") + 1 ELSE Count(q, "done")
  <1>1. Signal(t) \in Event /\ Signal(t).type = t /\ t # "release" /\ t # "global"
    BY EventTypes
  <1>2. /\ \A k \in Buffer : Signal(t) # Release(k)
        /\ Signal(t) # Signal("global")
    BY <1>1, EventTypes
  <1>. QED
    BY <1>1, <1>2, Appended DEF Waiting

(* It announces an output.                                                 *)
LEMMA GlobalSent ==
  ASSUME NEW r, r = Append(<< >>, Signal("global"))
  PROVE  Waiting(r) = {} /\ ReleasesOnce(r) /\ GlobalFirst(r) /\ Count(r, "done") = 0
  <1>1. << >> \in Seq(Event) /\ Signal("global") \in Event /\ Signal("global").type = "global"
    BY EventTypes
  <1>2. ReleasesOnce(<< >>) /\ GlobalFirst(<< >>) /\ \A f : ~ Holds(<< >>, f)
    BY DEF ReleasesOnce, GlobalFirst, Holds
  <1>3. \A k \in Buffer : Signal("global") # Release(k)
    BY <1>1, EventTypes
  <1>4. /\ \A f : Holds(r, f) <=> Holds(<< >>, f) \/ f = Signal("global")
        /\ Count(r, "done") = Count(<< >>, "done")
        /\ ReleasesOnce(r) /\ GlobalFirst(r)
    BY <1>1, <1>2, Appended
  <1>5. Waiting(r) = {}
    BY <1>2, <1>3, <1>4 DEF Waiting
  <1>. QED
    BY <1>4, <1>5, CountEmpty

(* It releases a buffer whose release does not wait yet.                   *)
LEMMA ReleaseSent ==
  ASSUME NEW q \in Seq(Event), NEW k \in Buffer, k \notin Waiting(q)
  PROVE  /\ Waiting(Append(q, Release(k))) = Waiting(q) \cup {k}
         /\ ReleasesOnce(q) => ReleasesOnce(Append(q, Release(k)))
         /\ GlobalFirst(q) => GlobalFirst(Append(q, Release(k)))
         /\ Holds(Append(q, Release(k)), Signal("global")) <=> Holds(q, Signal("global"))
         /\ Count(Append(q, Release(k)), "done") = Count(q, "done")
  <1>1. /\ Release(k) \in Event /\ Release(k).type = "release" /\ Release(k).buffer = k
        /\ Release(k) # Signal("global")
        /\ \A j \in Buffer : Release(j) = Release(k) => j = k
    BY EventTypes
  <1>2. ~ Holds(q, Release(k))
    BY DEF Waiting
  <1>. QED
    BY <1>1, <1>2, Appended DEF Waiting

(* An event that is no release is taken.                                   *)
LEMMA SignalTaken ==
  ASSUME NEW q \in Seq(Event), q # << >>, Head(q).type # "release"
  PROVE  /\ Waiting(Tail(q)) = Waiting(q)
         /\ ReleasesOnce(q) => ReleasesOnce(Tail(q))
         /\ GlobalFirst(q) => GlobalFirst(Tail(q)) /\ ~ Holds(Tail(q), Signal("global"))
         /\ Count(Tail(q), "done") \in Nat
         /\ Count(q, "done") = IF Head(q).type = "done" THEN Count(Tail(q), "done") + 1
                                                        ELSE Count(Tail(q), "done")
  <1>1. \A k \in Buffer : Head(q) # Release(k)
    BY EventTypes
  <1>2. Tail(q) \in Seq(Event)
    BY TailTaken
  <1>3. ASSUME GlobalFirst(q)
        PROVE  GlobalFirst(Tail(q)) /\ ~ Holds(Tail(q), Signal("global"))
    <2>1. \A j \in DOMAIN Tail(q) : Tail(q)[j].type # "global"
      BY <1>3, TailTaken
    <2>. QED
      BY <2>1, EventTypes DEF GlobalFirst, Holds
  <1>. QED
    BY <1>1, <1>2, <1>3, TailTaken, CountType DEF Waiting

(* A release is taken: it was the only one of its buffer.                  *)
LEMMA ReleaseTaken ==
  ASSUME NEW q \in Seq(Event), q # << >>, Head(q).type = "release", ReleasesOnce(q)
  PROVE  /\ Head(q).buffer \in Waiting(q)
         /\ Waiting(Tail(q)) = Waiting(q) \ {Head(q).buffer}
         /\ ReleasesOnce(Tail(q))
         /\ GlobalFirst(q) => GlobalFirst(Tail(q)) /\ ~ Holds(Tail(q), Signal("global"))
         /\ Count(Tail(q), "done") = Count(q, "done")
  <1>1. /\ Head(q) \in Event /\ Head(q).buffer \in Buffer
        /\ Head(q) = Release(Head(q).buffer)
    BY TailTaken, EventTypes
  <1>2. \A k \in Buffer : Head(q) = Release(k) => k = Head(q).buffer
    BY EventTypes
  <1>3. ~ Holds(Tail(q), Head(q)) /\ Holds(q, Head(q))
    BY TailTaken
  <1>4. Waiting(Tail(q)) = Waiting(q) \ {Head(q).buffer}
    <2>1. \A k \in Buffer : Holds(Tail(q), Release(k)) <=>
                              Holds(q, Release(k)) /\ k # Head(q).buffer
      BY <1>1, <1>2, <1>3, TailTaken
    <2>. QED
      BY <2>1 DEF Waiting
  <1>5. Head(q).buffer \in Waiting(q)
    <2>. DEFINE k == Head(q).buffer
    <2>1. k \in Buffer /\ Holds(q, Release(k))
      BY <1>1, <1>3
    <2>. HIDE DEF k
    <2>2. k \in Waiting(q)
      BY <2>1 DEF Waiting
    <2>. QED
      BY <2>2 DEF k
  <1>6. ASSUME GlobalFirst(q)
        PROVE  GlobalFirst(Tail(q)) /\ ~ Holds(Tail(q), Signal("global"))
    <2>1. \A j \in DOMAIN Tail(q) : Tail(q)[j].type # "global"
      BY <1>6, TailTaken
    <2>. QED
      BY <2>1, EventTypes DEF GlobalFirst, Holds
  <1>. QED
    BY <1>4, <1>5, <1>6, TailTaken

(* An event is taken and the objects of others go.                         *)
LEMMA OrphansTaken ==
  ASSUME NEW q \in Seq(Event), q # << >>, NEW T \in SUBSET {"configure", "release"},
         "release" \in T, Head(q).type \notin {"done", "release"}
  PROVE  LET r == WithoutReceiver(Tail(q), T)
         IN  /\ Waiting(r) = {}
             /\ ReleasesOnce(r)
             /\ GlobalFirst(q) => GlobalFirst(r) /\ ~ Holds(r, Signal("global"))
             /\ Count(r, "done") = Count(q, "done")
  <1>. DEFINE t == Tail(q)
  <1>1. /\ t \in Seq(Event)
        /\ Count(q, "done") = Count(t, "done")
        /\ GlobalFirst(q) => \A j \in DOMAIN t : t[j].type # "global"
    BY TailTaken
  <1>. HIDE DEF t
  <1>. DEFINE r == WithoutReceiver(t, T)
  <1>2. /\ Count(r, "done") = Count(t, "done")
        /\ \A k \in Buffer : ~ Holds(r, Release(k))
        /\ ReleasesOnce(r)
        /\ (\A j \in DOMAIN t : t[j].type # "global") =>
              GlobalFirst(r) /\ ~ Holds(r, Signal("global"))
    BY <1>1, Orphaned
  <1>. HIDE DEF r
  <1>3. Waiting(r) = {}
    BY <1>2 DEF Waiting
  <1>. QED
    BY <1>1, <1>2, <1>3 DEF r, t

-----------------------------------------------------------------------------
(* The invariant of an output n. *)

BusyOK(n) ==
  /\ busy[n] = held[n] \cup Waiting(events[n])
  /\ held[n] \cap Waiting(events[n]) = {}
  /\ ReleasesOnce(events[n])

(* Frame callbacks: asked for, with the compositor, or answered. *)
Frames(n) == requested[n] + committed[n] + Count(events[n], "done")

Unborn(n) == plugged[n] = "absent" \/ Holds(events[n], Signal("global"))

UnbornOK(n) ==
  /\ plugged[n] = "absent" => events[n] = << >>
  /\ GlobalFirst(events[n])
  /\ Unborn(n) => /\ n \notin outputs
                  /\ surface[n] = "NULL"
                  /\ held[n] = {}
                  /\ Frames(n) = 0

FramesAsked == {"storage", "document_fd", "save_timer_fd", "start_timer", "run"}

FramesOK(n) ==
  /\ n \notin outputs => requested[n] = 0 /\ committed[n] = 0
  /\ pc \notin FramesAsked => Frames(n) = 0
  /\ pc \in FramesAsked /\ n \in outputs =>
       Frames(n) = IF surface[n] = "live" THEN 1 ELSE 0

AllNull == [k \in Buffer |-> "NULL"]

PointersOK(n) ==
  faults = 0 =>
    /\ slot[n] \in {AllNull, BothLive}
    /\ surface[n] # "freed"
    /\ n \in outputs /\ committed[n] + Count(events[n], "done") > 0 => slot[n] = BothLive

OutputOK(n) == BusyOK(n) /\ UnbornOK(n) /\ FramesOK(n) /\ PointersOK(n)

Active == Defined /\ pc # "ended"

OutputsInv ==
  Active => (storage = "raw" => pc = "document_fd") /\ \A n \in Outputs : OutputOK(n)

(* The numbers of callbacks. *)
LEMMA Numbers ==
  ASSUME OutputsTypes, NEW n \in Outputs
  PROVE  requested[n] \in Nat /\ committed[n] \in Nat /\ Count(events[n], "done") \in Nat
  BY CountType DEF OutputsTypes

(* What a step on one output leaves alone. *)
Same(m) ==
  /\ plugged'[m] = plugged[m] /\ events'[m] = events[m] /\ held'[m] = held[m]
  /\ committed'[m] = committed[m] /\ surface'[m] = surface[m]
  /\ requested'[m] = requested[m] /\ slot'[m] = slot[m] /\ busy'[m] = busy[m]
  /\ m \in outputs' <=> m \in outputs

(* What a step does not touch stays as it should be.                       *)
LEMMA SameIsOK ==
  ASSUME NEW m \in Outputs, OutputOK(m), Same(m),
         pc' \in FramesAsked <=> pc \in FramesAsked, faults' = 0 => faults = 0
  PROVE  OutputOK(m)'
  <1>. USE DEF Same
  <1>1. BusyOK(m)'
    BY DEF OutputOK, BusyOK
  <1>2. Frames(m)' = Frames(m)
    BY DEF Frames
  <1>3. UnbornOK(m)'
    BY <1>2 DEF OutputOK, UnbornOK, Unborn
  <1>4. FramesOK(m)'
    BY <1>2 DEF OutputOK, FramesOK
  <1>5. PointersOK(m)'
    BY DEF OutputOK, PointersOK
  <1>. QED
    BY <1>1, <1>3, <1>4, <1>5 DEF OutputOK

(* The compositor's steps. *)
LEMMA CompositorOK ==
  ASSUME OutputsTypes, NEW n \in Outputs, OutputOK(n), Compositor(n)
  PROVE  /\ OutputOK(n)'
         /\ \A m \in Outputs \ {n} : Same(m)
         /\ faults' = faults
  <1>0. /\ events[n] \in Seq(Event) /\ events \in [Outputs -> Seq(Event)]
        /\ pc' = pc /\ storage' = storage
        /\ requested[n] \in Nat /\ committed[n] \in Nat /\ Count(events[n], "done") \in Nat
    BY Numbers DEF OutputsTypes, Compositor, controlVars
  <1>. USE DEF OutputOK, surfaceVars
  <1>1. CASE Plug(n)
    <2>1. /\ plugged[n] = "absent" /\ events[n] = << >> /\ Unborn(n)
          /\ events'[n] = Append(<< >>, Signal("global"))
          /\ plugged'[n] = "present"
          /\ UNCHANGED <<held, committed, outputs, surfaceVars, faults>>
          /\ \A m \in Outputs \ {n} : plugged'[m] = plugged[m] /\ events'[m] = events[m]
      BY <1>0, <1>1 DEF Plug, Send, UnbornOK, Unborn, OutputsTypes
    <2>2. /\ Waiting(events'[n]) = {} /\ ReleasesOnce(events'[n])
          /\ GlobalFirst(events'[n]) /\ Count(events'[n], "done") = 0
      BY <2>1, GlobalSent
    <2>3. Waiting(events[n]) = {} /\ Count(events[n], "done") = 0
      BY <2>1, CountEmpty DEF Waiting, Holds
    <2>4. Frames(n)' = Frames(n)
      BY <2>1, <2>2, <2>3 DEF Frames
    <2>5. BusyOK(n)'
      BY <2>1, <2>2, <2>3 DEF BusyOK
    <2>6. UnbornOK(n)' /\ FramesOK(n)'
      BY <1>0, <2>1, <2>2, <2>4 DEF UnbornOK, FramesOK
    <2>7. PointersOK(n)'
      BY <2>1, <2>2, <2>3 DEF PointersOK
    <2>. QED
      BY <2>1, <2>5, <2>6, <2>7 DEF Same
  <1>2. CASE Unplug(n) \/ CompositorConfigures(n)
    <2>1. PICK t \in {"global_remove", "configure"} : Send(n, Signal(t))
      BY <1>2 DEF Unplug, CompositorConfigures
    <2>2. /\ events'[n] = Append(events[n], Signal(t))
          /\ plugged[n] # "absent" /\ plugged'[n] # "absent"
          /\ UNCHANGED <<held, committed, outputs, surfaceVars, faults>>
          /\ \A m \in Outputs \ {n} : plugged'[m] = plugged[m] /\ events'[m] = events[m]
      BY <1>0, <1>2, <2>1 DEF Unplug, CompositorConfigures, Send, OutputsTypes
    <2>3. /\ Waiting(events'[n]) = Waiting(events[n])
          /\ ReleasesOnce(events[n]) => ReleasesOnce(events'[n])
          /\ GlobalFirst(events[n]) => GlobalFirst(events'[n])
          /\ Holds(events'[n], Signal("global")) <=> Holds(events[n], Signal("global"))
          /\ Count(events'[n], "done") = Count(events[n], "done")
      BY <1>0, <2>2, SignalSent
    <2>4. Frames(n)' = Frames(n)
      BY <2>2, <2>3 DEF Frames
    <2>5. BusyOK(n)'
      BY <2>2, <2>3 DEF BusyOK
    <2>6. UnbornOK(n)' /\ FramesOK(n)'
      BY <1>0, <2>2, <2>3, <2>4 DEF UnbornOK, Unborn, FramesOK
    <2>7. PointersOK(n)'
      BY <2>2, <2>3 DEF PointersOK
    <2>. QED
      BY <2>2, <2>5, <2>6, <2>7 DEF Same
  <1>3. CASE CompositorPresents(n)
    <2>1. /\ events'[n] = Append(events[n], Signal("done"))
          /\ committed[n] > 0 /\ committed'[n] = committed[n] - 1
          /\ UNCHANGED <<plugged, held, outputs, surfaceVars, faults>>
          /\ \A m \in Outputs \ {n} : committed'[m] = committed[m] /\ events'[m] = events[m]
      BY <1>0, <1>3 DEF CompositorPresents, Send, OutputsTypes
    <2>2. /\ Waiting(events'[n]) = Waiting(events[n])
          /\ ReleasesOnce(events[n]) => ReleasesOnce(events'[n])
          /\ GlobalFirst(events[n]) => GlobalFirst(events'[n])
          /\ Holds(events'[n], Signal("global")) <=> Holds(events[n], Signal("global"))
          /\ Count(events'[n], "done") = Count(events[n], "done") + 1
      BY <1>0, <2>1, SignalSent
    <2>0. /\ requested[n] + (committed[n] - 1) + (Count(events[n], "done") + 1)
               = requested[n] + committed[n] + Count(events[n], "done")
          /\ requested[n] + committed[n] + Count(events[n], "done") # 0
          /\ (committed[n] - 1) + (Count(events[n], "done") + 1)
               = committed[n] + Count(events[n], "done")
      <3>1. /\ requested[n] \in Nat /\ committed[n] \in Nat
            /\ Count(events[n], "done") \in Nat /\ committed[n] > 0
        BY <1>0, <2>1
      <3>. QED
        BY <3>1
    <2>3. Frames(n)' = Frames(n) /\ Frames(n) # 0
      <3>1. requested'[n] = requested[n]
        BY <2>1
      <3>. QED
        BY <2>0, <2>1, <2>2, <3>1, Zenon DEF Frames
    <2>4. ~ Unborn(n) /\ ~ Unborn(n)' /\ n \in outputs
      BY <1>0, <2>1, <2>2, <2>3 DEF UnbornOK, Unborn, FramesOK
    <2>5. BusyOK(n)'
      BY <2>1, <2>2 DEF BusyOK
    <2>6. UnbornOK(n)' /\ FramesOK(n)'
      BY <1>0, <2>1, <2>2, <2>3, <2>4 DEF UnbornOK, Unborn, FramesOK
    <2>7. PointersOK(n)'
      <3>1. committed'[n] + Count(events'[n], "done") = committed[n] + Count(events[n], "done")
        BY <2>0, <2>1, <2>2, Zenon
      <3>2. slot'[n] = slot[n] /\ surface'[n] = surface[n]
        BY <2>1
      <3>. QED
        BY <2>1, <3>1, <3>2 DEF PointersOK
    <2>. QED
      BY <2>1, <2>5, <2>6, <2>7 DEF Same
  <1>4. ASSUME NEW k \in Buffer, CompositorReleases(n, k)
        PROVE  /\ OutputOK(n)'
               /\ \A m \in Outputs \ {n} : Same(m)
               /\ faults' = faults
    <2>1. /\ events'[n] = Append(events[n], Release(k))
          /\ k \in held[n] /\ held'[n] = held[n] \ {k}
          /\ UNCHANGED <<plugged, committed, outputs, surfaceVars, faults>>
          /\ \A m \in Outputs \ {n} : held'[m] = held[m] /\ events'[m] = events[m]
      BY <1>0, <1>4 DEF CompositorReleases, Send, OutputsTypes
    <2>2. k \notin Waiting(events[n])
      BY <2>1 DEF BusyOK
    <2>3. /\ Waiting(events'[n]) = Waiting(events[n]) \cup {k}
          /\ ReleasesOnce(events[n]) => ReleasesOnce(events'[n])
          /\ GlobalFirst(events[n]) => GlobalFirst(events'[n])
          /\ Holds(events'[n], Signal("global")) <=> Holds(events[n], Signal("global"))
          /\ Count(events'[n], "done") = Count(events[n], "done")
      BY <1>0, <2>1, <2>2, ReleaseSent
    <2>4. Frames(n)' = Frames(n)
      BY <2>1, <2>3 DEF Frames
    <2>5. BusyOK(n)'
      BY <2>1, <2>3 DEF BusyOK
    <2>6. UnbornOK(n)' /\ FramesOK(n)'
      BY <1>0, <2>1, <2>3, <2>4 DEF UnbornOK, Unborn, FramesOK
    <2>7. PointersOK(n)'
      BY <2>1, <2>3 DEF PointersOK
    <2>. QED
      BY <2>1, <2>5, <2>6, <2>7 DEF Same
  <1>. QED
    BY <1>1, <1>2, <1>3, <1>4 DEF Compositor

(* Before an event of an output's own can come, the output is born. *)
LEMMA BornWhenReceived ==
  ASSUME OutputsTypes, NEW n \in Outputs, UnbornOK(n), NEW t, Received(n, t)
  PROVE  /\ events[n] \in Seq(Event) /\ events[n] # << >> /\ Head(events[n]).type = t
         /\ plugged[n] # "absent"
         /\ t # "global" => ~ Unborn(n)
         /\ t = "global" => Unborn(n)
  <1>1. /\ events[n] \in Seq(Event) /\ events[n] # << >> /\ Head(events[n]).type = t
        /\ plugged[n] # "absent"
    BY DEF OutputsTypes, Received, UnbornOK
  <1>2. 1 \in DOMAIN events[n] /\ events[n][1] = Head(events[n]) /\ Head(events[n]) \in Event
    BY <1>1
  <1>3. ASSUME t # "global" PROVE ~ Holds(events[n], Signal("global"))
    BY <1>1, <1>2, <1>3, EventTypes DEF UnbornOK, GlobalFirst, Holds
  <1>4. ASSUME t = "global" PROVE Holds(events[n], Signal("global"))
    BY <1>1, <1>2, <1>4, EventTypes DEF Holds
  <1>. QED
    BY <1>1, <1>3, <1>4 DEF Unborn

(* Handlers that take the next event and touch no more than their output. *)
LEMMA OwnQueue ==
  ASSUME OutputsTypes, NEW n \in Outputs, Taken(n)
  PROVE  /\ events'[n] = Tail(events[n])
         /\ \A m \in Outputs \ {n} : events'[m] = events[m]
  BY DEF OutputsTypes, Taken

(* An output is added to the list: it was never there before.              *)
LEMMA CreateOK ==
  ASSUME OutputsTypes, NEW n \in Outputs, OutputOK(n), pc' = pc, CreateAndBindOutput(n)
  PROVE  /\ OutputOK(n)'
         /\ \A m \in Outputs \ {n} : Same(m)
         /\ faults' = 0 => faults = 0
  <1>. USE DEF OutputOK
  <1>1. /\ events[n] \in Seq(Event) /\ events[n] # << >>
        /\ Head(events[n]).type = "global"
        /\ plugged[n] # "absent" /\ Unborn(n)
    BY BornWhenReceived DEF CreateAndBindOutput
  <1>2. /\ requested[n] \in Nat /\ committed[n] \in Nat /\ Count(events[n], "done") \in Nat
    BY Numbers
  <1>3. /\ events'[n] = Tail(events[n])
        /\ \A m \in Outputs \ {n} : events'[m] = events[m]
        /\ UNCHANGED <<plugged, held, committed, surface, requested, slot, busy>>
        /\ faults' = 0 => faults = 0
    BY OwnQueue, FaultType DEF CreateAndBindOutput, compositorVars, surfaceVars, OutputsTypes
  <1>4. outputs' = outputs \cup {n} \/ outputs' = outputs
    BY DEF CreateAndBindOutput
  <1>5. /\ Waiting(events'[n]) = Waiting(events[n])
        /\ ReleasesOnce(events[n]) => ReleasesOnce(events'[n])
        /\ GlobalFirst(events'[n]) /\ ~ Holds(events'[n], Signal("global"))
        /\ Count(events'[n], "done") = Count(events[n], "done")
    <2>1. Head(events[n]).type # "release" /\ GlobalFirst(events[n])
      BY <1>1 DEF UnbornOK
    <2>. QED
      BY <1>1, <1>3, <2>1, SignalTaken
  <1>6. /\ requested[n] = 0 /\ committed[n] = 0 /\ Count(events[n], "done") = 0
        /\ surface[n] = "NULL" /\ Frames(n)' = 0
    <2>1. Frames(n) = 0 /\ surface[n] = "NULL"
      BY <1>1 DEF UnbornOK
    <2>2. requested[n] = 0 /\ committed[n] = 0 /\ Count(events[n], "done") = 0
      BY <1>2, <2>1 DEF Frames
    <2>. QED
      BY <1>3, <1>5, <2>1, <2>2 DEF Frames
  <1>7. BusyOK(n)'
    BY <1>3, <1>5 DEF BusyOK
  <1>8. UnbornOK(n)'
    BY <1>1, <1>3, <1>5 DEF UnbornOK, Unborn
  <1>9. FramesOK(n)'
    BY <1>3, <1>6 DEF FramesOK
  <1>10. PointersOK(n)'
    BY <1>3, <1>5, <1>6 DEF PointersOK
  <1>. QED
    BY <1>3, <1>4, <1>7, <1>8, <1>9, <1>10 DEF Same

(* An output is removed: callbacks that are answered stay in the queue.    *)
LEMMA RemoveOK ==
  ASSUME OutputsTypes, NEW n \in Outputs, OutputOK(n), pc' = pc, RemoveOutput(n)
  PROVE  /\ OutputOK(n)'
         /\ \A m \in Outputs \ {n} : Same(m)
         /\ faults' = faults
  <1>. USE DEF OutputOK
  <1>1. /\ events[n] \in Seq(Event) /\ events[n] # << >>
        /\ Head(events[n]).type = "global_remove"
        /\ plugged[n] # "absent" /\ ~ Unborn(n)
    BY BornWhenReceived DEF RemoveOutput
  <1>2. /\ requested[n] \in Nat /\ committed[n] \in Nat /\ Count(events[n], "done") \in Nat
    BY Numbers
  <1>3. /\ events'[n] = WithoutReceiver(Tail(events[n]), {"configure", "release"})
        /\ \A m \in Outputs \ {n} : events'[m] = events[m]
        /\ UNCHANGED <<plugged, faults>>
    BY DEF RemoveOutput, OutputsTypes
  <1>4. /\ n \notin outputs' /\ requested'[n] = 0 /\ committed'[n] = 0
        /\ busy'[n] = {} /\ held'[n] = {} /\ slot'[n] = AllNull /\ surface'[n] = "NULL"
        /\ \A m \in Outputs \ {n} :
             /\ held'[m] = held[m] /\ committed'[m] = committed[m]
             /\ surface'[m] = surface[m] /\ requested'[m] = requested[m]
             /\ slot'[m] = slot[m] /\ busy'[m] = busy[m]
             /\ m \in outputs' <=> m \in outputs
    BY DEF RemoveOutput, DestroyOutputs, AllNull
  <1>5. /\ Waiting(events'[n]) = {}
        /\ ReleasesOnce(events'[n])
        /\ GlobalFirst(events'[n]) /\ ~ Holds(events'[n], Signal("global"))
        /\ Count(events'[n], "done") = Count(events[n], "done")
    <2>. DEFINE T == {"configure", "release"}
    <2>1. /\ Head(events[n]).type \notin {"done", "release"} /\ GlobalFirst(events[n])
          /\ T \in SUBSET {"configure", "release"} /\ "release" \in T
      BY <1>1 DEF UnbornOK
    <2>2. events'[n] = WithoutReceiver(Tail(events[n]), T)
      BY <1>3
    <2>. HIDE DEF T
    <2>. QED
      BY <1>1, <2>1, <2>2, OrphansTaken
  <1>6. BusyOK(n)'
    BY <1>4, <1>5 DEF BusyOK
  <1>7. UnbornOK(n)'
    BY <1>1, <1>3, <1>5 DEF UnbornOK, Unborn
  <1>8. FramesOK(n)'
    <2>1. ASSUME pc \notin FramesAsked PROVE Frames(n)' = 0
      <3>1. Frames(n) = 0
        BY <2>1 DEF FramesOK
      <3>2. Count(events[n], "done") = 0
        BY <1>2, <3>1 DEF Frames
      <3>. QED
        BY <1>4, <1>5, <3>2 DEF Frames
    <2>. QED
      BY <1>4, <2>1 DEF FramesOK
  <1>9. PointersOK(n)'
    BY <1>4 DEF PointersOK
  <1>. QED
    BY <1>3, <1>4, <1>6, <1>7, <1>8, <1>9 DEF Same

(* A new size: old releases go with their buffers, callbacks stay.         *)
LEMMA ConfigureOK ==
  ASSUME OutputsTypes, NEW n \in Outputs, OutputOK(n), pc' = pc, Defined, Defined',
         LockSurfaceConfigure(n)
  PROVE  /\ OutputOK(n)'
         /\ \A m \in Outputs \ {n} : Same(m)
         /\ faults' = 0 => faults = 0
  <1>. USE DEF OutputOK
  <1>1. /\ events[n] \in Seq(Event) /\ events[n] # << >>
        /\ Head(events[n]).type = "configure"
        /\ plugged[n] # "absent" /\ ~ Unborn(n)
    BY BornWhenReceived DEF LockSurfaceConfigure
  <1>2. /\ requested[n] \in Nat /\ committed[n] \in Nat /\ Count(events[n], "done") \in Nat
    BY Numbers
  <1>3. /\ events'[n] = WithoutReceiver(Tail(events[n]), {"release"})
        /\ \A m \in Outputs \ {n} : events'[m] = events[m]
        /\ UNCHANGED <<plugged, outputs, surface>>
    BY DEF LockSurfaceConfigure, OutputsTypes
  <1>4. /\ Waiting(events'[n]) = {}
        /\ ReleasesOnce(events'[n])
        /\ GlobalFirst(events'[n]) /\ ~ Holds(events'[n], Signal("global"))
        /\ Count(events'[n], "done") = Count(events[n], "done")
    <2>. DEFINE T == {"release"}
    <2>1. /\ Head(events[n]).type \notin {"done", "release"} /\ GlobalFirst(events[n])
          /\ T \in SUBSET {"configure", "release"} /\ "release" \in T
      BY <1>1 DEF UnbornOK
    <2>2. events'[n] = WithoutReceiver(Tail(events[n]), T)
      BY <1>3
    <2>. HIDE DEF T
    <2>. QED
      BY <1>1, <2>1, <2>2, OrphansTaken
  <1>5. UnbornOK(n)'
    BY <1>1, <1>3, <1>4 DEF UnbornOK, Unborn
  <1>6. CASE SetupLockScreen(n)
    <2>1. /\ busy'[n] = {0} /\ held'[n] = {0} /\ slot'[n] = BothLive
          /\ committed'[n] = committed[n] + requested[n] /\ requested'[n] = 0
          /\ faults' = faults
          /\ \A m \in Outputs \ {n} :
             /\ held'[m] = held[m] /\ committed'[m] = committed[m]
             /\ requested'[m] = requested[m] /\ slot'[m] = slot[m] /\ busy'[m] = busy[m]
      BY <1>6, FreeBuffer DEF SetupLockScreen, Present, OutputsTypes
    <2>2. BusyOK(n)'
      BY <1>4, <2>1 DEF BusyOK
    <2>3. Frames(n)' = Frames(n)
      BY <1>2, <1>4, <2>1 DEF Frames
    <2>4. FramesOK(n)'
      BY <1>2, <1>3, <2>1, <2>3 DEF FramesOK
    <2>5. PointersOK(n)'
      BY <1>3, <2>1 DEF PointersOK
    <2>. QED
      BY <1>3, <1>5, <2>1, <2>2, <2>4, <2>5 DEF Same
  <1>7. CASE SetupLockScreenFails(n)
    <2>1. /\ busy'[n] = {} /\ held'[n] = {}
          /\ UNCHANGED <<committed, requested>>
          /\ \A m \in Outputs \ {n} :
               held'[m] = held[m] /\ slot'[m] = slot[m] /\ busy'[m] = busy[m]
      BY <1>7 DEF SetupLockScreenFails, NothingShown, OutputsTypes
    <2>2. faults' # 0
      BY <1>7, FaultType DEF SetupLockScreenFails, OutputsTypes
    <2>3. Frames(n)' = Frames(n)
      BY <1>4, <2>1 DEF Frames
    <2>4. BusyOK(n)' /\ FramesOK(n)' /\ PointersOK(n)'
      BY <1>3, <1>4, <2>1, <2>2, <2>3 DEF BusyOK, FramesOK, PointersOK
    <2>. QED
      BY <1>3, <1>5, <2>1, <2>2, <2>4 DEF Same
  <1>8. CASE SetupLockScreenUndefined(n)
    BY <1>8, FollowType DEF SetupLockScreenUndefined, Defined
  <1>. QED
    BY <1>6, <1>7, <1>8 DEF LockSurfaceConfigure

(* A release is handled: its buffer is free and not held.                  *)
LEMMA ReleaseOK ==
  ASSUME OutputsTypes, NEW n \in Outputs, OutputOK(n), pc' = pc, BufferRelease(n)
  PROVE  /\ OutputOK(n)'
         /\ \A m \in Outputs \ {n} : Same(m)
         /\ faults' = faults
  <1>. USE DEF OutputOK
  <1>. DEFINE k == Head(events[n]).buffer
  <1>1. /\ events[n] \in Seq(Event) /\ events[n] # << >>
        /\ Head(events[n]).type = "release"
        /\ plugged[n] # "absent" /\ ~ Unborn(n)
    BY BornWhenReceived DEF BufferRelease
  <1>2. /\ events'[n] = Tail(events[n]) /\ busy'[n] = busy[n] \ {k}
        /\ \A m \in Outputs \ {n} : events'[m] = events[m] /\ busy'[m] = busy[m]
        /\ UNCHANGED <<plugged, held, committed, outputs, surface, requested, slot, faults>>
    BY OwnQueue DEF BufferRelease, compositorVars, OutputsTypes
  <1>3. /\ k \in Waiting(events[n])
        /\ Waiting(events'[n]) = Waiting(events[n]) \ {k}
        /\ ReleasesOnce(events'[n])
        /\ GlobalFirst(events'[n]) /\ ~ Holds(events'[n], Signal("global"))
        /\ Count(events'[n], "done") = Count(events[n], "done")
    <2>1. ReleasesOnce(events[n]) /\ GlobalFirst(events[n])
      BY DEF BusyOK, UnbornOK
    <2>. QED
      BY <1>1, <1>2, <2>1, ReleaseTaken
  <1>. HIDE DEF k
  <1>4. BusyOK(n)'
    BY <1>2, <1>3 DEF BusyOK
  <1>5. UnbornOK(n)'
    BY <1>1, <1>2, <1>3 DEF UnbornOK, Unborn
  <1>6. Frames(n)' = Frames(n)
    BY <1>2, <1>3 DEF Frames
  <1>7. FramesOK(n)' /\ PointersOK(n)'
    BY <1>2, <1>3, <1>6 DEF FramesOK, PointersOK
  <1>. QED
    BY <1>2, <1>4, <1>5, <1>7 DEF Same

(* An event without a receiver is dropped.                                 *)
LEMMA DropOK ==
  ASSUME OutputsTypes, NEW n \in Outputs, OutputOK(n), pc' = pc, DropEvent(n)
  PROVE  /\ OutputOK(n)'
         /\ \A m \in Outputs \ {n} : Same(m)
         /\ faults' = faults
  <1>. USE DEF OutputOK
  <1>1. /\ events[n] \in Seq(Event) /\ events[n] # << >>
        /\ Head(events[n]).type = "dropped"
        /\ plugged[n] # "absent" /\ ~ Unborn(n)
    BY BornWhenReceived DEF DropEvent
  <1>2. /\ events'[n] = Tail(events[n])
        /\ \A m \in Outputs \ {n} : events'[m] = events[m]
        /\ UNCHANGED <<plugged, held, committed, outputs, surface, requested, slot, busy,
                       faults>>
    BY OwnQueue DEF DropEvent, compositorVars, surfaceVars
  <1>3. /\ Waiting(events'[n]) = Waiting(events[n])
        /\ ReleasesOnce(events'[n])
        /\ GlobalFirst(events'[n]) /\ ~ Holds(events'[n], Signal("global"))
        /\ Count(events'[n], "done") = Count(events[n], "done")
    <2>1. Head(events[n]).type # "release" /\ ReleasesOnce(events[n]) /\ GlobalFirst(events[n])
      BY <1>1 DEF BusyOK, UnbornOK
    <2>. QED
      BY <1>1, <1>2, <2>1, SignalTaken
  <1>4. BusyOK(n)'
    BY <1>2, <1>3 DEF BusyOK
  <1>5. UnbornOK(n)'
    BY <1>1, <1>2, <1>3 DEF UnbornOK, Unborn
  <1>6. Frames(n)' = Frames(n)
    BY <1>2, <1>3 DEF Frames
  <1>7. FramesOK(n)' /\ PointersOK(n)'
    BY <1>2, <1>3, <1>6 DEF FramesOK, PointersOK
  <1>. QED
    BY <1>2, <1>4, <1>5, <1>7 DEF Same

(* A frame is handled: its callback is replaced by one that is asked for.  *)
LEMMA FrameDoneOK ==
  ASSUME OutputsTypes, NEW n \in Outputs, OutputOK(n), pc' = pc, SurfaceFrameDone(n)
  PROVE  /\ OutputOK(n)'
         /\ \A m \in Outputs \ {n} : Same(m)
         /\ faults' = faults
  <1>. USE DEF OutputOK
  <1>. DEFINE k == FindFreeBuffer(busy[n])
  <1>1. /\ events[n] \in Seq(Event) /\ events[n] # << >>
        /\ Head(events[n]).type = "done"
        /\ plugged[n] # "absent" /\ ~ Unborn(n)
    BY BornWhenReceived DEF SurfaceFrameDone
  <1>2. /\ requested[n] \in Nat /\ committed[n] \in Nat
    BY Numbers
  <1>3. /\ events'[n] = Tail(events[n])
        /\ \A m \in Outputs \ {n} : events'[m] = events[m]
        /\ UNCHANGED <<plugged, outputs, surface, slot, faults>>
        /\ slot[n] = BothLive /\ n \in outputs
    BY OwnQueue DEF SurfaceFrameDone
  <1>4. /\ Waiting(events'[n]) = Waiting(events[n])
        /\ ReleasesOnce(events'[n])
        /\ GlobalFirst(events'[n]) /\ ~ Holds(events'[n], Signal("global"))
        /\ Count(events'[n], "done") \in Nat
        /\ Count(events[n], "done") = Count(events'[n], "done") + 1
    <2>1. Head(events[n]).type # "release" /\ ReleasesOnce(events[n]) /\ GlobalFirst(events[n])
      BY <1>1 DEF BusyOK, UnbornOK
    <2>. QED
      BY <1>1, <1>3, <2>1, SignalTaken
  <1>5. UnbornOK(n)'
    BY <1>1, <1>3, <1>4 DEF UnbornOK, Unborn
  <1>6. PointersOK(n)'
    BY <1>3 DEF PointersOK
  <1>7. CASE k # NoBuffer /\ Present(n, k, busy[n], held[n], requested[n] + 1)
    <2>1. k \notin busy[n]
      BY <1>7, FreeBuffer
    <2>. HIDE DEF k
    <2>2. /\ busy'[n] = busy[n] \cup {k} /\ held'[n] = held[n] \cup {k}
          /\ requested'[n] = 0 /\ committed'[n] = committed[n] + (requested[n] + 1)
          /\ \A m \in Outputs \ {n} :
             /\ held'[m] = held[m] /\ committed'[m] = committed[m]
             /\ requested'[m] = requested[m] /\ busy'[m] = busy[m]
      BY <1>7 DEF Present, OutputsTypes
    <2>3. BusyOK(n)'
      BY <1>4, <2>1, <2>2 DEF BusyOK
    <2>4. Frames(n)' = Frames(n)
      BY <1>2, <1>4, <2>2 DEF Frames
    <2>5. FramesOK(n)'
      BY <1>3, <2>4 DEF FramesOK
    <2>. QED
      BY <1>3, <1>5, <1>6, <2>2, <2>3, <2>5 DEF Same
  <1>8. CASE /\ requested' = [requested EXCEPT ![n] = requested[n] + 1]
             /\ UNCHANGED <<busy, held, shown, committed, stale>>
    <2>1. /\ requested'[n] = requested[n] + 1
          /\ \A m \in Outputs \ {n} : requested'[m] = requested[m]
      BY <1>8 DEF OutputsTypes
    <2>2. BusyOK(n)'
      BY <1>4, <1>8 DEF BusyOK
    <2>3. Frames(n)' = Frames(n)
      BY <1>2, <1>4, <1>8, <2>1 DEF Frames
    <2>4. FramesOK(n)'
      BY <1>3, <2>3 DEF FramesOK
    <2>. QED
      BY <1>3, <1>5, <1>6, <1>8, <2>1, <2>2, <2>4 DEF Same
  <1>. QED
    BY <1>7, <1>8 DEF SurfaceFrameDone, NextFrame

(* The handlers, unless one does what is undefined. *)
LEMMA HandlerOK ==
  ASSUME OutputsTypes, NEW n \in Outputs, OutputOK(n), Handle(n), Defined'
  PROVE  /\ OutputOK(n)'
         /\ \A m \in Outputs \ {n} : Same(m)
         /\ faults' = 0 => faults = 0
  <1>1. pc' = pc /\ Defined
    BY DEF Handle, Dispatching, controlVars
  <1>2. ~ RemoveOutputUndefined(n) /\ ~ SurfaceFrameDoneUndefined(n)
    <2>1. ASSUME RemoveOutputUndefined(n) PROVE FALSE
      BY <2>1, FollowType
      DEF RemoveOutputUndefined, DestroyUndefined, Undefined, Defined
    <2>2. ASSUME SurfaceFrameDoneUndefined(n) PROVE FALSE
      BY <2>2, FollowType DEF SurfaceFrameDoneUndefined, Undefined, Defined
    <2>. QED
      BY <2>1, <2>2
  <1>. QED
    BY <1>1, <1>2, CreateOK, RemoveOK, ConfigureOK, ReleaseOK, FrameDoneOK, DropOK
    DEF Handle

-----------------------------------------------------------------------------
(* The invariant of the outputs.                                           *)

(* The invariant of the outputs holds at the start.                        *)
LEMMA OutputsInvInit == Init => OutputsInv
  <1>. SUFFICES ASSUME Init, NEW n \in Outputs
                PROVE  OutputOK(n)
    BY DEF Init, OutputsInv
  <1>1. /\ held[n] = {} /\ committed[n] = 0 /\ requested[n] = 0 /\ busy[n] = {}
        /\ surface[n] = "NULL" /\ slot[n] = AllNull /\ outputs = {} /\ faults = 0
        /\ pc = "defaults"
    BY DEF Init, OutputsInit, AllNull
  <1>2. /\ Waiting(events[n]) = {} /\ ReleasesOnce(events[n])
        /\ GlobalFirst(events[n]) /\ Count(events[n], "done") = 0
        /\ plugged[n] = "absent" => events[n] = << >>
    <2>1. CASE plugged[n] = "present"
      <3>1. events[n] = Append(<< >>, Signal("global"))
        BY <2>1 DEF Init, OutputsInit
      <3>. QED
        BY <2>1, <3>1, GlobalSent
    <2>2. CASE plugged[n] # "present"
      <3>1. events[n] = << >>
        BY <2>2 DEF Init, OutputsInit
      <3>. QED
        BY <3>1, CountEmpty DEF Waiting, Holds, ReleasesOnce, GlobalFirst
    <2>. QED
      BY <2>1, <2>2
  <1>3. Frames(n) = 0
    BY <1>1, <1>2 DEF Frames
  <1>4. BusyOK(n) /\ UnbornOK(n)
    BY <1>1, <1>2, <1>3 DEF BusyOK, UnbornOK
  <1>5. FramesOK(n) /\ PointersOK(n)
    BY <1>1, <1>2, <1>3 DEF FramesOK, FramesAsked, PointersOK
  <1>. QED
    BY <1>1, <1>4, <1>5 DEF OutputOK

(* A step that touches no output. *)
LEMMA AllSame ==
  ASSUME OutputsInv, Active, Active', \A m \in Outputs : Same(m),
         pc' \in FramesAsked <=> pc \in FramesAsked, faults' = 0 => faults = 0,
         storage' = "raw" => pc' = "document_fd"
  PROVE  OutputsInv'
  <1>1. ASSUME NEW m \in Outputs PROVE OutputOK(m)'
    <2>1. OutputOK(m) /\ Same(m)
      BY DEF OutputsInv
    <2>. QED
      BY <2>1, SameIsOK
  <1>. QED
    BY <1>1 DEF OutputsInv

(* The setup goes on; before the frames are asked for there are none.      *)
LEMMA SetupKeepsOutputs ==
  ASSUME StartupTypeOK, SetupInv, OutputsInv, SetupGoesOn, Active'
  PROVE  OutputsInv'
  <1>0. OutputsTypes /\ ControlTypes
    BY TypesSplit
  <1>. USE DEF At, Goto
  <1>1. CASE \/ SetupStep \/ GlobalsRoundTrip \/ CapabilitiesRoundTrip \/ KeymapRoundTrip
             \/ RequestLock \/ SurfacesCreated \/ AllocateStorage \/ CreateDocumentFd
             \/ CreateAndStartTimer
    <2>1. UNCHANGED outputsVars
      BY <1>1 DEF SetupStep, GlobalsRoundTrip, CapabilitiesRoundTrip, KeymapRoundTrip,
         RoundTripEnds, RequestLock, SurfacesCreated, AllocateStorage, CreateDocumentFd,
         CreateAndStartTimer
    <2>2. (\A m \in Outputs : Same(m)) /\ faults' = faults /\ (Defined <=> Defined')
      BY <2>1 DEF Same, outputsVars, compositorVars, surfaceVars, Defined
    <2>3. pc # "ended" /\ (pc' \in FramesAsked <=> pc \in FramesAsked)
      BY <1>1, AllocatingSteps
      DEF SetupStep, GlobalsRoundTrip, CapabilitiesRoundTrip, KeymapRoundTrip,
          RoundTripEnds, RequestLock, SurfacesCreated, AllocateStorage, CreateDocumentFd,
          CreateAndStartTimer, Allocating, FramesAsked
    <2>4. Active
      BY <2>2, <2>3 DEF Active
    <2>5. storage = "raw" => pc = "document_fd"
      BY <2>4 DEF OutputsInv
    <2>6. storage' = "raw" => pc' = "document_fd"
      BY <1>1, <2>5, AllocatingSteps
      DEF SetupStep, GlobalsRoundTrip, CapabilitiesRoundTrip, KeymapRoundTrip,
          RoundTripEnds, RequestLock, SurfacesCreated, AllocateStorage, CreateDocumentFd,
          CreateAndStartTimer, Allocating
    <2>. QED
      BY <2>2, <2>3, <2>4, <2>6, AllSame
  <1>2. CASE (\E g \in Globals : RegistryGlobal(g)) \/ SeatCapabilities
    <2>1. /\ \A m \in Outputs : Same(m)
          /\ faults' = 0 => faults = 0
          /\ UNCHANGED <<pc, storage>>
          /\ Defined
      BY <1>0, <1>2, FaultType
      DEF RegistryGlobal, SeatCapabilities, Same, compositorVars, surfaceVars, Dispatching,
          OutputsTypes
    <2>2. Active
      BY <2>1 DEF Active
    <2>. QED
      BY <2>1, <2>2, AllSame DEF OutputsInv
  <1>3. CASE CreateSurfaces
    <2>0. Active
      BY <1>3 DEF CreateSurfaces, Active
    <2>1. PICK n \in outputs : CreateSurface(n)
      BY <1>3 DEF CreateSurfaces
    <2>2. n \in Outputs /\ pc' = pc /\ pc = "surfaces" /\ storage' = storage
      BY <1>0, <1>3 DEF CreateSurfaces, OutputsTypes, controlVars
    <2>3. /\ \A m \in Outputs \ {n} : Same(m)
          /\ UNCHANGED <<plugged, events, held, committed, requested, slot, busy, outputs, faults>>
          /\ surface'[n] = "live"
      BY <1>0, <2>1 DEF CreateSurface, Same, OutputsTypes, compositorVars
    <2>4. OutputOK(n)
      BY <2>0, <2>2 DEF OutputsInv
    <2>5. Frames(n)' = Frames(n) /\ Frames(n) = 0 /\ ~ Unborn(n) /\ ~ Unborn(n)'
      BY <2>1, <2>2, <2>3, <2>4
      DEF Frames, OutputOK, FramesOK, FramesAsked, UnbornOK, Unborn
    <2>6. BusyOK(n)' /\ UnbornOK(n)'
      BY <2>3, <2>4, <2>5 DEF OutputOK, BusyOK, UnbornOK
    <2>7. FramesOK(n)' /\ PointersOK(n)'
      BY <2>2, <2>3, <2>4, <2>5 DEF OutputOK, FramesOK, FramesAsked, PointersOK
    <2>8. ASSUME NEW m \in Outputs \ {n} PROVE OutputOK(m)'
      <3>1. OutputOK(m) /\ Same(m)
        BY <2>0, <2>3 DEF OutputsInv
      <3>. QED
        BY <2>2, <2>3, <3>1, SameIsOK
    <2>. QED
      BY <2>0, <2>2, <2>6, <2>7, <2>8 DEF OutputsInv, OutputOK
  <1>4. CASE AddFrameListeners
    <2>0. Active
      BY <1>4 DEF AddFrameListeners, Active
    <2>1. /\ AddSurfaceFrameListeners
          /\ pc = "frames" /\ pc' = "storage" /\ storage' = storage
      BY <1>4 DEF AddFrameListeners
    <2>2. UNCHANGED <<plugged, events, held, committed, surface, slot, busy, outputs, faults>>
      BY <2>1 DEF AddSurfaceFrameListeners, compositorVars
    <2>3. ASSUME NEW m \in Outputs PROVE OutputOK(m)'
      <3>1. OutputOK(m)
        BY <2>0 DEF OutputsInv
      <3>2. /\ requested[m] \in Nat /\ committed[m] \in Nat
            /\ Count(events[m], "done") \in Nat
        BY <1>0, Numbers
      <3>3. Frames(m) = 0
        BY <2>1, <3>1 DEF OutputOK, FramesOK, FramesAsked
      <3>4. requested[m] = 0 /\ committed[m] = 0 /\ Count(events[m], "done") = 0
        BY <3>2, <3>3 DEF Frames
      <3>5. requested'[m] = IF m \in outputs THEN 1 ELSE 0
        BY <2>1, <3>4 DEF AddSurfaceFrameListeners
      <3>6. /\ Frames(m)' = IF m \in outputs THEN 1 ELSE 0
            /\ surface[m] = IF m \in outputs THEN "live" ELSE "NULL"
        BY <2>1, <2>2, <3>4, <3>5 DEF Frames, SetupInv, SetupCoversOutputs
      <3>7. BusyOK(m)'
        BY <2>2, <3>1 DEF OutputOK, BusyOK
      <3>8. UnbornOK(m)'
        BY <2>2, <3>1, <3>6 DEF OutputOK, UnbornOK, Unborn
      <3>9. FramesOK(m)'
        BY <2>1, <2>2, <3>4, <3>5, <3>6 DEF FramesOK, FramesAsked
      <3>10. PointersOK(m)'
        BY <2>2, <3>1 DEF OutputOK, PointersOK
      <3>. QED
        BY <3>7, <3>8, <3>9, <3>10 DEF OutputOK
    <2>. QED
      BY <2>0, <2>1, <2>3 DEF OutputsInv
  <1>. QED
    BY <1>1, <1>2, <1>3, <1>4 DEF SetupGoesOn

(* The setup fails: all that remains is to give up.                        *)
LEMMA FailingKeepsOutputs ==
  ASSUME StartupTypeOK, OutputsInv, SetupFails, Active'
  PROVE  OutputsInv'
  <1>0. OutputsTypes
    BY TypesSplit
  <1>1. CreateSurfacesFails
    BY DEF SetupFails, SetupStepFails, RoundTripFails, GiveUp, LateStepFails,
       DestroyAnviState, Active
  <1>2. Active /\ pc = "surfaces" /\ pc' = "giving up" /\ storage' = storage
    BY <1>1 DEF CreateSurfacesFails, At, Active
  <1>3. PICK n \in outputs : CreateSurfaceFails(n)
    BY <1>1 DEF CreateSurfacesFails
  <1>4. /\ n \in Outputs
        /\ \A m \in Outputs \ {n} : Same(m)
        /\ UNCHANGED <<plugged, events, held, committed, requested, slot, busy, outputs>>
        /\ faults' # 0
    BY <1>0, <1>3, FaultType DEF CreateSurfaceFails, Same, OutputsTypes, compositorVars
  <1>5. OutputOK(n)
    BY <1>2, <1>4 DEF OutputsInv
  <1>6. OutputOK(n)'
    <2>1. Frames(n)' = Frames(n) /\ Frames(n) = 0 /\ ~ Unborn(n) /\ ~ Unborn(n)'
      BY <1>2, <1>3, <1>4, <1>5
      DEF Frames, OutputOK, FramesOK, FramesAsked, UnbornOK, Unborn
    <2>2. BusyOK(n)' /\ UnbornOK(n)'
      BY <1>4, <1>5, <2>1 DEF OutputOK, BusyOK, UnbornOK
    <2>3. FramesOK(n)' /\ PointersOK(n)'
      BY <1>2, <1>4, <1>5, <2>1 DEF OutputOK, FramesOK, FramesAsked, PointersOK
    <2>. QED
      BY <2>2, <2>3 DEF OutputOK
  <1>7. ASSUME NEW m \in Outputs \ {n} PROVE OutputOK(m)'
    <2>1. OutputOK(m) /\ Same(m)
      BY <1>2, <1>4 DEF OutputsInv
    <2>. QED
      BY <1>2, <1>4, <2>1, SameIsOK DEF FramesAsked
  <1>. QED
    BY <1>2, <1>6, <1>7 DEF OutputsInv

(* The main loop, as long as nothing is undefined.                         *)
LEMMA LoopKeepsOutputs ==
  ASSUME StartupTypeOK, OutputsInv, MainLoop, Active'
  PROVE  OutputsInv'
  <1>1. Flush \/ TypeText
    BY DEF MainLoop, LeaveLoop, LeaveLoopAtOnce, DestroyAnviState, PollUndefined,
       Undefined, Active, Defined
  <1>2. /\ \A m \in Outputs : Same(m)
        /\ UNCHANGED <<pc, storage, faults>>
        /\ Defined
    BY <1>1 DEF Flush, TypeText, TextChanges, At, Same, controlVars, outputsVars,
       compositorVars, surfaceVars
  <1>3. Active
    BY <1>2 DEF Active
  <1>. QED
    BY <1>2, <1>3, AllSame DEF OutputsInv

(* Every step keeps the invariant of the outputs.                          *)
LEMMA OutputsInvStep ==
  StartupTypeOK /\ SetupInv /\ OutputsInv /\ [Next]_vars => OutputsInv'
  <1>. SUFFICES ASSUME StartupTypeOK, SetupInv, OutputsInv, [Next]_vars, Active'
                PROVE  OutputsInv'
    BY DEF OutputsInv
  <1>0. OutputsTypes
    BY TypesSplit
  <1>1. CASE Setup
    BY <1>1, SetupSplits, SetupKeepsOutputs, FailingKeepsOutputs
  <1>2. CASE MainLoop
    BY <1>2, LoopKeepsOutputs
  <1>3. ASSUME NEW n \in Outputs, Handle(n) \/ Compositor(n)
        PROVE  OutputsInv'
    <2>1. UNCHANGED <<pc, storage>> /\ Defined /\ Defined' /\ Active
      BY <1>3 DEF Handle, Compositor, Dispatching, controlVars, Active
    <2>2. OutputOK(n)
      BY <2>1 DEF OutputsInv
    <2>3. /\ OutputOK(n)'
          /\ \A m \in Outputs \ {n} : Same(m)
          /\ faults' = 0 => faults = 0
      BY <1>0, <1>3, <2>1, <2>2, HandlerOK, CompositorOK
    <2>4. ASSUME NEW m \in Outputs \ {n} PROVE OutputOK(m)'
      <3>1. OutputOK(m) /\ Same(m)
        BY <2>1, <2>3 DEF OutputsInv
      <3>. QED
        BY <2>1, <2>3, <3>1, SameIsOK
    <2>. QED
      BY <2>1, <2>3, <2>4 DEF OutputsInv
  <1>4. CASE UNCHANGED vars
    <2>1. /\ \A m \in Outputs : Same(m)
          /\ UNCHANGED <<pc, storage, faults>>
          /\ Active
      BY <1>4 DEF vars, controlVars, outputsVars, compositorVars, surfaceVars, Same,
         Active, Defined
    <2>. QED
      BY <2>1, AllSame DEF OutputsInv
  <1>. QED
    BY <1>1, <1>2, <1>3, <1>4 DEF Next, Stopped

(* The invariant of the outputs holds in every run.                        *)
LEMMA OutputsInvAlways == Spec => []OutputsInv
  <1>1. Init => StartupTypeOK /\ SetupInv /\ OutputsInv
    BY TypesInit, SetupInvInit, OutputsInvInit
  <1>2. StartupTypeOK /\ SetupInv /\ OutputsInv /\ [Next]_vars
          => (StartupTypeOK /\ SetupInv /\ OutputsInv)'
    BY TypesNext, SetupInvStep, OutputsInvStep
  <1>. QED
    BY <1>1, <1>2, PTL DEF Spec

(* While the program runs, each output that it set up has exactly one      *)
(* frame callback, whatever is resized, skipped, plugged and unplugged     *)
(* (render.c:229-246, output.c:132).                                       *)
THEOREM FramesAreAskedOnce == Spec => []OneFrameCallback
  <1>1. StartupTypeOK /\ OutputsInv => OneFrameCallback
    <2>. SUFFICES ASSUME StartupTypeOK, OutputsInv, At("run"), NEW n \in outputs
                  PROVE  requested[n] + committed[n] + Count(events[n], "done")
                           = IF surface[n] = "live" THEN 1 ELSE 0
      BY DEF OneFrameCallback
    <2>1. n \in Outputs /\ FramesOK(n)
      BY DEF StartupTypeOK, OutputsInv, At, Active, OutputOK
    <2>. QED
      BY <2>1 DEF At, FramesOK, FramesAsked, Frames
  <1>. QED
    BY <1>1, StartupTypeCorrect, OutputsInvAlways, PTL

(* A buffer is busy exactly while the compositor may read it or its        *)
(* release is on the way, for any order of resizes, frames and releases    *)
(* (buffer.c:20-25, 102-112, render.c:218).                                *)
THEOREM BusyMeansInUse == Spec => []BusyIsAccurate
  <1>1. OutputsInv => BusyIsAccurate
    <2>. SUFFICES ASSUME OutputsInv, At("run"), NEW n \in Outputs
                  PROVE  busy[n] = held[n] \cup
                           { k \in Buffer : \E j \in DOMAIN events[n] :
                                              events[n][j] = Release(k) }
      BY DEF BusyIsAccurate
    <2>1. BusyOK(n)
      BY DEF OutputsInv, At, Active, OutputOK
    <2>. QED
      BY <2>1 DEF BusyOK, Waiting, Holds
  <1>. QED
    BY <1>1, OutputsInvAlways, PTL

-----------------------------------------------------------------------------
(* Without a fault no pointer leads nowhere. *)
Harmless == {"nothing", "callback", "keyboard"}

(* Pointers lead somewhere while no call has failed.                       *)
LEMMA PointersAreGood ==
  ASSUME OutputsTypes, NEW n \in Outputs, PointersOK(n), faults = 0
  PROVE  /\ Sound(n)
         /\ ~ Follow(slot[n], Dangling)
         /\ ~ DestroyUndefined(n)
         /\ n \in outputs /\ Received(n, "done") => ~ Follow(slot[n], {"NULL"} \cup Dangling)
  <1>1. slot[n] \in {AllNull, BothLive} /\ surface[n] # "freed"
    BY DEF PointersOK
  <1>2. \A k \in Buffer : slot[n][k] \notin Dangling
    BY <1>1 DEF AllNull, BothLive, Dangling
  <1>3. ASSUME n \in outputs, Received(n, "done")
        PROVE  \A k \in Buffer : slot[n][k] = "live"
    <2>1. events[n] \in Seq(Event) /\ events[n] # << >> /\ Head(events[n]).type = "done"
      BY <1>3 DEF OutputsTypes, Received
    <2>2. /\ Count(events[n], "done") = Count(Tail(events[n]), "done") + 1
          /\ Tail(events[n]) \in Seq(Event)
      BY <2>1, TailTaken
    <2>3. Count(Tail(events[n]), "done") \in Nat /\ committed[n] \in Nat
      BY <2>2, CountType DEF OutputsTypes
    <2>4. committed[n] + Count(events[n], "done") > 0
      BY <2>2, <2>3
    <2>. QED
      BY <1>3, <2>4 DEF PointersOK, BothLive
  <1>. QED
    BY <1>1, <1>2, <1>3
    DEF Sound, Unsound, Follow, DestroyUndefined, Dangling

(* A cleanup follows sound pointers only.                                  *)
LEMMA DestroySound ==
  ASSUME OutputsTypes, OutputsInv, Active, pc # "document_fd", faults = 0, DestroyAnviState
  PROVE  undefined' = "nothing"
  <1>1. \A n \in outputs : Sound(n)
    BY PointersAreGood DEF OutputsTypes, OutputsInv, OutputOK
  <1>2. storage # "raw"
    BY DEF OutputsInv
  <1>. QED
    BY <1>1, <1>2 DEF DestroyAnviState

(* A call that has failed is not forgotten.                                *)
LEMMA FaultsStay ==
  ASSUME StartupTypeOK, [Next]_vars, faults' = 0
  PROVE  faults = 0
  <1>. USE FaultType
  <1>0. faults \in 0 .. MaxFaults
    BY DEF StartupTypeOK
  <1>1. CASE SetupGoesOn
    BY <1>0, <1>1
    DEF SetupGoesOn, SetupStep, RegistryGlobal, SeatCapabilities, GlobalsRoundTrip,
        CapabilitiesRoundTrip, KeymapRoundTrip, RoundTripEnds, RequestLock, CreateSurfaces,
        CreateSurface, SurfacesCreated, AddFrameListeners, AddSurfaceFrameListeners,
        AllocateStorage, CreateDocumentFd, CreateAndStartTimer, outputsVars
  <1>2. CASE SetupFails
    BY <1>0, <1>2
    DEF SetupFails, SetupStepFails, RoundTripFails, CreateSurfacesFails, CreateSurfaceFails,
        GiveUp, LateStepFails
  <1>3. CASE MainLoop
    BY <1>3 DEF MainLoop, Flush, PollUndefined, TypeText, TextChanges, LeaveLoop,
       LeaveLoopAtOnce, outputsVars
  <1>4. ASSUME NEW n \in Outputs, Handle(n)
        PROVE  faults = 0
    BY <1>0, <1>4
    DEF Handle, CreateAndBindOutput, RemoveOutput, RemoveOutputUndefined,
        LockSurfaceConfigure, SetupLockScreen, SetupLockScreenFails,
        SetupLockScreenUndefined, BufferRelease, SurfaceFrameDone,
        SurfaceFrameDoneUndefined, DropEvent
  <1>5. ASSUME NEW n \in Outputs, Compositor(n)
        PROVE  faults = 0
    BY <1>5 DEF Compositor, Plug, Unplug, CompositorConfigures, CompositorReleases,
       CompositorPresents
  <1>6. CASE UNCHANGED vars
    BY <1>6 DEF vars, outputsVars
  <1>. QED
    BY <1>1, <1>2, <1>3, <1>4, <1>5, <1>6, SetupSplits DEF Next, Stopped

(* The handlers follow sound pointers only.                                *)
LEMMA SoundHandlers ==
  ASSUME OutputsTypes, OutputsInv, NEW n \in Outputs, Handle(n), faults = 0, faults' = 0
  PROVE  undefined' \in Harmless
  <1>. USE DEF Harmless
  <1>1. Active
    BY DEF Handle, Dispatching, RoundTrips, Active
  <1>2. PointersOK(n) /\ undefined = "nothing"
    BY <1>1 DEF OutputsInv, OutputOK, Active, Defined
  <1>3. /\ ~ Follow(slot[n], Dangling)
        /\ ~ DestroyUndefined(n)
        /\ n \in outputs /\ Received(n, "done") => ~ Follow(slot[n], {"NULL"} \cup Dangling)
    BY <1>2, PointersAreGood
  <1>4. CASE LockSurfaceConfigure(n)
    <2>1. faults \in 0 .. MaxFaults
      BY DEF OutputsTypes
    <2>. QED
      BY <1>2, <1>3, <1>4, <2>1, FaultType
      DEF LockSurfaceConfigure, SetupLockScreen, SetupLockScreenFails,
          SetupLockScreenUndefined
  <1>5. CASE RemoveOutputUndefined(n) \/ SurfaceFrameDoneUndefined(n)
    BY <1>3, <1>5 DEF RemoveOutputUndefined, SurfaceFrameDoneUndefined, Undefined
  <1>6. CASE \/ CreateAndBindOutput(n) \/ RemoveOutput(n) \/ BufferRelease(n)
             \/ SurfaceFrameDone(n) \/ DropEvent(n)
    BY <1>2, <1>6
    DEF CreateAndBindOutput, RemoveOutput, BufferRelease, SurfaceFrameDone, DropEvent
  <1>. QED
    BY <1>4, <1>5, <1>6 DEF Handle

(* No pointer that was freed or never set is followed unless a call has    *)
(* failed, wherever setup or loop end and whatever is plugged, unplugged   *)
(* and resized meanwhile; but for the callback of a removed output and a   *)
(* poll without keyboard (buffer.c:191, output.c:27-90).                  *)
THEOREM PointersAreFollowedSoundly == Spec => []SoundWithoutFaults
  <1>1. Init => SoundWithoutFaults
    BY DEF Init, OutputsInit, SoundWithoutFaults
  <1>2. StartupTypeOK /\ OutputsInv /\ SoundWithoutFaults /\ [Next]_vars => SoundWithoutFaults'
    <2>. SUFFICES ASSUME StartupTypeOK, OutputsInv, SoundWithoutFaults, [Next]_vars,
                         faults' = 0
                  PROVE  undefined' \in Harmless
      BY DEF SoundWithoutFaults, Harmless
    <2>0. OutputsTypes /\ faults = 0 /\ undefined \in Harmless /\ faults \in 0 .. MaxFaults
      BY TypesSplit, FaultsStay DEF SoundWithoutFaults, Harmless, OutputsTypes
    <2>1. CASE SetupGoesOn
      BY <2>0, <2>1, FaultType
      DEF SetupGoesOn, SetupStep, RegistryGlobal, SeatCapabilities, GlobalsRoundTrip,
          CapabilitiesRoundTrip, KeymapRoundTrip, RoundTripEnds, RequestLock,
          CreateSurfaces, CreateSurface, SurfacesCreated, AddFrameListeners,
          AddSurfaceFrameListeners, AllocateStorage, CreateDocumentFd,
          CreateAndStartTimer, outputsVars
    <2>2. CASE SetupFails
      <3>1. RoundTripFails \/ GiveUp
        BY <2>0, <2>2, FaultType
        DEF SetupFails, SetupStepFails, CreateSurfacesFails, CreateSurfaceFails,
            LateStepFails
      <3>2. DestroyAnviState /\ Active /\ pc # "document_fd"
        BY <3>1 DEF RoundTripFails, GiveUp, At, RoundTrips, Active
      <3>. QED
        BY <2>0, <3>2, DestroySound DEF Harmless
    <2>3. CASE MainLoop
      <3>1. CASE LeaveLoop
        <4>1. DestroyAnviState /\ Active /\ pc # "document_fd"
          BY <3>1 DEF LeaveLoop, At, Active
        <4>. QED
          BY <2>0, <4>1, DestroySound DEF Harmless
      <3>2. CASE ~ LeaveLoop
        BY <2>0, <2>3, <3>2
        DEF MainLoop, Flush, PollUndefined, TypeText, TextChanges, LeaveLoopAtOnce,
            outputsVars, Undefined, Harmless
      <3>. QED
        BY <3>1, <3>2
    <2>4. ASSUME NEW n \in Outputs, Handle(n)
          PROVE  undefined' \in Harmless
      BY <2>0, <2>4, SoundHandlers
    <2>5. ASSUME NEW n \in Outputs, Compositor(n)
          PROVE  undefined' \in Harmless
      BY <2>0, <2>5 DEF Compositor, Plug, Unplug, CompositorConfigures,
         CompositorReleases, CompositorPresents
    <2>6. CASE UNCHANGED vars
      BY <2>0, <2>6 DEF vars, outputsVars
    <2>. QED
      BY <2>1, <2>2, <2>3, <2>4, <2>5, <2>6, SetupSplits DEF Next, Stopped
  <1>. QED
    BY <1>1, <1>2, StartupTypeCorrect, OutputsInvAlways, PTL DEF Spec
=============================================================================
