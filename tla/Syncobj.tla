-------------------------------- MODULE Syncobj --------------------------------
(***************************************************************************)
(* Timeline completion callbacks (src/gpu/semaphore.cpp).                  *)
(*                                                                         *)
(* A GpuSyncobj keeps its callbacks in wait.list, sorted by point, and     *)
(* asks the kernel to bump one shared eventfd once per wait.  An eventfd   *)
(* only counts, so handle_waits cannot tell which wait an event belongs    *)
(* to: it pops as many waits as there were events.  A blocking gpu_wait    *)
(* runs callbacks itself and leaves their events behind; wait.skips counts *)
(* the events that are owed to waits already handled.                      *)
(*                                                                         *)
(* The kernel runs concurrently with the event loop and may deliver the    *)
(* events of reached points late and in any order.  Callbacks may register *)
(* further waits on the same syncobj but do not block on it: no callback   *)
(* of the program does.                                                    *)
(***************************************************************************)
EXTENDS Naturals, FiniteSets, Sequences, SequencesExt

CONSTANTS
  Wait,    \* The GpuWaitFn objects; each is registered at most once.
  MaxPoint \* Bound on the timeline's points.

ASSUME MaxPointAssumption == MaxPoint \in Nat \ {0}

VARIABLES
  value,   \* The kernel's timeline value.
  point,   \* GpuWaitFn::point, 0 until the wait is registered.
  list,    \* GpuSyncobj::wait.list
  armed,   \* Waits whose DRM_IOCTL_SYNCOBJ_EVENTFD event has not fired yet.
  eventfd, \* The unread count of GpuSyncobj::wait.fd.
  skips,   \* GpuSyncobj::wait.skips
  mode,    \* What the event loop is doing with this syncobj.
  arg,     \* Remaining pops in "drain", the awaited point in "block", "flush".
  handled, \* History: the waits whose handle() was called.
  alive    \* FALSE once ~GpuSyncobj has run.

vars == <<value, point, list, armed, eventfd, skips, mode, arg, handled, alive>>

Pending == {list[i] : i \in DOMAIN list}
Registered == {w \in Wait : point[w] # 0}

Init ==
  /\ value = 0
  /\ point = [w \in Wait |-> 0]
  /\ list = <<>>
  /\ armed = {}
  /\ eventfd = 0
  /\ skips = 0
  /\ mode = "loop"
  /\ arg = 0
  /\ handled = {}
  /\ alive = TRUE

-------------------------------------------------------------------------------
(* The kernel and the devices.                                             *)

(* A fence of the timeline signals: a device finished, or                  *)
(* gpu_syncobj_signal_value or gpu_syncobj_import_syncfile was called.     *)
gpu_syncobj_signal_value ==
  /\ value' \in (value + 1) .. MaxPoint
  /\ UNCHANGED <<point, list, armed, eventfd, skips, mode, arg, handled, alive>>

(* The kernel delivers the event of one reached point.                     *)
SignalEvent(w) ==
  /\ w \in armed
  /\ point[w] <= value
  /\ armed' = armed \ {w}
  /\ eventfd' = eventfd + 1
  /\ UNCHANGED <<value, point, list, skips, mode, arg, handled, alive>>

-------------------------------------------------------------------------------
(* The event loop.                                                         *)

(* Seeded fault: the wait is appended without walking back.                *)
InsertPositionUnsorted(k, p) == k = Len(list)

(* The walk from the back of the list stops at the last wait whose point   *)
(* is not above p; the new wait goes right after it.                       *)
InsertPosition(k, p) ==
  /\ k \in 0 .. Len(list)
  /\ k > 0 => point[list[k]] <= p
  /\ \A i \in k + 1 .. Len(list) : point[list[i]] > p

(* From the loop, or from a callback that handle_waits or gpu_wait runs.   *)
gpu_syncobj_wait(w, p) ==
  /\ alive
  /\ mode # "block"
  /\ w \notin Registered
  /\ point' = [point EXCEPT ![w] = p]
  /\ \E k \in 0 .. Len(list) :
       /\ InsertPosition(k, p)
       /\ list' = InsertAt(list, k + 1, w)
  /\ armed' = armed \cup {w}
  /\ UNCHANGED <<value, eventfd, skips, mode, arg, handled, alive>>

(* w.remove()->handle(...)                                                 *)
PopFirst ==
  /\ list # <<>>
  /\ list' = Tail(list)
  /\ handled' = handled \cup {Head(list)}

(* Seeded fault: skips is not consumed when the events outnumber it.       *)
HandleWaitsKeepSkips ==
  /\ alive /\ mode = "loop" /\ eventfd > 0
  /\ eventfd' = 0
  /\ \/ /\ eventfd > skips
        /\ PopFirst
        /\ arg' = eventfd - skips - 1
        /\ mode' = IF arg' = 0 THEN "loop" ELSE "drain"
        /\ skips' = skips
     \/ /\ eventfd <= skips
        /\ skips' = skips - eventfd
        /\ UNCHANGED <<list, mode, arg, handled>>
  /\ UNCHANGED <<value, point, armed, alive>>

(* Seeded fault: owed events are not compared with the count first.        *)
HandleWaitsWrapSkips ==
  /\ alive /\ mode = "loop" /\ eventfd > 0
  /\ eventfd' = 0
  /\ skips' = IF skips > 0 THEN 0 - eventfd + skips ELSE 0
  /\ IF skips > 0 THEN UNCHANGED <<list, mode, arg, handled>>
     ELSE /\ PopFirst
          /\ arg' = eventfd - 1
          /\ mode' = IF arg' = 0 THEN "loop" ELSE "drain"
  /\ UNCHANGED <<value, point, armed, alive>>

(* Reads the eventfd, which resets it; the owed events are subtracted and  *)
(* the rest is the number of waits to pop.  The first pop is part of this  *)
(* step, the others are handle_waits_next.                                 *)
handle_waits ==
  /\ alive
  /\ mode = "loop"
  /\ eventfd > 0
  /\ eventfd' = 0
  /\ \/ /\ eventfd > skips
        /\ skips' = 0
        /\ PopFirst
        /\ arg' = eventfd - skips - 1
        /\ mode' = IF arg' = 0 THEN "loop" ELSE "drain"
     \/ /\ eventfd <= skips
        /\ skips' = skips - eventfd
        /\ UNCHANGED <<list, mode, arg, handled>>
  /\ UNCHANGED <<value, point, armed, alive>>

(* The next iteration of handle_waits's loop.                              *)
handle_waits_next ==
  /\ mode = "drain"
  /\ PopFirst
  /\ arg' = arg - 1
  /\ mode' = IF arg' = 0 THEN "loop" ELSE "drain"
  /\ UNCHANGED <<value, point, armed, eventfd, skips, alive>>

(* The blocking gpu_wait enters drmSyncobjTimelineWait.                    *)
gpu_wait(p) ==
  /\ alive
  /\ mode = "loop"
  /\ mode' = "block"
  /\ arg' = p
  /\ UNCHANGED <<value, point, list, armed, eventfd, skips, handled, alive>>

(* Seeded fault: a wait handled here does not owe its event.               *)
GpuWaitStepNoSkip ==
  /\ \/ mode = "block" /\ value >= arg
     \/ mode = "flush"
  /\ IF list # <<>> /\ point[Head(list)] <= arg
     THEN PopFirst /\ mode' = "flush" /\ arg' = arg
     ELSE mode' = "loop" /\ arg' = 0 /\ UNCHANGED <<list, handled>>
  /\ UNCHANGED <<value, point, armed, eventfd, skips, alive>>

(* The point is reached; one iteration of gpu_wait's loop over the waits   *)
(* whose point does not exceed it, or its end.                             *)
gpu_wait_step ==
  /\ \/ mode = "block" /\ value >= arg
     \/ mode = "flush"
  /\ IF list # <<>> /\ point[Head(list)] <= arg
     THEN PopFirst /\ skips' = skips + 1 /\ mode' = "flush" /\ arg' = arg
     ELSE mode' = "loop" /\ arg' = 0 /\ UNCHANGED <<list, skips, handled>>
  /\ UNCHANGED <<value, point, armed, eventfd, alive>>

(* ~GpuSyncobj: stops listening and deletes the waits without calling them. *)
(* Events that are still armed reach nobody.                               *)
DestroySyncobj ==
  /\ alive
  /\ mode = "loop"
  /\ alive' = FALSE
  /\ list' = <<>>
  /\ armed' = {}
  /\ eventfd' = 0
  /\ skips' = skips + Len(list)
  /\ UNCHANGED <<value, point, mode, arg, handled>>

Next ==
  \/ gpu_syncobj_signal_value
  \/ \E w \in Wait : SignalEvent(w)
  \/ \E w \in Wait, p \in 1 .. MaxPoint : gpu_syncobj_wait(w, p)
  \/ handle_waits
  \/ handle_waits_next
  \/ \E p \in 1 .. MaxPoint : gpu_wait(p)
  \/ gpu_wait_step
  \/ DestroySyncobj

SafeSpec == Init /\ [][Next]_vars

(* Devices finish what they were given, the kernel delivers the events of  *)
(* reached points, and the loop keeps polling and runs its handlers to     *)
(* completion.  Strong fairness of handle_waits: one round of exec_run     *)
(* calls the listener of every readable fd, so other listeners cannot keep *)
(* it out by calling gpu_wait over and over.  Nothing makes anybody        *)
(* register, block or destroy.                                             *)
Fairness ==
  /\ WF_vars(gpu_syncobj_signal_value)
  /\ \A w \in Wait : WF_vars(SignalEvent(w))
  /\ SF_vars(handle_waits)
  /\ WF_vars(handle_waits_next)
  /\ WF_vars(gpu_wait_step)

Spec == SafeSpec /\ Fairness

-------------------------------------------------------------------------------
(* Properties.                                                             *)

(* Every variable stays in its domain; the unsigned counters of the code   *)
(* never wrap below zero.                                                  *)
TypeOK ==
  /\ value \in Nat
  /\ point \in [Wait -> Nat]
  /\ list \in Seq(Wait)
  /\ armed \subseteq Wait
  /\ eventfd \in Nat
  /\ skips \in Nat
  /\ mode \in {"loop", "drain", "block", "flush"}
  /\ arg \in Nat
  /\ handled \subseteq Wait
  /\ alive \in BOOLEAN

(* The claim of the comment in handle_waits: popping the first N waits is  *)
(* right whatever the order of the events, so a callback only ever runs    *)
(* when the timeline has reached its point.                                *)
HandledReached == \A w \in handled : point[w] <= value

(* The debug_assert in handle_waits: the list holds at least as many waits *)
(* as there are pops to do, in the running loop and in the next one.       *)
PopsCovered ==
  /\ mode = "drain" => arg <= Len(list)
  /\ alive /\ mode = "loop" => eventfd <= skips + Len(list)

(* A registered wait whose point is reached is eventually called, or its   *)
(* syncobj destroyed: owed events never swallow the event of another wait. *)
ReachedIsHandled ==
  \A w \in Wait : (w \in Pending /\ point[w] <= value) ~> w \notin Pending

-------------------------------------------------------------------------------
(* The inductive invariant behind the properties above.                    *)

(* The pops left in the loop of handle_waits that is running.              *)
Remaining == IF mode = "drain" THEN arg ELSE 0

(* wait.list is sorted and holds each registered, unhandled wait once.     *)
ListSorted ==
  \A i, j \in DOMAIN list : i < j => point[list[i]] <= point[list[j]]

ListDistinct ==
  /\ \A i, j \in DOMAIN list : list[i] = list[j] => i = j
  /\ \A i \in DOMAIN list : list[i] \in Registered \ handled

(* The events still to be seen, fired or not, are exactly those of the     *)
(* listed waits and those that are owed.                                   *)
EventsBalance ==
  /\ IsFiniteSet(armed)
  /\ armed \subseteq Registered
  /\ alive => Len(list) + skips = Cardinality(armed) + eventfd + Remaining

(* The event of an unreached wait cannot have fired.                       *)
UnreachedArmed ==
  \A i \in DOMAIN list : point[list[i]] > value => list[i] \in armed

ModeOK ==
  /\ mode = "drain" => skips = 0 /\ arg > 0
  /\ mode = "flush" => arg <= value
  /\ ~alive => mode = "loop" /\ list = <<>>

(* Why popping the first N is right: were the n-th popped wait unreached,  *)
(* so would be all after it, and their events alone would be too many.     *)
IInv ==
  /\ TypeOK
  /\ ListSorted
  /\ ListDistinct
  /\ EventsBalance
  /\ UnreachedArmed
  /\ ModeOK
  /\ handled \subseteq Registered
  /\ HandledReached

-------------------------------------------------------------------------------
(* The refinement mapping to SyncobjAbs.                                   *)
phase ==
  [w \in Wait |-> IF point[w] = 0 THEN "new"
                  ELSE IF w \in handled THEN "handled"
                  ELSE IF w \in Pending THEN "pending" ELSE "dropped"]

Abs == INSTANCE SyncobjAbs WITH Wait <- Wait, value <- value, point <- point, phase <- phase

(* The eventfd protocol implements "handled once, when reached, in order". *)
AbsSpec == Abs!Init /\ [][Abs!Next]_Abs!vars
================================================================================
