------------------------------- MODULE EventLoop -------------------------------
(***************************************************************************)
(* The event loop, its signals and the memory of their listeners           *)
(* (src/core/exec.cpp, signal.hpp, object.hpp, object.cpp).                *)
(*                                                                         *)
(* Everything in the compositor runs as a callback of this loop: either    *)
(* the handler of a file descriptor or a listener of a signal.  Callbacks  *)
(* may link and unlink any listener (their own included), watch and forget *)
(* any descriptor, and emit signals, whose listeners do the same in turn.  *)
(* Listeners are reference counted objects whose memory is recycled at     *)
(* once; a dispatch holds them only by version checked weak references.    *)
(*                                                                         *)
(* The frame of main(), which sets the program up before it calls          *)
(* exec_run, is a callback like any other.  The operations callbacks take  *)
(* within one iteration of the loop are bounded by MaxOps.                 *)
(***************************************************************************)
EXTENDS Integers, FiniteSets, Sequences, Lists

CONSTANTS
  Slot,         \* Blocks of memory of the listeners' size; bounds the heap.
  Fd,           \* Numbers of file descriptors.
  Null,         \* The null pointer.
  VersionCount, \* 2^32 in the code: versions count modulo this.
  MaxEvents,    \* max_epoll_events
  MaxOps        \* Bound: operations of callbacks per iteration of the loop.

ASSUME NullAssumption == Null \notin Slot
ASSUME MaxEventsAssumption == MaxEvents \in Nat \ {0}
\* A block is not freed 2^32 times in the course of one dispatch.
ASSUME VersionAssumption == MaxOps \in Nat /\ VersionCount \in Nat /\ VersionCount > MaxOps

Signal == {"idle", "event"}

VARIABLES
  heap,      \* version and ref_count of each block; bin holds the free ones.
  listeners, \* ExecContext::listeners: FdListener of each descriptor.
  links,     \* The list Signal::listeners of each signal, in order.
  stack,     \* The callbacks and dispatches that are running, innermost last.
  stage,     \* Where exec_run is: "poll", "batch", "idle", "done".
  batch,     \* The epoll_events that are still to be handled.
  stopped,   \* ExecContext::stopped
  epoll,     \* The kernel: readable descriptors and the order of reporting.
  ops        \* Operations in this iteration of the loop.

vars == <<heap, listeners, links, stack, stage, batch, stopped, epoll, ops>>

-------------------------------------------------------------------------------
(* Reference counted memory.                                               *)

NoHeap ==
  [version |-> [s \in Slot |-> 0], ref_count |-> [s \in Slot |-> 0], bin |-> <<>>]

(* Blocks an allocation may return: the one freed last, else a new one.    *)
Allocatable(h) ==
  IF h.bin # <<>> THEN {Last(h.bin)} ELSE {s \in Slot : h.version[s] = 0}

registry_allocate(h, s) ==
  [version |-> IF h.bin # <<>> THEN h.version ELSE [h.version EXCEPT ![s] = 1],
   ref_count |-> [h.ref_count EXCEPT ![s] = 1],
   bin |-> IF h.bin # <<>> THEN Front(h.bin) ELSE h.bin]

(* Mutant: the version is left alone.                                      *)
FreeKeepsVersion(h, s) == [h EXCEPT !.bin = Append(@, s)]

(* Version 0 is skipped here only: it marks memory that was never there.   *)
registry_free(h, s) ==
  [h EXCEPT !.version[s] = (@ % VersionCount) + 1, !.bin = Append(@, s)]

object_add_ref(h, s) == [h EXCEPT !.ref_count[s] = @ + 1]

object_remove_ref(h, s) ==
  LET less == [h EXCEPT !.ref_count[s] = @ - 1]
  IN  IF less.ref_count[s] = 0 THEN registry_free(less, s) ELSE less

(* Weak<T>::get.                                                           *)
Get(h, weak) == IF h.version[weak.slot] = weak.version THEN weak.slot ELSE Null

-------------------------------------------------------------------------------
(* Frames of the call stack.                                               *)

Main == [kind |-> "main", fd |-> Null, stored |-> <<>>, cur |-> Null]

HandlerFrame(fd, l) == [kind |-> "fd", fd |-> fd, stored |-> <<>>, cur |-> l]

(* Signal::operator(): stored holds the weak references not looked at yet, *)
(* alive (history) whether what each of them was taken of still exists.    *)
DispatchFrame(sig) ==
  [kind |-> sig, fd |-> Null, cur |-> Null,
   stored |-> [k \in DOMAIN links[sig] |->
                 [slot |-> links[sig][k], version |-> heap.version[links[sig][k]],
                  alive |-> TRUE]]]

Top == Last(stack)

(* Whether a callback has control.                                         *)
InCallback == stack # <<>> /\ (Top.kind = "main" \/ Top.cur # Null)

(* The stack after the heap became h.                                      *)
Marked(frames, h) ==
  LET Mark(weak) == [weak EXCEPT !.alive = weak.alive /\ h.ref_count[weak.slot] > 0]
  IN  [f \in DOMAIN frames |->
         [frames[f] EXCEPT !.stored = [k \in DOMAIN @ |-> Mark(frames[f].stored[k])]]]

Linked == ToSet(links["idle"]) \cup ToSet(links["event"])

-------------------------------------------------------------------------------
Init ==
  /\ heap = NoHeap
  /\ listeners = [fd \in Fd |-> Null]
  /\ links = [sig \in Signal |-> <<>>]
  /\ stack = <<Main>>
  /\ stage = "poll"
  /\ batch = <<>>
  /\ stopped = FALSE
  /\ epoll = [readable |-> {}, ready |-> <<>>, oneshot |-> {}]
  /\ ops = 0

(* What a callback does.                                                   *)

Op == InCallback /\ ~stopped /\ ops < MaxOps /\ ops' = ops + 1

(* Signal::listen: at the end of the list.                                 *)
listen(sig) ==
  /\ Op
  /\ \E s \in Allocatable(heap) :
       /\ heap' = registry_allocate(heap, s)
       /\ links' = [links EXCEPT ![sig] = Append(@, s)]
  /\ UNCHANGED <<listeners, stack, stage, batch, stopped, epoll>>

(* Mutant: the Listener keeps its reference.                               *)
UnlinkKeepsState(s) ==
  /\ Op
  /\ s \in Linked
  /\ links' = [sig \in Signal |-> Without(links[sig], s)]
  /\ UNCHANGED <<heap, listeners, stack, stage, batch, stopped, epoll>>

(* Listener::unlink, also by its destructor.                               *)
unlink(s) ==
  /\ Op
  /\ s \in Linked
  /\ links' = [sig \in Signal |-> Without(links[sig], s)]
  /\ heap' = object_remove_ref(heap, s)
  /\ stack' = Marked(stack, heap')
  /\ UNCHANGED <<listeners, stage, batch, stopped, epoll>>

(* A callback emits a signal; only the loop emits idle.                    *)
Emit ==
  /\ Op
  /\ stack' = Append(stack, DispatchFrame("event"))
  /\ UNCHANGED <<heap, listeners, links, stage, batch, stopped, epoll>>

(* The number of a descriptor that was closed in this batch and is still   *)
(* reported in it is taken not to be used again within the batch.          *)
fd_listen(fd, oneshot) ==
  /\ Op
  /\ listeners[fd] = Null
  /\ \A k \in DOMAIN batch : batch[k].fd # fd
  /\ \E s \in Allocatable(heap) :
       /\ heap' = registry_allocate(heap, s)
       /\ listeners' = [listeners EXCEPT ![fd] = s]
  /\ epoll' = [readable |-> epoll.readable,
               ready |-> IF fd \in epoll.readable THEN Append(epoll.ready, fd) ELSE epoll.ready,
               oneshot |-> IF oneshot THEN epoll.oneshot \cup {fd} ELSE epoll.oneshot \ {fd}]
  /\ UNCHANGED <<links, stack, stage, batch, stopped>>

(* The reports of fd that are in the batch already stay there (fresh is    *)
(* history: whether epoll reported what is registered now).                *)
Unreported(reports, fd) ==
  [k \in DOMAIN reports |-> [reports[k] EXCEPT !.fresh = @ /\ reports[k].fd # fd]]

fd_unlisten(fd) ==
  /\ Op
  /\ listeners[fd] # Null
  /\ listeners' = [listeners EXCEPT ![fd] = Null]
  /\ heap' = object_remove_ref(heap, listeners[fd])
  /\ stack' = Marked(stack, heap')
  /\ epoll' = [epoll EXCEPT !.ready = Without(@, fd)]
  /\ batch' = Unreported(batch, fd)
  /\ UNCHANGED <<links, stage, stopped>>

(* exec_stop asserts check_all_stopped.                                    *)
exec_stop ==
  /\ Op
  /\ links["idle"] = <<>>
  /\ \A fd \in Fd : listeners[fd] = Null
  /\ stopped' = TRUE
  /\ UNCHANGED <<heap, listeners, links, stack, stage, batch, epoll>>

(* A callback returns: the reference that its caller held is dropped.      *)
Return ==
  /\ InCallback
  /\ heap' = IF Top.cur = Null THEN heap ELSE object_remove_ref(heap, Top.cur)
  /\ stack' = Marked(IF Top.kind \in Signal THEN [stack EXCEPT ![Len(stack)].cur = Null]
                     ELSE Front(stack), heap')
  /\ UNCHANGED <<listeners, links, stage, batch, stopped, epoll, ops>>

-------------------------------------------------------------------------------
(* Mutant: the idle signal is emitted until nobody listens any more.       *)
DrainsIdle ==
  /\ stack # <<>> /\ Top.kind \in Signal /\ Top.cur = Null /\ Top.stored = <<>>
  /\ stack' = Front(stack)
  /\ IF stage = "idle" /\ Len(stack) = 1
     THEN stage' = (IF links["idle"] = <<>> THEN "poll" ELSE "batch") /\ ops' = 0
     ELSE UNCHANGED <<stage, ops>>
  /\ UNCHANGED <<heap, listeners, links, batch, stopped, epoll>>

(* Signal::operator() goes on to its next listener, or is done.            *)
Notify ==
  /\ stack # <<>> /\ Top.kind \in Signal /\ Top.cur = Null /\ Top.stored # <<>>
  /\ LET listener == Get(heap, Head(Top.stored))
     IN  /\ heap' = IF listener = Null THEN heap ELSE object_add_ref(heap, listener)
         /\ stack' = [stack EXCEPT ![Len(stack)].stored = Tail(@),
                                   ![Len(stack)].cur = listener]
  /\ UNCHANGED <<listeners, links, stage, batch, stopped, epoll, ops>>

Dispatched ==
  /\ stack # <<>> /\ Top.kind \in Signal /\ Top.cur = Null /\ Top.stored = <<>>
  /\ stack' = Front(stack)
  /\ IF stage = "idle" /\ Len(stack) = 1
     THEN stage' = "poll" /\ ops' = 0
     ELSE UNCHANGED <<stage, ops>>
  /\ UNCHANGED <<heap, listeners, links, batch, stopped, epoll>>

(* The kernel reports, in turn, what is readable still, n at most.         *)
Reports(n) ==
  LET readable == Keep(epoll.ready, epoll.readable)
  IN  SubSeq(readable, 1, IF Len(readable) < n THEN Len(readable) ELSE n)

(* Mutant: always waits for events.                                        *)
WaitsOnlyForEvents(reports) == reports # <<>>

(* epoll_wait: does not wait when an idle listener does.  An interrupted   *)
(* wait is taken up again.  With more readable descriptors than it has     *)
(* room for, a wait is cut short; here by any number, for few descriptors. *)
CanWait(reports) == links["idle"] # <<>> \/ reports # <<>>

Wait ==
  /\ stage = "poll" /\ stack = <<>> /\ ~stopped
  /\ \E n \in 1..MaxEvents :
       LET reports == Reports(n)
       IN  /\ CanWait(reports)
           /\ batch' = [k \in DOMAIN reports |-> [fd |-> reports[k], fresh |-> TRUE]]
           /\ epoll' = [epoll EXCEPT !.ready =
                          Keep(@, epoll.readable \ ToSet(reports)) \o reports]
  /\ stage' = "batch"
  /\ UNCHANGED <<heap, listeners, links, stack, stopped, ops>>

(* The handler of the next report runs, if there is one still; a oneshot   *)
(* one is forgotten before.  Handlers read all there is.                   *)
Handle ==
  /\ stage = "batch" /\ stack = <<>> /\ batch # <<>>
  /\ LET fd == Head(batch).fd
         l == listeners[fd]
         oneshot == fd \in epoll.oneshot
     IN  IF l = Null
         THEN batch' = Tail(batch) /\ UNCHANGED <<heap, listeners, stack, epoll>>
         ELSE /\ stack' = <<HandlerFrame(fd, l)>>
              /\ listeners' = IF oneshot THEN [listeners EXCEPT ![fd] = Null] ELSE listeners
              /\ heap' = IF oneshot THEN object_remove_ref(object_add_ref(heap, l), l)
                         ELSE object_add_ref(heap, l)
              /\ batch' = IF oneshot THEN Unreported(Tail(batch), fd) ELSE Tail(batch)
              /\ epoll' = [epoll EXCEPT !.readable = @ \ {fd},
                             !.ready = IF oneshot THEN Without(@, fd) ELSE @]
  /\ UNCHANGED <<links, stage, stopped, ops>>

Idle ==
  /\ stage = "batch" /\ stack = <<>> /\ batch = <<>>
  /\ stage' = "idle"
  /\ stack' = <<DispatchFrame("idle")>>
  /\ UNCHANGED <<heap, listeners, links, batch, stopped, epoll, ops>>

exec_run_returns ==
  /\ stage = "poll" /\ stack = <<>> /\ stopped
  /\ stage' = "done"
  /\ UNCHANGED <<heap, listeners, links, stack, batch, stopped, epoll, ops>>

(* Data arrives; the kernel adds what is watched to its list.              *)
Arrive(fd) ==
  /\ listeners[fd] # Null
  /\ fd \notin epoll.readable
  /\ epoll' = [epoll EXCEPT !.readable = @ \cup {fd},
                 !.ready = IF fd \in ToSet(@) THEN @ ELSE Append(@, fd)]
  /\ UNCHANGED <<heap, listeners, links, stack, stage, batch, stopped, ops>>

Loop == Return \/ Notify \/ Dispatched \/ Wait \/ Handle \/ Idle \/ exec_run_returns

Next ==
  \/ Loop
  \/ \E sig \in Signal : listen(sig)
  \/ \E s \in Slot : unlink(s)
  \/ Emit
  \/ \E fd \in Fd, oneshot \in BOOLEAN : fd_listen(fd, oneshot)
  \/ \E fd \in Fd : fd_unlisten(fd) \/ Arrive(fd)
  \/ exec_stop

(* Callbacks return, and the thread that runs the loop keeps running.      *)
Spec == Init /\ [][Next]_vars /\ WF_vars(Loop)

-------------------------------------------------------------------------------
Frame ==
  [kind : Signal \cup {"main", "fd"}, fd : Fd \cup {Null}, cur : Slot \cup {Null},
   stored : Seq([slot : Slot, version : 0 .. VersionCount, alive : BOOLEAN])]

(* Types; every stage the loop can be in.                                  *)
TypeOK ==
  /\ heap \in [version : [Slot -> 0 .. VersionCount], ref_count : [Slot -> Nat],
               bin : Seq(Slot)]
  /\ listeners \in [Fd -> Slot \cup {Null}]
  /\ links \in [Signal -> Seq(Slot)]
  /\ stack \in Seq(Frame)
  /\ stage \in {"poll", "batch", "idle", "done"}
  /\ batch \in Seq([fd : Fd, fresh : BOOLEAN])
  /\ stopped \in BOOLEAN
  /\ epoll \in [readable : SUBSET Fd, ready : Seq(Fd), oneshot : SUBSET Fd]
  /\ ops \in 0 .. MaxOps

(* The owners of a block: the Listener that keeps it linked, the table of  *)
(* descriptors, and the frames that run it.                                *)
Owners(s) ==
  {<<"link", sig>> : sig \in {x \in Signal : s \in ToSet(links[x])}}
    \cup {<<"fd", fd>> : fd \in {x \in Fd : listeners[x] = s}}
    \cup {<<"frame", k>> : k \in {x \in DOMAIN stack : stack[x].cur = s}}

(* Reference counts are exact, through every order in which listeners are  *)
(* linked, unlinked and run: no block is freed while someone uses it, none *)
(* is freed twice, and none that nobody uses is kept.                      *)
RefsCounted ==
  /\ \A s \in Slot : heap.ref_count[s] = Cardinality(Owners(s))
  /\ \A s \in Slot : s \in ToSet(heap.bin) <=> heap.version[s] # 0 /\ Owners(s) = {}
  /\ IsInjective(heap.bin)

(* A weak reference never finds memory that was freed since it was taken,  *)
(* even when the block is in use again for another listener.               *)
WeakIsSafe ==
  \A f \in DOMAIN stack : \A k \in DOMAIN stack[f].stored :
    LET weak == stack[f].stored[k]
    IN  Get(heap, weak) # Null <=> weak.alive

(* Memory is safe and none leaks, whatever callbacks do to the listeners   *)
(* of the dispatches they run in.                                          *)
MemorySafe == TypeOK /\ RefsCounted /\ WeakIsSafe

(* A dispatch under way no longer calls a listener that was unlinked,      *)
(* unless that listener is itself still running in an outer dispatch.      *)
NotifiedIsLinked ==
  Notify => \A s \in Slot :
    Last(stack').cur = s =>
      \/ s \in ToSet(links[Top.kind])
      \/ \E f \in DOMAIN stack : f < Len(stack) /\ stack[f].cur = s

(* A handler runs only for the registration that epoll saw ready, whatever *)
(* the handlers before it in the batch unregistered and registered.        *)
HandledIsFresh == Handle /\ stack' # stack => Head(batch).fresh

(* After exec_stop no handler and no listener of idle is called.           *)
StoppedIsQuiet ==
  stopped => \A f \in DOMAIN stack' :
    stack'[f].kind \in {"fd", "idle"} /\ stack'[f].cur # Null =>
      f \in DOMAIN stack /\ stack[f].cur = stack'[f].cur

(* Unregistering a callback is enough for it not to be called any more.    *)
CalledIsRegistered == [][NotifiedIsLinked /\ HandledIsFresh /\ StoppedIsQuiet]_vars

(* Data on a watched descriptor is handled although a wait may report only *)
(* one of the descriptors, and idle listeners may keep the loop busy.      *)
ReadyHandled ==
  \A fd \in Fd : (fd \in epoll.readable /\ listeners[fd] # Null)
                   ~> (fd \notin epoll.readable \/ listeners[fd] = Null)

(* A listener of the idle signal is called (or unlinked) even when nothing *)
(* happens on any descriptor.                                              *)
IdleListenersRun ==
  \A s \in Slot : s \in ToSet(links["idle"])
                    ~> (s \notin ToSet(links["idle"])
                          \/ \E f \in DOMAIN stack : stack[f].kind = "idle" /\ stack[f].cur = s)
================================================================================
