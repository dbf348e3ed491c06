----------------------------- MODULE KernelDevice -----------------------------
(***************************************************************************)
(* blk/kernel_device.cc, aio.cc and io_context.cc: asynchronous I/O on one *)
(* device.  Client threads, each with an IOContext of its own, queue I/Os, *)
(* submit them to the kernel, wait for them and flush the device; the      *)
(* device's completion thread reaps what the kernel finished.              *)
(*                                                                         *)
(* An I/O is a pair <<context, number>>.  Offsets, buffers and alignment   *)
(* are data: a call is_valid_io rejects has no effect.  A read differs     *)
(* from a write only in what it copies, so every I/O is taken as a write.  *)
(***************************************************************************)
EXTENDS Integers, FiniteSets, FiniteSetsExt

CONSTANTS
  Ctx,              (* IOContext objects, each used by one client thread      *)
  CallbackCtx,      (* those with priv set, on a device with an aio_callback  *)
  Depth,            (* max_iodepth: I/Os the kernel holds                     *)
  MaxReap,          (* kMaxReap: completions taken at a time                  *)
  Attempts,         (* EAGAIN retries of one submit_batch                     *)
  MaxAio,           (* bound on the I/Os                                      *)
  MaxErrors         (* bound on the I/Os that fail or are short, the io_submit *)
                    (* calls that fail for good and the fdatasync that fail   *)

ASSUME KernelDeviceAssumption ==
  /\ CallbackCtx \subseteq Ctx
  /\ {Depth, MaxReap} \subseteq Nat \ {0}
  /\ {Attempts, MaxAio, MaxErrors} \subseteq Nat

VARIABLES
  pc,           (* where each client thread is                              *)
  ioc,          (* the IOContexts                                           *)
  sub,          (* the locals of each client's submit_batch                 *)
  kernel,       (* I/Os the kernel has accepted and not finished            *)
  events,       (* completions waiting in the kernel's ring                 *)
  tpc,          (* where the completion thread is                           *)
  batch,        (* completions it has reaped and not yet looked at          *)
  hand,         (* the I/O it is accounting for                             *)
  zero,         (* its fetch_sub took num_running to zero                   *)
  stop,         (* stop_                                                    *)
  since,        (* io_since_flush_                                          *)
  volatile,     (* writes the device has done and no fdatasync has covered  *)
  seen,         (* history: those of them some client knows to be done      *)
  owed,         (* history: those seen when a client called flush           *)
  failed,       (* history: contexts with a failed I/O or submission        *)
  syncFailed,   (* history: an fdatasync has failed                         *)
  next,         (* the number of the next I/O                               *)
  errors

clientVars == <<pc, ioc, sub>>
queueVars == <<kernel, events>>
threadVars == <<tpc, batch, hand, zero, stop>>
diskVars == <<since, volatile>>
histVars == <<seen, owed, failed, syncFailed>>
boundVars == <<next, errors>>
vars == <<clientVars, queueVars, threadVars, diskVars, histVars, boundVars>>

Aio == Ctx \X (1..MaxAio)
Of(c, S) == {a \in S : a[1] = c}
NoAio == <<>>
FreshContext == [pending |-> {}, num_running |-> 0, r |-> 0, called |-> FALSE]
NoBatch == [left |-> {}, attempts |-> 0, r |-> 0]

(* try_aio_wake holds the context's lock from its fetch_sub to its return.  *)
(* Mutant: it decrements without the lock.                                  *)
LockedNever(c) == FALSE

Locked(c) == tpc = "notify" /\ hand[1] = c

(* flush_mutex_ is held from the exchange of the flag to the return.        *)
FlushLocked == \E c \in Ctx : pc[c] \in {"fdatasync", "flushed"}

InUse == tpc # "closed" /\ ~stop

-----------------------------------------------------------------------------
(* Queueing.                                                                *)

aio_write(c) ==
  /\ pc[c] = "ready" /\ InUse /\ next <= MaxAio
  /\ next' = next + 1
  /\ ioc' = [ioc EXCEPT ![c].pending = @ \cup {<<c, next>>}]
  /\ UNCHANGED <<pc, sub, queueVars, threadVars, diskVars, histVars, errors>>

(* Mutant: num_running is stored, not added to.                             *)
aio_submit_store(c) ==
  /\ pc[c] = "ready" /\ InUse /\ ioc[c].pending # {}
  /\ ioc' = [ioc EXCEPT ![c].pending = {}, ![c].num_running = Cardinality(ioc[c].pending)]
  /\ sub' = [sub EXCEPT ![c] = [left |-> ioc[c].pending, attempts |-> Attempts, r |-> 0]]
  /\ pc' = [pc EXCEPT ![c] = "submit"]
  /\ UNCHANGED <<queueVars, threadVars, diskVars, histVars, boundVars>>

aio_submit(c) ==
  /\ pc[c] = "ready" /\ InUse /\ ioc[c].pending # {}
  /\ ioc' = [ioc EXCEPT ![c].pending = {}, ![c].num_running = @ + Cardinality(ioc[c].pending)]
  /\ sub' = [sub EXCEPT ![c] = [left |-> ioc[c].pending, attempts |-> Attempts, r |-> 0]]
  /\ pc' = [pc EXCEPT ![c] = "submit"]
  /\ UNCHANGED <<queueVars, threadVars, diskVars, histVars, boundVars>>

-----------------------------------------------------------------------------
(* submit_batch: one io_submit at a time.  The kernel may accept any part   *)
(* of what it is given; taking one I/O at a time covers every split.        *)

KernelFull == Cardinality(kernel \cup {e.aio : e \in events}) >= Depth

(* A client with a callback has nothing to do until it is called.           *)
SubmitReturns(c) ==
  /\ pc' = [pc EXCEPT ![c] = IF c \in CallbackCtx THEN "await" ELSE "ready"]
  /\ sub' = [sub EXCEPT ![c] = NoBatch]

io_submit(c) ==
  /\ pc[c] = "submit" /\ ~KernelFull
  /\ \E a \in sub[c].left :
       /\ \A b \in sub[c].left : a[2] <= b[2]
       /\ kernel' = kernel \cup {a}
       /\ sub' = [sub EXCEPT ![c].left = @ \ {a}, ![c].r = @ + 1]
  /\ UNCHANGED <<pc, ioc, events, threadVars, diskVars, histVars, boundVars>>

io_submit_eagain(c) ==
  /\ pc[c] = "submit" /\ sub[c].left # {} /\ KernelFull /\ sub[c].attempts > 0
  /\ sub' = [sub EXCEPT ![c].attempts = @ - 1]
  /\ UNCHANGED <<pc, ioc, queueVars, threadVars, diskVars, histVars, boundVars>>

(* The loop is left on any other error, or when the retries are used up.    *)
(* The error reaches the context only when nothing was submitted, and the   *)
(* I/Os that were not stay in num_running.                                  *)
io_submit_error(c) ==
  /\ pc[c] = "submit" /\ sub[c].left # {}
  /\ errors < MaxErrors
  /\ ~KernelFull \/ sub[c].attempts = 0
  /\ errors' = errors + 1
  /\ ioc' = [ioc EXCEPT ![c].r = IF sub[c].r = 0 THEN -1 ELSE @]
  /\ failed' = failed \cup {c}
  /\ SubmitReturns(c)
  /\ UNCHANGED <<queueVars, threadVars, diskVars, seen, owed, syncFailed, next>>

submit_batch_return(c) ==
  /\ pc[c] = "submit" /\ sub[c].left = {}
  /\ SubmitReturns(c)
  /\ UNCHANGED <<ioc, queueVars, threadVars, diskVars, histVars, boundVars>>

-----------------------------------------------------------------------------
(* The kernel finishes I/Os in any order.                                   *)

Complete(a) ==
  /\ a \in kernel
  /\ kernel' = kernel \ {a}
  /\ volatile' = volatile \cup {a}
  /\ events' = events \cup {[aio |-> a, ok |-> TRUE]}
  /\ UNCHANGED <<clientVars, threadVars, since, histVars, boundVars>>

(* A negative result, or a short transfer.                                  *)
Fail(a) ==
  /\ a \in kernel /\ errors < MaxErrors
  /\ errors' = errors + 1
  /\ kernel' = kernel \ {a}
  /\ events' = events \cup {[aio |-> a, ok |-> FALSE]}
  /\ failed' = failed \cup {a[1]}
  /\ UNCHANGED <<clientVars, threadVars, diskVars, seen, owed, syncFailed, next>>

-----------------------------------------------------------------------------
(* _aio_thread.                                                             *)

get_next_completed ==
  /\ tpc = "poll" /\ ~stop /\ events # {}
  /\ \E S \in SUBSET events :
       /\ Cardinality(S) = Min({Cardinality(events), MaxReap})
       /\ batch' = S
       /\ events' = events \ S
  /\ tpc' = "next"
  /\ UNCHANGED <<clientVars, kernel, hand, zero, stop, diskVars, histVars, boundVars>>

(* Mutant: the write is accounted for before the flag says there was one.   *)
TakeCompletionUnmarked(e) ==
  /\ tpc = "next" /\ e \in batch
  /\ batch' = batch \ {e}
  /\ UNCHANGED since
  /\ IF e.ok
       THEN /\ hand' = e.aio
            /\ tpc' = "dec"
            /\ UNCHANGED ioc
       ELSE /\ ioc' = [ioc EXCEPT ![e.aio[1]].r = -1]
            /\ UNCHANGED <<hand, tpc>>
  /\ UNCHANGED <<pc, sub, queueVars, zero, stop, volatile, histVars, boundVars>>

(* A failed or short I/O is recorded in the context, and the loop goes on   *)
(* to the next one: num_running keeps counting it.                          *)
TakeCompletion(e) ==
  /\ tpc = "next" /\ e \in batch
  /\ batch' = batch \ {e}
  /\ since' = TRUE
  /\ IF e.ok
       THEN /\ hand' = e.aio
            /\ tpc' = "dec"
            /\ UNCHANGED ioc
       ELSE /\ ioc' = [ioc EXCEPT ![e.aio[1]].r = -1]
            /\ UNCHANGED <<hand, tpc>>
  /\ UNCHANGED <<pc, sub, queueVars, zero, stop, volatile, histVars, boundVars>>

BatchDone ==
  /\ tpc = "next" /\ batch = {}
  /\ tpc' = "poll"
  /\ UNCHANGED <<clientVars, queueVars, batch, hand, zero, stop, diskVars, histVars, boundVars>>

FetchSub(c) ==
  /\ ioc' = [ioc EXCEPT ![c].num_running = @ - 1]
  /\ zero' = (ioc[c].num_running = 1)

(* Wait mode: try_aio_wake, up to the notification under its lock.          *)
try_aio_wake ==
  /\ tpc = "dec" /\ hand[1] \notin CallbackCtx
  /\ FetchSub(hand[1])
  /\ tpc' = "notify"
  /\ UNCHANGED <<pc, sub, queueVars, batch, hand, stop, diskVars, histVars, boundVars>>

(* Mutant: only a waiter that is not yet asleep is told.                    *)
NotifyNobody(c) == pc

NotifyAll(c) == [pc EXCEPT ![c] = IF zero /\ @ = "blocked" THEN "wait" ELSE @]

notify_all ==
  /\ tpc = "notify"
  /\ pc' = NotifyAll(hand[1])
  /\ tpc' = "next" /\ hand' = NoAio /\ zero' = FALSE
  /\ UNCHANGED <<ioc, sub, queueVars, batch, stop, diskVars, histVars, boundVars>>

(* Callback mode: the decrement, and the call that the last one makes.      *)
callback_dec ==
  /\ tpc = "dec" /\ hand[1] \in CallbackCtx
  /\ FetchSub(hand[1])
  /\ tpc' = "callback"
  /\ UNCHANGED <<pc, sub, queueVars, batch, hand, stop, diskVars, histVars, boundVars>>

(* The callback tells the client that its batch is done.                    *)
aio_callback ==
  /\ tpc = "callback"
  /\ ioc' = [ioc EXCEPT ![hand[1]].called = @ \/ zero]
  /\ tpc' = "next" /\ hand' = NoAio /\ zero' = FALSE
  /\ UNCHANGED <<pc, sub, queueVars, batch, stop, diskVars, histVars, boundVars>>

Called(c) ==
  /\ pc[c] = "await" /\ ioc[c].called
  /\ ioc' = [ioc EXCEPT ![c].called = FALSE]
  /\ pc' = [pc EXCEPT ![c] = "waited"]
  /\ seen' = seen \cup Of(c, volatile)
  /\ UNCHANGED <<sub, queueVars, threadVars, diskVars, owed, failed, syncFailed, boundVars>>

-----------------------------------------------------------------------------
(* aio_wait.  The lock is taken, the count read, and either the call        *)
(* returns or cond.wait releases the lock and sleeps, in one step.          *)

aio_wait_call(c) ==
  /\ pc[c] = "ready" /\ InUse /\ c \notin CallbackCtx
  /\ pc' = [pc EXCEPT ![c] = "wait"]
  /\ UNCHANGED <<ioc, sub, queueVars, threadVars, diskVars, histVars, boundVars>>

aio_wait_test(c) ==
  /\ pc[c] = "wait" /\ ~Locked(c)
  /\ IF ioc[c].num_running > 0
       THEN /\ pc' = [pc EXCEPT ![c] = "blocked"]
            /\ UNCHANGED seen
       ELSE /\ pc' = [pc EXCEPT ![c] = "waited"]
            /\ seen' = seen \cup Of(c, volatile)
  /\ UNCHANGED <<ioc, sub, queueVars, threadVars, diskVars, owed, failed, syncFailed, boundVars>>

(* cond.wait may return for no reason.                                      *)
SpuriousWakeup(c) ==
  /\ pc[c] = "blocked"
  /\ pc' = [pc EXCEPT ![c] = "wait"]
  /\ UNCHANGED <<ioc, sub, queueVars, threadVars, diskVars, histVars, boundVars>>

(* With its I/Os done the client clears running_aios and goes on, or        *)
(* deletes the context with the aio_t's it holds.                           *)
release_running_aios(c) ==
  /\ pc[c] = "waited"
  /\ pc' = [pc EXCEPT ![c] = "ready"]
  /\ UNCHANGED <<ioc, sub, queueVars, threadVars, diskVars, histVars, boundVars>>

DeleteContext(c) ==
  /\ pc[c] = "waited"
  /\ pc' = [pc EXCEPT ![c] = "deleted"]
  /\ UNCHANGED <<ioc, sub, queueVars, threadVars, diskVars, histVars, boundVars>>

-----------------------------------------------------------------------------
(* The synchronous write: pwritev until all is written, then the flag.      *)

pwritev(c) ==
  /\ pc[c] = "ready" /\ InUse /\ next <= MaxAio
  /\ next' = next + 1
  /\ volatile' = volatile \cup {<<c, next>>}
  /\ pc' = [pc EXCEPT ![c] = "written"]
  /\ UNCHANGED <<ioc, sub, queueVars, threadVars, since, histVars, errors>>

(* The flag is set after everything the device has done for c so far.       *)
write_return(c) ==
  /\ pc[c] = "written"
  /\ since' = TRUE
  /\ seen' = seen \cup Of(c, volatile)
  /\ pc' = [pc EXCEPT ![c] = "ready"]
  /\ UNCHANGED <<ioc, sub, queueVars, threadVars, volatile, owed, failed, syncFailed,
                 boundVars>>

-----------------------------------------------------------------------------
(* flush.                                                                   *)

flush_call(c) ==
  /\ pc[c] = "ready" /\ InUse
  /\ pc' = [pc EXCEPT ![c] = "flush"]
  /\ owed' = [owed EXCEPT ![c] = seen]
  /\ UNCHANGED <<ioc, sub, queueVars, threadVars, diskVars, seen, failed, syncFailed, boundVars>>

FlushReturns0(c) ==
  /\ pc' = [pc EXCEPT ![c] = "ready"]
  /\ owed' = [owed EXCEPT ![c] = {}]

(* Mutant: the flag is exchanged outside flush_mutex_.                      *)
flush_skip_unlocked(c) ==
  /\ pc[c] = "flush" /\ ~since
  /\ FlushReturns0(c)
  /\ UNCHANGED <<ioc, sub, queueVars, threadVars, diskVars, seen, failed, syncFailed, boundVars>>

flush_skip(c) ==
  /\ pc[c] = "flush" /\ ~FlushLocked /\ ~since
  /\ FlushReturns0(c)
  /\ UNCHANGED <<ioc, sub, queueVars, threadVars, diskVars, seen, failed, syncFailed, boundVars>>

flush_exchange(c) ==
  /\ pc[c] = "flush" /\ ~FlushLocked /\ since
  /\ since' = FALSE
  /\ pc' = [pc EXCEPT ![c] = "fdatasync"]
  /\ UNCHANGED <<ioc, sub, queueVars, threadVars, volatile, histVars, boundVars>>

fdatasync(c) ==
  /\ pc[c] = "fdatasync"
  /\ volatile' = {} /\ seen' = {} /\ owed' = [d \in Ctx |-> {}]
  /\ pc' = [pc EXCEPT ![c] = "flushed"]
  /\ UNCHANGED <<ioc, sub, queueVars, threadVars, since, failed, syncFailed, boundVars>>

flush_return(c) ==
  /\ pc[c] = "flushed"
  /\ FlushReturns0(c)
  /\ UNCHANGED <<ioc, sub, queueVars, threadVars, diskVars, seen, failed, syncFailed, boundVars>>

(* The flag stays clear after a failed fdatasync.                           *)
fdatasync_fails(c) ==
  /\ pc[c] = "fdatasync" /\ errors < MaxErrors
  /\ errors' = errors + 1
  /\ syncFailed' = TRUE
  /\ owed' = [owed EXCEPT ![c] = {}]
  /\ pc' = [pc EXCEPT ![c] = "ready"]
  /\ UNCHANGED <<ioc, sub, queueVars, threadVars, diskVars, seen, failed, next>>

-----------------------------------------------------------------------------
(* The owner closes the device when no client is in a call or has an I/O    *)
(* queued or in flight, and may open it again.                              *)

Quiet(c) == pc[c] = "deleted" \/ (pc[c] = "ready" /\ ioc[c] = FreshContext)

close_stop ==
  /\ InUse
  /\ \A c \in Ctx : Quiet(c)
  /\ stop' = TRUE
  /\ UNCHANGED <<clientVars, queueVars, tpc, batch, hand, zero, diskVars, histVars, boundVars>>

(* The thread is joined at the top of its loop; io_destroy drops the ring.  *)
close_join ==
  /\ stop /\ tpc = "poll"
  /\ tpc' = "closed"
  /\ kernel' = {} /\ events' = {}
  /\ UNCHANGED <<clientVars, batch, hand, zero, stop, diskVars, histVars, boundVars>>

open ==
  /\ tpc = "closed"
  /\ tpc' = "poll" /\ stop' = FALSE
  /\ UNCHANGED <<clientVars, queueVars, batch, hand, zero, diskVars, histVars, boundVars>>

-----------------------------------------------------------------------------
Init ==
  /\ pc = [c \in Ctx |-> "ready"]
  /\ ioc = [c \in Ctx |-> FreshContext]
  /\ sub = [c \in Ctx |-> NoBatch]
  /\ kernel = {} /\ events = {}
  /\ tpc = "poll" /\ batch = {} /\ hand = NoAio /\ zero = FALSE /\ stop = FALSE
  /\ since = FALSE /\ volatile = {}
  /\ seen = {} /\ owed = [c \in Ctx |-> {}] /\ failed = {} /\ syncFailed = FALSE
  /\ next = 1 /\ errors = 0

Submit(c) == io_submit(c) \/ io_submit_eagain(c) \/ io_submit_error(c) \/ submit_batch_return(c)

Flush(c) ==
  \/ flush_skip(c) \/ flush_exchange(c) \/ fdatasync(c) \/ flush_return(c)
  \/ fdatasync_fails(c)

_aio_thread ==
  \/ get_next_completed \/ BatchDone
  \/ \E e \in batch : TakeCompletion(e)
  \/ try_aio_wake \/ notify_all \/ callback_dec \/ aio_callback

Kernel == \E a \in kernel : Complete(a) \/ Fail(a)

Client(c) ==
  \/ aio_write(c) \/ aio_submit(c) \/ Submit(c)
  \/ aio_wait_call(c) \/ aio_wait_test(c) \/ Called(c) \/ SpuriousWakeup(c)
  \/ release_running_aios(c) \/ DeleteContext(c)
  \/ pwritev(c) \/ write_return(c)
  \/ flush_call(c) \/ Flush(c)

Next ==
  \/ \E c \in Ctx : Client(c)
  \/ Kernel \/ _aio_thread
  \/ close_stop \/ close_join \/ open

(* The kernel finishes what it accepted, the completion thread is never     *)
(* blocked for long, and a client in a call runs on.                        *)
Fairness ==
  /\ WF_vars(Kernel) /\ WF_vars(_aio_thread)
  /\ WF_vars(close_join) /\ WF_vars(open)
  /\ \A c \in Ctx : WF_vars(Submit(c)) /\ WF_vars(aio_wait_test(c)) /\ WF_vars(Called(c))

Spec == Init /\ [][Next]_vars /\ Fairness

-----------------------------------------------------------------------------
(* Every variable holds what its declaration says; in particular            *)
(* num_running of kernel_device.cc never goes below zero.                   *)
KernelDeviceTypeOK ==
  /\ pc \in [Ctx -> {"ready", "submit", "await", "wait", "blocked", "waited", "deleted",
                     "written", "flush", "fdatasync", "flushed"}]
  /\ \A c \in Ctx :
       /\ ioc[c].pending \subseteq Aio
       /\ ioc[c].num_running \in 0..MaxAio /\ ioc[c].r \in {0, -1}
       /\ ioc[c].called \in BOOLEAN
       /\ sub[c].left \subseteq Aio /\ sub[c].attempts \in 0..Attempts
       /\ sub[c].r \in 0..MaxAio /\ owed[c] \subseteq Aio
  /\ kernel \subseteq Aio
  /\ events \cup batch \subseteq [aio : Aio, ok : BOOLEAN]
  /\ tpc \in {"poll", "next", "dec", "notify", "callback", "closed"}
  /\ hand \in Aio \cup {NoAio}
  /\ {zero, stop, since, syncFailed} \subseteq BOOLEAN
  /\ volatile \cup seen \subseteq Aio
  /\ failed \subseteq Ctx
  /\ next \in 1..(MaxAio + 1)
  /\ errors \in 0..MaxErrors

(* The I/Os of c that the kernel or the completion thread still refers to.  *)
Outstanding(c) ==
  {a \in sub[c].left \cup kernel \cup {e.aio : e \in events \cup batch}
          \cup (IF tpc = "dec" THEN {hand} ELSE {}) : a[1] = c}

(* num_running counts every submitted I/O from before the kernel can finish *)
(* it until the completion thread has accounted for it: it is never below   *)
(* what is outstanding, and exactly that while no I/O of the context failed.*)
CountExact ==
  \A c \in Ctx :
    /\ ioc[c].num_running >= Cardinality(Outstanding(c))
    /\ c \notin failed => ioc[c].num_running = Cardinality(Outstanding(c))

(* Once aio_wait has returned, or the callback was made, neither the kernel *)
(* nor the completion thread refers to the context or its aio_t's: they may *)
(* be deleted, as _drain_writer of bluefs.cc does at once.                  *)
NoUseAfterFree ==
  \A c \in Ctx : pc[c] \in {"waited", "deleted"} =>
    /\ Outstanding(c) = {}
    /\ tpc \in {"dec", "notify", "callback"} => hand[1] # c

(* When flush returns 0, every write that any client knew to be done when   *)
(* flush was called has been covered by an fdatasync, whichever thread made *)
(* it, although io_since_flush_ is cleared before the fdatasync and set by  *)
(* other threads.  It holds until an fdatasync fails.                       *)
FlushDurable ==
  [][\A c \in Ctx :
       pc[c] \in {"flush", "flushed"} /\ pc'[c] = "ready" /\ ~syncFailed
         => owed[c] = {}]_vars

Waiting(c) == pc[c] \in {"wait", "blocked", "await"}

(* A client in aio_wait, or waiting for its callback, goes on once its I/Os *)
(* are done, if none of them failed and all were submitted: no wakeup is    *)
(* lost between the test of num_running and the notification.               *)
WaitReturns == \A c \in Ctx : Waiting(c) ~> (~Waiting(c) \/ c \in failed)

(* docs/design/block-device.md: a failed I/O sets the return value and then *)
(* counts as completed, so that aio_wait returns whatever became of it.     *)
WaitReturnsOnError == \A c \in Ctx : Waiting(c) ~> ~Waiting(c)

=============================================================================
