------------------------- MODULE KernelDeviceProofs -------------------------
(***************************************************************************)
(* Proofs about KernelDevice, for any number of contexts, any queue depth, *)
(* any number of I/Os, retries and errors.                                 *)
(***************************************************************************)
EXTENDS KernelDevice, FiniteSetTheorems, TLAPS

-----------------------------------------------------------------------------
(* The inductive invariant, in named parts.                                 *)

Context == [pending : SUBSET Aio, num_running : Nat, r : {0, -1}, called : BOOLEAN]
Submission == [left : SUBSET Aio, attempts : 0..Attempts, r : Nat]
Completion == [aio : Aio, ok : BOOLEAN]

Shape ==
  /\ pc \in [Ctx -> {"ready", "submit", "await", "wait", "blocked", "waited", "deleted",
                     "written", "flush", "fdatasync", "flushed"}]
  /\ ioc \in [Ctx -> Context]
  /\ sub \in [Ctx -> Submission]
  /\ owed \in [Ctx -> SUBSET Aio]
  /\ kernel \subseteq Aio
  /\ events \subseteq Completion /\ batch \subseteq Completion
  /\ tpc \in {"poll", "next", "dec", "notify", "callback", "closed"}
  /\ hand \in Aio \cup {NoAio}
  /\ zero \in BOOLEAN /\ stop \in BOOLEAN /\ since \in BOOLEAN /\ syncFailed \in BOOLEAN
  /\ volatile \subseteq Aio /\ seen \subseteq Aio
  /\ failed \subseteq Ctx
  /\ next \in 1..(MaxAio + 1)
  /\ errors \in 0..MaxErrors

Finished == {e.aio : e \in events \cup batch}
InHand == IF tpc = "dec" THEN {hand} ELSE {}
Accounting == tpc \in {"dec", "notify", "callback"}

(* An I/O is in one place at a time, and its number has been used up.       *)
OnePlace ==
  /\ \A c \in Ctx : \A a \in ioc[c].pending :
       a[1] = c /\ a[2] < next /\ a \notin sub[c].left \cup kernel \cup Finished \cup InHand
  /\ \A c \in Ctx : \A a \in sub[c].left :
       a[1] = c /\ a[2] < next /\ a \notin kernel \cup Finished \cup InHand
  /\ \A a \in kernel : a[2] < next /\ a \notin Finished \cup InHand
  /\ \A a \in Finished : a[2] < next /\ a \notin InHand
  /\ \A a \in InHand : a[2] < next
  /\ \A e, f \in events \cup batch : e.aio = f.aio => e = f
  /\ events \cap batch = {}

(* Only a client inside submit_batch has I/Os to submit.                    *)
LeftWhileSubmitting == \A c \in Ctx : pc[c] # "submit" => sub[c].left = {}

(* What the counters may reach, and what a failed completion tells.         *)
BoundedAt(c) ==
  /\ ioc[c].num_running + Cardinality(ioc[c].pending) < next
  /\ sub[c].r + Cardinality(sub[c].left) <= MaxAio
Bounded == \A c \in Ctx : BoundedAt(c)
FailuresKnown == \A e \in events \cup batch : ~e.ok => e.aio[1] \in failed

(* The completion thread: which context it is at, by which way.             *)
ThreadSound ==
  /\ Accounting => hand \in Aio
  /\ tpc = "notify" => hand[1] \notin CallbackCtx
  /\ tpc = "callback" => hand[1] \in CallbackCtx /\ (zero => ioc[hand[1]].num_running = 0)
  /\ tpc \in {"poll", "closed"} => batch = {}

(* A client that was told its I/Os are done; a client that waits for its    *)
(* callback is where the callback finds it.                                 *)
DoneMeansDone ==
  \A c \in Ctx : pc[c] \in {"waited", "deleted"} =>
    /\ ioc[c].num_running = 0
    /\ tpc \in {"notify", "callback"} => hand[1] # c
AtCallback(c) == tpc = "callback" /\ hand[1] = c
CallbackSound ==
  /\ \A c \in CallbackCtx :
       /\ ioc[c].num_running > 0 \/ ioc[c].called \/ AtCallback(c) => pc[c] \in {"submit", "await"}
       /\ ioc[c].called => ioc[c].num_running = 0 /\ ~AtCallback(c)
  /\ \A c \in Ctx : pc[c] = "await" => c \in CallbackCtx
  /\ \A c \in CallbackCtx : pc[c] \notin {"wait", "blocked"}

StopSound == stop => \A c \in Ctx : Quiet(c)

(* A write the device has done is announced by the flag, by a running       *)
(* fdatasync, or by somebody who will still set the flag.                   *)
Covered == since \/ syncFailed \/ \E c \in Ctx : pc[c] = "fdatasync"
FlushSound ==
  /\ \A a \in volatile : a \in Finished \/ pc[a[1]] = "written" \/ Covered
  /\ seen # {} => Covered
  /\ \A c \in Ctx : owed[c] # {} => Covered /\ pc[c] # "flushed"

Inv ==
  /\ Shape
  /\ OnePlace
  /\ LeftWhileSubmitting
  /\ CountExact
  /\ Bounded
  /\ FailuresKnown
  /\ ThreadSound
  /\ DoneMeansDone
  /\ CallbackSound
  /\ StopSound
  /\ FlushSound

-----------------------------------------------------------------------------
(* Sets of I/Os of one context are finite. *)

(* An I/O names its context and its number.                                *)
LEMMA AioFields == \A a \in Aio : a[1] \in Ctx /\ a[2] \in Nat
  BY DEF Aio

(* Any set of I/Os of one context is finite: aio numbers are bounded by    *)
(* MaxAio.                                                                 *)
LEMMA OwnFinite ==
  ASSUME NEW c \in Ctx, NEW S \in SUBSET Aio, \A a \in S : a[1] = c
  PROVE  IsFiniteSet(S) /\ Cardinality(S) \in Nat
<1>1. IsFiniteSet({c} \X (1..MaxAio))
  <2>1. IsFiniteSet({c}) BY FS_Singleton
  <2>2. MaxAio \in Int /\ 1 \in Int BY KernelDeviceAssumption
  <2>3. IsFiniteSet(1..MaxAio) BY <2>2, FS_Interval
  <2> QED BY <2>1, <2>3, FS_Product
<1>2. S \subseteq {c} \X (1..MaxAio) BY DEF Aio
<1> QED BY <1>1, <1>2, FS_Subset, FS_CardinalityType

(* What a context has queued, has left to submit and has outstanding is    *)
(* finite, so that the counters of kernel_device.cc can be compared with   *)
(* its cardinality.                                                        *)
LEMMA FiniteSets ==
  ASSUME Shape, ThreadSound, OnePlace, NEW c \in Ctx
  PROVE  /\ IsFiniteSet(ioc[c].pending) /\ Cardinality(ioc[c].pending) \in Nat
         /\ IsFiniteSet(sub[c].left) /\ Cardinality(sub[c].left) \in Nat
         /\ IsFiniteSet(Outstanding(c)) /\ Cardinality(Outstanding(c)) \in Nat
<1>1. ioc[c].pending \in SUBSET Aio /\ sub[c].left \in SUBSET Aio
  BY DEF Shape, Context, Submission
<1>2. Outstanding(c) \in SUBSET Aio /\ \A a \in Outstanding(c) : a[1] = c
  BY <1>1 DEF Outstanding, Shape, Completion, ThreadSound, Accounting
<1> QED BY <1>1, <1>2, OwnFinite DEF OnePlace

(* num_running = 0 is what aio_wait tests; by the count, no I/O of the     *)
(* context is then left with the kernel or the completion thread.          *)
LEMMA NothingOutstanding ==
  ASSUME Shape, ThreadSound, OnePlace, CountExact, NEW c \in Ctx, ioc[c].num_running = 0
  PROVE  Outstanding(c) = {}
BY FiniteSets, FS_EmptySet DEF CountExact

-----------------------------------------------------------------------------
(* Shape *)

(* Every call of a client keeps the types: in particular aio_submit adds a *)
(* natural number to num_running.                                          *)
LEMMA ClientShape ==
  ASSUME Shape, ThreadSound, OnePlace, NEW c \in Ctx, Client(c) PROVE Shape'
<1>0. Cardinality(ioc[c].pending) \in Nat BY FiniteSets
<1>a. /\ ioc \in [Ctx -> Context] /\ sub \in [Ctx -> Submission]
      /\ ioc[c] \in Context /\ sub[c] \in Submission
  BY DEF Shape
<1> USE KernelDeviceAssumption
<1>1. CASE aio_write(c)
  BY <1>1, <1>a DEF aio_write, Shape, Context, Aio, queueVars, threadVars, diskVars, histVars
<1>2. CASE aio_submit(c)
  <2>1. ioc'[c] \in Context
    <3>1. ioc'[c] = [pending |-> {}, num_running |-> ioc[c].num_running + Cardinality(ioc[c].pending),
                     r |-> ioc[c].r, called |-> ioc[c].called]
      BY <1>2, <1>a DEF aio_submit, Context
    <3> QED BY <1>0, <1>a, <3>1 DEF Context
  <2>2. \A d \in Ctx \ {c} : ioc'[d] = ioc[d] BY <1>2, <1>a DEF aio_submit
  <2>3. sub' \in [Ctx -> Submission] BY <1>2, <1>a DEF aio_submit, Submission, Context
  <2> QED BY <1>2, <1>a, <2>1, <2>2, <2>3 DEF aio_submit, Shape, queueVars, threadVars, diskVars, histVars, boundVars
<1>3. CASE io_submit(c)
  BY <1>3, <1>a DEF io_submit, Shape, Submission, threadVars, diskVars, histVars, boundVars
<1>4. CASE io_submit_eagain(c)
  BY <1>4, <1>a DEF io_submit_eagain, Shape, Submission, queueVars, threadVars, diskVars, histVars, boundVars
<1>5. CASE io_submit_error(c)
  <2>1. ioc' \in [Ctx -> Context] BY <1>5, <1>a DEF io_submit_error, Context
  <2>2. sub' \in [Ctx -> Submission] BY <1>5, <1>a DEF io_submit_error, SubmitReturns, NoBatch, Submission
  <2>3. pc' \in [Ctx -> {"ready", "submit", "await", "wait", "blocked", "waited", "deleted",
                     "written", "flush", "fdatasync", "flushed"}]
    BY <1>5 DEF io_submit_error, SubmitReturns, Shape
  <2> QED BY <1>5, <2>1, <2>2, <2>3 DEF io_submit_error, Shape, queueVars, threadVars, diskVars
<1>6. CASE submit_batch_return(c)
  BY <1>6, <1>a DEF submit_batch_return, SubmitReturns, NoBatch, Shape, Submission, queueVars, threadVars, diskVars, histVars, boundVars
<1>7. CASE Called(c)
  BY <1>7, <1>a DEF Called, Of, Shape, Context, queueVars, threadVars, diskVars, boundVars
<1>8. CASE \/ aio_wait_call(c) \/ aio_wait_test(c) \/ SpuriousWakeup(c) \/ release_running_aios(c) \/ DeleteContext(c)
  BY <1>8, <1>a DEF aio_wait_call, aio_wait_test, SpuriousWakeup, release_running_aios, DeleteContext,
    Of, Shape, queueVars, threadVars, diskVars, histVars, boundVars
<1>9. CASE pwritev(c) \/ write_return(c)
  <2>1. CASE pwritev(c)
    BY <2>1 DEF pwritev, Aio, Shape, queueVars, threadVars, histVars
  <2>2. CASE write_return(c)
    BY <2>2 DEF write_return, Of, Shape, queueVars, threadVars, boundVars
  <2> QED BY <1>9, <2>1, <2>2
<1>10. CASE flush_call(c) \/ Flush(c)
  <2>1. CASE flush_call(c)
    BY <2>1 DEF flush_call, Shape, queueVars, threadVars, diskVars, boundVars
  <2>2. CASE flush_skip(c) \/ flush_return(c)
    BY <2>2 DEF flush_skip, flush_return, FlushReturns0, Shape, queueVars, threadVars, diskVars, boundVars
  <2>3. CASE flush_exchange(c)
    BY <2>3 DEF flush_exchange, Shape, queueVars, threadVars, histVars, boundVars
  <2>4. CASE fdatasync(c)
    BY <2>4 DEF fdatasync, Shape, queueVars, threadVars, boundVars
  <2>5. CASE fdatasync_fails(c)
    BY <2>5 DEF fdatasync_fails, Shape, queueVars, threadVars, diskVars
  <2> QED BY <1>10, <2>1, <2>2, <2>3, <2>4, <2>5 DEF Flush
<1> QED BY <1>1, <1>2, <1>3, <1>4, <1>5, <1>6, <1>7, <1>8, <1>9, <1>10 DEF Client, Submit

(* So do the kernel, the completion thread and open and close: the         *)
(* fetch_sub of try_aio_wake and of the callback path never takes          *)
(* num_running below zero, because the I/O in hand is still counted.       *)
LEMMA OtherShape ==
  ASSUME Shape, ThreadSound, OnePlace, CountExact,
         Kernel \/ _aio_thread \/ close_stop \/ close_join \/ open
  PROVE  Shape'
<1> USE KernelDeviceAssumption
<1>1. ASSUME NEW a \in kernel, Complete(a) \/ Fail(a) PROVE Shape'
  <2>1. a \in Aio /\ a[1] \in Ctx BY DEF Shape, Aio
  <2>2. [aio |-> a, ok |-> TRUE] \in Completion /\ [aio |-> a, ok |-> FALSE] \in Completion
    BY <2>1 DEF Completion
  <2>3. CASE Complete(a)
    BY <2>1, <2>2, <2>3 DEF Complete, Shape, clientVars, threadVars, histVars, boundVars
  <2>4. CASE Fail(a)
    <3>1. events' \subseteq Completion BY <2>2, <2>4 DEF Fail, Shape
    <3>2. kernel' \subseteq Aio BY <2>4 DEF Fail, Shape
    <3>3. failed' \subseteq Ctx BY <2>1, <2>4 DEF Fail, Shape
    <3>4. errors' \in 0..MaxErrors BY <2>4 DEF Fail, Shape
    <3> QED BY <2>4, <3>1, <3>2, <3>3, <3>4 DEF Fail, Shape, clientVars, threadVars, diskVars
  <2> QED BY <1>1, <2>3, <2>4
<1>2. CASE get_next_completed
  BY <1>2 DEF get_next_completed, Shape, clientVars, diskVars, histVars, boundVars
<1>3. CASE BatchDone
  BY <1>3 DEF BatchDone, Shape, clientVars, queueVars, diskVars, histVars, boundVars
<1>4. ASSUME NEW e \in batch, TakeCompletion(e) PROVE Shape'
  <2>1. e.aio \in Aio /\ e.aio[1] \in Ctx BY DEF Shape, Completion, Aio
  <2>2. ioc' \in [Ctx -> Context] BY <1>4, <2>1 DEF TakeCompletion, Shape, Context
  <2> QED BY <1>4, <2>1, <2>2 DEF TakeCompletion, Shape, queueVars, histVars, boundVars
<1>5. CASE try_aio_wake \/ callback_dec
  <2>1. hand \in Aio /\ hand[1] \in Ctx BY <1>5 DEF try_aio_wake, callback_dec, ThreadSound, Accounting, Aio
  <2>2. ioc[hand[1]].num_running - 1 \in Nat
    <3>1. PICK c \in Ctx : c = hand[1] BY <2>1
    <3>2. tpc = "dec" BY <1>5 DEF try_aio_wake, callback_dec
    <3>3. hand \in Outstanding(c) BY <3>1, <3>2 DEF Outstanding
    <3>4. ioc[c].num_running # 0 BY <3>3, NothingOutstanding
    <3>5. ioc[c].num_running \in Nat BY DEF Shape, Context
    <3> QED BY <3>1, <3>4, <3>5
  <2>3. ioc' \in [Ctx -> Context]
    <3>1. PICK c \in Ctx : c = hand[1] BY <2>1
    <3>2. ioc' = [ioc EXCEPT ![c].num_running = ioc[c].num_running - 1]
      BY <1>5, <3>1 DEF try_aio_wake, callback_dec, FetchSub
    <3> QED BY <2>2, <3>1, <3>2 DEF Shape, Context
  <2> QED BY <1>5, <2>3 DEF try_aio_wake, callback_dec, FetchSub, Shape, queueVars, diskVars, histVars, boundVars
<1>6. CASE notify_all
  BY <1>6 DEF notify_all, NotifyAll, Shape, queueVars, diskVars, histVars, boundVars
<1>7. CASE aio_callback
  <2>1. hand \in Aio /\ hand[1] \in Ctx BY <1>7 DEF aio_callback, ThreadSound, Accounting, Aio
  <2>3. ioc' \in [Ctx -> Context]
    <3>1. PICK c \in Ctx : c = hand[1] BY <2>1
    <3>2. ioc' = [ioc EXCEPT ![c].called = ioc[c].called \/ zero] BY <1>7, <3>1 DEF aio_callback
    <3> QED BY <3>1, <3>2 DEF Shape, Context
  <2> QED BY <1>7, <2>3 DEF aio_callback, Shape, queueVars, diskVars, histVars, boundVars
<1>8. CASE close_stop \/ close_join \/ open
  BY <1>8 DEF close_stop, close_join, open, Shape, clientVars, queueVars, diskVars, histVars, boundVars
<1> QED BY <1>1, <1>2, <1>3, <1>4, <1>5, <1>6, <1>7, <1>8 DEF Kernel, _aio_thread

-----------------------------------------------------------------------------
(* OnePlace *)

(* A client's call moves an I/O from pending_aios to submit_batch and on   *)
(* to the kernel, and never leaves it in two places.                       *)
LEMMA OnePlaceClient ==
  ASSUME Shape, ThreadSound, OnePlace, LeftWhileSubmitting, NEW c \in Ctx, Client(c) PROVE OnePlace'
<1> USE DEF Finished, InHand
<1>1. CASE aio_write(c)
  <2>1. /\ Finished' = Finished /\ InHand' = InHand /\ sub' = sub /\ kernel' = kernel
        /\ events' = events /\ batch' = batch
    BY <1>1 DEF aio_write, queueVars, threadVars
  <2>2. next \in Nat /\ next' = next + 1 BY <1>1 DEF aio_write, Shape
  <2>3. \A a \in Aio : a[2] < next => a[2] < next' BY <2>2, AioFields
  <2>4. /\ <<c, next>>[1] = c /\ <<c, next>>[2] < next' /\ ~(<<c, next>>[2] < next)
    BY <2>2
  <2>5. \A d \in Ctx : \A a \in ioc'[d].pending : a \in ioc[d].pending \/ (d = c /\ a = <<c, next>>)
    BY <1>1 DEF aio_write, Shape, Context
  <2>6. Finished \subseteq Aio /\ InHand \subseteq Aio /\ kernel \subseteq Aio
        /\ \A d \in Ctx : ioc[d].pending \subseteq Aio /\ sub[d].left \subseteq Aio
    BY DEF Shape, ThreadSound, Accounting, Context, Submission, Completion
  <2> HIDE DEF Finished, InHand
  <2> QED BY <2>1, <2>3, <2>4, <2>5, <2>6 DEF OnePlace
<1>2. CASE aio_submit(c)
  BY <1>2 DEF aio_submit, OnePlace, LeftWhileSubmitting, Shape, Context, Submission, queueVars, threadVars, boundVars
<1>3. CASE io_submit(c)
  BY <1>3 DEF io_submit, OnePlace, Shape, Context, Submission, threadVars, boundVars
<1>4. CASE io_submit_eagain(c)
  BY <1>4 DEF io_submit_eagain, OnePlace, Shape, Context, Submission, threadVars, queueVars, boundVars
<1>5. CASE io_submit_error(c)
  BY <1>5 DEF io_submit_error, SubmitReturns, NoBatch, OnePlace, Shape, Context, Submission, queueVars, threadVars
<1>6. CASE submit_batch_return(c)
  BY <1>6 DEF submit_batch_return, SubmitReturns, NoBatch, OnePlace, Shape, Context, Submission, queueVars, threadVars, boundVars
<1>7. CASE Called(c)
  BY <1>7 DEF Called, OnePlace, Shape, Context, queueVars, threadVars, boundVars
<1>8. CASE pwritev(c)
  <2>1. /\ Finished' = Finished /\ InHand' = InHand /\ sub' = sub /\ kernel' = kernel
        /\ events' = events /\ batch' = batch /\ ioc' = ioc
    BY <1>8 DEF pwritev, queueVars, threadVars
  <2>2. next \in Nat /\ next' = next + 1 BY <1>8 DEF pwritev, Shape
  <2>3. \A a \in Aio : a[2] < next => a[2] < next' BY <2>2, AioFields
  <2>6. Finished \subseteq Aio /\ InHand \subseteq Aio /\ kernel \subseteq Aio
        /\ \A d \in Ctx : ioc[d].pending \subseteq Aio /\ sub[d].left \subseteq Aio
    BY DEF Shape, ThreadSound, Accounting, Context, Submission, Completion
  <2> HIDE DEF Finished, InHand
  <2> QED BY <2>1, <2>3, <2>6 DEF OnePlace
<1>9. CASE \/ aio_wait_call(c) \/ aio_wait_test(c) \/ SpuriousWakeup(c) \/ release_running_aios(c)
             \/ DeleteContext(c) \/ write_return(c) \/ flush_call(c) \/ Flush(c)
  <2>1. UNCHANGED <<ioc, sub, kernel, events, batch, tpc, hand, next>>
    BY <1>9 DEF aio_wait_call, aio_wait_test, SpuriousWakeup, release_running_aios, DeleteContext,
      write_return, flush_call, Flush, flush_skip, flush_exchange, fdatasync, flush_return,
      fdatasync_fails, queueVars, threadVars, boundVars
  <2> QED BY <2>1 DEF OnePlace
<1> QED BY <1>1, <1>2, <1>3, <1>4, <1>5, <1>6, <1>7, <1>8, <1>9 DEF Client, Submit

(* The kernel and the completion thread move it on to the ring, the batch  *)
(* and the thread's hand.                                                  *)
LEMMA OnePlaceOther ==
  ASSUME Shape, OnePlace, ThreadSound, Kernel \/ _aio_thread \/ close_stop \/ close_join \/ open
  PROVE OnePlace'
<1> USE DEF Finished, InHand
<1>1. ASSUME NEW a \in kernel, Complete(a) \/ Fail(a) PROVE OnePlace'
  <2>1. PICK e : /\ e.aio = a /\ events' = events \cup {e} /\ kernel' = kernel \ {a}
                 /\ UNCHANGED <<ioc, sub, batch, tpc, hand, next>>
    BY <1>1 DEF Complete, Fail, clientVars, threadVars, boundVars
  <2>2. InHand' = InHand /\ Finished' = Finished \cup {a} BY <2>1
  <2>3. e \notin events \cup batch BY <2>1 DEF OnePlace
  <2>4. \A f, g \in events' \cup batch' : f.aio = g.aio => f = g
    BY <2>1, <2>3 DEF OnePlace
  <2> HIDE DEF Finished, InHand
  <2> QED BY <2>1, <2>2, <2>3, <2>4 DEF OnePlace
<1>2. CASE get_next_completed
  BY <1>2 DEF get_next_completed, OnePlace, ThreadSound, clientVars, boundVars
<1>3. CASE BatchDone
  BY <1>3 DEF BatchDone, OnePlace, clientVars, queueVars, boundVars
<1>4. ASSUME NEW e \in batch, TakeCompletion(e) PROVE OnePlace'
  <2>1. /\ \A d \in Ctx : ioc'[d].pending = ioc[d].pending
        /\ UNCHANGED <<sub, kernel, events, next>> /\ batch' = batch \ {e}
        /\ InHand = {} /\ InHand' \subseteq {e.aio}
    BY <1>4 DEF TakeCompletion, Shape, Context, queueVars, boundVars
  <2>2. e.aio \in Finished /\ e.aio \notin Finished' /\ Finished' \subseteq Finished
    BY <2>1 DEF OnePlace
  <2> HIDE DEF Finished, InHand
  <2> QED BY <2>1, <2>2 DEF OnePlace
<1>5. CASE try_aio_wake \/ callback_dec \/ notify_all \/ aio_callback
  <2>1. /\ \A d \in Ctx : ioc'[d].pending = ioc[d].pending
        /\ UNCHANGED <<sub, kernel, events, batch, next>> /\ InHand' = {}
    BY <1>5 DEF try_aio_wake, callback_dec, FetchSub, notify_all, aio_callback, Shape, Context, queueVars, boundVars
  <2> HIDE DEF InHand
  <2> QED BY <2>1 DEF OnePlace
<1>6. CASE close_stop \/ close_join \/ open
  BY <1>6 DEF close_stop, close_join, open, OnePlace, clientVars, queueVars, boundVars
<1> QED BY <1>1, <1>2, <1>3, <1>4, <1>5, <1>6 DEF Kernel, _aio_thread

-----------------------------------------------------------------------------
(* CountExact and Bounded *)

(* A step that keeps every num_running and every set of outstanding I/Os   *)
(* keeps the count.                                                        *)
LEMMA CountKept ==
  ASSUME CountExact, failed \subseteq failed',
         \A d \in Ctx : ioc'[d].num_running = ioc[d].num_running
                      /\ Outstanding(d)' = Outstanding(d)
  PROVE  CountExact'
BY DEF CountExact

(* Every call of a client keeps num_running equal to what is outstanding:  *)
(* aio_submit adds the batch before the kernel sees it, io_submit only     *)
(* moves an I/O, and a submission that fails leaves the count above it.    *)
LEMMA CountClient ==
  ASSUME Shape, ThreadSound, OnePlace, LeftWhileSubmitting, CountExact, NEW c \in Ctx, Client(c)
  PROVE CountExact'
<1>1. CASE aio_submit(c)
  <2> DEFINE P == ioc[c].pending
             O == Outstanding(c)
  <2>1. /\ \A d \in Ctx \ {c} : ioc'[d] = ioc[d] /\ Outstanding(d)' = Outstanding(d)
        /\ failed' = failed
    BY <1>1 DEF aio_submit, Outstanding, Shape, Context, queueVars, threadVars, histVars
  <2>2. ioc'[c].num_running = ioc[c].num_running + Cardinality(P)
    BY <1>1 DEF aio_submit, Shape, Context
  <2>3. Outstanding(c)' = O \cup P
    BY <1>1 DEF aio_submit, Outstanding, LeftWhileSubmitting, OnePlace, Shape, Submission, queueVars, threadVars
  <2>4. O \cap P = {} BY DEF OnePlace, Outstanding, Finished, InHand
  <2>5. Cardinality(O \cup P) = Cardinality(O) + Cardinality(P)
    BY <2>4, FiniteSets, FS_Union, FS_EmptySet
  <2>6. ioc[c].num_running \in Nat /\ Cardinality(O) \in Nat /\ Cardinality(P) \in Nat
    BY FiniteSets DEF Shape, Context
  <2> HIDE DEF O, P
  <2>7. /\ ioc'[c].num_running >= Cardinality(Outstanding(c)')
        /\ c \notin failed' => ioc'[c].num_running = Cardinality(Outstanding(c)')
    BY <2>1, <2>2, <2>3, <2>5, <2>6 DEF CountExact, O
  <2> QED BY <2>1, <2>7 DEF CountExact
<1>2. CASE io_submit_error(c)
  <2>1. /\ \A d \in Ctx : ioc'[d].num_running = ioc[d].num_running
        /\ \A d \in Ctx \ {c} : Outstanding(d)' = Outstanding(d)
        /\ failed' = failed \cup {c}
    BY <1>2 DEF io_submit_error, SubmitReturns, NoBatch, Outstanding, Shape, Context, Submission, queueVars, threadVars
  <2>2. Outstanding(c)' \subseteq Outstanding(c)
    BY <1>2 DEF io_submit_error, SubmitReturns, NoBatch, Outstanding, Shape, Submission, queueVars, threadVars
  <2>3. Cardinality(Outstanding(c)') <= Cardinality(Outstanding(c))
       /\ Cardinality(Outstanding(c)') \in Nat
    BY <2>2, FiniteSets, FS_Subset, FS_CardinalityType
  <2>4. ioc'[c].num_running >= Cardinality(Outstanding(c)')
    BY <2>1, <2>3, FiniteSets DEF CountExact, Shape, Context
  <2> QED BY <2>1, <2>4 DEF CountExact
<1>3. CASE io_submit(c)
  <2>1. PICK a \in sub[c].left : kernel' = kernel \cup {a}
                              /\ sub' = [sub EXCEPT ![c].left = @ \ {a}, ![c].r = @ + 1]
    BY <1>3 DEF io_submit
  <2>2. /\ \A d \in Ctx \ {c} : sub'[d].left = sub[d].left
        /\ sub'[c].left = sub[c].left \ {a} /\ a[1] = c
    BY <2>1 DEF Shape, Submission, OnePlace
  <2>3. UNCHANGED <<ioc, events, batch, tpc, hand, failed>>
    BY <1>3 DEF io_submit, threadVars, histVars
  <2> QED BY <2>1, <2>2, <2>3, CountKept DEF Outstanding
<1>4. CASE aio_write(c) \/ io_submit_eagain(c) \/ submit_batch_return(c) \/ Called(c)
  <2>1. \A d \in Ctx : ioc'[d].num_running = ioc[d].num_running
    BY <1>4 DEF aio_write, io_submit_eagain, submit_batch_return, Called, Shape, Context
  <2>2. \A d \in Ctx : sub'[d].left = sub[d].left
    <3>1. CASE io_submit_eagain(c) BY <3>1 DEF io_submit_eagain, Shape, Submission
    <3>2. CASE submit_batch_return(c)
      BY <3>2 DEF submit_batch_return, SubmitReturns, NoBatch, Shape
    <3> QED BY <1>4, <3>1, <3>2 DEF aio_write, Called
  <2>3. UNCHANGED <<kernel, events, batch, tpc, hand, failed>>
    BY <1>4 DEF aio_write, io_submit_eagain, submit_batch_return, Called, queueVars, threadVars, histVars
  <2> QED BY <2>1, <2>2, <2>3, CountKept DEF Outstanding
<1>5. CASE \/ aio_wait_call(c) \/ aio_wait_test(c) \/ SpuriousWakeup(c) \/ release_running_aios(c)
           \/ DeleteContext(c) \/ pwritev(c) \/ write_return(c) \/ flush_call(c) \/ Flush(c)
  <2>1. UNCHANGED <<ioc, sub, kernel, events, batch, tpc, hand, failed>>
    BY <1>5 DEF aio_wait_call, aio_wait_test, SpuriousWakeup, release_running_aios, DeleteContext,
      pwritev, write_return, flush_call, Flush, flush_skip, flush_exchange, fdatasync, flush_return,
      fdatasync_fails, FlushReturns0, queueVars, threadVars, histVars
  <2> QED BY <2>1, CountKept DEF Outstanding
<1> QED BY <1>1, <1>2, <1>3, <1>4, <1>5 DEF Client, Submit

(* The kernel, the completion thread and close keep it too: the fetch_sub  *)
(* takes out the one I/O in hand, a failed I/O goes without one, and the   *)
(* ring is dropped when nothing is counted.                                *)
LEMMA CountOther ==
  ASSUME Shape, ThreadSound, OnePlace, CountExact, FailuresKnown, DoneMeansDone, StopSound,
         Kernel \/ _aio_thread \/ close_stop \/ close_join \/ open
  PROVE  CountExact'
<1>1. ASSUME NEW a \in kernel, Complete(a) \/ Fail(a) PROVE CountExact'
  <2>1. PICK e : /\ e.aio = a /\ events' = events \cup {e} /\ kernel' = kernel \ {a}
                 /\ UNCHANGED <<ioc, sub, batch, tpc, hand>> /\ failed \subseteq failed'
    BY <1>1 DEF Complete, Fail, clientVars, threadVars, histVars
  <2> QED BY <2>1, CountKept DEF Outstanding
<1>2. CASE get_next_completed \/ BatchDone \/ close_stop \/ open
  <2>1. /\ UNCHANGED <<ioc, sub, kernel, hand, failed>> /\ events' \cup batch' = events \cup batch
        /\ (tpc # "dec" /\ tpc' # "dec") \/ UNCHANGED tpc
    BY <1>2 DEF get_next_completed, BatchDone, close_stop, open, ThreadSound, clientVars, queueVars, histVars
  <2> QED BY <2>1, CountKept DEF Outstanding
<1>3. ASSUME NEW e \in batch, TakeCompletion(e) PROVE CountExact'
  <2>1. /\ \A d \in Ctx : ioc'[d].num_running = ioc[d].num_running
        /\ UNCHANGED <<sub, kernel, events, failed>> /\ batch' = batch \ {e} /\ tpc = "next"
    BY <1>3 DEF TakeCompletion, Shape, Context, queueVars, histVars
  <2>2. CASE e.ok
    <3>1. tpc' = "dec" /\ hand' = e.aio BY <1>3, <2>2 DEF TakeCompletion
    <3> QED BY <2>1, <3>1, CountKept DEF Outstanding
  <2>3. CASE ~e.ok
    <3>1. tpc' = tpc /\ e.aio[1] \in failed BY <1>3, <2>3 DEF TakeCompletion, FailuresKnown
    <3>2. \A d \in Ctx : Outstanding(d)' \subseteq Outstanding(d)
      BY <2>1, <3>1 DEF Outstanding
    <3>3. \A d \in Ctx \ {e.aio[1]} : Outstanding(d)' = Outstanding(d)
      BY <2>1, <3>1 DEF Outstanding
    <3>4. \A d \in Ctx : Cardinality(Outstanding(d)') <= Cardinality(Outstanding(d))
                       /\ Cardinality(Outstanding(d)') \in Nat
      BY <3>2, FiniteSets, FS_Subset, FS_CardinalityType
    <3>5. \A d \in Ctx : ioc'[d].num_running >= Cardinality(Outstanding(d)')
      BY <2>1, <3>4, FiniteSets DEF CountExact, Shape, Context
    <3> QED BY <2>1, <3>1, <3>3, <3>5 DEF CountExact
  <2> QED BY <2>2, <2>3
<1>4. CASE try_aio_wake \/ callback_dec
  <2>1. PICK c \in Ctx : c = hand[1] /\ tpc = "dec" /\ hand \in Aio
    BY <1>4, AioFields DEF try_aio_wake, callback_dec, ThreadSound, Accounting
  <2>2. /\ ioc' = [ioc EXCEPT ![c].num_running = ioc[c].num_running - 1]
        /\ UNCHANGED <<sub, kernel, events, batch, hand, failed>> /\ tpc' # "dec"
    BY <1>4, <2>1 DEF try_aio_wake, callback_dec, FetchSub, queueVars, histVars
  <2>3. ioc'[c].num_running = ioc[c].num_running - 1 /\ \A d \in Ctx \ {c} : ioc'[d] = ioc[d]
    BY <2>2 DEF Shape, Context
  <2>4. hand \in Outstanding(c) /\ Outstanding(c)' = Outstanding(c) \ {hand}
    BY <2>1, <2>2 DEF Outstanding, OnePlace, Finished, InHand
  <2>5. \A d \in Ctx \ {c} : Outstanding(d)' = Outstanding(d)
    BY <2>1, <2>2 DEF Outstanding
  <2>6. Cardinality(Outstanding(c)') = Cardinality(Outstanding(c)) - 1
    BY <2>4, FiniteSets, FS_RemoveElement
  <2>7. /\ ioc'[c].num_running >= Cardinality(Outstanding(c)')
        /\ c \notin failed => ioc'[c].num_running = Cardinality(Outstanding(c)')
    BY <2>3, <2>6, FiniteSets DEF CountExact, Shape, Context
  <2> QED BY <2>2, <2>3, <2>5, <2>7 DEF CountExact
<1>5. CASE notify_all \/ aio_callback
  <2>1. /\ \A d \in Ctx : ioc'[d].num_running = ioc[d].num_running
        /\ UNCHANGED <<sub, kernel, events, batch, failed>> /\ tpc # "dec" /\ tpc' # "dec"
    BY <1>5 DEF notify_all, aio_callback, Shape, Context, queueVars, histVars
  <2> QED BY <2>1, CountKept DEF Outstanding
<1>6. CASE close_join
  <2>1. \A d \in Ctx : ioc[d].num_running = 0
    BY <1>6 DEF close_join, StopSound, Quiet, DoneMeansDone, FreshContext
  <2>2. \A d \in Ctx : Outstanding(d)' \subseteq Outstanding(d)
    BY <1>6 DEF close_join, Outstanding, clientVars
  <2>3. \A d \in Ctx : Outstanding(d) = {}
    BY <2>1, FiniteSets, FS_EmptySet DEF CountExact
  <2>4. \A d \in Ctx : Outstanding(d)' = {} /\ ioc'[d] = ioc[d]
    BY <1>6, <2>2, <2>3 DEF close_join, clientVars
  <2> QED BY <2>1, <2>4, FS_EmptySet DEF CountExact
<1> QED BY <1>1, <1>2, <1>3, <1>4, <1>5, <1>6 DEF Kernel, _aio_thread

(* num_running and the locals of submit_batch never exceed the number of   *)
(* I/Os made.                                                              *)
LEMMA BoundedStep ==
  ASSUME Shape, Shape', ThreadSound, OnePlace, Bounded, LeftWhileSubmitting, Next
  PROVE  Bounded'
<1>0. \A d \in Ctx : /\ ioc[d].num_running \in Nat /\ sub[d].r \in Nat /\ next \in Nat
                     /\ Cardinality(ioc[d].pending) \in Nat /\ Cardinality(sub[d].left) \in Nat
                     /\ MaxAio \in Nat /\ next <= MaxAio + 1
  BY FiniteSets, KernelDeviceAssumption DEF Shape, Context, Submission
<1>1. ASSUME NEW c \in Ctx, aio_write(c) PROVE Bounded'
  <2>1. /\ ioc'[c].pending = ioc[c].pending \cup {<<c, next>>}
        /\ \A d \in Ctx : ioc'[d].num_running = ioc[d].num_running
        /\ \A d \in Ctx \ {c} : ioc'[d] = ioc[d]
        /\ sub' = sub /\ next' = next + 1
    BY <1>1 DEF aio_write, Shape, Context
  <2>2. Cardinality(ioc[c].pending \cup {<<c, next>>}) \in
          {Cardinality(ioc[c].pending), Cardinality(ioc[c].pending) + 1}
    BY FiniteSets, FS_AddElement
  <2>3. BoundedAt(c)' BY <1>0, <2>1, <2>2 DEF Bounded, BoundedAt
  <2>4. \A d \in Ctx \ {c} : BoundedAt(d)' BY <1>0, <2>1 DEF Bounded, BoundedAt
  <2> QED BY <2>3, <2>4 DEF Bounded
<1>2. ASSUME NEW c \in Ctx, aio_submit(c) PROVE Bounded'
  <2>1. /\ ioc'[c].num_running = ioc[c].num_running + Cardinality(ioc[c].pending)
        /\ ioc'[c].pending = {}
        /\ \A d \in Ctx \ {c} : ioc'[d] = ioc[d] /\ sub'[d] = sub[d]
        /\ sub'[c].left = ioc[c].pending /\ sub'[c].r = 0
        /\ next' = next
    BY <1>2 DEF aio_submit, Shape, Context, boundVars
  <2>2. ioc[c].num_running + Cardinality(ioc[c].pending) < next BY DEF Bounded, BoundedAt
  <2>3. BoundedAt(c)' BY <1>0, <2>1, <2>2, FS_EmptySet DEF BoundedAt
  <2>4. \A d \in Ctx \ {c} : BoundedAt(d)' BY <1>0, <2>1 DEF Bounded, BoundedAt
  <2> QED BY <2>3, <2>4 DEF Bounded
<1>3. ASSUME NEW c \in Ctx, io_submit(c) PROVE Bounded'
  <2>1. PICK a \in sub[c].left : sub' = [sub EXCEPT ![c].left = @ \ {a}, ![c].r = @ + 1]
    BY <1>3 DEF io_submit
  <2>2. /\ sub'[c].left = sub[c].left \ {a} /\ sub'[c].r = sub[c].r + 1
        /\ \A d \in Ctx \ {c} : sub'[d] = sub[d]
    BY <2>1 DEF Shape, Submission
  <2>3. Cardinality(sub[c].left \ {a}) = Cardinality(sub[c].left) - 1
    BY FiniteSets, FS_RemoveElement
  <2>4. ioc' = ioc /\ next' = next BY <1>3 DEF io_submit, boundVars
  <2>5. BoundedAt(c)' BY <1>0, <2>2, <2>3, <2>4 DEF Bounded, BoundedAt
  <2>6. \A d \in Ctx \ {c} : BoundedAt(d)' BY <1>0, <2>2, <2>4 DEF Bounded, BoundedAt
  <2> QED BY <2>5, <2>6 DEF Bounded
<1>4. ASSUME NEW c \in Ctx, io_submit_error(c) \/ submit_batch_return(c) PROVE Bounded'
  <2>1. \A d \in Ctx : ioc'[d].num_running = ioc[d].num_running /\ ioc'[d].pending = ioc[d].pending
    BY <1>4 DEF io_submit_error, submit_batch_return, Shape, Context
  <2>2. sub'[c].left = {} /\ sub'[c].r = 0 /\ \A d \in Ctx \ {c} : sub'[d] = sub[d]
    BY <1>4 DEF io_submit_error, submit_batch_return, SubmitReturns, NoBatch, Shape
  <2>3. next' = next BY <1>4 DEF io_submit_error, submit_batch_return, boundVars
  <2>4. BoundedAt(c)' BY <1>0, <2>1, <2>2, <2>3, FS_EmptySet DEF Bounded, BoundedAt
  <2>5. \A d \in Ctx \ {c} : BoundedAt(d)' BY <1>0, <2>1, <2>2, <2>3 DEF Bounded, BoundedAt
  <2> QED BY <2>4, <2>5 DEF Bounded
<1>5. ASSUME NEW c \in Ctx, io_submit_eagain(c) PROVE Bounded'
  <2>1. \A d \in Ctx : sub'[d].left = sub[d].left /\ sub'[d].r = sub[d].r
    BY <1>5 DEF io_submit_eagain, Shape, Submission
  <2> QED BY <1>5, <2>1 DEF io_submit_eagain, Bounded, BoundedAt, boundVars
<1>6. ASSUME NEW c \in Ctx, Called(c) PROVE Bounded'
  <2>1. \A d \in Ctx : ioc'[d].num_running = ioc[d].num_running /\ ioc'[d].pending = ioc[d].pending
    BY <1>6 DEF Called, Shape, Context
  <2> QED BY <1>6, <2>1 DEF Called, Bounded, BoundedAt, boundVars
<1>7. ASSUME NEW c \in Ctx, pwritev(c) PROVE Bounded'
  <2>1. ioc' = ioc /\ sub' = sub /\ next' = next + 1 BY <1>7 DEF pwritev
  <2>2. \A d \in Ctx : BoundedAt(d)' BY <1>0, <2>1 DEF Bounded, BoundedAt
  <2> QED BY <2>2 DEF Bounded
<1>8. ASSUME NEW c \in Ctx, UNCHANGED <<ioc, sub, next>> PROVE Bounded'
  BY <1>8 DEF Bounded, BoundedAt
<1>9. ASSUME NEW c \in Ctx, Client(c) PROVE Bounded'
  <2>1. CASE \/ aio_wait_call(c) \/ aio_wait_test(c) \/ SpuriousWakeup(c) \/ release_running_aios(c)
             \/ DeleteContext(c) \/ write_return(c) \/ flush_call(c) \/ Flush(c)
    BY <1>8, <2>1 DEF aio_wait_call, aio_wait_test, SpuriousWakeup, release_running_aios, DeleteContext,
      write_return, flush_call, Flush, flush_skip, flush_exchange, fdatasync, flush_return,
      fdatasync_fails, FlushReturns0, boundVars
  <2> QED BY <1>1, <1>2, <1>3, <1>4, <1>5, <1>6, <1>7, <1>9, <2>1 DEF Client, Submit
<1>10. ASSUME Kernel \/ _aio_thread \/ close_stop \/ close_join \/ open PROVE Bounded'
  <2>1. sub' = sub /\ next' = next
    BY <1>10 DEF Kernel, Complete, Fail, _aio_thread, get_next_completed, BatchDone, TakeCompletion,
      try_aio_wake, notify_all, callback_dec, aio_callback, close_stop, close_join, open, clientVars, boundVars
  <2>2. \A d \in Ctx : ioc'[d].pending = ioc[d].pending /\ ioc'[d].num_running <= ioc[d].num_running
    <3>1. CASE \E e \in batch : TakeCompletion(e)
      BY <1>0, <3>1 DEF TakeCompletion, Shape, Context
    <3>2. CASE try_aio_wake \/ callback_dec
      BY <1>0, <3>2 DEF try_aio_wake, callback_dec, FetchSub, Shape, Context
    <3>3. CASE notify_all \/ aio_callback
      BY <1>0, <3>3 DEF notify_all, aio_callback, Shape, Context
    <3>4. CASE get_next_completed \/ BatchDone \/ Kernel \/ close_stop \/ close_join \/ open
      BY <1>0, <3>4 DEF Kernel, Complete, Fail, get_next_completed, BatchDone, close_stop, close_join, open, clientVars
    <3> QED BY <1>10, <3>1, <3>2, <3>3, <3>4 DEF _aio_thread
  <2>3. \A d \in Ctx : ioc'[d].num_running \in Nat BY DEF Shape, Context
  <2>4. \A d \in Ctx : BoundedAt(d)' BY <1>0, <2>1, <2>2, <2>3 DEF Bounded, BoundedAt
  <2> QED BY <2>4 DEF Bounded
<1> QED BY <1>9, <1>10 DEF Next

-----------------------------------------------------------------------------
(* The other parts *)

(* Only a client inside submit_batch has I/Os left to submit.              *)
LEMMA SubmitterStep ==
  ASSUME Shape, LeftWhileSubmitting, Next PROVE LeftWhileSubmitting'
<1>1. ASSUME NEW c \in Ctx, Submit(c) \/ aio_submit(c) PROVE LeftWhileSubmitting'
  <2>1. CASE io_submit(c) \/ io_submit_eagain(c)
    BY <2>1 DEF io_submit, io_submit_eagain, LeftWhileSubmitting, Shape, Submission
  <2>2. CASE io_submit_error(c) \/ submit_batch_return(c)
    BY <2>2 DEF io_submit_error, submit_batch_return, SubmitReturns, NoBatch, LeftWhileSubmitting, Shape
  <2>3. CASE aio_submit(c)
    BY <2>3 DEF aio_submit, LeftWhileSubmitting, Shape
  <2> QED BY <1>1, <2>1, <2>2, <2>3 DEF Submit
<1>2. ASSUME NEW c \in Ctx, Client(c), ~(Submit(c) \/ aio_submit(c)) PROVE LeftWhileSubmitting'
  BY <1>2 DEF Client, aio_write, aio_wait_call, aio_wait_test, Called, SpuriousWakeup, release_running_aios,
    DeleteContext, pwritev, write_return, flush_call, Flush, flush_skip, flush_exchange, fdatasync,
    flush_return, fdatasync_fails, FlushReturns0, LeftWhileSubmitting, Shape
<1>3. ASSUME Kernel \/ _aio_thread \/ close_stop \/ close_join \/ open PROVE LeftWhileSubmitting'
  <2>1. sub' = sub /\ \A c \in Ctx : pc'[c] # "submit" => pc[c] # "submit"
    BY <1>3 DEF Kernel, Complete, Fail, _aio_thread, get_next_completed, BatchDone, TakeCompletion,
      try_aio_wake, notify_all, NotifyAll, callback_dec, aio_callback, close_stop, close_join, open, clientVars, Shape
  <2> QED BY <2>1 DEF LeftWhileSubmitting
<1> QED BY <1>1, <1>2, <1>3 DEF Next

(* A completion that reports an error belongs to a context known to have   *)
(* failed.                                                                 *)
LEMMA FailuresStep ==
  ASSUME Shape, FailuresKnown, Next PROVE FailuresKnown'
<1>1. ASSUME NEW c \in Ctx, Client(c) PROVE FailuresKnown'
  <2>1. events' = events /\ batch' = batch /\ failed \subseteq failed'
    BY <1>1 DEF Client, Submit, aio_write, aio_submit, io_submit, io_submit_eagain, io_submit_error, submit_batch_return,
      aio_wait_call, aio_wait_test, Called, SpuriousWakeup, release_running_aios,
      DeleteContext, pwritev, write_return, flush_call, Flush, flush_skip, flush_exchange, fdatasync,
      flush_return, fdatasync_fails, queueVars, threadVars, histVars
  <2> QED BY <2>1 DEF FailuresKnown
<1>2. ASSUME Kernel PROVE FailuresKnown'
  BY <1>2 DEF Kernel, Complete, Fail, FailuresKnown, threadVars, histVars
<1>3. ASSUME _aio_thread \/ close_stop \/ close_join \/ open PROVE FailuresKnown'
  <2>1. events' \cup batch' \subseteq events \cup batch /\ failed' = failed
    BY <1>3 DEF _aio_thread, get_next_completed, BatchDone, TakeCompletion,
      try_aio_wake, notify_all, callback_dec, aio_callback, close_stop, close_join, open, queueVars, histVars
  <2> QED BY <2>1 DEF FailuresKnown
<1> QED BY <1>1, <1>2, <1>3 DEF Next

(* _aio_thread stays consistent between its fetch_sub and the notification *)
(* or the callback: a callback is about to be made for the last I/O only   *)
(* while the count is zero, because its owner does not submit meanwhile.   *)
LEMMA ThreadStep ==
  ASSUME Shape, OnePlace, ThreadSound, CallbackSound, Next PROVE ThreadSound'
<1>1. ASSUME NEW c \in Ctx, Client(c) PROVE ThreadSound'
  <2>1. UNCHANGED threadVars
    BY <1>1 DEF Client, Submit, aio_write, aio_submit, io_submit, io_submit_eagain, io_submit_error, submit_batch_return,
      aio_wait_call, aio_wait_test, Called, SpuriousWakeup, release_running_aios,
      DeleteContext, pwritev, write_return, flush_call, Flush, flush_skip, flush_exchange, fdatasync,
      flush_return, fdatasync_fails
  <2>2. ASSUME tpc = "callback" PROVE ioc'[hand[1]].num_running = ioc[hand[1]].num_running
    <3>1. PICK d \in Ctx : d = hand[1] BY <2>2, AioFields DEF ThreadSound, Accounting
    <3>2. d \in CallbackCtx /\ pc[d] \in {"submit", "await"}
      BY <2>2, <3>1 DEF CallbackSound, AtCallback, ThreadSound
    <3>3. CASE aio_submit(c)
      <4>1. ioc'[d] = ioc[d] BY <3>2, <3>3 DEF aio_submit, Shape
      <4> QED BY <3>1, <4>1
    <3>4. CASE aio_write(c) \/ io_submit_error(c) \/ Called(c)
      <4>1. ioc'[d].num_running = ioc[d].num_running
        BY <3>4 DEF aio_write, io_submit_error, Called, Shape, Context
      <4> QED BY <3>1, <4>1
    <3>5. CASE ~(aio_submit(c) \/ aio_write(c) \/ io_submit_error(c) \/ Called(c))
      BY <1>1, <3>5 DEF Client, Submit, io_submit, io_submit_eagain, submit_batch_return,
        aio_wait_call, aio_wait_test, SpuriousWakeup, release_running_aios,
        DeleteContext, pwritev, write_return, flush_call, Flush, flush_skip, flush_exchange, fdatasync,
        flush_return, fdatasync_fails
    <3> QED BY <3>3, <3>4, <3>5
  <2> QED BY <2>1, <2>2 DEF ThreadSound, Accounting, threadVars
<1>2. CASE Kernel
  BY <1>2 DEF Kernel, Complete, Fail, ThreadSound, Accounting, clientVars, threadVars
<1>3. CASE get_next_completed \/ BatchDone \/ notify_all \/ aio_callback \/ close_stop \/ close_join \/ open
  <2>1. CASE get_next_completed \/ BatchDone \/ notify_all \/ aio_callback
    BY <2>1 DEF get_next_completed, BatchDone, notify_all, aio_callback, ThreadSound, Accounting
  <2>2. CASE close_join \/ open
    BY <2>2 DEF close_join, open, ThreadSound, Accounting
  <2>3. CASE close_stop
    BY <2>3 DEF close_stop, ThreadSound, Accounting, clientVars
  <2> QED BY <1>3, <2>1, <2>2, <2>3
<1>4. ASSUME NEW e \in batch, TakeCompletion(e) PROVE ThreadSound'
  <2>1. e.aio \in Aio BY DEF Shape, Completion
  <2> QED BY <1>4, <2>1 DEF TakeCompletion, ThreadSound, Accounting
<1>5. CASE try_aio_wake
  BY <1>5 DEF try_aio_wake, ThreadSound, Accounting
<1>6. CASE callback_dec
  <2>1. PICK d \in Ctx : d = hand[1] BY <1>6, AioFields DEF callback_dec, ThreadSound, Accounting
  <2>2. zero' => ioc'[hand[1]].num_running = 0
    <3>1. ioc' = [ioc EXCEPT ![d].num_running = ioc[d].num_running - 1] /\ zero' = (ioc[d].num_running = 1)
      BY <1>6, <2>1 DEF callback_dec, FetchSub
    <3>2. ioc'[d].num_running = ioc[d].num_running - 1 BY <3>1 DEF Shape, Context
    <3>3. zero' => ioc[d].num_running = 1 BY <3>1
    <3>4. ioc[d].num_running = 1 => ioc'[d].num_running = 0 BY <3>2
    <3> QED BY <2>1, <3>3, <3>4
  <2> QED BY <1>6, <2>2 DEF callback_dec, ThreadSound, Accounting
<1> QED BY <1>1, <1>2, <1>3, <1>4, <1>5, <1>6 DEF Next, _aio_thread

(* A context whose client was told that its I/Os are done has none, and    *)
(* the completion thread is not about to touch it: aio_wait tests          *)
(* num_running under the lock that try_aio_wake holds.                     *)
LEMMA DoneStep ==
  ASSUME Shape, OnePlace, CountExact, ThreadSound, CallbackSound, DoneMeansDone, Next
  PROVE  DoneMeansDone'
<1>1. ASSUME NEW c \in Ctx, Client(c) PROVE DoneMeansDone'
  <2>0. UNCHANGED <<tpc, hand>> /\ \A d \in Ctx \ {c} : pc'[d] = pc[d] /\ ioc'[d] = ioc[d]
    BY <1>1 DEF Client, Submit, aio_write, aio_submit, io_submit, io_submit_eagain, io_submit_error, submit_batch_return,
      SubmitReturns, aio_wait_call, aio_wait_test, Called, SpuriousWakeup, release_running_aios,
      DeleteContext, pwritev, write_return, flush_call, Flush, flush_skip, flush_exchange, fdatasync,
      flush_return, fdatasync_fails, FlushReturns0, threadVars, Shape
  <2>1. CASE aio_wait_test(c)
    <3>1. pc'[c] = "waited" => ioc[c].num_running = 0 /\ ~Locked(c)
      BY <2>1 DEF aio_wait_test, Shape, Context
    <3>2. ~AtCallback(c)
      BY <2>1 DEF aio_wait_test, CallbackSound, ThreadSound, AtCallback
    <3>3. pc'[c] # "deleted" /\ ioc' = ioc BY <2>1 DEF aio_wait_test, Shape
    <3> QED BY <2>0, <3>1, <3>2, <3>3 DEF DoneMeansDone, Locked, AtCallback
  <2>2. CASE Called(c)
    <3>1. ioc[c].num_running = 0 /\ ~AtCallback(c) /\ c \in CallbackCtx
      BY <2>2 DEF Called, CallbackSound
    <3>2. ioc'[c].num_running = 0 BY <2>2, <3>1 DEF Called, Shape, Context
    <3>3. ~(tpc = "notify" /\ hand[1] = c) BY <3>1 DEF ThreadSound
    <3> QED BY <2>0, <3>1, <3>2, <3>3 DEF DoneMeansDone, AtCallback
  <2>3. CASE DeleteContext(c)
    <3>1. ioc' = ioc /\ pc[c] = "waited" BY <2>3 DEF DeleteContext
    <3> QED BY <2>0, <3>1 DEF DoneMeansDone
  <2>4. CASE ~(aio_wait_test(c) \/ Called(c) \/ DeleteContext(c))
    <3>1. pc'[c] \notin {"waited", "deleted"}
      BY <1>1, <2>4 DEF Client, Submit, aio_write, aio_submit, io_submit, io_submit_eagain, io_submit_error, submit_batch_return,
      SubmitReturns, aio_wait_call, SpuriousWakeup, release_running_aios,
      pwritev, write_return, flush_call, Flush, flush_skip, flush_exchange, fdatasync,
      flush_return, fdatasync_fails, FlushReturns0, Shape
    <3> QED BY <2>0, <3>1 DEF DoneMeansDone
  <2> QED BY <2>1, <2>2, <2>3, <2>4
<1>2. CASE Kernel \/ get_next_completed \/ BatchDone \/ close_stop \/ close_join \/ open
  <2>1. UNCHANGED <<pc, ioc, hand>> /\ (tpc' \in {"notify", "callback"} => tpc' = tpc)
    BY <1>2 DEF Kernel, Complete, Fail, get_next_completed, BatchDone, close_stop, close_join, open,
      clientVars, threadVars
  <2> QED BY <2>1 DEF DoneMeansDone
<1>3. ASSUME NEW e \in batch, TakeCompletion(e) PROVE DoneMeansDone'
  <2>1. /\ pc' = pc /\ tpc' \notin {"notify", "callback"}
        /\ \A d \in Ctx : ioc'[d].num_running = ioc[d].num_running
    BY <1>3 DEF TakeCompletion, Shape, Context
  <2> QED BY <2>1 DEF DoneMeansDone
<1>4. CASE try_aio_wake \/ callback_dec
  <2>1. PICK c \in Ctx : c = hand[1] /\ tpc = "dec" /\ hand \in Aio
    BY <1>4, AioFields DEF try_aio_wake, callback_dec, ThreadSound, Accounting
  <2>2. pc' = pc /\ hand' = hand /\ \A d \in Ctx \ {c} : ioc'[d] = ioc[d]
    BY <1>4, <2>1 DEF try_aio_wake, callback_dec, FetchSub, Shape
  <2>3. hand \in Outstanding(c) BY <2>1 DEF Outstanding
  <2>4. ioc[c].num_running # 0 BY <2>3, NothingOutstanding
  <2>5. pc[c] \notin {"waited", "deleted"} BY <2>4 DEF DoneMeansDone
  <2> QED BY <2>1, <2>2, <2>5 DEF DoneMeansDone
<1>5. CASE notify_all \/ aio_callback
  <2>1. /\ tpc' \notin {"notify", "callback"}
        /\ \A d \in Ctx : ioc'[d].num_running = ioc[d].num_running
        /\ \A d \in Ctx : pc'[d] = pc[d] \/ pc'[d] = "wait"
    BY <1>5 DEF notify_all, NotifyAll, aio_callback, Shape, Context
  <2> QED BY <2>1 DEF DoneMeansDone
<1> QED BY <1>1, <1>2, <1>3, <1>4, <1>5 DEF Next, _aio_thread

(* Once stop_ is set nothing is outstanding anywhere.                      *)
LEMMA StoppedIsQuiet ==
  ASSUME Shape, OnePlace, CountExact, ThreadSound, CallbackSound, DoneMeansDone, StopSound, stop,
         NEW c \in Ctx
  PROVE  ioc[c].num_running = 0 /\ Outstanding(c) = {} /\ ~AtCallback(c)
<1>1. ioc[c].num_running = 0 BY DEF StopSound, Quiet, FreshContext, DoneMeansDone
<1>2. ~AtCallback(c)
  BY DEF StopSound, Quiet, DoneMeansDone, AtCallback, CallbackSound, ThreadSound
<1> QED BY <1>1, <1>2, NothingOutstanding

(* After close has set stop_ no client is in a call and the completion     *)
(* thread changes no context.                                              *)
LEMMA StopStep ==
  ASSUME Shape, OnePlace, CountExact, ThreadSound, CallbackSound, DoneMeansDone, StopSound, Next
  PROVE  StopSound'
<1>1. ASSUME NEW c \in Ctx, Client(c), stop PROVE FALSE
  BY <1>1 DEF StopSound, Quiet, FreshContext, InUse, Client, Submit, aio_write, aio_submit, io_submit, io_submit_eagain,
     io_submit_error, submit_batch_return, aio_wait_call, aio_wait_test, Called, SpuriousWakeup, release_running_aios,
      DeleteContext, pwritev, write_return, flush_call, Flush, flush_skip, flush_exchange, fdatasync,
      flush_return, fdatasync_fails
<1>2. ASSUME NEW c \in Ctx, Client(c) PROVE stop' = stop
  BY <1>2 DEF Client, Submit, aio_write, aio_submit, io_submit, io_submit_eagain, io_submit_error, submit_batch_return,
      aio_wait_call, aio_wait_test, Called, SpuriousWakeup, release_running_aios,
      DeleteContext, pwritev, write_return, flush_call, Flush, flush_skip, flush_exchange, fdatasync,
      flush_return, fdatasync_fails, threadVars
<1>3. CASE Kernel \/ get_next_completed \/ BatchDone \/ close_stop \/ close_join \/ open
  BY <1>3 DEF Kernel, Complete, Fail, get_next_completed, BatchDone, close_stop, close_join, open,
      clientVars, threadVars, StopSound, Quiet
<1>4. stop => \A c \in Ctx : ioc[c].num_running = 0 /\ Outstanding(c) = {} /\ ~AtCallback(c)
  BY StoppedIsQuiet
<1>5. ASSUME NEW e \in batch, TakeCompletion(e) PROVE ~stop /\ stop' = stop
  <2>1. e.aio \in Outstanding(e.aio[1]) /\ e.aio[1] \in Ctx
    BY AioFields DEF Shape, Completion, Outstanding
  <2> QED BY <1>4, <1>5, <2>1 DEF TakeCompletion
<1>6. CASE try_aio_wake \/ callback_dec
  <2>1. tpc = "dec" /\ hand[1] \in Ctx /\ hand \in Aio /\ stop' = stop
    BY <1>6, AioFields DEF try_aio_wake, callback_dec, ThreadSound, Accounting
  <2>2. hand \in Outstanding(hand[1]) BY <2>1 DEF Outstanding
  <2> QED BY <1>4, <2>1, <2>2 DEF StopSound
<1>7. CASE notify_all
  BY <1>7 DEF notify_all, NotifyAll, StopSound, Quiet, Shape
<1>8. CASE aio_callback
  <2>1. tpc = "callback" /\ hand[1] \in Ctx /\ stop' = stop
    BY <1>8, AioFields DEF aio_callback, ThreadSound, Accounting
  <2> QED BY <1>4, <2>1 DEF AtCallback, StopSound
<1> QED BY <1>1, <1>2, <1>3, <1>5, <1>6, <1>7, <1>8 DEF Next, _aio_thread, StopSound

(* A client on a device with a callback is in submit_batch or waiting as   *)
(* long as an I/O of it is counted or a callback is due, and is called     *)
(* once.                                                                   *)
LEMMA CallbackStep ==
  ASSUME Shape, OnePlace, CountExact, ThreadSound, CallbackSound, Next
  PROVE  CallbackSound'
<1>1. ASSUME NEW c \in Ctx, Client(c) PROVE CallbackSound'
  <2>0. UNCHANGED <<tpc, hand>> /\ \A d \in Ctx \ {c} : pc'[d] = pc[d] /\ ioc'[d] = ioc[d]
    BY <1>1 DEF Client, Submit, aio_write, aio_submit, io_submit, io_submit_eagain, io_submit_error, submit_batch_return,
      SubmitReturns, aio_wait_call, aio_wait_test, Called, SpuriousWakeup, release_running_aios,
      DeleteContext, pwritev, write_return, flush_call, Flush, flush_skip, flush_exchange, fdatasync,
      flush_return, fdatasync_fails, FlushReturns0, threadVars, Shape
  <2>1. SUFFICES
          /\ c \in CallbackCtx =>
               /\ ioc'[c].num_running > 0 \/ ioc'[c].called \/ AtCallback(c) => pc'[c] \in {"submit", "await"}
               /\ ioc'[c].called => ioc'[c].num_running = 0 /\ ~AtCallback(c)
               /\ pc'[c] \notin {"wait", "blocked"}
          /\ pc'[c] = "await" => c \in CallbackCtx
    BY <2>0, KernelDeviceAssumption DEF CallbackSound, AtCallback
  <2>2. CASE aio_write(c)
    BY <2>2 DEF aio_write, CallbackSound, Shape, Context
  <2>3. CASE aio_submit(c)
    <3>1. ioc'[c].called = ioc[c].called /\ pc'[c] = "submit" /\ pc[c] = "ready"
      BY <2>3 DEF aio_submit, Shape, Context
    <3> QED BY <3>1 DEF CallbackSound
  <2>4. CASE io_submit(c) \/ io_submit_eagain(c)
    BY <2>4 DEF io_submit, io_submit_eagain, CallbackSound
  <2>5. CASE io_submit_error(c) \/ submit_batch_return(c)
    <3>1. /\ ioc'[c].called = ioc[c].called /\ ioc'[c].num_running = ioc[c].num_running
          /\ pc'[c] = IF c \in CallbackCtx THEN "await" ELSE "ready"
      BY <2>5 DEF io_submit_error, submit_batch_return, SubmitReturns, Shape, Context
    <3> QED BY <3>1 DEF CallbackSound
  <2>6. CASE Called(c)
    <3>1. pc'[c] = "waited" /\ ~ioc'[c].called /\ ioc'[c].num_running = ioc[c].num_running /\ ioc[c].called
      BY <2>6 DEF Called, Shape, Context
    <3>2. c \in CallbackCtx => ~(ioc[c].num_running > 0) BY <3>1 DEF CallbackSound
    <3> QED BY <3>1, <3>2 DEF CallbackSound
  <2>7. CASE aio_wait_call(c) \/ aio_wait_test(c) \/ SpuriousWakeup(c)
    <3>1. c \notin CallbackCtx BY <2>7 DEF aio_wait_call, aio_wait_test, SpuriousWakeup, CallbackSound
    <3>2. pc'[c] # "await" BY <2>7 DEF aio_wait_call, aio_wait_test, SpuriousWakeup, Shape
    <3> QED BY <3>1, <3>2
  <2>8. CASE release_running_aios(c) \/ DeleteContext(c) \/ pwritev(c) \/ write_return(c) \/ flush_call(c) \/ Flush(c)
    <3>1. /\ ioc' = ioc /\ pc[c] \notin {"submit", "await"}
          /\ pc'[c] \notin {"await", "wait", "blocked"}
      BY <2>8 DEF release_running_aios, DeleteContext, pwritev, write_return, flush_call, Flush,
        flush_skip, flush_exchange, fdatasync, flush_return, fdatasync_fails, FlushReturns0, Shape
    <3> QED BY <3>1 DEF CallbackSound
  <2> QED BY <1>1, <2>2, <2>3, <2>4, <2>5, <2>6, <2>7, <2>8 DEF Client, Submit
<1>2. CASE Kernel \/ get_next_completed \/ BatchDone \/ close_stop \/ close_join \/ open
  <2>1. UNCHANGED <<pc, ioc, hand>> /\ (tpc' = "callback" <=> tpc = "callback")
    BY <1>2 DEF Kernel, Complete, Fail, get_next_completed, BatchDone, close_stop, close_join, open,
      clientVars, threadVars
  <2> QED BY <2>1 DEF CallbackSound, AtCallback
<1>3. ASSUME NEW e \in batch, TakeCompletion(e) PROVE CallbackSound'
  <2>1. /\ pc' = pc /\ tpc' # "callback" /\ tpc # "callback"
        /\ \A d \in Ctx : ioc'[d].num_running = ioc[d].num_running /\ ioc'[d].called = ioc[d].called
    BY <1>3 DEF TakeCompletion, Shape, Context
  <2> QED BY <2>1, KernelDeviceAssumption DEF CallbackSound, AtCallback
<1>4. CASE try_aio_wake \/ callback_dec
  <2>1. PICK c \in Ctx : c = hand[1] /\ tpc = "dec" /\ hand \in Aio
    BY <1>4, AioFields DEF try_aio_wake, callback_dec, ThreadSound, Accounting
  <2>2. pc' = pc /\ hand' = hand /\ \A d \in Ctx \ {c} : ioc'[d] = ioc[d]
    BY <1>4, <2>1 DEF try_aio_wake, callback_dec, FetchSub, Shape
  <2>3. ioc'[c].called = ioc[c].called
    <3>1. ioc' = [ioc EXCEPT ![c].num_running = ioc[c].num_running - 1]
      BY <1>4, <2>1 DEF try_aio_wake, callback_dec, FetchSub
    <3> QED BY <3>1 DEF Shape, Context
  <2>4. hand \in Outstanding(c) BY <2>1 DEF Outstanding
  <2>5. ioc[c].num_running # 0 /\ ioc[c].num_running > 0 BY <2>4, NothingOutstanding DEF Shape, Context
  <2>6. CASE c \notin CallbackCtx
    <3>1. tpc' # "callback" BY <1>4, <2>1, <2>6 DEF try_aio_wake, callback_dec
    <3> QED BY <2>1, <2>2, <2>6, <3>1, KernelDeviceAssumption DEF CallbackSound, AtCallback
  <2>7. CASE c \in CallbackCtx
    <3>1. pc[c] \in {"submit", "await"} /\ ~ioc[c].called BY <2>5, <2>7 DEF CallbackSound
    <3> QED BY <2>1, <2>2, <2>3, <3>1, KernelDeviceAssumption DEF CallbackSound, AtCallback
  <2> QED BY <2>6, <2>7
<1>5. CASE notify_all
  <2>1. /\ tpc' # "callback" /\ tpc # "callback" /\ ioc' = ioc /\ hand[1] \notin CallbackCtx
        /\ \A d \in Ctx : pc'[d] = pc[d] \/ (d = hand[1] /\ pc'[d] = "wait")
    BY <1>5 DEF notify_all, NotifyAll, ThreadSound, Shape
  <2> QED BY <2>1, KernelDeviceAssumption DEF CallbackSound, AtCallback
<1>6. CASE aio_callback
  <2>1. PICK c \in Ctx : c = hand[1] /\ tpc = "callback"
    BY <1>6, AioFields DEF aio_callback, ThreadSound, Accounting
  <2>2. pc' = pc /\ tpc' # "callback" /\ \A d \in Ctx \ {c} : ioc'[d] = ioc[d]
    BY <1>6, <2>1 DEF aio_callback, Shape
  <2>3. ioc'[c].num_running = ioc[c].num_running /\ (ioc'[c].called => ioc[c].called \/ zero)
    <3>1. ioc' = [ioc EXCEPT ![c].called = ioc[c].called \/ zero] BY <1>6, <2>1 DEF aio_callback
    <3> QED BY <3>1 DEF Shape, Context
  <2>4. c \in CallbackCtx /\ ~ioc[c].called /\ pc[c] \in {"submit", "await"} /\ (zero => ioc[c].num_running = 0)
    BY <2>1 DEF ThreadSound, CallbackSound, AtCallback
  <2> QED BY <2>1, <2>2, <2>3, <2>4, KernelDeviceAssumption DEF CallbackSound, AtCallback
<1> QED BY <1>1, <1>2, <1>3, <1>4, <1>5, <1>6 DEF Next, _aio_thread

(* io_since_flush_ is set, or an fdatasync is running, whenever some       *)
(* client knows of a write that no fdatasync has covered: aio_wait and the *)
(* callback learn of it after _aio_thread has set the flag, the            *)
(* synchronous write sets it before it returns, and the exchange in flush  *)
(* is followed by an fdatasync under flush_mutex_.                         *)
LEMMA FlushStep ==
  ASSUME Shape, OnePlace, CountExact, ThreadSound, CallbackSound, DoneMeansDone, StopSound, FlushSound, Next
  PROVE  FlushSound'
<1>1. ASSUME NEW c \in Ctx, Client(c) PROVE FlushSound'
  <2>0. Finished' = Finished
    BY <1>1 DEF Finished, Client, Submit, aio_write, aio_submit, io_submit, io_submit_eagain, io_submit_error, submit_batch_return,
      aio_wait_call, aio_wait_test, Called, SpuriousWakeup, release_running_aios,
      DeleteContext, pwritev, write_return, flush_call, Flush, flush_skip, flush_exchange, fdatasync,
      flush_return, fdatasync_fails, threadVars, queueVars
  <2>1. CASE aio_wait_test(c) \/ Called(c)
    <3>1. UNCHANGED <<since, syncFailed, volatile, owed>> /\ seen' \subseteq seen \cup Of(c, volatile)
      BY <2>1 DEF aio_wait_test, Called, diskVars
    <3>2. /\ pc[c] \notin {"written", "fdatasync"} /\ pc'[c] \notin {"written", "fdatasync", "flushed"}
          /\ \A d \in Ctx \ {c} : pc'[d] = pc[d]
      BY <2>1 DEF aio_wait_test, Called, Shape
    <3>3. Covered' = Covered BY <3>1, <3>2 DEF Covered
    <3>4. seen' # seen => ioc[c].num_running = 0
      BY <2>1, KernelDeviceAssumption DEF aio_wait_test, Called, CallbackSound, Shape, Context
    <3>5. seen' # seen => Outstanding(c) = {} BY <3>4, NothingOutstanding
    <3>6. seen' # seen => \A a \in Of(c, volatile) : Covered
      <4> SUFFICES ASSUME seen' # seen, NEW a \in volatile, a[1] = c PROVE Covered BY DEF Of
      <4>1. a \notin Finished BY <3>5 DEF Outstanding, Finished
      <4> QED BY <3>2, <4>1 DEF FlushSound
    <3>7. seen' # {} => Covered BY <3>1, <3>6 DEF FlushSound
    <3>8. \A a \in volatile' : a \in Finished' \/ pc'[a[1]] = "written" \/ Covered'
      BY <2>0, <3>1, <3>2, <3>3, AioFields DEF FlushSound, Shape
    <3>9. \A d \in Ctx : owed'[d] # {} => Covered' /\ pc'[d] # "flushed"
      BY <3>1, <3>2, <3>3 DEF FlushSound
    <3> QED BY <3>3, <3>7, <3>8, <3>9 DEF FlushSound
  <2>2. CASE pwritev(c)
    <3>1. /\ UNCHANGED <<since, syncFailed, seen, owed>> /\ volatile' = volatile \cup {<<c, next>>}
          /\ pc[c] = "ready" /\ pc'[c] = "written" /\ \A d \in Ctx \ {c} : pc'[d] = pc[d]
      BY <2>2 DEF pwritev, histVars, Shape
    <3>2. Covered' = Covered BY <3>1 DEF Covered
    <3> QED BY <2>0, <3>1, <3>2, AioFields DEF FlushSound, Shape
  <2>3. CASE write_return(c)
    <3>1. Covered' BY <2>3 DEF write_return, Covered
    <3> QED BY <2>3, <3>1 DEF write_return, FlushSound, Shape
  <2>4. CASE flush_call(c)
    <3>1. Covered' = Covered BY <2>4 DEF flush_call, Covered, diskVars, Shape
    <3> QED BY <2>0, <2>4, <3>1, AioFields DEF flush_call, FlushSound, diskVars, Shape
  <2>5. CASE flush_skip(c) \/ flush_return(c)
    <3>1. /\ UNCHANGED <<since, syncFailed, seen, volatile>> /\ pc[c] \in {"flush", "flushed"} /\ pc'[c] = "ready"
          /\ \A d \in Ctx \ {c} : pc'[d] = pc[d] /\ owed'[d] = owed[d]
          /\ owed'[c] = {}
      BY <2>5 DEF flush_skip, flush_return, FlushReturns0, diskVars, Shape
    <3>2. Covered' = Covered BY <3>1 DEF Covered
    <3> QED BY <2>0, <3>1, <3>2, AioFields DEF FlushSound, Shape
  <2>6. CASE flush_exchange(c)
    <3>1. Covered' BY <2>6 DEF flush_exchange, Covered, Shape
    <3> QED BY <2>6, <3>1 DEF flush_exchange, FlushSound, histVars, Shape
  <2>7. CASE fdatasync(c)
    BY <2>7 DEF fdatasync, FlushSound
  <2>8. CASE fdatasync_fails(c)
    <3>1. Covered' BY <2>8 DEF fdatasync_fails, Covered
    <3> QED BY <2>8, <3>1 DEF fdatasync_fails, FlushSound, diskVars, Shape
  <2>9. CASE \/ aio_write(c) \/ aio_submit(c) \/ Submit(c) \/ aio_wait_call(c) \/ SpuriousWakeup(c)
             \/ release_running_aios(c) \/ DeleteContext(c)
    <3>1. /\ UNCHANGED <<since, syncFailed, seen, volatile, owed>>
          /\ pc[c] \notin {"written", "fdatasync"} /\ pc'[c] \notin {"written", "fdatasync", "flushed"}
          /\ \A d \in Ctx \ {c} : pc'[d] = pc[d]
      BY <2>9 DEF aio_write, aio_submit, Submit, io_submit, io_submit_eagain, io_submit_error, submit_batch_return, SubmitReturns,
        aio_wait_call, SpuriousWakeup, release_running_aios, DeleteContext, diskVars, histVars, Shape
    <3>2. Covered' = Covered BY <3>1 DEF Covered
    <3> QED BY <2>0, <3>1, <3>2, AioFields DEF FlushSound, Shape
  <2> QED BY <1>1, <2>1, <2>2, <2>3, <2>4, <2>5, <2>6, <2>7, <2>8, <2>9 DEF Client, Flush
<1>2. ASSUME NEW a \in kernel, Complete(a) \/ Fail(a) PROVE FlushSound'
  <2>1. PICK e : /\ e.aio = a /\ events' = events \cup {e} /\ volatile' \subseteq volatile \cup {a}
                 /\ UNCHANGED <<pc, batch, since, seen, owed, syncFailed>>
    BY <1>2 DEF Complete, Fail, clientVars, threadVars, histVars, diskVars
  <2>2. Finished' = Finished \cup {a} /\ Covered' = Covered BY <2>1 DEF Finished, Covered
  <2> QED BY <2>1, <2>2 DEF FlushSound
<1>3. CASE get_next_completed \/ BatchDone \/ try_aio_wake \/ callback_dec \/ aio_callback \/ close_stop \/ open
  <2>1. UNCHANGED <<pc, since, seen, volatile, owed, syncFailed>> /\ events' \cup batch' = events \cup batch
    BY <1>3 DEF get_next_completed, BatchDone, try_aio_wake, callback_dec, aio_callback, close_stop, open,
      clientVars, queueVars, histVars, diskVars, ThreadSound
  <2> QED BY <2>1 DEF FlushSound, Finished, Covered
<1>4. ASSUME NEW e \in batch, TakeCompletion(e) PROVE FlushSound'
  <2>1. Covered' /\ UNCHANGED <<pc, owed>> BY <1>4 DEF TakeCompletion, Covered, histVars
  <2> QED BY <2>1 DEF FlushSound
<1>5. CASE notify_all
  <2>1. UNCHANGED <<events, batch, since, seen, volatile, owed, syncFailed>>
    BY <1>5 DEF notify_all, queueVars, histVars, diskVars
  <2>2. \A d \in Ctx : pc'[d] = pc[d] \/ (pc[d] = "blocked" /\ pc'[d] = "wait")
    BY <1>5 DEF notify_all, NotifyAll, Shape
  <2>3. Covered' = Covered BY <2>1, <2>2 DEF Covered
  <2> QED BY <2>1, <2>2, <2>3, AioFields DEF FlushSound, Finished, Shape
<1>6. CASE close_join
  <2>1. Finished = {}
    <3> SUFFICES ASSUME NEW e \in events \cup batch PROVE FALSE BY DEF Finished
    <3>1. stop /\ e.aio \in Outstanding(e.aio[1]) /\ e.aio[1] \in Ctx
      BY <1>6, AioFields DEF close_join, Shape, Completion, Outstanding
    <3> QED BY <3>1, StoppedIsQuiet
  <2> QED BY <1>6, <2>1 DEF close_join, FlushSound, Covered, clientVars, diskVars, histVars
<1> QED BY <1>1, <1>2, <1>3, <1>4, <1>5, <1>6 DEF Next, Kernel, _aio_thread

-----------------------------------------------------------------------------
(* The invariant is inductive. *)

(* A newly opened device satisfies the invariant.                          *)
LEMMA InitInv == Init => Inv
<1> SUFFICES ASSUME Init PROVE Inv OBVIOUS
<1> USE DEF Init, FreshContext, NoBatch, Finished, InHand, Accounting
<1>0. Attempts \in Nat /\ MaxAio \in Nat /\ MaxErrors \in Nat BY KernelDeviceAssumption
<1>1. Shape
  <2>1. FreshContext \in Context /\ NoBatch \in Submission BY <1>0 DEF Context, Submission
  <2>2. ioc \in [Ctx -> Context] /\ sub \in [Ctx -> Submission] BY <2>1
  <2>3. next \in 1..(MaxAio + 1) /\ errors \in 0..MaxErrors BY <1>0
  <2> QED BY <2>2, <2>3 DEF Shape
<1>2. OnePlace /\ LeftWhileSubmitting /\ FailuresKnown
  BY DEF OnePlace, LeftWhileSubmitting, FailuresKnown
<1>3. CountExact /\ Bounded
  <2>1. \A c \in Ctx : Outstanding(c) = {} BY DEF Outstanding
  <2>2. \A c \in Ctx : ioc[c].num_running = 0 /\ ioc[c].pending = {} /\ sub[c].left = {} /\ sub[c].r = 0
    OBVIOUS
  <2>3. Cardinality({}) = 0 BY FS_EmptySet
  <2>5. next = 1 OBVIOUS
  <2>4. ASSUME NEW c \in Ctx PROVE Cardinality(Outstanding(c)) = 0 /\ BoundedAt(c)
    <3>1. Cardinality(Outstanding(c)) = 0 BY <2>1, <2>3
    <3>2. Cardinality(ioc[c].pending) = 0 /\ Cardinality(sub[c].left) = 0 BY <2>2, <2>3
    <3> HIDE DEF Init
    <3>3. BoundedAt(c) BY <1>0, <2>2, <2>5, <3>2 DEF BoundedAt
    <3> QED BY <3>1, <3>3
  <2> HIDE DEF Init
  <2> QED BY <2>2, <2>4 DEF CountExact, Bounded
<1>4. ThreadSound /\ DoneMeansDone
  BY DEF ThreadSound, DoneMeansDone
<1>5. CallbackSound
  <2>1. \A c \in Ctx : ioc[c].num_running = 0 /\ ~ioc[c].called /\ pc[c] = "ready" OBVIOUS
  <2>2. tpc = "poll" OBVIOUS
  <2> QED BY <2>1, <2>2, KernelDeviceAssumption DEF CallbackSound, AtCallback
<1>6. StopSound /\ FlushSound
  BY DEF StopSound, FlushSound
<1> QED BY <1>1, <1>2, <1>3, <1>4, <1>5, <1>6 DEF Inv

(* The invariant depends on the variables only.                            *)
LEMMA StutterInv == ASSUME Inv, UNCHANGED vars PROVE Inv'
<1> USE DEF Inv, vars, clientVars, queueVars, threadVars, diskVars, histVars, boundVars
<1>1. Shape' /\ OnePlace' /\ LeftWhileSubmitting' /\ FailuresKnown'
  BY DEF Shape, OnePlace, LeftWhileSubmitting, FailuresKnown, Finished, InHand
<1>2. \A c \in Ctx : Outstanding(c)' = Outstanding(c) BY DEF Outstanding
<1>3. CountExact' /\ Bounded' BY <1>2 DEF CountExact, Bounded, BoundedAt
<1>4. ThreadSound' /\ DoneMeansDone' /\ CallbackSound'
  BY DEF ThreadSound, Accounting, DoneMeansDone, CallbackSound, AtCallback
<1>5. StopSound' /\ FlushSound'
  BY DEF StopSound, Quiet, FlushSound, Covered, Finished
<1> QED BY <1>1, <1>3, <1>4, <1>5

(* Every step keeps the invariant.                                         *)
LEMMA StepInv == Inv /\ [Next]_vars => Inv'
<1> SUFFICES ASSUME Inv, Next PROVE Inv' BY StutterInv
<1> USE DEF Inv
<1>1. CASE \E c \in Ctx : Client(c)
  <2>1. Shape' /\ OnePlace' /\ CountExact' BY <1>1, ClientShape, OnePlaceClient, CountClient
  <2> QED BY <2>1, BoundedStep, SubmitterStep, FailuresStep, ThreadStep, DoneStep, CallbackStep, StopStep, FlushStep
<1>2. CASE Kernel \/ _aio_thread \/ close_stop \/ close_join \/ open
  <2>1. Shape' /\ OnePlace' /\ CountExact' BY <1>2, OtherShape, OnePlaceOther, CountOther
  <2> QED BY <2>1, BoundedStep, SubmitterStep, FailuresStep, ThreadStep, DoneStep, CallbackStep, StopStep, FlushStep
<1> QED BY <1>1, <1>2 DEF Next

(* The invariant holds for any number of contexts, any queue depth and any *)
(* number of I/Os, retries and errors.                                     *)
THEOREM Invariant == Spec => []Inv
<1>1. Init => Inv BY InitInv
<1>2. Inv /\ [Next]_vars => Inv' BY StepInv
<1> QED BY <1>1, <1>2, PTL DEF Spec

-----------------------------------------------------------------------------
(* What follows from it. *)

(* The type invariant of KernelDevice follows.                             *)
LEMMA InvTypeOK == Inv => KernelDeviceTypeOK
<1> SUFFICES ASSUME Inv PROVE KernelDeviceTypeOK OBVIOUS
<1> USE DEF Inv
<1>1. \A c \in Ctx :
        /\ ioc[c].pending \subseteq Aio /\ ioc[c].r \in {0, -1} /\ ioc[c].called \in BOOLEAN
        /\ sub[c].left \subseteq Aio /\ sub[c].attempts \in 0..Attempts
        /\ owed[c] \subseteq Aio
  BY DEF Shape, Context, Submission
<1>2. ASSUME NEW c \in Ctx PROVE ioc[c].num_running \in 0..MaxAio /\ sub[c].r \in 0..MaxAio
  <2>1. /\ ioc[c].num_running \in Nat /\ sub[c].r \in Nat
        /\ Cardinality(ioc[c].pending) \in Nat /\ Cardinality(sub[c].left) \in Nat
        /\ MaxAio \in Nat /\ next \in Nat /\ next <= MaxAio + 1
    BY FiniteSets, KernelDeviceAssumption DEF Shape, Context, Submission
  <2> QED BY <2>1 DEF Bounded, BoundedAt
<1>3. events \cup batch \subseteq [aio : Aio, ok : BOOLEAN] BY DEF Shape, Completion
<1> QED BY <1>1, <1>2, <1>3 DEF Shape, KernelDeviceTypeOK

(* Every variable of the device keeps its type; the unsigned num_running   *)
(* of kernel_device.cc never wraps below zero and never exceeds the I/Os   *)
(* made.                                                                   *)
THEOREM TypeCorrect == Spec => []KernelDeviceTypeOK
BY Invariant, InvTypeOK, PTL

(* num_running of an IOContext is never below the number of its I/Os that  *)
(* the kernel or the completion thread still refers to, and equals it      *)
(* while none of them failed.                                              *)
THEOREM Counting == Spec => []CountExact
<1>1. Inv => CountExact BY DEF Inv
<1> QED BY <1>1, Invariant, PTL

(* Once aio_wait has returned, or the callback was made, neither the       *)
(* kernel nor _aio_thread refers to the context: its owner may delete it   *)
(* and the aio_t's at once, whatever the interleaving of submission,       *)
(* completion and wakeup.                                                  *)
THEOREM DeletingIsSafe == Spec => []NoUseAfterFree
<1>1. Inv => NoUseAfterFree
  <2> SUFFICES ASSUME Inv, NEW c \in Ctx, pc[c] \in {"waited", "deleted"}
               PROVE  /\ Outstanding(c) = {}
                      /\ tpc \in {"dec", "notify", "callback"} => hand[1] # c
    BY DEF NoUseAfterFree
  <2> USE DEF Inv
  <2>1. Outstanding(c) = {} BY NothingOutstanding DEF DoneMeansDone
  <2>2. tpc = "dec" => hand \notin {a \in {hand} : a[1] = c} BY <2>1 DEF Outstanding
  <2> QED BY <2>1, <2>2 DEF DoneMeansDone
<1> QED BY <1>1, Invariant, PTL

(* When flush returns 0, every write known to be done when it was called   *)
(* is covered by an fdatasync, although flush skips its own when           *)
(* io_since_flush_ is clear; until an fdatasync fails.                     *)
THEOREM FlushIsDurable == Spec => FlushDurable
<1>1. Inv /\ [Next]_vars =>
        [\A c \in Ctx : pc[c] \in {"flush", "flushed"} /\ pc'[c] = "ready" /\ ~syncFailed
                          => owed[c] = {}]_vars
  <2> SUFFICES ASSUME Inv, Next, NEW c \in Ctx,
                      pc[c] \in {"flush", "flushed"}, pc'[c] = "ready", ~syncFailed
               PROVE  owed[c] = {}
    OBVIOUS
  <2> USE DEF Inv
  <2>1. CASE pc[c] = "flushed" BY <2>1 DEF FlushSound
  <2>2. CASE pc[c] = "flush"
    <3>1. flush_skip(c)
      <4>1. ASSUME NEW d \in Ctx, Client(d) PROVE d = c
        <5>1. \A x \in Ctx \ {d} : pc'[x] = pc[x]
          BY <4>1 DEF Client, Submit, aio_write, aio_submit, io_submit, io_submit_eagain, io_submit_error,
            submit_batch_return, SubmitReturns, aio_wait_call, aio_wait_test, Called, SpuriousWakeup,
            release_running_aios, DeleteContext, pwritev, write_return, flush_call, Flush, flush_skip,
            flush_exchange, fdatasync, flush_return, fdatasync_fails, FlushReturns0, Shape
        <5> QED BY <2>2, <5>1
      <4>2. ~(Kernel \/ _aio_thread \/ close_stop \/ close_join \/ open)
        <5>1. Kernel \/ _aio_thread \/ close_stop \/ close_join \/ open => pc'[c] = pc[c]
          BY <2>2 DEF Kernel, Complete, Fail, _aio_thread, get_next_completed, BatchDone, TakeCompletion,
            try_aio_wake, notify_all, NotifyAll, callback_dec, aio_callback, close_stop, close_join, open,
            clientVars, Shape
        <5> QED BY <2>2, <5>1
      <4>3. Client(c) BY <4>1, <4>2 DEF Next
      <4> QED BY <2>2, <4>3 DEF Client, Submit, aio_write, aio_submit, io_submit, io_submit_eagain,
            io_submit_error, submit_batch_return, aio_wait_call, aio_wait_test, Called, SpuriousWakeup,
            release_running_aios, DeleteContext, pwritev, write_return, flush_call, Flush,
            flush_exchange, fdatasync, flush_return, fdatasync_fails, Shape
    <3>2. ~Covered BY <3>1 DEF flush_skip, FlushLocked, Covered
    <3> QED BY <3>2 DEF FlushSound
  <2> QED BY <2>1, <2>2
<1> QED BY <1>1, Invariant, PTL DEF Spec, FlushDurable

=============================================================================
