# A TLA+ model of clab

`clab` is a C++ storage laboratory: a two-tier key-value store (**btier**), a port of
Ceph's **BlueFS** with its allocators, freelist and key-value back ends, and the
block-device and buffer code beneath both. This directory models the parts whose
correctness depends on interleavings, failures, restarts and long sequences of calls:
btier, the asynchronous block device, the block allocators, BlueFS, the bitmap freelist
on its key-value databases, and the bufferlist.

## Inventory

| Part | State it keeps | Operations | What makes it correct |
|---|---|---|---|
| `btier/extent_map` | entry per extent (location, state, generation, used and live bytes), free-space hints, deferred-free list, two allocators, migration handles | `append_slot`, `mark_dead_slot`, `allocate_extent`, `allocate_raw`, `begin/commit/abort/check_migration`, `free`, `process_deferred_free`, recovery helpers | a migration claim is a lock; a copy is committed only if nothing changed; space is owned once |
| `btier/key_map` | key -> location, extent -> keys | `lookup`, `put`, `erase`, `batch_update`, `keys_in_extent` | the two indexes agree |
| `btier/journal` | ring of blocks, superblock, write head | `commit_txn`, `checkpoint`, `recover`, fill levels | committed transactions survive power loss, in order, until a checkpoint replaces them |
| `btier/btier` | the four above | `init`, `put`, `get`, `del`, `sync`, `shutdown` | `get` returns what the last acknowledged call left |
| `btier/migration_engine` | worker thread, task queue | a cycle: release deferred space, choose, migrate, compact | moving data changes nothing a client can see |
| `btier/scoring_engine`, `config`, `btier_observer` | weights, parameters, log | scores, parsing, logging | (not modelled) |
| `blk/kernel_device`, `aio`, `io_context` | file descriptors, aio queue, pending counters | `read`, `write`, `flush`, `aio_submit`, reaping thread, `aio_wait` | every submitted context is woken once |
| `blk/*_allocator` | trees or bitmaps of free ranges | `allocate`, `release`, `init_add_free`, `init_rm_free` | never hand out a block twice, lose none |
| `bluestore/bluefs` | files, directories, metadata log, dirty list, superblock | `open_for_write`, `fsync`, `rename`, `unlink`, `sync_metadata`, `mount` (replay), log compaction (never reached) | what the superblock covers, as `sync_metadata` and `umount` leave it, is there after a crash (an `fsync` alone is not replayed, see Defects); no block is reused while the log needs it |
| `bluestore/bitmap_freelist_manager`, `kv/*` | XOR-merged bitmap keys, ordered maps | `allocate`, `release`, `enumerate`; transactions, merges, iterators | the bitmap equals the set of used blocks |
| `common/buffer`, `denc` | raw buffers shared by reference count, lists of windows into them, a carriage to append to, cached CRCs | `append`, `prepend`, `claim_append`, `substr_of`, `splice`, `rebuild_aligned`, `copy_in`, `crc32c`, `encode`/`decode` | a list is the bytes its calls describe; no two lists write into one tail; what goes to the device is aligned |
| `common/*` otherwise | - | formatting, logging, base64 | (not modelled) |

How they interact: `BtierEngine` owns the two devices, an AVL allocator for each, the
extent map, the key map, the journal (in the first part of the FAST device) and the
migration engine. BlueFS takes its space from an allocator and writes bufferlists
through the block device; the freelist manager keeps in a key-value database which
blocks are in use, and lists the free ones for whoever mounts (only the tests, so far).
Client threads call `put`, `get`, `del`; the migration thread runs cycles beside them.
Nothing is locked for the length of a call: each component locks for one method, so
calls interleave between methods. That is where the hard behaviour is. A method of the
extent map even releases the map's lock before it takes the entry's, so it may run on an
entry that `free()` has erased. A failure can stop a call between any two of its steps,
and a crash can cut it.

`PROJECT.json` lists the hazards by source line with the properties that cover them.

## Modules

| Module | Models |
|---|---|
| `ExtentMap` | `extent_map.cc`: the locked bodies of its methods as operators, and `ExtentMapSpec`, the map under arbitrary callers |
| `KeyMap` | `key_map.cc`, and `KeyMapSpec`, its use by arbitrary callers |
| `Btier` | `btier.cc` and `migration_engine.cc`: threads over the two maps, an abstract journal, crashes and restarts |
| `Journal` | `journal.cc`: the ring and superblock on a device that caches writes |
| `TxnLog` | what the journal promises: a log that grows at its end until a checkpoint replaces it |
| `KernelDevice` | `kernel_device.cc`, `aio.cc`, `io_context.cc`: clients, kernel and completion thread on one device |
| `BlueFS` | `bluefs.cc`, `bluefs_types`: files, writers, the metadata log, superblock, mount and crashes |
| `Allocator` | `avl_allocator`, `bitmap_allocator`, `hybrid_allocator`: trees, the three bitmap levels, the spillover between them |
| `FreeSpace` | what an allocator promises: blocks are free or lent, and only calls move them |
| `KeyValue` | `kv/`: transactions, merge operators, iterators, MemDB and what RocksDB adds and survives |
| `Freelist` | `bitmap_freelist_manager.cc` on `KeyValue`, beside another client of the database, with crashes |
| `Buffer` | `buffer.cc`, `buffer.h`, `crc32.cc` and the part of `denc.h` that writes through a list |
| `SharedBytes` | what a bufferlist promises: a sequence of references to byte cells |
| `MCBtier`, `MCJournal`, `MCKernelDevice`, `MCBlueFS`, `MCAllocator`, `MCFreelist`, `MCBuffer` | instances for TLC |
| `Induction` | induction along a loop and the ranking of a finite order, for the proofs about recursive functions and iterators |
| `FoldLoop` | the values a left fold goes through, for any step: instantiated for each fold a proof is about |
| `BtierProofs` (the two maps and the engine), `JournalProofs`, `KernelDeviceProofs`, `FreelistProofs`, `AllocatorProofs`, `BufferProofs` | theorems checked by TLAPS |

`Btier` composes `ExtentMap` and `KeyMap`; `Freelist` is built on `KeyValue`. Five
refinements are checked with `INSTANCE ... WITH` or by using the specification itself:
`Journal` implements `TxnLog`, `Allocator` implements `FreeSpace`, `Buffer` implements
`SharedBytes`, and `Btier` uses its maps only as `ExtentMapSpec` and `KeyMapSpec` allow.

**How state corresponds to code.** Devices are counted in units of one block. A location
is a run of units of one device, a header and then its slots; it is as long as what the
allocator gave. A small value takes one slot of an extent of `SmallSlots` slots
(`cfg.extent_size`), a large one asks for an extent of `Large` slots of its own, as
`large_value_threshold` decides, so free space breaks up into pieces of different
lengths. The unit of the header is allocated but its contents are left out: the header
is written at allocation and by `sync()`, and read only by recovery, which drops an
extent when its CRC is wrong; a process crash does not produce that. The packed metrics
word is kept as `state` and `gen`; the access counters only feed floating-point scores,
so `Btier` lets a cycle choose any extent. Byte counters wrap at `Word`:
`free_bytes_of` of an extent that was moved to a shorter location goes below zero.

The two AVL allocators are `space`, the number of times each unit is free: releasing a
location twice (which the code can do) makes it available twice, because `_add_to_tree`
does not check for overlap. (The trees would then hold two overlapping segments; the
model hands a unit out once per call, and a second time to a later call.) `Answers(t, n)`
are the answers of `AvlAllocator::_allocate`: the head of some segment that holds the
request (`OneExtent`: best fit or a cursor, so any), or else the longest segments, whole,
until the rest fits in one (`ManyExtents`). `allocate` keeps only the first extent of an
answer, as `allocate_extent` and `allocate_raw` do, and the others are `leaked`. With
less left than was asked the allocator gives all there is; `allocation_fails` takes it,
releases nothing, and the caller goes on to SLOW in a step of its own or fails.
`deferred_free_` is a set whose third component tells equal elements apart, as nothing
reads its order. `erased` holds ids between the two critical sections of `free()`.
Handles carry the extent's used and live slots at the claim as history, for the
properties.

In `Btier`, `cl[c]` is a client's program counter and locals, `mg` the worker's. An
action is one method call (its locked body) or one device I/O, with the guard and error
path the code has at that point: `PutAppend` includes the retry with a fresh extent,
`Undo` the two ways a failed put gives its slot back. `allocate_extent` is one step for
each tier it tries and one for the entry, as `next_extent_id++` is not synchronised.
`migrate_tier` copies what it read into `mg.copy`, and `TierWrite` puts all of it at the
offset it got, whatever the length of the location and on the device of the tier it
asked for; the part that falls past the end of the device is dropped, as buffered I/O is
not checked against it. `recover_internal` is one step, as it runs
before any thread starts. `data` maps each unit to the key and value last written there,
so reading a value means finding the right tag. `jlog` is the journal's promise; a
failed commit leaves the transaction behind or not. In this module a crash is the death
of the process: what was written to a device stays.

In `Journal`, blocks written since the last flush are in `pending`, and a power loss
keeps any subset of them. `recover` lists the blocks from the checkpoint to the head
(`Scanned`), finds the places where a transaction begins that has all its blocks in
place (`Whole`), which is what the CRC in its COMMIT record is for, and returns those in
their order (`Picked`). A recovered transaction is represented by its first block. The
callers are the engine's: a put checkpoints first at 95 %, and after its commit at 80 %;
dels and pre-transactions commit without looking.

In `KernelDevice` a client thread owns one `IOContext`; `pc[c]` is where it is. The
locks are not variables: `Locked(c)` says that the completion thread is inside
`try_aio_wake`, `FlushLocked` that some client is past the exchange in `flush`.
`aio_wait` tests and goes to sleep in one step, as `cond.wait` releases the lock
atomically, and may wake up for no reason. The kernel (external, modelled from its use)
accepts I/Os up to `Depth`, finishes them in any order and may fail them. `volatile` is
what the device has done since the last `fdatasync`; `seen` and `owed` record what a
client knew to be written when it called `flush`. The owner closes the device only when
no client has anything queued or in flight; closing earlier would leave its waiters
asleep, as the completion thread is joined first.

In `BlueFS` sizes and extents are counted in allocation units and a transaction fills
one unit of the log. `file[i]` is the `File` object of inode `i` with its fnode
(`committed` is `allocated_committed`), `link` the `file_map` of every directory, `log`
the log's sequence number, its unwritten operations (`t`) and its fnode, `dirty` the
three parts of `dirty_`. A call is one action where it holds its locks throughout;
`fsync` and `_flush_and_sync_log` are split where they release one: registration, the
comparison with `seq_stable`, the log write, `SetStable`, and the release of
`pending_release`, which takes no lock. `logged` and `super` are on the device: the log
is a sequence of transactions, and `_replay` a fold of `ReplayOp` over it that can stop
at a duplicate, return `-EIO` or fail an assertion. `data[b]` says for which file and
position a block was last written. Callers have one writer per file, append at the end
of the file and truncate to whole units. Compaction is missing because the code never
gets there: `_compact_log_async` sets `log_is_compacting_` and then calls
`_should_compact`, which returns false while it is set.

In `Allocator` lengths and offsets are in blocks. `avl` is the tree allocator: its
segments (the content of both trees), `num_free` and the cursors `lbas_`; `bmp` is the
bitmap: `l0` the set of free blocks, `l1` the two-bit entries, `l2` the regions whose
bit is set, and `available`. Both counters wrap at `WORD`. Every public method holds its
lock throughout and is one action; `HybridAllocator::allocate` gives up the tree's lock
before it takes the bitmap's, so it is two, with `pend` in between, and any number of
threads may be there. `held` and `used` are the clients' extents and the blocks in use
from before the mount. Block 0 is never handed out: every client keeps a superblock
there. The L2 level fits one slot, so the hint where a scan starts decides nothing. The
slot-at-a-time scans of the code are taken as what they find. `dup` is a history of
double allocations: the bitmap makes them (see Defects), and the model stops at the
first one.

In `KeyValue` a full key is the pair of a prefix and a key, in the order of the strings
with their NUL between. A transaction is applied at once. `hist` holds the versions
since the last synced one: after a crash RocksDB (external) comes back with any of them
and MemDB with nothing. In `Freelist`, `en` is the state of an enumeration, one step per
`enumerate_next`, over the copy of the database its iterator holds; as in the code, one
whose offset and bit position are zero has not started. `owned` is what the committed
transactions allocated, `acked` the part that was synced and not released since, `snap`
the blocks in use when the enumeration began. Clients allocate only what is free and
release only what they own, as the allocator makes them: `_xor` could not tell.

In `Buffer` sizes are in cells; a cell is a byte of data and a whole integer field of an
encoding. `raws[r]` is a raw with its data and cached CRC, `lists[l]` the nodes as
windows of raws (`car` marks the carriage), the length and the node counter. `dangling`
says that `_carriage` points at a node that `rebuild_aligned` freed; nothing is appended
to such a list, as none of the repository's callers does. A raw dies with its last node,
and then its cells hold `Junk`. The CRC has three bits and the code's structure:
table-driven, reflected, inverted register. `call` records the last call for the step
properties; as no action reads it, the `VIEW` of the run leaves it out.

**History variables of `BlueFS`.** `snap` and `base` are the names and fnodes as of the
last log write and the last superblock write; `fnode` is what the log says of each file.
`owed` are the files of `base` whose blocks were not given up before the crash, as
blocks released since may hold something else. `lost` are the files that were allocated
less than they asked for, which the code accepts, and files brought back by a crash
after they were given up. `spoiled` says that replay cannot take the log: a failed log
write left a gap in the numbers, the log was extended (finding 4), or a removed file was
fsynced through a writer that was still open. `Recovered`, `FsyncLogged` and `SpaceSafe`
say nothing about a spoiled log, and the passing run does not follow those states
(`Playable`).

**History variables of `Btier`.** `acked` is what the last successful call left for a
key, `Maybe` if a crash cut the call. The code does not keep every acknowledged value in
every case (see Findings and Hazards); `sure` is the set of keys it does owe, and
`ReadsLastAck` is about those. A key leaves `sure` when: a crash cuts its call; it was
put again after a `del` in the same journal and a crash follows (`exposed`); a crash
follows an unjournaled move, a commit that failed after its write, or a checkpoint taken
before the put that triggered it was applied (`drifted`); its recovered extent is
appended to (recovery sets `used` to the live bytes); a migration or compaction writes
where the location is not, because it is shorter than the source or, after a fallback
allocation, on the other device: this costs the keys whose slots are not inside what was
written and the keys whose slots were overwritten, and no others. A successful call
brings a key back. A write that strays into the journal, which fills the blocks of the
FAST device before its first unit, sets `drifted`: what recovery makes of such a journal
is not modelled. `leaked` are the units that allocations took and nobody was told of. The
code never releases them; recovery rebuilds the allocators from the extents it finds and
so empties `leaked`. `doubled` are the
units that were deferred a second time while they waited: `commit_migration` finds
an entry, `free()` erases it and defers its location, and the commit then defers the
same location again (`extent_map.cc:382`).

## Runs

| Run | Configuration | Result |
|---|---|---|
| `btier_sequential` | 1 writer, 2 keys, FAST of 5 and SLOW of 8 units, extents of 5 units and large values of 3, 3 calls, 3 cycles with up to 2 tasks (migration and compaction), and one I/O error, crash or clean restart anywhere | passes: `BtierTypeOK`, `ReadsLastAck`, `SpaceAccounted`, `LiveBytesExact`, `ReverseIndexExact` |
| `btier_concurrent` | writer, reader and background migration, 1 key, room for one extent on each tier, 4 calls, 4 cycles of one task | passes: `ClaimExclusive`, `DeferredFreeProtectsReaders`, `GenerationProtocol`, `MovesOnlyByCommit`, and the refinements `ExtentMapSpec` and `KeyMapSpec` |
| `btier_migration_race` | 1 writer, background migration | violates `AckedReadable` |
| `btier_durability` | 1 writer, one crash | violates `DurableAck` |
| `journal` | ring of 25 one-block slots, 34 transactions (a lap and a third), one power loss, one failed write | passes: `JournalTypeOK`, `DurableCommit`, `ImplementsLog` |
| `kernel_device` | one client that waits and one with a callback, 3 I/Os, queue depth 2, one retry, one failed I/O, submission or fdatasync; closing and opening at any quiet time | passes: `KernelDeviceTypeOK`, `CountExact`, `NoUseAfterFree`, `FlushDurable`, `WaitReturns` |
| `kernel_device_io_error` | one client, 2 I/Os, one of which may fail | violates `WaitReturnsOnError` |
| `bluefs` | 1 thread, 2 names, 2 inodes, 2 blocks, 4 calls that log something, 2 transactions after mkfs, one crash at any step, one failed log write; names and blocks are symmetric | passes: `BlueFSTypeOK`, `SpaceSafe`, `Recovered`, `FsyncLogged` |
| `bluefs_log_growth` | 1 file, log of 3 units | violates `DeltasContinue` |
| `allocator` | the three classes; 5 blocks in bitmap entries of 2 and regions of 4, a tree of at most one segment, 4 requests (one longer than a run and the entry it ends in), 2 threads inside the hybrid's `allocate` | passes: `AllocatorTypeOK`, `Accounted`, `SummariesHideNothing`, `HandsOutFree`, `AnswersRight`, and the refinement `RefinesFreeSpace` |
| `freelist` | MemDB and RocksDB; devices of 5 and 6 blocks, 2 blocks to a key, 3 transactions, 2 of another client, one crash; enumeration and reset at any time | passes: `FreelistTypeOK`, `BitmapExact`, `EnumeratesSnapshot`, `AckedMarked`, `PrefixIsolation` |
| `buffer` | 2 lists, 4 raws, any 4 calls, lists of at most 4 cells in 3 nodes, blocks of 2 cells | passes: `BufferTypeOK`, `TailExclusive`, `CrcRight`, `AlignedForDirectIO`, `EncodingRoundTrip`, and the refinement `RefinesSharedBytes` |

Why the bounds are enough: three extents let one be freed, released and reused while
another is claimed; what two movers may do to each other is proved and not run. Three
cycles are what the two-cycle grace period needs before space comes back; four calls and
four cycles of the concurrent run let a source be deferred twice, released and handed
out again while a `get` is on its way. An extent of four slots is shared by two keys, so
freeing one value must keep the other. A FAST device of one extent fills up, so the
fallback to SLOW happens, and fails after a large value has taken its three units. On
SLOW, requests of five and three units leave pieces of two and three: an answer then has
two extents, or less than was asked, and the leaks and short locations that follow are in
the run. `JournalCap` is four transactions, so both thresholds are
crossed. In the journal a ring of 25 blocks is the smallest in which 95 % is one block
short of full, so that one unchecked commit (`MaxUnchecked`) before a put still fits. On
the device, three I/Os let two submissions of one context overlap with the other
client's, a queue depth of two makes `EAGAIN` happen, and the two clients are the two
threads a lost flush needs. In BlueFS two blocks for two files of up to two units make
the device fill up, so that allocations are partial, fail, or reuse what a remove or
truncate released; two names let a rename replace a file; two transactions leave one
that the superblock covers and one that it does not. For the allocators five blocks give
a bitmap with a whole entry, a partial one and a second region; a tree of one segment
spills at the second; two threads between the hybrid's two locks let one move space away
from under the other. In the freelist, of the devices of five and six blocks the first
has a padding bit and the second may end in keys that are absent; extents of one and of
several keys cover the three cases of `_xor`; three transactions bring a key back to all
zero and set it again. In the buffer, four calls are enough to share a raw, cut its
carriage out, append on both sides and look at the result; four raws let a rebuilt list
live beside its source. `MaxGen` and `MaxDeferred` bound the extent map's generation and
its deferred list at 9, which the runs of `Btier` never reach.

The BlueFS run has one thread because two break the code, not the model. With two,
`FsyncLogged` fails: a file dirtied between the log write and `SetStable` is not
registered again, `SetStable` then clears its number, and `fsync` returns 0. `SpaceSafe`
fails as well: `pending_release` is emptied without a lock, with extents of an unlink
that came after the log write. Both are listed as hazards.

The runs set `CHECK_DEADLOCK FALSE`: every bound stops the model, and a quiet store is a
legal final state. Only `KernelDevice` assumes fairness, for its liveness property: the
kernel finishes what it accepted, the completion thread keeps running (it polls every 50
ms and blocks on nothing else but a context's lock), and a client inside `submit_batch`
or `aio_wait` runs on. Nothing is assumed of spurious wakeups, nor of a client that is
not in a call. `WaitReturns` excludes contexts with a failed I/O or submission;
`WaitReturnsOnError` does not, and is violated.

## Findings

1. `btier_migration_race`. `put` reads an extent's location, reserves a slot and then
   writes. A migration that claims the extent after the reservation records the new
   generation, copies the extent without the value, and commits; the value is written to
   the source afterwards, and put is acknowledged. The design document relies on the
   generation to prevent this.
2. `btier_durability`. Recovery replays all puts and then all dels, so put, del, put
   leaves the key deleted after a crash.
3. `kernel_device_io_error`. For a failed or short I/O the completion thread records
   `-EIO` and goes on to the next one without decrementing `num_running`: `aio_wait`
   never returns and the callback is never made. The design document lists the decrement
   after the error.
4. `bluefs_log_growth`. When the log outgrows its first extents, the extension is logged
   as a delta of the log file. The superblock already has the extended log when it is
   mounted again, so the delta does not begin where the extents end and mount aborts at
   its own assertion. As the log is never compacted, it does outgrow them.

## Defects without a run

Met while modelling; each is in the model, excluded by a stated condition of it, or left
out as said.

| Where | What happens | In the model |
|---|---|---|
| `btier/journal.cc:229` | a checkpoint that wraps is written over the one the superblock still names; power loss in between loses committed transactions | in `Journal`, excluded from the run by one-block checkpoints |
| `btier/journal.cc:229` | a transaction of several blocks skips the end of the ring, where one of the lap before may lie in the scanned range: `recover` returns it again | in `Journal`, excluded from the run by one-block transactions; condition `Fits` of `JournalIsALog` |
| `btier/extent_map.cc:388` | `commit_migration` defers the location of an entry that `free()` has erased and deferred: it is released twice, and can be handed to two owners | in `Btier`; `DeferredFreeProtectsReaders` excepts it (`doubled`) |
| `btier/extent_map.cc:300`, `341` | the allocator had less than was asked and has given all of it; the call goes on to SLOW or fails and releases nothing: the space is lost until a restart | in `ExtentMap` (`allocation_fails`); `SpaceAccounted` counts it in `leaked` |
| `btier/extent_map.cc:309`, `349` | the answer has several extents: all but the first are lost until a restart, and the location is shorter than asked | in `ExtentMap` (`allocate`); `leaked`; the short location leads to the next row |
| `btier/migration_engine.cc:213` | `migrate_tier` writes the whole source at a location that is shorter, over the acknowledged values behind it, although a migration is to copy the whole extent and only move it (`docs/design/btier.md:417`); see below | in `Btier`; `ReadsLastAck` leaves out the keys moved and overwritten |
| `btier/migration_engine.cc:213` | `allocate_raw(FAST)` fell back to SLOW; the data is written at that offset of the FAST device, over other extents or the journal | in `Btier`; `ReadsLastAck` leaves out the keys moved and overwritten |
| `btier/migration_engine.cc:308` | `compact` writes on the source's device although `allocate_extent` fell back to SLOW | in `Btier`; `ReadsLastAck` leaves out the keys moved and overwritten |
| `btier/journal.cc:238` | the flush fails after the head has advanced: the next superblock covers blocks that may be lost | `FlushMayFail`, off in the run |
| `btier/btier.cc:526`, `528` | two puts of one key mark the old location dead twice; `get_live_bytes() == 0` and `free()` are separate steps | needs two writers; the runs have one |
| `btier/migration_engine.cc:321` | compaction beside puts loses values through the window of finding 1 | compaction runs between calls |
| `btier/btier.cc:189` | a value of length zero: its extent counts as empty and is freed | left out |
| `blk/bitmap_allocator.h:366` | `_allocate_l0` takes blocks of an entry that stays marked free; the same request, a few iterations on, or a later one takes the entry whole: the blocks have two owners | in `Allocator`; `HandsOutFree` says this is the only way to it |
| `blk/bitmap_allocator.h:520` | `_mark_allocated` clears the L2 bit of a region that still has free blocks: nobody finds them until a release there | in `Allocator`; `SummariesHideNothing` allows it after `init_rm_free` only |
| `blk/bitmap_allocator.cc:85` | claiming to the left of offset 0 reads before the bitmap | left out: block 0 is never released |
| `blk/hybrid_allocator.cc:36` | `max_alloc_size` 0, no limit by `docs/design/allocator.md:377`, reaches an assertion | guard of `HybridAllocateTree` |
| `bluestore/bluefs.cc:489`, `567` | two threads: an update is forgotten by `fsync`; extents are freed before their unlink is durable | in `BlueFS`, with more than one thread |
| `bluestore/bluefs.cc:624` | replay ends at the log size in the superblock, which only `sync_metadata` and `umount` write: files and data that were only fsynced since are gone after a crash | in `BlueFS`; `Recovered` owes what the superblock covers |
| `blk/aio.cc:111` | a failed `io_getevents` returns a positive errno, which the completion thread takes for a number of completed I/Os | left out: `io_getevents` does not fail in `KernelDevice` |
| `kv/key_value_db.cc:59` | the upper bound of a prefix iterator lacks the prefix, so that the iterator is never valid | left out: the freelist sets no bound |
| `kv/rocksdb/rocksdb_store.cc:135` | `rmkeys_by_prefix` deletes up to prefix + 0xff and takes longer prefixes along; MemDB does not | in `KeyValue`; exception of `PrefixIsolation` |
| `bluestore/extent_types.h:49` | `interval_set::insert` of an extent with a contained one truncates it | in `Allocator`; released extents never overlap |
| `common/buffer.cc:1641` | the adjustment of a cached CRC to another starting value ignores that the register is inverted | in `Buffer`; `CrcRight` excludes it |
| `common/buffer.cc:990` | `rebuild_aligned` frees the node the carriage points at | `dangling` |
| `common/denc.h` | the bound of a 64-bit varint is 9 bytes, its encoding takes up to 10 | left out |

The short copy needs no concurrency and no failure. TLC finds it as a violation of
`AckedReadable` with the constants of `btier_sequential` but FAST of 20 units, five
cycles, three migrations, no compactions, no faults and `JournalCap` 100: a small value
gets a FAST extent of five units, a large one an extent of three, which is demoted to
SLOW [0, 3); the large value is put again, and its new extent is demoted to [3, 6). When
the space of the first one is released, SLOW is free at [0, 3) and [6, 8), and the
demotion of the five-unit extent is answered with both. It keeps [0, 3), writes [0, 5),
and the large value is gone.

## Proofs

The theorems hold for every value of the constants that satisfies the assumptions named
in the modules; the runs check the same properties on small instances. An invariant was
checked by TLC before it was proved.

Some of the operators are recursive functions or folds: `Picked` in the journal, the
loop of `_xor`, the application of a transaction. A fact about such a loop is proved for
the set of the counts at which it holds: `Induction` shows from the least element
outside that set that there is none. (The library's own induction rules take a predicate
as parameter, which the provers here cannot instantiate; a set they can.) `FoldLoop`
does the same once and for all for `FoldLeft`, of which the bufferlist's walks are made:
`FoldSteps` turns the fold into the sequence of values the loop goes through.

### `BtierProofs`: the extent map and the key map

For every choice of devices, slots, number of extents and number of movers, from
`ExtentMapAssumption` (the devices are finite sets of units, sizes are natural numbers,
the two tiers and the two states differ, a counter has more values than slots) and `NoneAssumption` (`None` is not a handle):

- `TypeCorrect`: `ExtentMapSpec => []TypeOK`
- `ClaimIsALock`: `ExtentMapSpec => []ClaimExclusive`
- `GenerationDetectsChange`: `ExtentMapSpec => []GenerationProtocol`
- `MovesOnlyByCommitHolds`: `ExtentMapSpec => MovesOnlyByCommit`

All four follow from one inductive invariant `IInv`. The properties are not inductive by
themselves. `TypeOK` needs `LiveWithinUsed`, or an append could push `live` over the
capacity. `ClaimExclusive` needs that the holder's extent is `MIGRATING` even after it
left the map, or a second claim could succeed. `GenerationProtocol` needs that the
generation never falls behind the handle's: after `mark_dead_slot` it is ahead, and must
not become equal again. There is one lemma per operation, about its locked body
(`LockedBody`) and not about the action of `ExtentMapSpec`, so that the engine's proofs
use the same lemmas.

`ReverseIndexAlwaysExact`: the type invariant of `KeyMap` and `ReverseIndexExact` are
together inductive under `put`, `erase` and `batch_update`.

### `BtierProofs`: the engine

For any number of clients, keys, extents, cycles and failed I/Os. Each theorem has the
form `Spec /\ []Undisturbed => ...`:

- `EngineUsesExtentMap`: every step that touches the extent map is one of its locked
  bodies, on an id the map handed out, a location of the devices, an answer of the
  allocator to a request in range, and within the slots of an extent
- `EngineRefinesKeyMap`: `KeyMapSpec`
- `EngineClaims`, `EngineGenerations`, `EngineMovesByCommit`, `EngineReverseIndex`: the
  four properties of the maps, in the whole engine
- `LocationsHaveOneOwner`: a unit belongs to at most one of the allocator, the extents
  that are mapped or on their way out, the deferred-free list, a put or compaction about
  to install an extent, a migration about to commit, and what allocations lost; except
  one in `doubled`. This is `OneOwner`, and it holds whatever the allocator answers
- `ReadersProtected`: `DeferredFreeProtectsReaders`

`Undisturbed` is `restarts = 0 /\ OneAllocation`. Both parts exclude what the code gets
wrong and not what is hard to prove: after a restart the maps are rebuilt from a journal
that knows nothing of the moves, so two extents may name one location (hazard
`migration_engine.cc:222`), and two threads between reading and storing `next_extent_id`
install two extents under one id (hazard `extent_map.cc:307`). Every behaviour with one
writer and no restart satisfies it, whatever the readers, the worker and the devices do.

The invariant `EngineInv` joins `IInv`, the invariant of the key map, what a thread's
locals are good for at each of its program counters (`ClientOK`, `WorkerOK`), `OneOwner`
and `ReadersSafe`. `DeferredFreeProtectsReaders` is not inductive: a get may read only
what it looked up, so the invariant says that this location is still mapped or was
deferred no earlier than the get began, which keeps it out of `space` for two cycles;
and that a unit in the map or in the list is not in `space` is `OneOwner`. `OneOwner`
counts the units that an allocation took and dropped as owned, or a double release could
not be told from a leak; that an answer's extents are free, disjoint and on the device
is `AnswerFacts`. `WorkerOK` carries the claim from `begin_migration` to the allocation,
since the request there is as long as the source the handle recorded. The
attempt to prove it without `doubled` failed at `commit_migration` on an erased entry;
TLC then found the behaviour in which a location is released twice.

### `JournalProofs`

For any ring, any transaction sizes, any number of crashes and failed writes, from
`JournalAssumption`:

- `OffsetsStayInTheRing`: `Spec => []JournalTypeOK`
- `AckedIsRecovered`: `Spec /\ []Fits => []DurableCommit`
- `JournalIsALog`: `Spec /\ []Fits /\ []Clear => ImplementsLog`
- `OneBlockFits`: `Roomy` implies `Spec => []Fits`
- `OneBlockIsRecovered`: `Roomy` implies `Spec => []DurableCommit`
- `OneBlockIsALog`: `Roomy` and `FewErrors` imply `Spec => ImplementsLog`

`Fits` says that a write has room: it lies over no block the superblock names, does not
fill the ring exactly, and skips only blocks that were never written. Nothing in
`journal.cc` checks that; only the engine's thresholds can provide it, and for
transactions of several blocks they do not (see Defects). For transactions of one block
they do, and the last three theorems need no hypothesis about the behaviour. `Roomy`
then asks that the last 5 % of the ring hold the commits that nobody counts: one block
of the put that was let through, and `MaxUnchecked` in each life of the process. The
default journal of 64 MiB has 16384 blocks, 819 of them beyond 95 %. `Clear` is the same
room with respect to the superblock on the disk, which is behind after failed writes,
and `FewErrors` bounds how far. The ring of the run, 25 blocks, is smaller than `Roomy`
asks for; there TLC checks the properties directly.

`Shape` is the inductive type invariant: what is pending is exactly the job's
transaction. `Kept` is the argument for `DurableCommit`. It needs the scan from the
superblock in memory and the one on the disk, as the two differ between the data flush
and the superblock write and after a failed one: each returns what was acknowledged, and
the first one already has the job's transaction from the superblock write on. The lemmas
about `recover` say what it returns after a transaction was appended behind the head
(one more entry, whatever part of the rest of the ring a torn write has changed), after
a checkpoint, and that blocks outside the scanned range do not matter. `InLine` does the
same for the refinement. `Room` is the induction on how full the ring is, in hundredths
of a block, as the thresholds are in per cent.

### `KernelDeviceProofs`

For any number of contexts, with or without callbacks, any queue depth, any number of
I/Os, retries and errors, from `KernelDeviceAssumption` (contexts with a callback are
contexts, the parameters are natural numbers and the depth is not zero):

- `TypeCorrect`: `Spec => []KernelDeviceTypeOK`
- `Counting`: `Spec => []CountExact`
- `DeletingIsSafe`: `Spec => []NoUseAfterFree`
- `FlushIsDurable`: `Spec => FlushDurable`

They follow from one inductive invariant `Inv`. `CountExact` alone is not inductive: a
decrement keeps it only if the I/O in hand is in no other place (`OnePlace`), if only a
client in `submit_batch` has I/Os left to submit (`LeftWhileSubmitting`), and if a
completion that reports an error belongs to a context known to have failed
(`FailuresKnown`). That `num_running` stays natural is then a consequence, as the I/O in
hand is still counted, and `Bounded` gives its upper limit. `NoUseAfterFree` needs
`DoneMeansDone`, that the completion thread is not between decrement and notification
for a client that was let go; the lock of `try_aio_wake` gives it in wait mode, and
`ThreadSound` and `CallbackSound` in callback mode, where the callback is due only while
its owner waits for it. `FlushDurable` needs `FlushSound`: whenever somebody knows of a
write that no `fdatasync` has covered, the flag is set or an `fdatasync` is running.
That in turn rests on the order in `_aio_thread` (flag first, decrement after) and on
`CountExact`, by which a client whose count is zero has no completion that was not yet
looked at. `StopSound` says that nothing is in flight after `close` has set `stop_`.
Each part has its lemma, with one step per action.

### `FreelistProofs`

For every device size, number of blocks per key, set of ranges, both stores, any number
of transactions, syncs and crashes, from `FreelistAssumption`:

- `BitmapAlwaysExact`: `Spec => []BitmapExact`
- `AckedStaysMarked`: `Spec => []AckedMarked`
- `TransactionsKeepToTheirPrefixes`: `Spec => PrefixIsolation`
- `EnumerationIsExact`: `Spec => []EnumeratesSnapshot`, the assertions on the first key included
- `FreelistIsTyped`: `Spec => []FreelistTypeOK`

The core is a lemma about `_xor`: of the bits of all keys it flips exactly those of the
range, whichever of the three cases the range falls in. A transaction is a fold of
merges; by induction along it the bitmap of the result is the bitmap before, with the
bits of the transaction's ranges flipped. `FInv` says of every version a crash may bring
back, and not only of the current one, that its bitmap is exact for what was owned then
(`HistOK`), or a crash would reach a state about which nothing is known.

The enumeration needs more: `EInv` adds `KeysOK` and `EnumOK`. `KeysOK` says of every
version that its keys are finitely many and that those of the bitmap lie on the device;
by `Ranked` (in `Induction`) an iterator's items are then sorted and complete, and
`SnapshotItems` translates what a version says into what its items say (`Clear`: no item
marks the block). The two loops of `enumerate_next` are recursive functions that walk
forward to the first item at which they stop (`WalkExists`, `WalkStops`); `FreeStartIs`
and `FreeEndIs` say what they find: the first free block from where the iterator stands,
whether in an item, in a gap of missing keys or past the last key, and the first block
in use after it, or that there is none. `EnumOK` is what holds between two calls: the
iterator stands on a block in use and exactly the free blocks before it were returned,
or all were. That the last extent, which the code cuts at the padded number of blocks,
does not reach past the device follows from the padding bits that `create` sets. The
assumption on the constants says that prefixes and keys are numbers (the order of the
strings) and that the other client has prefixes of its own.

### `AllocatorProofs`

For every device, bitmap geometry, cap of the hybrid's tree, thresholds and search
limits, any requests and ranges, any number of threads inside the hybrid's `allocate`,
from `GeometryAssumption` (the levels are not empty, the device does not fill the last
region and fits the counters) and `CallAssumption` (lengths and units are not zero):

- `TypeCorrect`: `Spec => []AllocatorTypeOK`
- `AccountedAlways`: `Spec => []Accounted`
- `SummariesHonest`: `Spec => []SummariesHideNothing`
- `OnlyFreeHandedOut`: `Spec => HandsOutFree`
- `AllocatorRefinesFreeSpace`: `Spec => RefinesFreeSpace`

The inductive invariant is `AllocInv`. Its part `SoundOK` holds until a block is handed
out twice. It joins `SpaceOK` (segments are apart and not even touching, no free block
of the bitmap touches one, the counters are exact, the tree is under its cap),
`OwnersOK` (no two extents of the clients and of half-done requests overlap) and the
sum: free and owned blocks are disjoint and are all there are. Its part `AlwaysOK`
survives a double allocation: types, L1 entries that hide nothing, and for every free
block under a clear L2 bit a block in use in the same region. `Accounted` is not
inductive without the types of half-done requests, without `KindOK` (a pure tree has no
bitmap blocks, a pure bitmap no segments), and without the fact that only the hybrid has
threads between two locks.

The proof goes up along the calls. `_process_range_removal` and `_add_to_tree` keep
`SpaceOK` and move exactly their range, whichever segment is spilled at the cap and
whichever neighbours are claimed back. That free space is in one piece is what makes
`init_rm_free` right: a range of free blocks that no segment holds whole lies in the
bitmap. The claims recompute the L2 bits of the regions on both sides of the range that
is given back, and a region of that range that neither side touches lies inside it and
has no other block in the bitmap (`RegionInside`). For the bitmap's scan, `Taking` says
after each entry what is left of the bitmap and what the answer covers: a block of the
answer was free, or belongs to an entry that the bitmap called free before the call and
that is in the answer as a whole (`StaleFree`), which is `HandsOutFree`. The loops of
`_allocate`, `_allocate_l1`, `_allocate_l2` and `_fragment_and_emplace` are recursive
functions; `LoopRuns` shows that one with a typed body exists, `LoopEnds` that what each
round keeps holds at the end. `release` is proved for one and for two extents, as `Next`
calls it.

A double allocation can happen within one request: `_allocate_l0` follows its last run
past the end of the entry and leaves the next entry marked free, and the scan reaches
that entry a few iterations later. `Taking` therefore counts a block that an answer
covers twice as stolen.

### `BufferProofs`

For any raws, lists, chunks, carriage, unit and page sizes, alignments and number of
calls, from `BufferAssumption` (sizes are natural numbers, the header is smaller than the
allocation unit, there are finitely many raws, a chunk is not empty, and a cell holds the
length of any list):

- `BufferIsTyped`: `Spec => []BufferTypeOK`
- `UnusedTailIsExclusive`: `Spec => []TailExclusive`

`ptr::append` writes behind the last node without asking who else refers to the raw. That
nobody is overwritten rests on all the calls together: each of them must leave at most
one carriage in a raw, as the node there that ends last. The inductive invariant is
`BufInv`. Its part `Sound` says that lists are well shaped, `_num` is the number of nodes,
a chain has at most one carriage, every node lies inside a live raw (`Chains`), and of
two nodes of a raw the carriage ends last, whichever lists they are in, and no two lists
have a carriage in the same raw (`Owners`, which is `TailExclusive` without its exception
for a full raw). `Filled` says that raws hold as many bytes as they have cells, `Exact`
that `_len` is the sum of the nodes' lengths. `Exact` is apart, as calls break it halfway:
`obtain_contiguous_space` and `append` extend the chain and `_len` in separate steps, and
`Gains` counts what each step adds to the one and to the other.

A call that replaces a list keeps the invariant when its nodes are cut from nodes that
are there or lie in a new raw, and its carriage ends where its own carriage ended
(`Replaced`); each call is then shown to be of this kind. The walks are folds: `Total`
adds up as chains are concatenated, cut (`FirstAt`, `LastAt` are the nodes of an offset)
and extended; `splice` leaves as many nodes and bytes as it counts, whether or not the
carriage was among the nodes cut out and moved to the end (`SplicedIs`). The loop of
`rebuild_aligned_size_and_memory` has the invariant `Stage`: the nodes already in place
and the run being gathered have the bytes of the nodes visited, and `_num` counts the
nodes in place and those still to come; a raw is left for each run still to come, as
between two runs there is a fit node.

### Only model-checked

- Liveness (`WaitReturns`), which is out of the provers' reach, as is `ENABLED`.
- `Btier`: `ReadsLastAck`, `SpaceAccounted` and `LiveBytesExact` relate the maps to the
  journal and to the data across restarts; the last is a sum over all keys.
  `BtierTypeOK` does not hold for every value of the constants: with two writers and a
  crash the ids may pass their bound, by the unsynchronised increment.
- `Allocator`: `AnswersRight`, whose sum of an answer's lengths is a fold.
- `Buffer`: `RefinesSharedBytes`, `CrcRight`, `AlignedForDirectIO` and
  `EncodingRoundTrip` are about the bytes, and not only the windows: they need the
  concatenation of data along each walk, and the CRC its bit arithmetic.
- `BlueFS`: no theorems yet. Its steps are nested folds (the replay of the log).


## Not modelled

Scoring, configuration, observers, statistics; record encoding; `Journal::trim`, which
only tests call; values of length zero; two concurrent writers; compaction beside client
calls in a passing run (it loses values the same way as finding 1). In BlueFS: readers,
`flush_range`, `lock_file`, the body of the compaction, more than one device, the shared
allocator, failing data and superblock writes, power loss. In the allocators: `foreach`
and `dump`, which only read. In the key-value databases: `prev`, `seek_to_last` and
`upper_bound`, and opening and options of RocksDB. Of DENC, the types themselves: one
versioned structure with a list inside stands for all. `PROJECT.json` gives the reason
for every component.

## Plan

1. Btier core: extent map, key map, engine and worker, journal; proofs for the two maps
   (done).
2. `KernelDevice`: submit, reap, wait and flush between callers and the completion
   thread (done).
3. `BlueFS`: log, dirty files, fsync, replay, crash (done for one thread).
4. `Allocator`: AVL, bitmap and hybrid, refining a set of free blocks (done).
5. `Freelist` on `KeyValue`: the XOR bitmap against the set of allocated blocks (done).
6. `Buffer`: lists over shared raws, refining byte cells; encoding (done).
7. Proofs: the extent map, the key map, their use by `Btier`, `KernelDevice`, `Journal`,
   `Freelist` with its enumeration, `Allocator`, the counters and exclusive tails of
   `Buffer` (done); next the space and the log numbers of BlueFS, the bytes of `Buffer`.
8. BlueFS with several devices and the volume selector; appends inside a unit; readers.
