# Kdrivers in TLA+

A model of the drivers of the Arctan kernel in this repository: what the code
does step by step, which properties it has, checked with TLC on small
instances, and proved with TLAPS for every size where they are safety
properties. Everything is written from the C sources (and
`tools/gen_dri_defs.py`); where the code and its own comments disagree, a run
shows it.

## 1. The system

Drivers are tables of function pointers (`ARC_DriverDef`), grouped (file system
super block, directory, file, ACPI device, PCI device, device) and found by
index or by PCI/ACPI code. `resource.c` turns a table entry into an
`ARC_Resource` by calling its `init`. The layers that matter, from the bottom:

| Component | State | Operations | Talks to |
|---|---|---|---|
| NVMe queue pair (`sysdev/nvme/pci.c`) | submission and completion ring, cursors, expected phase, doorbells | submit a command, poll for its completion | controller through shared memory and doorbells; called by every NVMe function on any thread |
| NVMe bring-up (`pci.c`, `nvme.c`, `namespace.c`) | controller registers, admin queue, lists of namespaces, counts of queue pairs | reset, identify, request and create queues, create namespaces | resource manager (recursively), allocator, queue pair |
| NVMe namespace (`namespace.c`) | block size, share of the queue pairs | read, write, stat | queue pair |
| Partition window (`partition_dummy.c`) | first block, size, a handle on the drive | read, write, stat | drive file through seek + read/write |
| ext2 super block (`sysfs/ext2/super.c`) | super block, group descriptors, write bit, root inode | mount, stat, locate | partition file |
| ext2 inode data (`sysfs/ext2/util.c`) | per call: up to three tables of block numbers | read, write, search a directory | partition file |
| ext2 file, directory (`file.c`, `directory.c`) | inode, partition handle, write bit | init, read, write, stat, locate, uninit | super block state, inode data |
| initramfs (`sysfs/initramfs`) | base of a cpio archive | find, read, stat | memory |
| buffer (`sysfs/buffer.c`) | a block of memory | read, write | memory |
| UART, RTC, HPET | port base of the UART | UART line settings in `init`; everything else is a stub, and HPET's `init` fails | ports |
| Driver table generator (`tools/gen_dri_defs.py`) | names found per group | assign indices, also shared ones | build |

What is hard here, and what has to be true:

* **Queue pair.** Called by threads that preempt each other and on several
  processors, with nothing but masked interrupts for protection (both functions
  carry `TODO: Atomic analysis`). A poll must return the completion of its own
  command; the controller must fetch what was written; a completion must be
  taken once; doorbells must move forward; the expected phase must follow the
  ring; every poll must return.
* **Bring-up.** A long nest of calls with an error path at every step. Nothing
  is freed twice or while the device uses it; registers are written in the
  right order; every namespace is listed once and gets queue pairs of its own
  that exist.
* **Namespace.** Arbitrary byte ranges cut into pages, read-modify-write
  without a lock, block numbers kept in an `int`. Bytes land where they belong
  and others stay; short counts mean something.
* **Partitions.** A seek and a transfer on a handle that all files of the
  partition share, without a check against the end of the partition. A user
  reads its own position and does not write into the next partition.
* **ext2.** Tables kept from turn to turn and written back. Bytes land where
  the file keeps them, the tables stay what they were, a read-only mount is
  read-only, what is opened is released.
* **Driver tables, memory files.** Indices that several groups share, assigned
  in the order in which the build finds the sources; unsigned arithmetic in the
  buffer file; a search that compares the beginnings of names. Whatever the
  order, a file must be served by the driver of its file system and give the
  bytes of the name that was opened.

`PROJECT.json` lists the hazards with the line where each one bites.

## 2. Modules

`MC*.tla` only define constants for TLC. `Mut*` operators are deliberate errors
(one per property) that show the property can fail; no specification uses them.

### NvmeQueue: submit and poll

`nvme_pci_submit_command` and `nvme_pci_poll_completion`, one action per access
to memory shared with other threads or with the controller: `SubmitAlloc`
(interrupts off, slot, id), `SubmitWrite`, `SubmitRing` (doorbell, interrupts
back), `PollRead` / `PollMatch` / `PollRetry` (one turn of the loop),
`PollCopy`, `PollAdvance`, `PollFlip`, `PollRing`, `PollFlipAgain`, `PollFree`.
`Fetch` and `Post` are the controller, which is external: it fetches while its
head differs from the tail doorbell, completes in any order and never overruns
the completion head. A command is identified by the order of allocation, so a
foreign or stale completion is told from the right one although command ids
repeat. Threads of one processor interleave wherever interrupts are on
(`CanRun`). `misuse` records what callers did: a slot handed out while its
last command is outstanding (`busy`), a full ring (`full`), two submissions at
once (`race`), two retirements at once (`overlap`). The code checks none of
these, and the properties say exactly under which of them it works.

### CommandService and NvmeQueueService: what the queue pair promises

`CommandService` is the abstract specification: a thread issues a command, the
device performs it once, the thread is given the reply to it and to no other
command after it was performed, and its call returns. `NvmeQueueService`
instantiates it with the queue's state: issued is `subAlloc`, a command is
pending while its thread is inside submit and poll, performed once its
completion is in memory, replied to when `poll` copies an entry. The property
`ServesCommands` is the refinement: slots, ids, phases and doorbells are
stuttering. The promise holds as long as the callers keep the rules
(`kept`, mapped to `SafeUse`), and a rule once broken stays broken.

### NvmeNamespace: read and write a byte range

`Call` (the seek on a handle and the entry of the transfer), then one action
per command: `ReadBlock`, and for a write `Fill`, `FillWhole` or `FillNull`
(the page in memory: read and merged, or covered entirely; `FillNull` is the
first page of an aligned write, for which the code has not allocated a page)
and `Store`; `Fail`, `Return`. The loops read `file->offset` again on every
turn, and so does the model: a seek by another caller on the same handle moves
a call that is half done. Both are then in `disturbed`, and the properties are
about the others. `Lba` is the block number in a signed `int` (`IntMod` is
2^32): a negative one is refused by the device, one past 2^32 names a low
block. A byte is who wrote it and for which address. `misuse` records a page
stored while another caller held a copy that overlaps it (`overlap`), data
copied to a NULL page (`null`), a block number that wrapped (`wrap`) and a page
stored by a caller whose handle another one moved (`stray`); `shadow` is the
disk on which every store had changed only the bytes its caller gave.

### PartitionWindow: files on partitions of a namespace

Extends NvmeNamespace: its handles are the drive handles of the partitions.
`Attach` is `init_partition_dummy` (with the unchecked open), `FileSeek` the
user's seek on a file of the partition, `Transfer` the driver's seek on the
drive handle and its call of the namespace, `TransferNothing` the early return
and the NULL drive. `beyond` records who asked for bytes past the end of the
partition, which nothing refuses. The seek and transfer pairs of `ext2/util.c`
on its partition handle are `FileSeek` and `Transfer`.

### DriverTable and MemoryFiles: from the sources to the bytes

DriverTable is `gen_dri_defs.py` (`Scan` one driver of the sources, in any
order, into the dictionary `definitions`, whose keys come in the `order` of
their first drivers; `StartFill`, `Fill` one driver; `Build` the tables) and `resource.c` on the
tables it wrote (`DeviceResource` by code, `SuperResource` and `NodeResource`
as the kernel and the virtual file system make them, `Uninit`). The script dies
(`stage = "error"`) when a group that shares indices has no driver at all.
`Covered` is what the numbering needs and does not check: a file system has a
driver in the last of the groups that share indices. `Sound` are the groups it
numbers right: without `Covered` those with indices of their own and that last
one. MemoryFiles assumes `Covered` of sources that have an initramfs.
MemoryFiles extends it with the two drivers that keep their data in memory:
`MountArchive`, `OpenEntry` and `ReadEntry` for initramfs, `MakeBuffer` and
`UseBuffer` for buffer, `Close` for both, `AllocFails` for the two init
functions that use the result of `alloc` unseen. size_t arithmetic is modulo
`SizeMod` (2^64). Names are members of a small set with the relation "begins
with"; the cpio archive is the sequence of its entries.

### NvmeInit: from the PCI header to the namespaces

One action per step that can fail: the resource levels (`PciResource`,
`PciState`, `NvmeState`), the reset sequence (`Disable`, `AdminQpair`,
`WaitReady`, with the device's `DeviceReady`), `CommandSets`, the paged list
(`ListRequest`, `Walk`, `WalkEnd`), `RequestQueues` (16-bit arithmetic, width a
constant), `QpairArray`, `Qpair`, `QpairsDone`, and per namespace
`NamespaceNoMemory`, `NamespaceNoInfo`, `Namespace`. `Unwound` is what the
outer levels free when an inner one fails. `live` is what is allocated, `twice`
what was freed when it was not. A value the code reads without having set it is
a choice of the model; a pointer read that way ends in the state `wild`.

### Ext2Blocks: the data of an inode

`ext2_traverse_blocks`: one action per place where the loop changes table
(`DirectBlock`, `SinglyTable`, `DoublyTable`, `TriplyTable`, `TriplyStep`,
`DoublyStep`, `SinglyStep`), the data callbacks (`Data`), and the write-back at
the label `exit` (`ExitTibp`, `ExitDibp`, `ExitSibp`). The index arithmetic is
the code's, division by the block size included. A transfer or an allocation
may fail at any point; the code ignores most of these failures, and the model
keeps what the buffer then holds. `torn` records that a table in memory was not
filled from its block. Data contents are left out: a transfer is the list of
places it touched.

### Ext2Mount: mount, open, close

`init_ext2_super` as one action per outcome (`MountFails` at each of its error
returns, `Mount`), `Unmount`, the search of a directory (`InodeInDir`), `Stat`
and `Locate` of the super and the directory driver, `Open` / `OpenFails` /
`OpenStale` of the file and directory drivers, `Write`, `ReadFault`, `Close`.
The order in which the virtual file system calls them is external. Memory that
is not cleared (the write bit, and the handle when the open fails) is a choice.
Each driver function is one action: two threads inside functions that share a
partition handle are in PartitionWindow.

## 3. Runs

| Run | Instance | Shows |
|---|---|---|
| `queue_shared` | 2 threads on 1 processor, I/O queue, rings of 3 and 4, 5 commands, interrupts on or off at entry, fairness | own completion, intact fetch, one consumer, forward doorbell, slots returned, exact head doorbell; the queue implements CommandService; every poll returns unless somebody polls with interrupts masked |
| `queue_phase` (violation) | 1 thread, completion ring of 3, 4 commands | the expected phase is inverted twice at the end of the ring and stays 1 |
| `namespace_calls` | 1 caller, 2 calls, ranges of up to 8 bytes at every alignment, around the end of a namespace of 18 blocks and around blocks 8 and 16, blocks of 2, pages of 4, 4-bit block numbers, one failing command | chunks fit, reads are placed, short counts mean a failure, every call returns |
| `storage` | 2 callers, 3 calls, on one file, two files of a partition, or two neighbouring partitions of 3 blocks; one failing open or command | nothing but the caller's bytes changes unless page copies overlap in time; reads through both layers are placed; bytes stay in their partition unless more was asked for than it holds |
| `drivers` | the repository's file system drivers, its device drivers, and two sets the script cannot number; 3 resources, 2 transfers, two archives, 4-bit size_t | tables exact in every order of the sources, the right driver for a code and for a node, files of the archive and buffers give the right bytes |
| `init_faults` | 2 processors, 2 command sets with 3 namespaces, pages of 2, counts modulo 16, every tested allocation may fail | ordering of the reset, no double free but one and owners outlive what they own, device memory live, shares disjoint and created, list complete, it ends |
| `init_granted` (violation) | 2 namespaces, 2 processors, 2 queues granted | `qpairs.init` passes the number of queue pairs that exist |
| `blocks_edges` | blocks of 16 bytes (tables of 4), a full, a 12-block and a sparse file, starts around every change of table, 2 failures | right place, caching makes no difference, tables intact, short counts, every call returns |
| `blocks_readonly` (violation) | reads with the write bit clear | a read writes tables, or an unfilled buffer to block 0, to the partition |
| `mount_life` | every layout of 1-3 groups, every reason to refuse, 2 opens in 2 directories, 1 failure | failed mounts release and open files hold what they should, descriptor count, lookup by name, no NULL inode while memory lasts |
| `mount_readonly` (violation) | 1 open, no failure | a file of a read-only mount is written |
| `mount_owner` (violation) | 1 open, no failure | the inode "we must free" is never freed |

**Why the bounds are enough.** The queue lengths are the smallest at which a
slot is reused while other commands are outstanding and both rings wrap within
the commands allowed. Two threads give every pair of steps; the proofs remove
the bound. Pages of two blocks of two bytes have every alignment of start and
end inside a block, a page and the namespace, and with 4-bit block numbers the
namespace has blocks whose number is negative and blocks whose number wraps.
Partitions of three blocks end inside a page that starts in the next one. The
drivers run reads the seven (or fewer) sources of a set in every order; an
entry of three bytes is padded, and transfers start before, at and past the end
of a buffer. The bring-up has a command set
whose list ends exactly at a page and one that goes on to a second page, and counts that wrap
modulo 16. With tables of four entries every level of indirection is reached,
each with a move from one table of a level to the next, in files of a few
hundred blocks. Names of two letters are enough for one to begin another.

**Fairness.** Calls in progress go on (`WF` on the steps of a call): the kernel
schedules runnable threads, and the polling loop re-reads `cmpq->idx` on every
turn. The controller goes on with what it was given and follows `CC.EN`; the
driver relies on that, it has no time-outs. Nobody is obliged to start a call.
`PollReturns` excepts polls with interrupts off: on the processor of a thread
whose completion is at the head of the ring such a poll never returns, and no
other poll behind it does.
`CallReturns` of Ext2Blocks needs a partition that does not fail for ever, since
a transfer of 0 bytes is retried without limit (`MaxFailures`).

Deadlock is checked in every run; the states in which all bounded work is done
have an explicit stuttering step.

## 4. Proofs

Each component's proofs are in a module of their own. They hold for every value
of the constants that satisfies the module's assumption, so they remove the
bounds of section 3. All have the same shape: an inductive invariant, one lemma
for each action that shows it kept, and theorems that follow from it. TLC checks
the properties on small instances; the invariants are stronger.

**NvmeQueueProofs.** Any set of threads, processors and placement, any queue
id, any lengths (submission ring up to 256, as the 8-bit slot in the command id
requires; this is `QueueAssumption`), any number of commands:

* `TypeCorrect`: `Spec => []TypeOK`.
* `SubmissionsSerialised`: masking interrupts serialises submissions from one
  processor.
* `DoorbellForward`: then the tail doorbell moves by exactly one entry.
* `CompletionIsOwn`, `FetchedIntact`, `RetiredOnce`: under `SafeUse` (no slot
  reused while outstanding, ring not full, no race between processors, first
  lap of the completion ring) a poll returns its own completion, the controller
  fetches what was written, and no completion is retired twice.

None of the last three is inductive. `IInv` adds: a submitting
thread is masked (`SubmitMasked`), so it is alone on its processor
(`OneSubmitter`), so what the doorbell announced is a prefix of what was
allocated and is intact in the ring (`RingIntact`); the controller has each
fetched command exactly once, executing or in an entry of the first lap with
the right id (`Completions`, which counts with `Cardinality`); outstanding
commands sit in different slots (`SlotsDistinct`), hence have different ids
(`CidInjective`); every unretired completion belongs to exactly one waiting
thread (`Owned`); and a thread that has left the polling loop looks at the head
entry, which is its own (`Polling`). `SafeUse` never becomes true again once
false, so each part is proved under it.

**NvmeServiceProofs.** `SlotsGivenBack` and `DoorbellExact` need no safe use
beyond what the properties say. `QueueServesCommands` is the refinement of
CommandService: the initial states map to initial states, and with `IInv` every
step of a thread or of the controller maps to an abstract step (allocation to
issue, posting to perform, copying to reply, the last step of poll to return) or
to a stutter.

**NvmeNamespaceProofs.** Any block, page and namespace size (a page is a
multiple of blocks), any number of callers and handles. `NInv` says of every
undisturbed caller that its handle is where its own progress puts it, that a
turn other than the first starts at a block boundary (`AllSteady`, from which
`TurnsFit` follows: `to_read` alone does not bound a turn), that the bytes of
the disk and of all buffers and pages are bytes of the addresses they are at
(`Placed`), and that the disk and the shadow disk agree where pages in memory
will be stored (`OwnBytes`). Theorems: `TypeCorrect`, `TurnsFit`, `ReadsPlaced`,
`WritesOwnBytes`, `ShortOnFailure`. The attempt to prove `ReadPlaced` corrected
it: a caller whose handle was moved by another stores a page at the wrong place,
and from then on also an undisturbed reader finds foreign bytes. `misuse` now
records this (`stray`).

**PartitionWindowProofs.** `WInv` puts on top of `NInv` where a partition's
window lies, what the user asked for and where the drive call that serves it
was sent, and whose bytes are where. Theorems: `StackReads`, `PartitionsKept`,
`StackWritesOwnBytes`. Partitions may have any place and size, and may overlap: the
partition table is not modelled and the driver does not look at it.

**NvmeInitProofs.** Any number of processors, command sets and namespaces, any
width of the counts; the active namespaces of a set are a finite set of numbers
(`InitAssumption`). `TypeCorrect`; `OrderKept` (an action property, from what
the registers are at each program point); `MemoryIsOwned` (what is live at each
point, what the next levels rely on, and that the one double free is the last
thing that happens); `DeviceMemoryStays`; `SharesAreProper` (the shares handed
out so far are below a common limit); `ListIsExact` (a page of the list is the
beginning of the rest of the set, so what is below the last namespace walked is
listed and the rest is fresh).

**Ext2BlocksProofs.** Any block size that is a multiple of four, any inode of a
consistent file system, any requests. `Consistent` says that a field that names
a table names one that exists, and that the tables of the upper levels name
tables: the driver checks none of this. The invariant: `TablesHeld` (which
tables are in memory at which point; a table is missing only right before the
fault), `Position` (a call only moves forward, so `last_doubly` and
`last_triply` are set only past the bytes the inode's own tables cover: this is
why two variables are enough to tell where the tables came from), `TablesTrue`
(each table in memory is the table of the block it will go back to, and the
traversal follows the tables of the byte it looks for), `ShortReason` and
`MovedInv` (every byte transferred so far is in the block of its own position).
`TablesTrue` and the later parts are kept until a table is `torn`. Theorems:
`TypeCorrect`, `TablesStayIntact`, `CacheIsTransparent`, `BytesInPlace`,
`ShortHasReason`.

**Ext2MountProofs.** Any truthful super block (`Truthful`: the inodes fill the
groups and all groups but the last have all blocks, which mke2fs guarantees and
the driver does not check), any tree of directories, any names, any number of
opens and failures. `MInv` keeps for each slot what stat found (`Looked`), what
it owns (`Owned`), and that a missing inode or a stale handle is due to a
failure (`Excused`), and for the mount that a missing root or path is
(`MountInv`). Theorems: `TypeCorrect`, `MountMemoryIsOwned`, `TableIsExact`
(both ways of counting groups give the group of the last inode),
`LookupIsExact`, `FaultsNeedFailures`. What `FlattenSeq` returns, which is
defined by recursion, is proved by a least counterexample (`NaturalsAll`).

**MemoryFilesProofs.** Any groups and drivers, read in any order; any archives,
names, buffers and transfers; any even range of size_t. The invariant follows
the data from the sources to the bytes. `Registered`: nothing is lost between
the sources, the dictionary and the indices (that the flattened loops come to
every driver is `FlattenHolds`, by a least counterexample). `Numbering`, while
the indices are filled in: drivers of one name that are numbered together have
one index, the next index of their group (`Counter`: of the last group that
shares) is above all those given, and in sound groups one index is one name.
The last two are not inductive alone: that a driver gets a fresh index needs the
bound, and the bound moves only because the driver of the last group is numbered
in the same turn, which needs the first. `Tables`: entries are drivers with that
index, and the tables are exact. `Made` keeps with each resource the entry it
was made from and its super resource; `States` and `Replies` what the driver
state and the last transfer are. Theorems: `TypeCorrect`, `TablesAreExact`,
`DriversAreRight`, `ArchivesAreExact`, `BuffersAreExact` (from `GivenIs`: the
unsigned difference, read as a signed one, is right below half of size_t).
`TypeCorrect` is not only about types: an entry is opened with the driver the
file table has at the index of the super driver, and that this is the initramfs
driver follows from the exact tables.

Only model-checked: all liveness (`PollReturns`, `CallReturns`, `InitEnds`),
which needs ENABLED and fairness; and the five violations.

## 5. Plan

1. (done) NvmeQueue with its proofs, NvmeNamespace, NvmeInit.
2. (done) Ext2Blocks, Ext2Mount.
3. (done) CommandService and the refinement; PartitionWindow over
   NvmeNamespace; DriverTable and MemoryFiles.
4. (done) Proofs of all safety invariants and action properties and of the
   refinement.

## 6. Not modelled

* UART, RTC and HPET: read and write return 0. Of the UART's settings only the
  three that `init` makes are reachable, each a read-modify-write of one port
  register; the driver keeps no other state. As drivers whose `init` may fail,
  succeeds, or always fails, they are in the `drivers` run.
* `ext2_allocate_blocks`, `ext2_delete_inode`: unreachable, their caller is
  commented out. Creating blocks is unimplemented in the code.
* Contents of identify pages and descriptors; the block size read from byte
  128 + index of the identify page.
* What a disturbed call copies past its page or buffer, and the offset that the
  virtual file system moves on when a transfer returns: every user in the
  repository seeks before it transfers, so only disturbed calls can see it.
* The text of the generated driver tables; two groups of shared indices (the
  repository has one).
* Past the singly indirect blocks Ext2Blocks finds, as the code does, other
  blocks than an ext2 file has there (the index is divided by the block size in
  bytes, util.c:105): `RightPlace` is therefore stated up to that point, and
  `CacheTransparent` for all blocks.
* Allocations whose result the code does not test in the bring-up.
* Closing an ext2 file also leaks its partition handle; `mount_owner` shows the
  inode, the handle is the same path.
