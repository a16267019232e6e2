--------------------------- MODULE NvmeNamespace ---------------------------
(***************************************************************************)
(* The block layer of an NVMe namespace: read_nvme_namespace and           *)
(* write_nvme_namespace of sysdev/nvme/namespace.c, called concurrently.   *)
(* Both cut a byte range into commands that move one page each, starting   *)
(* at a logical block; a write that does not fill its page reads the page  *)
(* first and writes it back changed.                                       *)
(*                                                                         *)
(* A call is a seek on a file handle and a transfer at the handle's offset *)
(* (as partition_dummy.c and ext2/util.c make it), and the loops read that *)
(* offset again on every turn.  A seek during another call on the same     *)
(* handle disturbs both: the variable disturbed keeps who was, and nothing *)
(* is claimed of them.  (That the virtual file system moves the offset on  *)
(* when a transfer returns can only be seen by disturbed calls: left out.) *)
(*                                                                         *)
(* A command (namespace_rw_page: submit and poll, see NvmeQueue) takes     *)
(* effect in one step of the device.  The content of a byte is who wrote   *)
(* it and which address it was meant for.                                  *)
(***************************************************************************)
EXTENDS Integers, FiniteSets

CONSTANTS
    Callers,        \* threads that call read or write
    Handles,        \* open files (struct ARC_File) on the namespace
    Nobody,         \* the author of the bytes found on the device
    LbaSize,        \* state->lba_size
    PageSize,       \* state->block_size, the bytes of one command
    IntMod,         \* 2^32: a block number is kept in a signed int
    Size,           \* bytes of the namespace
    Requests,       \* calls that may be made: [op, offset, len]
    MaxFailures,    \* bound: commands the device fails without cause
    MaxCalls        \* bound: calls made in one behaviour

Addr == 0..Size-1

ASSUME NamespaceAssumption ==
    /\ Nobody \notin Callers
    /\ LbaSize \in Nat \ {0}
    /\ PageSize \in Nat \ {0}
    /\ PageSize % LbaSize = 0    \* namespace.c:201 leaves the other case open
    /\ IntMod \in Nat \ {0} /\ IntMod % 2 = 0
    /\ Size \in Nat
    /\ Requests \subseteq [op : {"read", "write"}, offset : Nat, len : Nat]
    /\ MaxFailures \in Nat
    /\ MaxCalls \in Nat

VARIABLES
    disk,       \* address -> byte
    via,        \* caller -> the handle it uses
    position,   \* handle -> file->offset
    pc,         \* caller -> where it is
    req,        \* caller -> its present or last call
    at,         \* caller -> the offset its present turn started from
    done,       \* caller -> bytes transferred, what the call returns
    mapped,     \* caller -> the local page pointer is not NULL
    page,       \* caller -> content of the page
    buffer,     \* caller -> what read has put into the caller's buffer
    failures,   \* commands failed without cause so far
    calls,      \* calls made so far
    shadow,     \* history: the disk if every write had only changed its bytes
    disturbed,  \* history: callers that shared a handle during a call
    misuse      \* history: "null" data went through a NULL page, "overlap" a
                \* page was stored under another caller's copy of it, "wrap" a
                \* block was taken for the one 2^32 below it, "stray" a page
                \* was stored by a disturbed caller

fileVars    == <<via, position>>
callVars    == <<pc, req, at, done, mapped, page, buffer>>
historyVars == <<shadow, disturbed, misuse>>
vars        == <<disk, fileVars, callVars, failures, calls, historyVars>>

Byte(c, a) == [by |-> c, at |-> a]
ZeroByte   == [by |-> Nobody, at |-> -1]
NoRequest  == [op |-> "read", offset |-> 0, len |-> 0]

----------------------------------------------------------------------------
(* The arithmetic at the head of both loops.                               *)

MinOf(x, y) == IF x <= y THEN x ELSE y

AlignDown(x) == x - (x % LbaSize)

\* file->offset as the present turn sees it.
Offset(c) == IF pc[c] \in {"read", "write"} THEN position[via[c]] ELSE at[c]

BlockStart(c) == AlignDown(Offset(c) + done[c])

\* Mutant: every page is taken to start at the request.
MutPageOffset(c) == 0

PageOffset(c) == done[c] + Offset(c) - BlockStart(c)

\* Mutant: the bytes before the request in its first page are forgotten.
MutChunk(c) == MinOf(PageSize, req[c].len - done[c])

Chunk(c) ==
    IF PageOffset(c) > 0
    THEN MinOf(PageSize - (Offset(c) - BlockStart(c)), req[c].len)
    ELSE MinOf(PageSize, req[c].len - done[c])

\* int lba, and the address the device makes of it.
Lba(c)         == (BlockStart(c) \div LbaSize) % IntMod
DeviceStart(c) == Lba(c) * LbaSize

Window(c)   == DeviceStart(c) .. DeviceStart(c) + PageSize - 1
InChunk(c)  == {a \in Addr : /\ a >= Offset(c) + done[c]
                             /\ a < Offset(c) + done[c] + Chunk(c)}

\* The caller's page after memcpy of the chunk into p.  (A disturbed call may
\* copy past the page; what it overwrites there is not modelled.)
Merged(c, p) ==
    [k \in 0..PageSize-1 |->
        IF PageOffset(c) <= k /\ k < PageOffset(c) + Chunk(c)
        THEN Byte(c, BlockStart(c) + k) ELSE p[k]]

----------------------------------------------------------------------------
(* The device.  A command that reaches past the end of the namespace is    *)
(* refused, a negative block number among them; any other may be, within   *)
(* the bound.                                                              *)

InRange(c) == Lba(c) < IntMod \div 2 /\ DeviceStart(c) + PageSize <= Size

OnDisk(c) == [k \in 0..PageSize-1 |-> disk[DeviceStart(c) + k]]

Wrap(c)  == IF DeviceStart(c) = BlockStart(c) THEN {} ELSE {"wrap"}
Stray(c) == IF c \in disturbed THEN {"stray"} ELSE {}

CommandFails(c) ==
    \/ ~InRange(c) /\ UNCHANGED failures
    \/ InRange(c) /\ failures < MaxFailures /\ failures' = failures + 1

----------------------------------------------------------------------------
Init ==
    /\ disk = [a \in Addr |-> Byte(Nobody, a)]
    /\ via \in [Callers -> Handles]
    /\ position = [h \in Handles |-> 0]
    /\ pc = [c \in Callers |-> "idle"]
    /\ req = [c \in Callers |-> NoRequest]
    /\ at = [c \in Callers |-> 0]
    /\ done = [c \in Callers |-> 0]
    /\ mapped = [c \in Callers |-> FALSE]
    /\ page = [c \in Callers |-> [k \in 0..PageSize-1 |-> ZeroByte]]
    /\ buffer = [c \in Callers |-> [k \in {} |-> ZeroByte]]
    /\ failures = 0
    /\ calls = 0
    /\ shadow = disk
    /\ disturbed = {}
    /\ misuse = {}

\* vfs_seek and the entry of the transfer.
Call(c, r) ==
    LET sharing == {u \in Callers \ {c} :
                       via[u] = via[c] /\ pc[u] \notin {"idle", "fault"}}
    IN  /\ pc[c] = "idle"
        /\ calls < MaxCalls
        /\ position' = [position EXCEPT ![via[c]] = r.offset]
        /\ disturbed' = IF sharing = {} THEN disturbed
                        ELSE disturbed \cup sharing \cup {c}
        /\ pc' = [pc EXCEPT ![c] = r.op]
        /\ req' = [req EXCEPT ![c] = r]
        /\ at' = [at EXCEPT ![c] = r.offset]
        /\ done' = [done EXCEPT ![c] = 0]
        /\ mapped' = [mapped EXCEPT ![c] = FALSE]
        /\ page' = [page EXCEPT ![c] = [k \in 0..PageSize-1 |-> ZeroByte]]
        /\ buffer' = [buffer EXCEPT ![c] = [k \in 0..r.len-1 |-> ZeroByte]]
        /\ calls' = calls + 1
        /\ UNCHANGED <<disk, via, failures, shadow, misuse>>

Busy(c, op) == pc[c] = op /\ done[c] < req[c].len

\* Mutant: the whole page is copied, whatever room the buffer has.
MutCopied(c) ==
    [k \in DOMAIN buffer[c] \cup (done[c] .. done[c] + PageSize - 1) |->
        IF done[c] <= k /\ k < done[c] + PageSize
        THEN OnDisk(c)[k - done[c]] ELSE buffer[c][k]]

\* The caller's buffer after memcpy of the chunk from the page just read.
Copied(c) ==
    [k \in DOMAIN buffer[c] |->
        LET k2 == PageOffset(c) + k - done[c]
        IN  IF done[c] <= k /\ k < done[c] + Chunk(c) /\ k2 < PageSize
            THEN OnDisk(c)[k2] ELSE buffer[c][k]]

\* A turn of the read loop: the command, memcpy to the buffer, read += to_read.
ReadBlock(c) ==
    /\ Busy(c, "read")
    /\ InRange(c)
    /\ mapped' = [mapped EXCEPT ![c] = TRUE]
    /\ page' = [page EXCEPT ![c] = OnDisk(c)]
    /\ buffer' = [buffer EXCEPT ![c] = Copied(c)]
    /\ done' = [done EXCEPT ![c] = @ + Chunk(c)]
    /\ misuse' = misuse \cup Wrap(c)
    /\ UNCHANGED <<disk, fileVars, pc, req, at, failures, calls, shadow,
                   disturbed>>

\* The head of a turn of the write loop: its offset is read and used to the
\* end of the turn.
StartStore(c) ==
    /\ pc' = [pc EXCEPT ![c] = "store"]
    /\ at' = [at EXCEPT ![c] = position[via[c]]]
    /\ mapped' = [mapped EXCEPT ![c] = TRUE]
    /\ UNCHANGED <<disk, fileVars, req, done, buffer, failures, calls, shadow,
                   disturbed>>

\* Mutant: the write loop never reads the page it is about to change.
MutFill(c) ==
    /\ Busy(c, "write") /\ Chunk(c) < PageSize
    /\ InRange(c)
    /\ page' = [page EXCEPT ![c] = Merged(c, @)]
    /\ StartStore(c)
    /\ UNCHANGED misuse

\* A turn of the write loop that fills part of a page: read it, change it.
Fill(c) ==
    /\ Busy(c, "write") /\ Chunk(c) < PageSize
    /\ InRange(c)
    /\ page' = [page EXCEPT ![c] = Merged(c, OnDisk(c))]
    /\ StartStore(c)
    /\ UNCHANGED misuse

\* A turn that fills a whole page goes straight to the copy.
FillWhole(c) ==
    /\ Busy(c, "write") /\ Chunk(c) >= PageSize
    /\ mapped[c]
    /\ page' = [page EXCEPT ![c] = Merged(c, @)]
    /\ StartStore(c)
    /\ UNCHANGED misuse

\* The same when no command has allocated the page yet: memcpy to a NULL
\* pointer.  Undefined: the bytes land at address 0 and namespace_rw_page then
\* allocates and stores a page of zeros, or the kernel faults.
FillNull(c) ==
    /\ Busy(c, "write") /\ Chunk(c) >= PageSize
    /\ ~mapped[c]
    /\ misuse' = misuse \cup {"null"}
    /\ \/ StartStore(c)
       \/ /\ pc' = [pc EXCEPT ![c] = "fault"]
          /\ UNCHANGED <<disk, fileVars, req, at, done, mapped, buffer,
                         failures, calls, shadow, disturbed>>
    /\ UNCHANGED page

Overlaps(c) == \E u \in Callers \ {c} :
                  pc[u] = "store" /\ Window(u) \cap Window(c) # {}

\* The write command of a turn takes effect.
StoreEffect(c) ==
    /\ pc[c] = "store"
    /\ InRange(c)
    /\ pc' = [pc EXCEPT ![c] = "write"]
    /\ disk' = [a \in Addr |-> IF a \in Window(c)
                               THEN page[c][a - DeviceStart(c)] ELSE disk[a]]
    /\ shadow' = [a \in Addr |-> IF a \in InChunk(c) THEN Byte(c, a)
                                 ELSE shadow[a]]
    /\ misuse' = misuse \cup Wrap(c) \cup Stray(c)
                        \cup (IF Overlaps(c) THEN {"overlap"} ELSE {})
    /\ UNCHANGED <<fileVars, req, at, mapped, page, buffer, failures, calls,
                   disturbed>>

\* Mutant: the page goes out but the count stays behind.
MutStore(c) == StoreEffect(c) /\ UNCHANGED done

\* The second command of the turn, and written += to_write.
Store(c) == StoreEffect(c) /\ done' = [done EXCEPT ![c] = @ + Chunk(c)]

\* A command fails: the loop is left and the call returns what it has done.
Fail(c) ==
    /\ \/ Busy(c, "read")
       \/ Busy(c, "write") /\ Chunk(c) < PageSize
       \/ pc[c] = "store"
    /\ CommandFails(c)
    /\ pc' = [pc EXCEPT ![c] = "idle"]
    /\ UNCHANGED <<disk, fileVars, req, at, done, mapped, page, buffer, calls,
                   historyVars>>

\* Mutant: one turn, whatever remains.
MutFinished(c) == done[c] > 0 \/ req[c].len = 0

Finished(c) == done[c] >= req[c].len

\* The loop is done: the page is freed and the count returned.
Return(c) ==
    /\ pc[c] \in {"read", "write"}
    /\ Finished(c)
    /\ pc' = [pc EXCEPT ![c] = "idle"]
    /\ UNCHANGED <<disk, fileVars, req, at, done, mapped, page, buffer,
                   failures, calls, historyVars>>

\* The bound is used up.
Quiescent ==
    /\ \A c \in Callers : pc[c] = "fault" \/ (pc[c] = "idle" /\ calls = MaxCalls)
    /\ UNCHANGED vars

CallStep(c) ==
    \/ ReadBlock(c) \/ Fill(c) \/ FillWhole(c) \/ FillNull(c) \/ Store(c)
    \/ Fail(c) \/ Return(c)

Next ==
    \/ \E c \in Callers : CallStep(c) \/ \E r \in Requests : Call(c, r)
    \/ Quiescent

Spec == Init /\ [][Next]_vars

\* A call in progress goes on: the scheduler runs it and poll returns.
FairSpec == Spec /\ \A c \in Callers : WF_vars(CallStep(c))

----------------------------------------------------------------------------
(* Properties.                                                             *)

Bytes == [by : Callers \cup {Nobody}, at : Nat \cup {-1}]

\* Every variable stays within its type.
TypeOK ==
    /\ disk \in [Addr -> Bytes]
    /\ via \in [Callers -> Handles]
    /\ position \in [Handles -> Nat]
    /\ pc \in [Callers -> {"idle", "read", "write", "store", "fault"}]
    /\ req \in [Callers -> Requests \cup {NoRequest}]
    /\ at \in [Callers -> Nat]
    /\ done \in [Callers -> Nat]
    /\ mapped \in [Callers -> BOOLEAN]
    /\ page \in [Callers -> [0..PageSize-1 -> Bytes]]
    /\ \A c \in Callers : buffer[c] \in [0..req[c].len-1 -> Bytes]
    /\ failures \in 0..MaxFailures
    /\ calls \in 0..MaxCalls
    /\ shadow \in [Addr -> Bytes]
    /\ disturbed \subseteq Callers
    /\ misuse \subseteq {"null", "overlap", "wrap", "stray"}

\* Every turn of the loops makes progress, stays within the page it moved and
\* within the caller's buffer, although to_read and to_write are computed from
\* file->offset alone: only the first turn can start inside a block, unless
\* another call has moved the handle.
ChunkFits ==
    \A c \in Callers \ disturbed :
        /\ done[c] <= req[c].len
        /\ pc[c] # "idle" /\ done[c] < req[c].len =>
              /\ Chunk(c) > 0
              /\ PageOffset(c) + Chunk(c) <= PageSize
              /\ done[c] + Chunk(c) <= req[c].len

\* What read has put at position k of the buffer is the byte of the namespace
\* at the offset it was sent to plus k, unless a block number was cut off to
\* fit in an int, a page was written through NULL before, or one was written by
\* callers that share a handle: they may store what another page held.
ReadPlaced ==
    misuse \cap {"null", "wrap", "stray"} = {} =>
        \A c \in Callers \ disturbed : \A k \in 0..req[c].len-1 :
            req[c].op = "read" /\ k < done[c]
                => buffer[c][k].at = req[c].offset + k

\* A write changes the bytes it was given and no others, whatever else its
\* pages hold, unless two callers had copies of overlapping pages at the same
\* time, shared a handle, wrote through NULL or past block 2^32.
OnlyOwnBytes == misuse = {} /\ disturbed = {} => disk = shadow

\* A call that returns fewer bytes than asked for met a failed command, a page
\* that reaches past the end of the namespace, or a block past 2^31.
ShortOnlyOnFailure ==
    \A c \in Callers \ disturbed :
        pc[c] = "idle" /\ done[c] < req[c].len
            => failures > 0 \/ ~InRange(c)

\* Every call returns, unless it faults.
CallReturns ==
    \A c \in Callers : pc[c] \in {"read", "write", "store"}
                           ~> pc[c] \in {"idle", "fault"}

============================================================================
