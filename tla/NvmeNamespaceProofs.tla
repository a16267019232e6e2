------------------------ MODULE NvmeNamespaceProofs ------------------------
(***************************************************************************)
(* Theorems about NvmeNamespace, for every number of callers and handles,  *)
(* every block and page size and every range of bytes.                     *)
(*                                                                         *)
(* The invariant and the lemmas that preserve it are stated for any calls, *)
(* not only those of Requests, and for steps of a layer above, so that     *)
(* PartitionWindowProofs can use them too.                                 *)
(***************************************************************************)
EXTENDS NvmeNamespace, TLAPS

Request == [op : {"read", "write"}, offset : Nat, len : Nat]

----------------------------------------------------------------------------
(* The inductive invariant.                                                *)

\* The types that hold whatever calls are made, and what the place of a
\* caller says about its call.
StateOK ==
    /\ disk \in [Addr -> Bytes]
    /\ via \in [Callers -> Handles]
    /\ position \in [Handles -> Nat]
    /\ pc \in [Callers -> {"idle", "read", "write", "store", "fault"}]
    /\ req \in [Callers -> Request]
    /\ at \in [Callers -> Nat]
    /\ done \in [Callers -> Nat]
    /\ mapped \in [Callers -> BOOLEAN]
    /\ page \in [Callers -> [0..PageSize-1 -> Bytes]]
    /\ buffer = [c \in Callers |-> buffer[c]]
    /\ \A c \in Callers : buffer[c] \in [0..req[c].len-1 -> Bytes]
    /\ failures \in Nat
    /\ shadow \in [Addr -> Bytes]
    /\ disturbed \subseteq Callers
    /\ misuse \subseteq {"null", "overlap", "wrap", "stray"}
    /\ \A c \in Callers :
          /\ pc[c] \in {"read", "write"} => req[c].op = pc[c]
          /\ pc[c] = "store" => req[c].op = "write" /\ done[c] < req[c].len

Active(c) == pc[c] \in {"read", "write", "store"}

\* A caller that shares its handle with nobody finds the offset it sought on
\* every turn, and starts every turn but the first at the start of a block.
Steady(c) ==
    /\ at[c] = req[c].offset
    /\ Active(c) => position[via[c]] = req[c].offset
    /\ done[c] <= req[c].len
    /\ 0 < done[c] /\ done[c] < req[c].len
          => (req[c].offset + done[c]) % LbaSize = 0

AllSteady == \A c \in Callers \ disturbed : Steady(c)

\* Bytes are where they were meant to be: on the device, in the pages that
\* are about to be stored, and in the buffers of the readers.
PagePlaced(c) ==
    pc[c] = "store" /\ DeviceStart(c) = BlockStart(c) =>
        \A k \in 0..PageSize-1 : page[c][k].at = BlockStart(c) + k

BufferPlaced(c) ==
    \A k \in 0..req[c].len-1 :
        req[c].op = "read" /\ k < done[c] => buffer[c][k].at = req[c].offset + k

Placed ==
    misuse \cap {"null", "wrap", "stray"} = {} =>
        /\ \A a \in Addr : disk[a].at = a
        /\ \A c \in Callers \ disturbed : PagePlaced(c) /\ BufferPlaced(c)

\* A page about to be stored differs from the device only where its caller
\* wants to write.
PageOwn(c) ==
    pc[c] = "store" /\ InRange(c) /\ DeviceStart(c) = BlockStart(c) =>
        \A k \in 0..PageSize-1 :
            page[c][k] = IF PageOffset(c) <= k /\ k < PageOffset(c) + Chunk(c)
                         THEN Byte(c, BlockStart(c) + k)
                         ELSE disk[DeviceStart(c) + k]

OwnBytes ==
    misuse = {} /\ disturbed = {} =>
        disk = shadow /\ \A c \in Callers : PageOwn(c)

NInv == StateOK /\ AllSteady /\ Placed /\ OwnBytes

----------------------------------------------------------------------------
(* Arithmetic of blocks.                                                   *)

\* Quotient and remainder of a division by the size of a block.
LEMMA DivMod ==
    ASSUME NEW n \in Nat \ {0}, NEW a \in Int
    PROVE  /\ a \div n \in Int
           /\ a % n \in 0..n-1
           /\ a = n * (a \div n) + (a % n)
  OBVIOUS

\* A product has no remainder.
LEMMA ModMultiple ==
    ASSUME NEW n \in Nat \ {0}, NEW a \in Int
    PROVE  (n * a) % n = 0
  <1> DEFINE q == (n * a) \div n
             r == (n * a) % n
  <1>1. n * a \in Int
    OBVIOUS
  <1>2. q \in Int /\ r \in 0..n-1 /\ n * a = n * q + r
    BY <1>1, DivMod
  <1> HIDE DEF q, r
  <1>3. n * (a - q) = r /\ a - q \in Int
    <2>1. n * (a - q) = n * a - n * q
      BY <1>2
    <2> QED
      BY <1>1, <1>2, <2>1
  <1>4. a - q = 0
    <2>1. CASE a - q >= 1
      <3>1. n * (a - q) >= n
        BY <1>3, <2>1
      <3> QED
        BY <1>2, <1>3, <3>1
    <2>2. CASE a - q <= -1
      <3>1. n * (q - a) >= n
        BY <1>2, <2>2
      <3>2. n * (q - a) = -(n * (a - q))
        BY <1>2
      <3> QED
        BY <1>2, <1>3, <3>1, <3>2
    <2> QED
      BY <1>3, <2>1, <2>2
  <1>5. r = 0
    BY <1>3, <1>4
  <1> QED
    BY <1>5 DEF r

\* The sum of two multiples of the block size is one.
LEMMA ModSum ==
    ASSUME NEW n \in Nat \ {0}, NEW a \in Int, NEW b \in Int,
           a % n = 0, b % n = 0
    PROVE  (a + b) % n = 0
  <1> DEFINE p == a \div n
             q == b \div n
  <1>1. p \in Int /\ q \in Int /\ a = n * p /\ b = n * q
    BY DivMod
  <1> HIDE DEF p, q
  <1>2. a + b = n * (p + q) /\ p + q \in Int
    BY <1>1
  <1> QED
    BY <1>2, ModMultiple

\* A page is at least one block long.
LEMMA PageNotShort == LbaSize \in Nat \ {0} /\ PageSize \in Nat \ {0} /\ LbaSize <= PageSize
  <1>1. LbaSize \in Nat \ {0} /\ PageSize \in Nat \ {0} /\ PageSize % LbaSize = 0
    BY NamespaceAssumption
  <1>2. ASSUME PageSize < LbaSize
        PROVE  PageSize % LbaSize = PageSize
    BY <1>1, <1>2
  <1> QED
    BY <1>1, <1>2

\* Rounding down to a block.
LEMMA AlignFacts ==
    ASSUME NEW x \in Nat
    PROVE  /\ AlignDown(x) \in Nat
           /\ x - AlignDown(x) \in 0..LbaSize-1
           /\ AlignDown(x) % LbaSize = 0
           /\ x % LbaSize = 0 => AlignDown(x) = x
  <1>0. LbaSize \in Nat \ {0}
    BY PageNotShort
  <1> DEFINE q == x \div LbaSize
             r == x % LbaSize
  <1>1. q \in Int /\ r \in 0..LbaSize-1 /\ x = LbaSize * q + r
    BY <1>0, DivMod
  <1>2. r <= x
    BY <1>0
  <1> HIDE DEF q
  <1>3. AlignDown(x) = x - r
    BY DEF AlignDown
  <1>4. AlignDown(x) = LbaSize * q
    BY <1>0, <1>1, <1>3
  <1>5. AlignDown(x) % LbaSize = 0
    BY <1>0, <1>1, <1>4, ModMultiple
  <1> QED
    BY <1>0, <1>1, <1>2, <1>3, <1>5

----------------------------------------------------------------------------
(* One turn of a loop.                                                     *)

\* What the head of a turn computes, whoever has moved the handle.
LEMMA Geometry ==
    ASSUME StateOK, NEW c \in Callers
    PROVE  /\ Offset(c) \in Nat /\ done[c] \in Nat /\ req[c].len \in Nat
           /\ BlockStart(c) \in Nat /\ DeviceStart(c) \in Nat
           /\ BlockStart(c) % LbaSize = 0
           /\ PageOffset(c) \in 0..LbaSize-1
           /\ PageOffset(c) = Offset(c) + done[c] - BlockStart(c)
           /\ done[c] < req[c].len => Chunk(c) \in Nat \ {0}
  <1>0. LbaSize \in Nat \ {0} /\ PageSize \in Nat \ {0} /\ LbaSize <= PageSize
    BY PageNotShort
  <1>1. Offset(c) \in Nat /\ done[c] \in Nat /\ req[c].len \in Nat
    BY DEF StateOK, Offset, Request
  <1>2. /\ BlockStart(c) \in Nat
        /\ Offset(c) + done[c] - BlockStart(c) \in 0..LbaSize-1
        /\ BlockStart(c) % LbaSize = 0
    <2> DEFINE x == Offset(c) + done[c]
    <2>1. x \in Nat
      BY <1>1
    <2>2. BlockStart(c) = AlignDown(x)
      BY DEF BlockStart
    <2> HIDE DEF x
    <2>3. x - BlockStart(c) \in 0..LbaSize-1 /\ BlockStart(c) \in Nat
             /\ BlockStart(c) % LbaSize = 0
      BY <2>1, <2>2, AlignFacts
    <2> QED
      BY <1>0, <1>1, <2>3 DEF x
  <1>3. PageOffset(c) = Offset(c) + done[c] - BlockStart(c)
    BY <1>1, <1>2 DEF PageOffset
  <1>4. DeviceStart(c) \in Nat
    <2>1. BlockStart(c) \div LbaSize \in Int
      BY <1>0, <1>2
    <2>2. Lba(c) \in Nat
      BY <2>1, NamespaceAssumption DEF Lba
    <2> QED
      BY <1>0, <2>2 DEF DeviceStart
  <1>5. ASSUME done[c] < req[c].len
        PROVE  Chunk(c) \in Nat \ {0}
    BY <1>0, <1>1, <1>2, <1>3, <1>5 DEF Chunk, MinOf
  <1> QED
    BY <1>1, <1>2, <1>3, <1>4, <1>5

\* The offset of an undisturbed caller is the one it sought.
LEMMA SteadyOffset ==
    ASSUME StateOK, NEW c \in Callers, Steady(c)
    PROVE  Offset(c) = req[c].offset
  BY DEF Steady, Offset, Active

\* A turn of an undisturbed caller stays in its page and in its request, and
\* the next turn, if there is one, starts at the next page.
LEMMA TurnFits ==
    ASSUME StateOK, NEW c \in Callers, Steady(c), done[c] < req[c].len
    PROVE  /\ Chunk(c) \in Nat \ {0}
           /\ PageOffset(c) + Chunk(c) <= PageSize
           /\ done[c] + Chunk(c) <= req[c].len
           /\ done[c] + Chunk(c) < req[c].len =>
                 (req[c].offset + (done[c] + Chunk(c))) % LbaSize = 0
  <1>0. LbaSize \in Nat \ {0} /\ PageSize \in Nat \ {0} /\ LbaSize <= PageSize
    BY PageNotShort
  <1>1. Offset(c) = req[c].offset /\ req[c].offset \in Nat
    BY SteadyOffset DEF StateOK, Request
  <1>2. /\ done[c] \in Nat /\ req[c].len \in Nat /\ BlockStart(c) \in Nat
        /\ BlockStart(c) % LbaSize = 0
        /\ PageOffset(c) \in 0..LbaSize-1
        /\ PageOffset(c) = Offset(c) + done[c] - BlockStart(c)
        /\ Chunk(c) \in Nat \ {0}
    BY Geometry
  <1>3. done[c] > 0 => BlockStart(c) = Offset(c) + done[c]
    <2>1. Offset(c) + done[c] \in Nat
      BY <1>1, <1>2
    <2>2. done[c] > 0 => (Offset(c) + done[c]) % LbaSize = 0
      BY <1>1, <1>2 DEF Steady
    <2> QED
      BY <2>1, <2>2, AlignFacts DEF BlockStart
  <1>4. /\ PageOffset(c) + Chunk(c) <= PageSize
        /\ done[c] + Chunk(c) <= req[c].len
        /\ done[c] + Chunk(c) < req[c].len =>
              Offset(c) + done[c] + Chunk(c) = BlockStart(c) + PageSize
    <2>1. CASE done[c] = 0
      <3>1. Offset(c) - BlockStart(c) = PageOffset(c)
        BY <1>1, <1>2, <2>1
      <3>2. CASE PageOffset(c) > 0
        <4>1. Chunk(c) = MinOf(PageSize - PageOffset(c), req[c].len)
          BY <3>1, <3>2 DEF Chunk
        <4> QED
          BY <1>0, <1>1, <1>2, <2>1, <4>1 DEF MinOf
      <3>3. CASE PageOffset(c) = 0
        <4>1. Chunk(c) = MinOf(PageSize, req[c].len)
          BY <1>2, <2>1, <3>3 DEF Chunk
        <4> QED
          BY <1>0, <1>1, <1>2, <2>1, <3>3, <4>1 DEF MinOf
      <3> QED
        BY <1>0, <1>2, <3>2, <3>3
    <2>2. CASE done[c] > 0
      <3>1. PageOffset(c) = 0
        BY <1>1, <1>2, <1>3, <2>2
      <3> QED
        BY <1>0, <1>1, <1>2, <1>3, <2>2, <3>1 DEF Chunk, MinOf
    <2> QED
      BY <1>2, <2>1, <2>2
  <1>5. (BlockStart(c) + PageSize) % LbaSize = 0
    BY <1>0, <1>2, ModSum, NamespaceAssumption
  <1>6. done[c] + Chunk(c) < req[c].len =>
           req[c].offset + (done[c] + Chunk(c)) = BlockStart(c) + PageSize
    BY <1>1, <1>2, <1>4
  <1> QED
    BY <1>2, <1>4, <1>5, <1>6

\* A caller whose offset and count do not change computes the same turn.
LEMMA SameTurn ==
    ASSUME NEW c \in Callers, Offset(c)' = Offset(c), done'[c] = done[c],
           req'[c] = req[c]
    PROVE  /\ BlockStart(c)' = BlockStart(c)
           /\ PageOffset(c)' = PageOffset(c)
           /\ Chunk(c)' = Chunk(c)
           /\ DeviceStart(c)' = DeviceStart(c)
           /\ InRange(c)' <=> InRange(c)
  <1>1. BlockStart(c)' = BlockStart(c)
    BY DEF BlockStart, AlignDown
  <1>2. PageOffset(c)' = PageOffset(c)
    BY <1>1 DEF PageOffset
  <1>3. Chunk(c)' = Chunk(c)
    BY <1>1, <1>2 DEF Chunk, MinOf
  <1>4. Lba(c)' = Lba(c)
    BY <1>1 DEF Lba
  <1>5. DeviceStart(c)' = DeviceStart(c)
    BY <1>4 DEF DeviceStart
  <1>6. InRange(c)' <=> InRange(c)
    BY <1>4, <1>5 DEF InRange
  <1> QED
    BY <1>1, <1>2, <1>3, <1>5, <1>6

----------------------------------------------------------------------------
(* Contents of pages and buffers.                                          *)

\* A command in range moves bytes of the namespace.
LEMMA OnDiskType ==
    ASSUME StateOK, NEW c \in Callers, InRange(c)
    PROVE  /\ \A k \in 0..PageSize-1 :
                 /\ DeviceStart(c) + k \in Addr
                 /\ OnDisk(c)[k] = disk[DeviceStart(c) + k]
           /\ OnDisk(c) \in [0..PageSize-1 -> Bytes]
  <1>1. /\ DeviceStart(c) \in Nat /\ PageSize \in Nat /\ Size \in Nat
        /\ DeviceStart(c) + PageSize <= Size
    BY Geometry, PageNotShort, NamespaceAssumption DEF InRange
  <1>2. \A k \in 0..PageSize-1 : DeviceStart(c) + k \in Addr
    BY <1>1 DEF Addr
  <1> QED
    BY <1>2 DEF OnDisk, StateOK

\* memcpy of a chunk into a page makes a page.
LEMMA MergedType ==
    ASSUME StateOK, NEW c \in Callers, NEW p \in [0..PageSize-1 -> Bytes]
    PROVE  Merged(c, p) \in [0..PageSize-1 -> Bytes]
  <1>1. \A k \in 0..PageSize-1 : Byte(c, BlockStart(c) + k) \in Bytes
    <2>1. BlockStart(c) \in Nat
      BY Geometry
    <2> QED
      BY <2>1 DEF Byte, Bytes
  <1> QED
    BY <1>1 DEF Merged

\* memcpy of a chunk into the caller's buffer stays in the buffer.
LEMMA CopiedType ==
    ASSUME StateOK, NEW c \in Callers, InRange(c)
    PROVE  Copied(c) \in [0..req[c].len-1 -> Bytes]
  <1>1. buffer[c] \in [0..req[c].len-1 -> Bytes]
    BY DEF StateOK
  <1>2. OnDisk(c) \in [0..PageSize-1 -> Bytes]
    BY OnDiskType
  <1>3. ASSUME NEW k \in 0..req[c].len-1, done[c] <= k,
               PageOffset(c) + k - done[c] < PageSize
        PROVE  OnDisk(c)[PageOffset(c) + k - done[c]] \in Bytes
    <2>1. PageOffset(c) \in Nat /\ done[c] \in Nat
      BY Geometry
    <2>2. PageOffset(c) + k - done[c] \in 0..PageSize-1
      BY <1>3, <2>1, PageNotShort
    <2> QED
      BY <1>2, <2>2
  <1> QED
    BY <1>1, <1>3 DEF Copied

----------------------------------------------------------------------------
(* The steps: what each one leaves alone.                                  *)

\* A step of one caller does not touch the calls of the others.
Frame(c) ==
    /\ via' = via
    /\ \A u \in Callers \ {c} :
          /\ pc'[u] = pc[u] /\ req'[u] = req[u] /\ at'[u] = at[u]
          /\ done'[u] = done[u] /\ page'[u] = page[u] /\ buffer'[u] = buffer[u]

\* A step of the layer above: nothing of a call in progress changes, and only
\* a caller that is idle may have its count cleared.
QuietStep ==
    /\ UNCHANGED <<disk, via, position, pc, req, at, mapped, page, buffer,
                   shadow, misuse>>
    /\ disturbed \subseteq disturbed' /\ disturbed' \subseteq Callers
    /\ failures' \in Nat
    /\ done' \in [Callers -> Nat]
    /\ \A c \in Callers : done'[c] = done[c] \/ (pc[c] = "idle" /\ done'[c] = 0)

\* The steps the invariant is preserved by.
NsStep ==
    \/ \E c \in Callers : CallStep(c) \/ \E r \in Request : Call(c, r)
    \/ QuietStep

\* Frame holds of every step of a call.
LEMMA CallFrame ==
    ASSUME StateOK, NEW c \in Callers, NEW r \in Request, Call(c, r)
    PROVE  Frame(c)
  BY DEF Call, Frame, StateOK

\* The steps inside a call move no handle and disturb nobody.
LEMMA CallStepFrame ==
    ASSUME StateOK, NEW c \in Callers, CallStep(c)
    PROVE  Frame(c) /\ position' = position /\ disturbed' = disturbed
  <1> USE DEF Frame, StateOK, fileVars, historyVars
  <1>1. CASE ReadBlock(c)
    BY <1>1 DEF ReadBlock
  <1>2. CASE Fill(c)
    BY <1>2 DEF Fill, StartStore
  <1>3. CASE FillWhole(c)
    BY <1>3 DEF FillWhole, StartStore
  <1>4. CASE FillNull(c)
    BY <1>4 DEF FillNull, StartStore
  <1>5. CASE Store(c)
    BY <1>5 DEF Store, StoreEffect
  <1>6. CASE Fail(c)
    BY <1>6 DEF Fail
  <1>7. CASE Return(c)
    BY <1>7 DEF Return
  <1> QED
    BY <1>1, <1>2, <1>3, <1>4, <1>5, <1>6, <1>7 DEF CallStep

\* What the start of the write command fixes: the offset of the turn.
LEMMA StartStoreFacts ==
    ASSUME StateOK, NEW c \in Callers, pc[c] = "write", StartStore(c)
    PROVE  /\ pc'[c] = "store" /\ at'[c] = position[via[c]]
           /\ done' = done /\ req' = req /\ disk' = disk /\ shadow' = shadow
           /\ Offset(c)' = Offset(c)
  BY DEF StartStore, StateOK, Offset, fileVars

----------------------------------------------------------------------------
(* StateOK is preserved.                                                   *)

\* Every step keeps the types, whatever was called with whatever arguments:
\* no page or buffer is left half defined.
LEMMA StateOKNext ==
    ASSUME StateOK, NsStep
    PROVE  StateOK'
  <1>1. ASSUME NEW c \in Callers, NEW r \in Request, Call(c, r)
        PROVE  StateOK'
    <2>1. /\ pc' \in [Callers -> {"idle", "read", "write", "store", "fault"}]
          /\ position' \in [Handles -> Nat]
          /\ req' \in [Callers -> Request]
          /\ at' \in [Callers -> Nat] /\ done' \in [Callers -> Nat]
          /\ mapped' \in [Callers -> BOOLEAN]
      BY <1>1 DEF Call, StateOK, Request
    <2>2. ZeroByte \in Bytes
      BY DEF ZeroByte, Bytes
    <2>3. page' \in [Callers -> [0..PageSize-1 -> Bytes]]
      BY <1>1, <2>2 DEF Call, StateOK
    <2>4. /\ buffer' = [u \in Callers |-> buffer'[u]]
          /\ \A u \in Callers : buffer'[u] \in [0..req'[u].len-1 -> Bytes]
      <3>1. /\ buffer'[c] = [k \in 0..r.len-1 |-> ZeroByte] /\ req'[c] = r
            /\ \A u \in Callers \ {c} : buffer'[u] = buffer[u] /\ req'[u] = req[u]
            /\ buffer' = [u \in Callers |-> buffer'[u]]
        BY <1>1 DEF Call, StateOK
      <3>2. [k \in 0..r.len-1 |-> ZeroByte] \in [0..r.len-1 -> Bytes]
        BY <2>2
      <3>3. \A u \in Callers : buffer[u] \in [0..req[u].len-1 -> Bytes]
        BY DEF StateOK
      <3>4. buffer'[c] \in [0..req'[c].len-1 -> Bytes]
        BY <3>1, <3>2
      <3> QED
        BY <3>1, <3>3, <3>4
    <2>5. disturbed' \subseteq Callers
      BY <1>1 DEF Call, StateOK
    <2>6. \A u \in Callers :
             /\ pc'[u] \in {"read", "write"} => req'[u].op = pc'[u]
             /\ pc'[u] = "store" => req'[u].op = "write" /\ done'[u] < req'[u].len
      BY <1>1 DEF Call, StateOK, Request
    <2> QED
      BY <1>1, <2>1, <2>3, <2>4, <2>5, <2>6 DEF Call, StateOK
  <1>2. ASSUME NEW c \in Callers, ReadBlock(c)
        PROVE  StateOK'
    <2>1. pc[c] = "read" /\ done[c] < req[c].len /\ InRange(c)
      BY <1>2 DEF ReadBlock, Busy
    <2>2. page' \in [Callers -> [0..PageSize-1 -> Bytes]]
      BY <1>2, <2>1, OnDiskType DEF ReadBlock, StateOK
    <2>3. /\ buffer' = [u \in Callers |-> buffer'[u]]
          /\ \A u \in Callers : buffer'[u] \in [0..req[u].len-1 -> Bytes]
      BY <1>2, <2>1, CopiedType DEF ReadBlock, StateOK
    <2>4. Chunk(c) \in Nat
      BY <2>1, Geometry
    <2>5. done' \in [Callers -> Nat] /\ \A u \in Callers \ {c} : done'[u] = done[u]
      BY <1>2, <2>4 DEF ReadBlock, StateOK
    <2>6. misuse' \subseteq {"null", "overlap", "wrap", "stray"}
      BY <1>2 DEF ReadBlock, Wrap, StateOK
    <2> QED
      BY <1>2, <2>1, <2>2, <2>3, <2>5, <2>6 DEF ReadBlock, StateOK, fileVars
  <1>3. ASSUME NEW c \in Callers, pc[c] = "write", done[c] < req[c].len,
               StartStore(c), page' \in [Callers -> [0..PageSize-1 -> Bytes]],
               misuse' \subseteq {"null", "overlap", "wrap", "stray"}
        PROVE  StateOK'
    <2>1. /\ pc' \in [Callers -> {"idle", "read", "write", "store", "fault"}]
          /\ at' \in [Callers -> Nat] /\ mapped' \in [Callers -> BOOLEAN]
      BY <1>3 DEF StartStore, StateOK
    <2> QED
      BY <1>3, <2>1 DEF StartStore, StateOK, fileVars
  <1>4. ASSUME NEW c \in Callers, Fill(c)
        PROVE  StateOK'
    <2>1. Merged(c, OnDisk(c)) \in [0..PageSize-1 -> Bytes]
      BY <1>4, OnDiskType, MergedType DEF Fill
    <2>2. page' \in [Callers -> [0..PageSize-1 -> Bytes]] /\ misuse' = misuse
      BY <1>4, <2>1 DEF Fill, StateOK
    <2> QED
      BY <1>3, <1>4, <2>2 DEF Fill, Busy, StateOK
  <1>5. ASSUME NEW c \in Callers, FillWhole(c)
        PROVE  StateOK'
    <2>1. Merged(c, page[c]) \in [0..PageSize-1 -> Bytes]
      BY MergedType DEF StateOK
    <2>2. page' \in [Callers -> [0..PageSize-1 -> Bytes]] /\ misuse' = misuse
      BY <1>5, <2>1 DEF FillWhole, StateOK
    <2> QED
      BY <1>3, <1>5, <2>2 DEF FillWhole, Busy, StateOK
  <1>6. ASSUME NEW c \in Callers, FillNull(c)
        PROVE  StateOK'
    <2>1. CASE StartStore(c)
      BY <1>3, <1>6, <2>1 DEF FillNull, Busy, StateOK
    <2>2. CASE ~StartStore(c)
      BY <1>6, <2>2 DEF FillNull, Busy, StateOK, fileVars
    <2> QED
      BY <2>1, <2>2
  <1>7. ASSUME NEW c \in Callers, Store(c)
        PROVE  StateOK'
    <2>1. /\ pc[c] = "store" /\ done[c] < req[c].len /\ InRange(c)
          /\ req[c].op = "write"
      BY <1>7 DEF Store, StoreEffect, StateOK
    <2>2. Chunk(c) \in Nat
      BY <2>1, Geometry
    <2>3. done' \in [Callers -> Nat] /\ \A u \in Callers \ {c} : done'[u] = done[u]
      BY <1>7, <2>2 DEF Store, StateOK
    <2>4. disk' \in [Addr -> Bytes]
      <3>1. DeviceStart(c) \in Nat /\ PageSize \in Nat
        BY Geometry, PageNotShort
      <3>2. \A a \in Window(c) : a - DeviceStart(c) \in 0..PageSize-1
        BY <3>1 DEF Window
      <3>3. \A a \in Window(c) : page[c][a - DeviceStart(c)] \in Bytes
        BY <3>2 DEF StateOK
      <3>4. \A a \in Addr : disk[a] \in Bytes
        BY DEF StateOK
      <3> QED
        BY <1>7, <3>3, <3>4 DEF Store, StoreEffect
    <2>5. shadow' \in [Addr -> Bytes]
      <3>1. \A a \in Addr : Byte(c, a) \in Bytes
        BY NamespaceAssumption DEF Byte, Bytes, Addr
      <3> QED
        BY <1>7, <3>1 DEF Store, StoreEffect, StateOK
    <2>6. misuse' \subseteq {"null", "overlap", "wrap", "stray"}
      BY <1>7 DEF Store, StoreEffect, Wrap, Stray, StateOK
    <2>7. /\ pc' \in [Callers -> {"idle", "read", "write", "store", "fault"}]
          /\ pc'[c] = "write" /\ \A u \in Callers \ {c} : pc'[u] = pc[u]
      BY <1>7 DEF Store, StoreEffect, StateOK
    <2> QED
      BY <1>7, <2>1, <2>3, <2>4, <2>5, <2>6, <2>7
      DEF Store, StoreEffect, StateOK, fileVars
  <1>8. ASSUME NEW c \in Callers, Fail(c) \/ Return(c)
        PROVE  StateOK'
    <2>1. failures' \in Nat
      BY <1>8 DEF Fail, Return, CommandFails, StateOK
    <2>2. /\ pc' \in [Callers -> {"idle", "read", "write", "store", "fault"}]
          /\ pc'[c] = "idle" /\ \A u \in Callers \ {c} : pc'[u] = pc[u]
          /\ UNCHANGED <<disk, fileVars, req, at, done, mapped, page, buffer,
                         historyVars>>
      BY <1>8 DEF Fail, Return, StateOK
    <2> QED
      BY <2>1, <2>2 DEF StateOK, fileVars, historyVars
  <1>9. CASE QuietStep
    <2>1. \A c \in Callers : done'[c] <= done[c] /\ (pc[c] = "store" => done'[c] = done[c])
      BY <1>9 DEF QuietStep, StateOK
    <2> QED
      BY <1>9, <2>1 DEF QuietStep, StateOK
  <1> QED
    BY <1>1, <1>2, <1>4, <1>5, <1>6, <1>7, <1>8, <1>9 DEF NsStep, CallStep

----------------------------------------------------------------------------
(* The other parts of the invariant are preserved.                         *)

\* What was ever done to a handle or through a page is not forgotten.
LEMMA HistoryGrows ==
    ASSUME StateOK, NsStep
    PROVE  misuse \subseteq misuse' /\ disturbed \subseteq disturbed'
  <1>1. ASSUME NEW c \in Callers, NEW r \in Request, Call(c, r)
        PROVE  misuse \subseteq misuse' /\ disturbed \subseteq disturbed'
    BY <1>1 DEF Call
  <1>2. ASSUME NEW c \in Callers, CallStep(c)
        PROVE  misuse \subseteq misuse' /\ disturbed \subseteq disturbed'
    <2>1. disturbed' = disturbed
      BY <1>2, CallStepFrame
    <2>2. misuse \subseteq misuse'
      BY <1>2 DEF CallStep, ReadBlock, Fill, FillWhole, FillNull, Store,
         StoreEffect, Fail, Return, historyVars
    <2> QED
      BY <2>1, <2>2
  <1>3. CASE QuietStep
    BY <1>3 DEF QuietStep
  <1> QED
    BY <1>1, <1>2, <1>3 DEF NsStep

\* A step of another caller moves no handle under an undisturbed one.
LEMMA OthersSteady ==
    ASSUME StateOK, AllSteady, NEW c \in Callers,
           CallStep(c) \/ \E r \in Request : Call(c, r),
           NEW u \in Callers \ {c}, u \notin disturbed'
    PROVE  /\ u \notin disturbed /\ Frame(c)
           /\ Offset(u)' = Offset(u)
           /\ Steady(u)'
  <1>1. Frame(c) /\ u \notin disturbed
    BY CallFrame, CallStepFrame DEF Call
  <1>2. Active(u) => position'[via[u]] = position[via[u]]
    <2>1. CASE CallStep(c)
      BY <2>1, CallStepFrame
    <2>2. ASSUME NEW r \in Request, Call(c, r)
          PROVE  Active(u) => position'[via[u]] = position[via[u]]
      <3>1. Active(u) => via[u] # via[c]
        BY <2>2 DEF Call, Active
      <3> QED
        BY <2>2, <3>1 DEF Call, StateOK
    <2> QED
      BY <2>1, <2>2
  <1>3. Offset(u)' = Offset(u)
    BY <1>1, <1>2 DEF Frame, Offset, Active
  <1>4. Steady(u)
    BY <1>1 DEF AllSteady
  <1>5. Steady(u)'
    BY <1>1, <1>2, <1>4 DEF Steady, Active, Frame
  <1> QED
    BY <1>1, <1>3, <1>5

\* The handle of an undisturbed call stays where the call sought it, and its
\* turns follow each other page by page.
LEMMA AllSteadyNext ==
    ASSUME StateOK, AllSteady, NsStep
    PROVE  AllSteady'
  <1>1. ASSUME NEW c \in Callers, NEW r \in Request, Call(c, r)
        PROVE  Steady(c)'
    BY <1>1 DEF Call, Steady, Active, StateOK, Request
  <1>2. ASSUME NEW c \in Callers \ disturbed', CallStep(c)
        PROVE  Steady(c)'
    <2>1. position' = position /\ via' = via /\ Steady(c)
      BY <1>2, CallStepFrame DEF Frame, AllSteady
    <2>2. ASSUME done' = [done EXCEPT ![c] = @ + Chunk(c)], done[c] < req[c].len,
                 UNCHANGED <<req, at>>, Active(c)
          PROVE  Steady(c)'
      <3>1. done'[c] = done[c] + Chunk(c)
        BY <2>2 DEF StateOK
      <3>2. /\ done'[c] <= req[c].len
            /\ done'[c] < req[c].len => (req[c].offset + done'[c]) % LbaSize = 0
        BY <2>1, <2>2, <3>1, TurnFits
      <3> QED
        BY <2>1, <2>2, <3>2 DEF Steady
    <2>3. CASE ReadBlock(c)
      BY <2>2, <2>3 DEF ReadBlock, Busy, Active
    <2>4. CASE Store(c)
      BY <2>2, <2>4 DEF Store, StoreEffect, Active, StateOK
    <2>5. ASSUME pc[c] = "write", StartStore(c)
          PROVE  Steady(c)'
      BY <2>1, <2>5, StartStoreFacts DEF Steady, Active
    <2>6. CASE Fill(c) \/ FillWhole(c)
      BY <2>5, <2>6 DEF Fill, FillWhole, Busy
    <2>7. CASE FillNull(c)
      BY <2>1, <2>5, <2>7 DEF FillNull, Busy, Steady, Active, StateOK
    <2>8. CASE Fail(c) \/ Return(c)
      BY <2>1, <2>8 DEF Fail, Return, Steady, Active, StateOK
    <2> QED
      BY <1>2, <2>3, <2>4, <2>6, <2>7, <2>8 DEF CallStep
  <1>3. ASSUME NEW c \in Callers, CallStep(c) \/ \E r \in Request : Call(c, r)
        PROVE  AllSteady'
    BY <1>1, <1>2, <1>3, OthersSteady DEF AllSteady
  <1>4. CASE QuietStep
    <2>1. ASSUME NEW c \in Callers \ disturbed'
          PROVE  Steady(c)'
      <3>1. Steady(c) /\ req[c].len \in Nat
        BY <1>4, <2>1 DEF QuietStep, AllSteady, StateOK, Request
      <3> QED
        BY <1>4, <3>1 DEF QuietStep, Steady, Active
    <2> QED
      BY <2>1 DEF AllSteady
  <1> QED
    BY <1>3, <1>4 DEF NsStep

\* An undisturbed turn that fills a whole page starts at its first byte.
LEMMA WholePage ==
    ASSUME StateOK, NEW c \in Callers, Steady(c), done[c] < req[c].len,
           Chunk(c) >= PageSize
    PROVE  PageOffset(c) = 0 /\ Chunk(c) = PageSize
  <1>1. /\ PageOffset(c) \in Nat /\ Chunk(c) \in Nat /\ PageSize \in Nat
        /\ PageOffset(c) + Chunk(c) <= PageSize
    BY Geometry, TurnFits, PageNotShort
  <1> QED
    BY <1>1

\* The page of a turn, byte by byte, after the memcpy.
LEMMA MergedBytes ==
    ASSUME StateOK, NEW c \in Callers, NEW p, NEW k \in 0..PageSize-1
    PROVE  Merged(c, p)[k] =
              IF PageOffset(c) <= k /\ k < PageOffset(c) + Chunk(c)
              THEN Byte(c, BlockStart(c) + k) ELSE p[k]
  BY DEF Merged

\* The place of a byte that the present caller made.
LEMMA ByteAt ==
    ASSUME NEW c, NEW a
    PROVE  Byte(c, a).at = a /\ Byte(c, a).by = c
  BY DEF Byte

\* No step misplaces a byte: what a page, the device or a buffer holds for an
\* address was meant for that address.
LEMMA PlacedNext ==
    ASSUME StateOK, AllSteady, Placed, NsStep
    PROVE  Placed'
  <1> SUFFICES ASSUME misuse' \cap {"null", "wrap", "stray"} = {}
               PROVE  /\ \A a \in Addr : disk'[a].at = a
                      /\ \A c \in Callers \ disturbed' :
                            PagePlaced(c)' /\ BufferPlaced(c)'
    BY DEF Placed
  <1>0. /\ \A a \in Addr : disk[a].at = a
        /\ \A c \in Callers \ disturbed : PagePlaced(c) /\ BufferPlaced(c)
    BY HistoryGrows DEF Placed
  <1>1. ASSUME NEW c \in Callers, CallStep(c) \/ \E r \in Request : Call(c, r),
               NEW u \in Callers \ {c}, u \notin disturbed'
        PROVE  PagePlaced(u)' /\ BufferPlaced(u)'
    <2>1. /\ u \notin disturbed /\ Offset(u)' = Offset(u)
          /\ done'[u] = done[u] /\ req'[u] = req[u] /\ pc'[u] = pc[u]
          /\ page'[u] = page[u] /\ buffer'[u] = buffer[u]
      BY <1>1, OthersSteady DEF Frame
    <2>2. BlockStart(u)' = BlockStart(u) /\ DeviceStart(u)' = DeviceStart(u)
      BY <2>1, SameTurn
    <2>3. PagePlaced(u) /\ BufferPlaced(u)
      BY <1>0, <2>1
    <2> QED
      BY <2>1, <2>2, <2>3 DEF PagePlaced, BufferPlaced
  <1>2. ASSUME NEW c \in Callers, NEW r \in Request, Call(c, r)
        PROVE  /\ disk' = disk
               /\ PagePlaced(c)' /\ BufferPlaced(c)'
    <2>1. disk' = disk /\ pc'[c] = r.op /\ done'[c] = 0
      BY <1>2 DEF Call, StateOK
    <2>2. r.op # "store"
      BY DEF Request
    <2> QED
      BY <2>1, <2>2 DEF PagePlaced, BufferPlaced
  <1>3. ASSUME NEW c \in Callers \ disturbed', ReadBlock(c)
        PROVE  disk' = disk /\ PagePlaced(c)' /\ BufferPlaced(c)'
    <2>1. /\ disk' = disk /\ pc' = pc /\ req' = req /\ disturbed' = disturbed
          /\ pc[c] = "read" /\ done[c] < req[c].len /\ InRange(c)
          /\ buffer'[c] = Copied(c) /\ done'[c] = done[c] + Chunk(c)
          /\ DeviceStart(c) = BlockStart(c)
      BY <1>3 DEF ReadBlock, Busy, Wrap, StateOK
    <2>2. Steady(c) /\ BufferPlaced(c)
      BY <1>0, <2>1 DEF AllSteady
    <2>3. /\ Chunk(c) \in Nat /\ PageOffset(c) + Chunk(c) <= PageSize
          /\ Offset(c) = req[c].offset /\ Offset(c) \in Nat /\ done[c] \in Nat
          /\ BlockStart(c) \in Nat /\ PageOffset(c) \in Nat
          /\ PageOffset(c) = Offset(c) + done[c] - BlockStart(c)
          /\ PageSize \in Nat
      BY <2>1, <2>2, TurnFits, Geometry, SteadyOffset, PageNotShort
    <2>4. ASSUME NEW k \in 0..req[c].len-1, k < done'[c]
          PROVE  buffer'[c][k].at = req[c].offset + k
      <3> DEFINE j == PageOffset(c) + k - done[c]
      <3>0. DOMAIN buffer[c] = 0..req[c].len-1
        BY DEF StateOK
      <3>1. CASE k < done[c]
        <4>1. buffer'[c][k] = buffer[c][k]
          BY <2>1, <2>3, <3>0, <3>1 DEF Copied
        <4>2. req[c].op = "read"
          BY <2>1 DEF StateOK
        <4> QED
          BY <2>2, <3>1, <4>1, <4>2 DEF BufferPlaced
      <3>2. CASE done[c] <= k
        <4>1. k < done[c] + Chunk(c) /\ j \in 0..PageSize-1 /\ j < PageSize
          BY <2>1, <2>3, <2>4, <3>2
        <4>2. Copied(c)[k] = OnDisk(c)[j]
          BY <3>0, <3>2, <4>1 DEF Copied
        <4>3. DeviceStart(c) + j \in Addr /\ OnDisk(c)[j] = disk[DeviceStart(c) + j]
          BY <2>1, <4>1, OnDiskType
        <4>4. buffer'[c][k].at = DeviceStart(c) + j
          BY <1>0, <2>1, <4>2, <4>3
        <4> QED
          BY <2>1, <2>3, <4>4
      <3> QED
        BY <2>3, <3>1, <3>2
    <2> QED
      BY <2>1, <2>4 DEF PagePlaced, BufferPlaced
  <1>4. ASSUME NEW c \in Callers \ disturbed', Fill(c) \/ FillWhole(c)
        PROVE  disk' = disk /\ PagePlaced(c)' /\ BufferPlaced(c)'
    <2>1. pc[c] = "write" /\ done[c] < req[c].len /\ StartStore(c)
      BY <1>4 DEF Fill, FillWhole, Busy
    <2>2. /\ disk' = disk /\ done' = done /\ req' = req
          /\ BlockStart(c)' = BlockStart(c) /\ DeviceStart(c)' = DeviceStart(c)
      BY <2>1, StartStoreFacts, SameTurn
    <2>3. Steady(c) /\ BlockStart(c) \in Nat /\ PageSize \in Nat
      BY <1>4, <2>1, Geometry, PageNotShort DEF StartStore, AllSteady
    <2>4. ASSUME DeviceStart(c) = BlockStart(c), NEW k \in 0..PageSize-1
          PROVE  page'[c][k].at = BlockStart(c) + k
      <3>1. CASE Fill(c)
        <4>1. page'[c] = Merged(c, OnDisk(c)) /\ InRange(c)
          BY <3>1 DEF Fill, StateOK
        <4>2. DeviceStart(c) + k \in Addr /\ OnDisk(c)[k] = disk[DeviceStart(c) + k]
          BY <4>1, OnDiskType
        <4> QED
          BY <1>0, <2>4, <4>1, <4>2, MergedBytes, ByteAt
      <3>2. CASE FillWhole(c)
        <4>1. page'[c] = Merged(c, page[c]) /\ Chunk(c) >= PageSize
          BY <3>2 DEF FillWhole, StateOK
        <4>2. PageOffset(c) = 0 /\ Chunk(c) = PageSize
          BY <2>1, <2>3, <4>1, WholePage
        <4>3. PageOffset(c) <= k /\ k < PageOffset(c) + Chunk(c)
          BY <2>3, <4>2
        <4> QED
          BY <4>1, <4>3, MergedBytes, ByteAt
      <3> QED
        BY <1>4, <3>1, <3>2
    <2>5. req[c].op = "write"
      BY <2>1 DEF StateOK
    <2> QED
      BY <2>2, <2>4, <2>5 DEF PagePlaced, BufferPlaced
  <1>5. ASSUME NEW c \in Callers, Store(c)
        PROVE  /\ \A a \in Addr : disk'[a].at = a
               /\ PagePlaced(c)' /\ BufferPlaced(c)'
    <2>1. /\ pc[c] = "store" /\ DeviceStart(c) = BlockStart(c)
          /\ c \notin disturbed
          /\ pc'[c] = "write" /\ req' = req /\ req[c].op = "write"
      BY <1>5 DEF Store, StoreEffect, Wrap, Stray, StateOK
    <2>2. \A k \in 0..PageSize-1 : page[c][k].at = DeviceStart(c) + k
      BY <1>0, <2>1 DEF PagePlaced
    <2>3. ASSUME NEW a \in Addr
          PROVE  disk'[a].at = a
      <3>1. CASE a \in Window(c)
        <4>1. DeviceStart(c) \in Nat /\ PageSize \in Nat
          BY Geometry, PageNotShort
        <4>2. a \in Int /\ a - DeviceStart(c) \in 0..PageSize-1
          BY <3>1, <4>1 DEF Window
        <4>3. disk'[a] = page[c][a - DeviceStart(c)]
          BY <1>5, <3>1 DEF Store, StoreEffect
        <4>4. page[c][a - DeviceStart(c)].at = DeviceStart(c) + (a - DeviceStart(c))
          BY <2>2, <4>2
        <4>5. DeviceStart(c) + (a - DeviceStart(c)) = a
          BY <4>1, <4>2
        <4> QED
          BY <4>3, <4>4, <4>5
      <3>2. CASE a \notin Window(c)
        BY <1>0, <1>5, <3>2 DEF Store, StoreEffect
      <3> QED
        BY <3>1, <3>2
    <2> QED
      BY <2>1, <2>3 DEF PagePlaced, BufferPlaced
  <1>6. ASSUME NEW c \in Callers \ disturbed', Fail(c) \/ Return(c)
        PROVE  disk' = disk /\ PagePlaced(c)' /\ BufferPlaced(c)'
    <2>1. /\ disk' = disk /\ pc'[c] = "idle" /\ disturbed' = disturbed
          /\ UNCHANGED <<req, done, buffer>>
      BY <1>6 DEF Fail, Return, StateOK, historyVars
    <2> QED
      BY <1>0, <2>1 DEF PagePlaced, BufferPlaced
  <1>7. ASSUME NEW c \in Callers, CallStep(c)
        PROVE  /\ \A a \in Addr : disk'[a].at = a
               /\ c \notin disturbed' => PagePlaced(c)' /\ BufferPlaced(c)'
    <2>1. ~FillNull(c)
      BY DEF FillNull
    <2>2. CASE ReadBlock(c) \/ Fill(c) \/ FillWhole(c) \/ Fail(c) \/ Return(c)
      <3>1. disk' = disk
        BY <2>2 DEF ReadBlock, Fill, FillWhole, StartStore, Fail, Return
      <3> QED
        BY <1>0, <1>3, <1>4, <1>6, <2>2, <3>1
    <2> QED
      BY <1>5, <1>7, <2>1, <2>2 DEF CallStep
  <1>8. CASE QuietStep
    <2>1. ASSUME NEW c \in Callers \ disturbed'
          PROVE  PagePlaced(c)' /\ BufferPlaced(c)'
      <3>1. PagePlaced(c) /\ BufferPlaced(c)
        BY <1>0, <1>8 DEF QuietStep
      <3>2. /\ pc'[c] = pc[c] /\ req'[c] = req[c] /\ page'[c] = page[c]
            /\ buffer'[c] = buffer[c] /\ Offset(c)' = Offset(c)
            /\ done'[c] = done[c] \/ (pc[c] = "idle" /\ done'[c] = 0)
        BY <1>8 DEF QuietStep, Offset
      <3>3. CASE done'[c] = done[c]
        BY <3>1, <3>2, <3>3, SameTurn DEF PagePlaced, BufferPlaced
      <3>4. CASE pc[c] = "idle" /\ done'[c] = 0
        BY <3>2, <3>4 DEF PagePlaced, BufferPlaced
      <3> QED
        BY <3>2, <3>3, <3>4
    <2> QED
      BY <1>0, <1>8, <2>1 DEF QuietStep
  <1> QED
    BY <1>0, <1>1, <1>2, <1>7, <1>8 DEF NsStep

\* Every byte that a turn wants to write lies in the page it stores, and every
\* byte of that page on the device.
LEMMA ChunkInWindow ==
    ASSUME StateOK, NEW c \in Callers, Steady(c), done[c] < req[c].len,
           DeviceStart(c) = BlockStart(c), NEW a \in Addr
    PROVE  /\ a \in InChunk(c) => a \in Window(c)
           /\ a \in Window(c) =>
                 /\ a - DeviceStart(c) \in 0..PageSize-1
                 /\ DeviceStart(c) + (a - DeviceStart(c)) = a
                 /\ a \in InChunk(c) <=>
                       /\ PageOffset(c) <= a - DeviceStart(c)
                       /\ a - DeviceStart(c) < PageOffset(c) + Chunk(c)
  <1>1. /\ Offset(c) \in Nat /\ done[c] \in Nat /\ BlockStart(c) \in Nat
        /\ DeviceStart(c) \in Nat
        /\ PageOffset(c) \in Nat
        /\ PageOffset(c) = Offset(c) + done[c] - BlockStart(c)
        /\ Chunk(c) \in Nat /\ PageOffset(c) + Chunk(c) <= PageSize
        /\ PageSize \in Nat /\ a \in Nat
    BY Geometry, TurnFits, PageNotShort, NamespaceAssumption DEF Addr
  <1>2. Offset(c) + done[c] = DeviceStart(c) + PageOffset(c)
    BY <1>1
  <1>3. a \in InChunk(c) <=> /\ a >= DeviceStart(c) + PageOffset(c)
                             /\ a < DeviceStart(c) + PageOffset(c) + Chunk(c)
    BY <1>2 DEF InChunk
  <1>4. a \in Window(c) <=> /\ a >= DeviceStart(c)
                            /\ a < DeviceStart(c) + PageSize
    BY <1>1 DEF Window
  <1> QED
    BY <1>1, <1>3, <1>4

\* A write changes no byte that it was not given, as long as nobody stores a
\* page under another caller's copy of it.
LEMMA OwnBytesNext ==
    ASSUME StateOK, AllSteady, OwnBytes, NsStep
    PROVE  OwnBytes'
  <1> SUFFICES ASSUME misuse' = {}, disturbed' = {}
               PROVE  disk' = shadow' /\ \A c \in Callers : PageOwn(c)'
    BY DEF OwnBytes
  <1>0. /\ misuse = {} /\ disturbed = {} /\ disk = shadow
        /\ \A c \in Callers : PageOwn(c) /\ Steady(c)
    BY HistoryGrows DEF OwnBytes, AllSteady
  <1>1. ASSUME NEW c \in Callers, CallStep(c) \/ \E r \in Request : Call(c, r),
               NEW u \in Callers \ {c}
        PROVE  /\ pc'[u] = pc[u] /\ page'[u] = page[u]
               /\ BlockStart(u)' = BlockStart(u) /\ PageOffset(u)' = PageOffset(u)
               /\ Chunk(u)' = Chunk(u) /\ DeviceStart(u)' = DeviceStart(u)
               /\ InRange(u)' <=> InRange(u)
    <2>1. /\ Offset(u)' = Offset(u) /\ done'[u] = done[u] /\ req'[u] = req[u]
          /\ pc'[u] = pc[u] /\ page'[u] = page[u]
      BY <1>1, OthersSteady DEF Frame
    <2> QED
      BY <2>1, SameTurn
  <1>2. ASSUME NEW c \in Callers, CallStep(c) \/ \E r \in Request : Call(c, r),
               UNCHANGED <<disk, shadow>>, PageOwn(c)'
        PROVE  disk' = shadow' /\ \A u \in Callers : PageOwn(u)'
    <2>1. ASSUME NEW u \in Callers \ {c}
          PROVE  PageOwn(u)'
      BY <1>0, <1>1, <1>2, <2>1 DEF PageOwn, Byte
    <2> QED
      BY <1>0, <1>2, <2>1
  <1>3. ASSUME NEW c \in Callers, NEW r \in Request, Call(c, r)
        PROVE  disk' = shadow' /\ \A u \in Callers : PageOwn(u)'
    <2>1. UNCHANGED <<disk, shadow>> /\ pc'[c] # "store"
      BY <1>3 DEF Call, StateOK, Request
    <2> QED
      BY <1>2, <1>3, <2>1 DEF PageOwn
  <1>4. ASSUME NEW c \in Callers, ReadBlock(c) \/ Fail(c) \/ Return(c)
        PROVE  disk' = shadow' /\ \A u \in Callers : PageOwn(u)'
    <2>1. UNCHANGED <<disk, shadow>> /\ pc'[c] # "store" /\ CallStep(c)
      BY <1>4 DEF ReadBlock, Busy, Fail, Return, StateOK, historyVars, CallStep
    <2> QED
      BY <1>2, <2>1 DEF PageOwn
  <1>5. ASSUME NEW c \in Callers, Fill(c) \/ FillWhole(c)
        PROVE  disk' = shadow' /\ \A u \in Callers : PageOwn(u)'
    <2>1. /\ pc[c] = "write" /\ done[c] < req[c].len /\ StartStore(c)
          /\ CallStep(c) /\ Steady(c)
      BY <1>0, <1>5 DEF Fill, FillWhole, Busy, CallStep
    <2>2. /\ disk' = disk /\ shadow' = shadow
          /\ BlockStart(c)' = BlockStart(c) /\ PageOffset(c)' = PageOffset(c)
          /\ Chunk(c)' = Chunk(c) /\ DeviceStart(c)' = DeviceStart(c)
      BY <2>1, StartStoreFacts, SameTurn
    <2>3. ASSUME NEW k \in 0..PageSize-1
          PROVE  page'[c][k] =
                    IF PageOffset(c) <= k /\ k < PageOffset(c) + Chunk(c)
                    THEN Byte(c, BlockStart(c) + k)
                    ELSE disk[DeviceStart(c) + k]
      <3>1. CASE Fill(c)
        <4>1. page'[c] = Merged(c, OnDisk(c)) /\ InRange(c)
          BY <3>1 DEF Fill, StateOK
        <4>2. OnDisk(c)[k] = disk[DeviceStart(c) + k]
          BY <4>1, OnDiskType
        <4> QED
          BY <4>1, <4>2, MergedBytes
      <3>2. CASE FillWhole(c)
        <4>1. page'[c] = Merged(c, page[c]) /\ Chunk(c) >= PageSize
          BY <3>2 DEF FillWhole, StateOK
        <4>2. PageOffset(c) <= k /\ k < PageOffset(c) + Chunk(c)
          BY <2>1, <4>1, WholePage, PageNotShort
        <4> QED
          BY <4>1, <4>2, MergedBytes
      <3> QED
        BY <1>5, <3>1, <3>2
    <2>4. PageOwn(c)'
      BY <2>2, <2>3 DEF PageOwn, Byte
    <2> QED
      BY <1>2, <2>1, <2>2, <2>4
  <1>6. ASSUME NEW c \in Callers, Store(c)
        PROVE  disk' = shadow' /\ \A u \in Callers : PageOwn(u)'
    <2>1. /\ pc[c] = "store" /\ InRange(c) /\ DeviceStart(c) = BlockStart(c)
          /\ ~Overlaps(c) /\ pc'[c] = "write" /\ done[c] < req[c].len
          /\ PageOwn(c) /\ Steady(c) /\ CallStep(c)
      BY <1>0, <1>6 DEF Store, StoreEffect, Wrap, StateOK, CallStep
    <2>2. disk' = [a \in Addr |-> disk'[a]] /\ shadow' = [a \in Addr |-> shadow'[a]]
      BY <1>6 DEF Store, StoreEffect
    <2>3. ASSUME NEW a \in Addr
          PROVE  disk'[a] = shadow'[a]
      <3> DEFINE k == a - DeviceStart(c)
      <3>0. disk[a] = shadow[a]
        BY <1>0
      <3>1. CASE a \in Window(c)
        <4>1. /\ k \in 0..PageSize-1 /\ DeviceStart(c) + k = a
              /\ a \in InChunk(c) <=>
                    PageOffset(c) <= k /\ k < PageOffset(c) + Chunk(c)
          BY <2>1, <3>1, ChunkInWindow
        <4>2. disk'[a] = page[c][k]
          BY <1>6, <3>1 DEF Store, StoreEffect
        <4>3. shadow'[a] = IF a \in InChunk(c) THEN Byte(c, a) ELSE shadow[a]
          BY <1>6 DEF Store, StoreEffect
        <4> HIDE DEF k
        <4>4. page[c][k] = IF PageOffset(c) <= k /\ k < PageOffset(c) + Chunk(c)
                           THEN Byte(c, a) ELSE disk[a]
          BY <2>1, <4>1 DEF PageOwn
        <4> QED
          BY <3>0, <4>1, <4>2, <4>3, <4>4
      <3>2. CASE a \notin Window(c)
        <4>1. a \notin InChunk(c)
          BY <2>1, <3>2, ChunkInWindow
        <4> QED
          BY <1>6, <3>0, <3>2, <4>1 DEF Store, StoreEffect
      <3> QED
        BY <3>1, <3>2
    <2>4. ASSUME NEW u \in Callers \ {c}, pc[u] = "store", InRange(u),
                 NEW k \in 0..PageSize-1
          PROVE  disk'[DeviceStart(u) + k] = disk[DeviceStart(u) + k]
      <3>1. DeviceStart(u) + k \in Window(u)
        BY Geometry, PageNotShort DEF Window
      <3>2. DeviceStart(u) + k \notin Window(c)
        BY <2>1, <2>4, <3>1 DEF Overlaps
      <3>3. DeviceStart(u) + k \in Addr
        BY <2>4, OnDiskType
      <3> QED
        BY <1>6, <3>2, <3>3 DEF Store, StoreEffect
    <2>5. ASSUME NEW u \in Callers \ {c}
          PROVE  PageOwn(u)'
      <3>1. /\ pc'[u] = pc[u] /\ page'[u] = page[u]
            /\ BlockStart(u)' = BlockStart(u) /\ PageOffset(u)' = PageOffset(u)
            /\ Chunk(u)' = Chunk(u) /\ DeviceStart(u)' = DeviceStart(u)
            /\ InRange(u)' <=> InRange(u)
        BY <1>1, <2>1
      <3>2. PageOwn(u)
        BY <1>0
      <3> QED
        BY <2>4, <3>1, <3>2 DEF PageOwn, Byte
    <2>6. PageOwn(c)'
      BY <2>1 DEF PageOwn
    <2> QED
      BY <2>2, <2>3, <2>5, <2>6
  <1>7. CASE QuietStep
    <2>1. ASSUME NEW u \in Callers, pc[u] = "store"
          PROVE  PageOwn(u)'
      <3>1. /\ Offset(u)' = Offset(u) /\ done'[u] = done[u] /\ req'[u] = req[u]
            /\ pc' = pc /\ page' = page /\ disk' = disk
        BY <1>7, <2>1 DEF QuietStep, Offset
      <3>2. PageOwn(u)
        BY <1>0
      <3> QED
        BY <3>1, <3>2, SameTurn DEF PageOwn, Byte
    <2>2. ASSUME NEW u \in Callers, pc[u] # "store"
          PROVE  PageOwn(u)'
      BY <1>7, <2>2 DEF QuietStep, PageOwn
    <2> QED
      BY <1>0, <1>7, <2>1, <2>2 DEF QuietStep
  <1>8. ASSUME NEW c \in Callers
        PROVE  ~FillNull(c)
    BY DEF FillNull
  <1> QED
    BY <1>3, <1>4, <1>5, <1>6, <1>7, <1>8 DEF NsStep, CallStep

----------------------------------------------------------------------------
(* The invariant, for any calls and any layer above.                       *)

\* A namespace nobody has used yet.
LEMMA NInvInit ==
    ASSUME Init
    PROVE  NInv
  <1>1. ZeroByte \in Bytes /\ \A a \in Addr : Byte(Nobody, a) \in Bytes
    BY NamespaceAssumption DEF ZeroByte, Byte, Bytes, Addr
  <1>2. NoRequest \in Request /\ NoRequest.len = 0 /\ NoRequest.offset = 0
    BY DEF NoRequest, Request
  <1>3. \A c \in Callers : buffer[c] \in [0..req[c].len-1 -> Bytes]
    BY <1>2 DEF Init
  <1>4. StateOK
    BY <1>1, <1>2, <1>3 DEF Init, StateOK
  <1>5. AllSteady
    BY <1>2 DEF Init, AllSteady, Steady, Active
  <1>6. \A a \in Addr : disk[a].at = a
    BY ByteAt DEF Init
  <1>7. Placed
    BY <1>2, <1>6 DEF Init, Placed, PagePlaced, BufferPlaced
  <1>8. OwnBytes
    BY DEF Init, OwnBytes, PageOwn
  <1> QED
    BY <1>4, <1>5, <1>7, <1>8 DEF NInv

\* Every step keeps the invariant.
LEMMA NInvStep ==
    ASSUME NInv, NsStep
    PROVE  NInv'
  BY StateOKNext, AllSteadyNext, PlacedNext, OwnBytesNext DEF NInv

\* A step of the specification is one of the steps above.
LEMMA NextIsStep ==
    ASSUME NInv, [Next]_vars
    PROVE  NsStep
  <1>1. CASE UNCHANGED vars
    BY <1>1 DEF vars, fileVars, callVars, historyVars, NsStep, QuietStep, NInv,
       StateOK
  <1>2. CASE Next
    <2>1. Requests \subseteq Request
      BY NamespaceAssumption DEF Request
    <2> QED
      BY <1>1, <1>2, <2>1 DEF Next, Quiescent, NsStep
  <1> QED
    BY <1>1, <1>2

----------------------------------------------------------------------------
(* The theorems.                                                           *)

\* The invariant holds in every state of the specification.
THEOREM Invariance == Spec => []NInv
  <1>1. Init => NInv
    BY NInvInit
  <1>2. NInv /\ [Next]_vars => NInv'
    BY NextIsStep, NInvStep
  <1> QED
    BY <1>1, <1>2, PTL DEF Spec

\* What the bounds of a run limit: the calls made and the commands failed.
BoundsOK ==
    /\ req \in [Callers -> Requests \cup {NoRequest}]
    /\ failures \in 0..MaxFailures
    /\ calls \in 0..MaxCalls

\* The bounds are kept by every step.
LEMMA BoundsNext ==
    ASSUME BoundsOK, [Next]_vars
    PROVE  BoundsOK'
  <1>0. MaxFailures \in Nat /\ MaxCalls \in Nat
    BY NamespaceAssumption
  <1> USE DEF BoundsOK
  <1>1. ASSUME NEW c \in Callers, NEW r \in Requests, Call(c, r)
        PROVE  BoundsOK'
    BY <1>0, <1>1 DEF Call
  <1>2. ASSUME NEW c \in Callers, CallStep(c), ~Fail(c)
        PROVE  BoundsOK'
    BY <1>2 DEF CallStep, ReadBlock, Fill, FillWhole, FillNull, StartStore, Store,
       StoreEffect, Return
  <1>3. ASSUME NEW c \in Callers, Fail(c)
        PROVE  BoundsOK'
    BY <1>0, <1>3 DEF Fail, CommandFails
  <1>4. CASE UNCHANGED vars
    BY <1>4 DEF vars, callVars
  <1> QED
    BY <1>1, <1>2, <1>3, <1>4 DEF Next, Quiescent

\* Every variable keeps its type: pages and buffers stay whole and no count
\* or offset leaves the naturals, whoever shares a handle with whom.
THEOREM TypeCorrect == Spec => []TypeOK
  <1>1. Init => BoundsOK
    BY NamespaceAssumption DEF Init, BoundsOK
  <1>2. BoundsOK /\ [Next]_vars => BoundsOK'
    BY BoundsNext
  <1>3. NInv /\ BoundsOK => TypeOK
    BY DEF NInv, StateOK, BoundsOK, TypeOK
  <1> QED
    BY <1>1, <1>2, <1>3, Invariance, PTL DEF Spec

\* The turns of both loops stay in their page and in the caller's buffer and
\* make progress, for every block size that divides the page size, every
\* offset and every length.
THEOREM TurnsFit == Spec => []ChunkFits
  <1>1. NInv => ChunkFits
    <2> SUFFICES ASSUME NInv, NEW c \in Callers \ disturbed
                 PROVE  /\ done[c] <= req[c].len
                        /\ done[c] < req[c].len =>
                              /\ Chunk(c) > 0
                              /\ PageOffset(c) + Chunk(c) <= PageSize
                              /\ done[c] + Chunk(c) <= req[c].len
      BY DEF ChunkFits
    <2>1. StateOK /\ Steady(c)
      BY DEF NInv, AllSteady
    <2>2. done[c] <= req[c].len
      BY <2>1 DEF Steady
    <2> QED
      BY <2>1, <2>2, TurnFits
  <1> QED
    BY <1>1, Invariance, PTL

\* read puts every byte of the namespace at its place in the buffer, whatever
\* the writers of overlapping ranges do meanwhile.
THEOREM ReadsPlaced == Spec => []ReadPlaced
  <1>1. NInv => ReadPlaced
    BY DEF NInv, Placed, BufferPlaced, ReadPlaced
  <1> QED
    BY <1>1, Invariance, PTL

\* The read-modify-write of whole pages changes nothing but the bytes given to
\* write, for any number of concurrent writers, as long as no two of them had
\* overlapping pages out at the same time.
THEOREM WritesOwnBytes == Spec => []OnlyOwnBytes
  <1>1. NInv => OnlyOwnBytes
    BY DEF NInv, OwnBytes, OnlyOwnBytes
  <1> QED
    BY <1>1, Invariance, PTL

\* A step neither forgets a failure nor lets a call return short without one.
LEMMA ShortNext ==
    ASSUME NInv, ShortOnlyOnFailure, [Next]_vars
    PROVE  ShortOnlyOnFailure'
  <1> SUFFICES ASSUME NEW u \in Callers \ disturbed', pc'[u] = "idle",
                      done'[u] < req'[u].len
               PROVE  failures' > 0 \/ ~InRange(u)'
    BY DEF ShortOnlyOnFailure
  <1>0. StateOK /\ StateOK' /\ AllSteady /\ NsStep /\ failures \in Nat
    BY NextIsStep, StateOKNext DEF NInv, StateOK
  <1>1. ASSUME failures' >= failures, u \notin disturbed, pc[u] = "idle",
               Offset(u)' = Offset(u), done'[u] = done[u], req'[u] = req[u]
        PROVE  failures' > 0 \/ ~InRange(u)'
    <2>1. failures > 0 \/ ~InRange(u)
      BY <1>1 DEF ShortOnlyOnFailure
    <2>2. failures' \in Nat
      BY <1>0 DEF StateOK
    <2> QED
      BY <1>0, <1>1, <2>1, <2>2, SameTurn
  <1>2. ASSUME NEW c \in Callers, CallStep(c) \/ \E r \in Request : Call(c, r)
        PROVE  failures' >= failures
    BY <1>0, <1>2 DEF CallStep, Call, ReadBlock, Fill, FillWhole, FillNull,
       StartStore, Store, StoreEffect, Fail, CommandFails, Return
  <1>3. ASSUME NEW c \in Callers \ {u}, CallStep(c) \/ \E r \in Request : Call(c, r)
        PROVE  failures' > 0 \/ ~InRange(u)'
    <2>1. u \notin disturbed /\ Frame(c) /\ Offset(u)' = Offset(u)
      BY <1>0, <1>3, OthersSteady
    <2> QED
      BY <1>1, <1>2, <1>3, <2>1 DEF Frame
  <1>4. ASSUME NEW r \in Request, Call(u, r)
        PROVE  FALSE
    BY <1>0, <1>4 DEF Call, StateOK, Request
  <1>5. ASSUME CallStep(u)
        PROVE  failures' > 0 \/ ~InRange(u)'
    <2>1. Fail(u) \/ Return(u)
      BY <1>0, <1>5 DEF CallStep, ReadBlock, Busy, Fill, FillWhole, FillNull,
         StartStore, Store, StoreEffect, StateOK
    <2>2. ~Return(u)
      <3>1. done[u] \in Nat /\ req[u].len \in Nat
        BY <1>0, Geometry
      <3> QED
        BY <3>1 DEF Return, Finished
    <2>3. Steady(u) /\ Active(u)
      BY <1>0, <1>5, <2>1, <2>2, CallStepFrame DEF AllSteady, Fail, Busy, Active
    <2>4. /\ Offset(u)' = at[u] /\ Offset(u) = req[u].offset
          /\ done'[u] = done[u] /\ req'[u] = req[u]
      BY <1>0, <2>1, <2>2, <2>3, SteadyOffset DEF Fail, Offset
    <2>5. InRange(u)' <=> InRange(u)
      BY <2>3, <2>4, SameTurn DEF Steady
    <2> QED
      BY <1>0, <2>1, <2>2, <2>5 DEF Fail, CommandFails
  <1>6. CASE UNCHANGED vars
    <2>1. /\ failures' = failures /\ u \notin disturbed /\ pc[u] = "idle"
          /\ Offset(u)' = Offset(u) /\ done'[u] = done[u] /\ req'[u] = req[u]
      BY <1>6 DEF vars, callVars, fileVars, historyVars, Offset
    <2> QED
      BY <1>0, <1>1, <2>1
  <1>7. Requests \subseteq Request
    BY NamespaceAssumption DEF Request
  <1> QED
    BY <1>3, <1>4, <1>5, <1>6, <1>7 DEF Next, Quiescent

\* A short count always means that a command failed or was out of range: the
\* loops do not stop early for any other reason.
THEOREM ShortOnFailure == Spec => []ShortOnlyOnFailure
  <1>1. Init => ShortOnlyOnFailure
    BY DEF Init, ShortOnlyOnFailure, NoRequest
  <1>2. NInv /\ ShortOnlyOnFailure /\ [Next]_vars => ShortOnlyOnFailure'
    BY ShortNext
  <1> QED
    BY <1>1, <1>2, Invariance, PTL DEF Spec

============================================================================
