----------------------- MODULE PartitionWindowProofs -----------------------
(***************************************************************************)
(* Theorems about PartitionWindow, for any number of partitions, files and *)
(* users.  The steps of the partition driver are either calls of the       *)
(* namespace or leave it alone, so the invariant of NvmeNamespaceProofs    *)
(* holds under them as well; what is added relates what a user asked of    *)
(* its file to the request that reached the namespace.                     *)
(***************************************************************************)
EXTENDS PartitionWindow, NvmeNamespaceProofs

----------------------------------------------------------------------------
(* The inductive invariant.                                                *)

WindowOK ==
    /\ drive \in [Handles -> {"none", "open", "null"}]
    /\ using \in [Callers -> Files]
    /\ fpos \in [Files -> Nat]
    /\ sought \subseteq Callers
    /\ want \in [Callers -> Request]
    /\ beyond \subseteq Callers
    /\ via = [c \in Callers |-> FileOn[using[c]]]
    /\ \A c \in sought : pc[c] = "idle"

\* What a user asked of its file is what its call asks of the namespace, moved
\* by the start of the partition, unless the call never got that far.
Moved(c) ==
    /\ req[c].op = want[c].op
    /\ req[c].len = want[c].len
    /\ req[c].offset = start_lba[via[c]] * LbaSize + want[c].offset

AskedOK ==
    \A c \in Callers \ disturbed :
        /\ c \in sought => fpos[using[c]] = want[c].offset
        /\ c \notin sought /\ (pc[c] # "idle" \/ done[c] > 0) => Moved(c)

\* A caller that is not beyond asked for bytes of its partition.
WithinOK ==
    \A c \in Callers \ beyond :
        want[c].offset + want[c].len <= size_in_lbas[via[c]] * LbaSize

\* A page that no command has filled holds zeros.
FreshOK ==
    \A c \in Callers : ~mapped[c] => \A k \in 0..PageSize-1 : page[c][k] = ZeroByte

\* Neither the device nor a page about to be stored holds a byte of a caller
\* outside the partition of that caller.
Honest == Callers \ (disturbed \cup beyond)

PageKept(u) ==
    pc[u] = "store" /\ InRange(u) /\ DeviceStart(u) = BlockStart(u) =>
        \A c \in Honest : \A k \in 0..PageSize-1 :
            page[u][k].by = c => DeviceStart(u) + k \in Extent(via[c])

Kept ==
    misuse \cap {"wrap", "stray"} = {} =>
        /\ \A c \in Honest : \A a \in Addr : disk[a].by = c => a \in Extent(via[c])
        /\ \A u \in Callers \ disturbed : PageKept(u)

WInv == NInv /\ WindowOK /\ AskedOK /\ WithinOK /\ FreshOK /\ Kept

----------------------------------------------------------------------------
(* The steps.                                                              *)

\* The request that the partition driver hands on.
HandedOn(c) == [want[c] EXCEPT !.offset = DriveOffset(c)]

\* It is a request, with the fields of the one that was asked.
LEMMA HandedOnFacts ==
    ASSUME StateOK, WindowOK, NEW c \in Callers
    PROVE  /\ HandedOn(c) \in Request
           /\ HandedOn(c).op = want[c].op /\ HandedOn(c).len = want[c].len
           /\ HandedOn(c).offset = fpos[using[c]] + start_lba[via[c]] * LbaSize
           /\ start_lba[via[c]] * LbaSize \in Nat
  <1>1. start_lba[via[c]] \in Nat /\ LbaSize \in Nat /\ fpos[using[c]] \in Nat
    BY WindowAssumption, NamespaceAssumption DEF StateOK, WindowOK
  <1>2. start_lba[via[c]] * LbaSize \in Nat
    BY <1>1
  <1>3. DriveOffset(c) = fpos[using[c]] + start_lba[via[c]] * LbaSize
    BY DEF DriveOffset
  <1>4. DriveOffset(c) \in Nat
    BY <1>1, <1>2, <1>3
  <1> QED
    BY <1>2, <1>3, <1>4 DEF HandedOn, WindowOK, Request

\* A step of the partition driver is a call of the namespace, a step of one,
\* or leaves the namespace alone.
LEMMA WStepIsStep ==
    ASSUME StateOK, WindowOK, [WNext]_wvars
    PROVE  NsStep
  <1> USE DEF fileVars, callVars, historyVars
  <1>1. CASE UNCHANGED wvars
    BY <1>1 DEF wvars, vars, NsStep, QuietStep, StateOK
  <1>2. ASSUME NEW h \in Handles, Attach(h)
        PROVE  QuietStep
    BY <1>2 DEF Attach, QuietStep, StateOK
  <1>3. ASSUME NEW c \in Callers, NEW r \in Requests, FileSeek(c, r)
        PROVE  QuietStep
    BY <1>3 DEF FileSeek, QuietStep, StateOK
  <1>4. ASSUME NEW c \in Callers, Transfer(c)
        PROVE  NsStep
    BY <1>4, HandedOnFacts DEF Transfer, HandedOn, NsStep
  <1>5. ASSUME NEW c \in Callers, TransferNothing(c)
        PROVE  QuietStep
    <2>1. pc[c] = "idle"
      BY <1>5 DEF TransferNothing, WindowOK
    <2> QED
      BY <1>5, <2>1 DEF TransferNothing, QuietStep, StateOK
  <1>6. CASE WQuiescent
    BY <1>1, <1>6 DEF WQuiescent, Quiescent, wvars
  <1> QED
    BY <1>1, <1>2, <1>3, <1>4, <1>5, <1>6 DEF WNext, NsStep

\* The types of the partition driver are kept.
LEMMA WindowNext ==
    ASSUME StateOK, WindowOK, [WNext]_wvars
    PROVE  WindowOK'
  <1> USE DEF WindowOK
  <1>1. CASE UNCHANGED wvars
    BY <1>1 DEF wvars, vars, windowVars, fileVars, callVars
  <1>2. ASSUME NEW h \in Handles, Attach(h)
        PROVE  WindowOK'
    BY <1>2 DEF Attach, fileVars, callVars
  <1>3. ASSUME NEW c \in Callers, NEW r \in Requests, FileSeek(c, r)
        PROVE  WindowOK'
    <2>1. r \in Request /\ r.offset \in Nat
      BY NamespaceAssumption DEF Request
    <2> QED
      BY <1>3, <2>1 DEF FileSeek, fileVars, callVars
  <1>4. ASSUME NEW c \in Callers, Transfer(c)
        PROVE  WindowOK'
    BY <1>4 DEF Transfer, Call, StateOK
  <1>5. ASSUME NEW c \in Callers, TransferNothing(c)
        PROVE  WindowOK'
    BY <1>5 DEF TransferNothing, fileVars
  <1>6. ASSUME NEW c \in Callers, CallStep(c), UNCHANGED windowVars
        PROVE  WindowOK'
    <2>1. Frame(c) /\ pc[c] # "idle"
      BY <1>6, CallStepFrame DEF CallStep, ReadBlock, Busy, Fill, FillWhole,
         FillNull, Store, StoreEffect, Fail, Return
    <2> QED
      BY <1>6, <2>1 DEF Frame, windowVars
  <1>7. CASE WQuiescent
    BY <1>1, <1>7 DEF WQuiescent, Quiescent, wvars
  <1> QED
    BY <1>1, <1>2, <1>3, <1>4, <1>5, <1>6, <1>7 DEF WNext

\* Nobody who uses a file alone loses the position sought on it, and what
\* reaches the namespace is what was asked.
LEMMA AskedNext ==
    ASSUME StateOK, WindowOK, AskedOK, [WNext]_wvars
    PROVE  AskedOK'
  <1> SUFFICES ASSUME NEW u \in Callers \ disturbed'
               PROVE  /\ u \in sought' => fpos'[using'[u]] = want'[u].offset
                      /\ u \notin sought' /\ (pc'[u] # "idle" \/ done'[u] > 0)
                            => Moved(u)'
    BY DEF AskedOK
  <1>0. /\ u \notin disturbed
        /\ u \in sought => fpos[using[u]] = want[u].offset
        /\ u \notin sought /\ (pc[u] # "idle" \/ done[u] > 0) => Moved(u)
    BY WStepIsStep, HistoryGrows DEF AskedOK
  <1>1. CASE UNCHANGED wvars
    BY <1>0, <1>1 DEF wvars, vars, windowVars, fileVars, callVars, Moved
  <1>2. ASSUME NEW h \in Handles, Attach(h)
        PROVE  AskedOK'
    BY <1>2 DEF Attach, fileVars, callVars, historyVars, AskedOK, Moved
  <1>3. ASSUME NEW c \in Callers, NEW r \in Requests, FileSeek(c, r)
        PROVE  /\ u \in sought' => fpos'[using'[u]] = want'[u].offset
               /\ u \notin sought' /\ (pc'[u] # "idle" \/ done'[u] > 0) => Moved(u)'
    <2>1. CASE u = c
      BY <1>3, <2>1 DEF FileSeek, WindowOK
    <2>2. CASE u # c
      <3>1. u \in sought => using[u] # using[c]
        BY <1>3, <2>2 DEF FileSeek, InFile
      <3> QED
        BY <1>0, <1>3, <2>2, <3>1 DEF FileSeek, WindowOK, fileVars, callVars, Moved
    <2> QED
      BY <2>1, <2>2
  <1>4. ASSUME NEW c \in Callers, Transfer(c)
        PROVE  /\ u \in sought' => fpos'[using'[u]] = want'[u].offset
               /\ u \notin sought' /\ (pc'[u] # "idle" \/ done'[u] > 0) => Moved(u)'
    <2>1. /\ c \in sought /\ sought' = sought \ {c} /\ Call(c, HandedOn(c))
          /\ UNCHANGED <<using, fpos, want>>
      BY <1>4 DEF Transfer, HandedOn
    <2>2. CASE u = c
      <3>1. req'[c] = HandedOn(c) /\ via' = via
        BY <2>1 DEF Call, StateOK
      <3>2. fpos[using[c]] \in Nat /\ want[c].offset = fpos[using[c]]
        BY <1>0, <2>1, <2>2 DEF WindowOK
      <3>3. Moved(c)'
        BY <2>1, <3>1, <3>2, HandedOnFacts DEF Moved
      <3> QED
        BY <2>1, <2>2, <3>3
    <2>3. CASE u # c
      <3>1. Frame(c)
        BY <2>1, CallFrame, HandedOnFacts
      <3> QED
        BY <1>0, <2>1, <2>3, <3>1 DEF Frame, Moved
    <2> QED
      BY <2>2, <2>3
  <1>5. ASSUME NEW c \in Callers, TransferNothing(c)
        PROVE  /\ u \in sought' => fpos'[using'[u]] = want'[u].offset
               /\ u \notin sought' /\ (pc'[u] # "idle" \/ done'[u] > 0) => Moved(u)'
    <2>1. CASE u = c
      BY <1>5, <2>1 DEF TransferNothing, WindowOK, StateOK
    <2>2. CASE u # c
      BY <1>0, <1>5, <2>2 DEF TransferNothing, fileVars, StateOK, Moved
    <2> QED
      BY <2>1, <2>2
  <1>6. ASSUME NEW c \in Callers, CallStep(c), UNCHANGED windowVars
        PROVE  /\ u \in sought' => fpos'[using'[u]] = want'[u].offset
               /\ u \notin sought' /\ (pc'[u] # "idle" \/ done'[u] > 0) => Moved(u)'
    <2>1. Frame(c)
      BY <1>6, CallStepFrame
    <2>2. CASE u = c
      <3>1. pc[c] # "idle" /\ req' = req
        BY <1>6 DEF CallStep, ReadBlock, Busy, Fill, FillWhole, FillNull,
           StartStore, Store, StoreEffect, Fail, Return
      <3> QED
        BY <1>0, <1>6, <2>1, <2>2, <3>1 DEF Frame, windowVars, Moved
    <2>3. CASE u # c
      BY <1>0, <1>6, <2>1, <2>3 DEF Frame, windowVars, Moved
    <2> QED
      BY <2>2, <2>3
  <1>7. CASE WQuiescent
    BY <1>0, <1>7 DEF WQuiescent, Quiescent, vars, windowVars, fileVars, callVars,
       Moved
  <1> QED
    BY <1>1, <1>2, <1>3, <1>4, <1>5, <1>6, <1>7 DEF WNext, AskedOK

\* beyond keeps every caller that ever asked for too much.
LEMMA WithinNext ==
    ASSUME StateOK, WindowOK, WithinOK, [WNext]_wvars
    PROVE  WithinOK' /\ beyond \subseteq beyond' /\ via' = via
  <1>0. via' = via
    <2>1. NsStep
      BY WStepIsStep
    <2> QED
      BY <2>1, CallFrame, CallStepFrame DEF NsStep, Frame, QuietStep
  <1>1. ASSUME NEW c \in Callers, NEW r \in Requests, FileSeek(c, r)
        PROVE  WithinOK' /\ beyond \subseteq beyond'
    <2>1. /\ want'[c] = r /\ \A u \in Callers \ {c} : want'[u] = want[u]
          /\ beyond \subseteq beyond'
          /\ c \notin beyond' => r.offset + r.len <= size_in_lbas[via[c]] * LbaSize
      BY <1>1 DEF FileSeek, WindowOK
    <2> QED
      BY <1>0, <2>1 DEF WithinOK
  <1>2. CASE UNCHANGED <<want, beyond>>
    BY <1>0, <1>2 DEF WithinOK
  <1>3. ASSUME ~ \E c \in Callers, r \in Requests : FileSeek(c, r)
        PROVE  UNCHANGED <<want, beyond>>
    <2>1. ASSUME NEW c \in Callers,
                 Transfer(c) \/ TransferNothing(c) \/ (CallStep(c) /\ UNCHANGED windowVars)
          PROVE  UNCHANGED <<want, beyond>>
      BY <2>1 DEF Transfer, TransferNothing, windowVars
    <2>2. ASSUME NEW h \in Handles, Attach(h)
          PROVE  UNCHANGED <<want, beyond>>
      BY <2>2 DEF Attach
    <2>3. ASSUME WQuiescent \/ UNCHANGED wvars
          PROVE  UNCHANGED <<want, beyond>>
      BY <2>3 DEF WQuiescent, windowVars, wvars
    <2> QED
      BY <1>3, <2>1, <2>2, <2>3 DEF WNext
  <1> QED
    BY <1>0, <1>1, <1>2, <1>3

\* A page changes only when a command has filled it.
LEMMA FreshNext ==
    ASSUME StateOK, FreshOK, NsStep
    PROVE  FreshOK'
  <1> USE DEF FreshOK, StateOK
  <1>1. ASSUME NEW c \in Callers, NEW r \in Request, Call(c, r)
        PROVE  FreshOK'
    BY <1>1 DEF Call
  <1>2. ASSUME NEW c \in Callers, ReadBlock(c)
        PROVE  FreshOK'
    BY <1>2 DEF ReadBlock
  <1>3. ASSUME NEW c \in Callers, Fill(c) \/ FillWhole(c)
        PROVE  FreshOK'
    <2>1. mapped' = [mapped EXCEPT ![c] = TRUE]
      BY <1>3 DEF Fill, FillWhole, StartStore
    <2>2. \A u \in Callers \ {c} : page'[u] = page[u]
      BY <1>3 DEF Fill, FillWhole
    <2> QED
      BY <2>1, <2>2
  <1>4. ASSUME NEW c \in Callers, FillNull(c)
        PROVE  FreshOK'
    BY <1>4 DEF FillNull, StartStore
  <1>5. ASSUME NEW c \in Callers, Store(c) \/ Fail(c) \/ Return(c)
        PROVE  FreshOK'
    BY <1>5 DEF Store, StoreEffect, Fail, Return
  <1>6. CASE QuietStep
    BY <1>6 DEF QuietStep
  <1> QED
    BY <1>1, <1>2, <1>3, <1>4, <1>5, <1>6 DEF NsStep, CallStep

----------------------------------------------------------------------------
(* Bytes and partitions.                                                   *)

\* Where a partition ends.
LEMMA ExtentBytes ==
    ASSUME NEW h \in Handles, NEW a \in Int
    PROVE  /\ start_lba[h] * LbaSize \in Nat
           /\ size_in_lbas[h] * LbaSize \in Nat
           /\ a \in Extent(h) <=>
                 /\ start_lba[h] * LbaSize <= a
                 /\ a < start_lba[h] * LbaSize + size_in_lbas[h] * LbaSize
  <1>1. start_lba[h] \in Nat /\ size_in_lbas[h] \in Nat /\ LbaSize \in Nat
    BY WindowAssumption, NamespaceAssumption
  <1>2. /\ start_lba[h] * LbaSize \in Nat /\ size_in_lbas[h] * LbaSize \in Nat
        /\ (start_lba[h] + size_in_lbas[h]) * LbaSize
              = start_lba[h] * LbaSize + size_in_lbas[h] * LbaSize
    BY <1>1
  <1> QED
    BY <1>2 DEF Extent

\* The bytes that a turn puts into its page lie in the partition of a caller
\* that asked for no more than its partition holds.
LEMMA ChunkInExtent ==
    ASSUME WInv, NEW c \in Honest, pc[c] # "idle", done[c] < req[c].len,
           NEW k \in 0..PageSize-1,
           PageOffset(c) <= k, k < PageOffset(c) + Chunk(c)
    PROVE  BlockStart(c) + k \in Extent(via[c])
  <1>1. /\ StateOK /\ Steady(c) /\ Moved(c) /\ via[c] \in Handles
        /\ c \in Callers
        /\ want[c].offset \in Nat /\ want[c].len \in Nat
        /\ want[c].offset + want[c].len <= size_in_lbas[via[c]] * LbaSize
    BY DEF WInv, NInv, StateOK, AllSteady, WindowOK, AskedOK, WithinOK, Honest,
       Request
  <1>2. /\ Offset(c) = req[c].offset
        /\ BlockStart(c) \in Nat /\ PageOffset(c) \in Nat /\ Offset(c) \in Nat
        /\ done[c] \in Nat /\ Chunk(c) \in Nat
        /\ PageOffset(c) = Offset(c) + done[c] - BlockStart(c)
        /\ done[c] + Chunk(c) <= req[c].len
        /\ PageSize \in Nat
    BY <1>1, SteadyOffset, Geometry, TurnFits, PageNotShort
  <1>3. BlockStart(c) + k \in Nat
    BY <1>2
  <1>4. /\ start_lba[via[c]] * LbaSize \in Nat
        /\ size_in_lbas[via[c]] * LbaSize \in Nat
        /\ BlockStart(c) + k \in Extent(via[c]) <=>
              /\ start_lba[via[c]] * LbaSize <= BlockStart(c) + k
              /\ BlockStart(c) + k
                    < start_lba[via[c]] * LbaSize + size_in_lbas[via[c]] * LbaSize
    BY <1>1, <1>3, ExtentBytes
  <1>5. req[c].offset = start_lba[via[c]] * LbaSize + want[c].offset
        /\ req[c].len = want[c].len
    BY <1>1 DEF Moved
  <1> QED
    BY <1>1, <1>2, <1>4, <1>5

\* No step puts a byte outside the partition of its author, unless the author
\* asked for it.
LEMMA KeptNext ==
    ASSUME WInv, [WNext]_wvars
    PROVE  Kept'
  <1> SUFFICES ASSUME misuse' \cap {"wrap", "stray"} = {}
               PROVE  /\ \A c \in Honest' : \A a \in Addr :
                            disk'[a].by = c => a \in Extent(via[c])
                      /\ \A u \in Callers \ disturbed' : PageKept(u)'
    BY WithinNext DEF Kept, WInv, NInv, Extent
  <1>0. /\ StateOK /\ AllSteady /\ NsStep /\ via' = via
        /\ disturbed \subseteq disturbed' /\ Honest' \subseteq Honest
        /\ misuse \cap {"wrap", "stray"} = {}
    BY WStepIsStep, HistoryGrows, WithinNext DEF WInv, NInv, Honest
  <1>1. /\ \A c \in Honest : \A a \in Addr : disk[a].by = c => a \in Extent(via[c])
        /\ \A u \in Callers \ disturbed : PageKept(u)
    BY <1>0 DEF WInv, Kept
  <1>2. ASSUME NEW u \in Callers \ disturbed', pc'[u] = pc[u], page'[u] = page[u],
               Offset(u)' = Offset(u), done'[u] = done[u], req'[u] = req[u]
        PROVE  PageKept(u)'
    <2>1. PageKept(u)
      BY <1>0, <1>1
    <2>2. DeviceStart(u)' = DeviceStart(u) /\ BlockStart(u)' = BlockStart(u)
             /\ (InRange(u)' <=> InRange(u))
      BY <1>2, SameTurn
    <2> QED
      BY <1>0, <1>2, <2>1, <2>2 DEF PageKept, Extent
  <1>3. ASSUME NEW c \in Callers, CallStep(c) \/ \E r \in Request : Call(c, r),
               NEW u \in Callers \ {c}, u \notin disturbed'
        PROVE  PageKept(u)'
    BY <1>0, <1>2, <1>3, OthersSteady DEF Frame
  <1>4. ASSUME NEW c \in Callers, NEW r \in Request, Call(c, r)
        PROVE  disk' = disk /\ PageKept(c)'
    <2>1. disk' = disk /\ pc'[c] # "store"
      BY <1>0, <1>4 DEF Call, StateOK, Request
    <2> QED
      BY <2>1 DEF PageKept
  <1>5. ASSUME NEW c \in Callers, ReadBlock(c) \/ Fail(c) \/ Return(c)
        PROVE  disk' = disk /\ PageKept(c)'
    <2>1. disk' = disk /\ pc'[c] # "store"
      BY <1>0, <1>5 DEF ReadBlock, Busy, Fail, Return, StateOK
    <2> QED
      BY <2>1 DEF PageKept
  <1>6. ASSUME NEW c \in Callers \ disturbed', Fill(c) \/ FillWhole(c)
        PROVE  PageKept(c)'
    <2>1. /\ pc[c] = "write" /\ done[c] < req[c].len /\ StartStore(c)
      BY <1>6 DEF Fill, FillWhole, Busy
    <2>2. DeviceStart(c)' = DeviceStart(c) /\ BlockStart(c)' = BlockStart(c)
             /\ (InRange(c)' <=> InRange(c))
      BY <1>0, <2>1, StartStoreFacts, SameTurn
    <2>3. ASSUME DeviceStart(c) = BlockStart(c), NEW u \in Honest,
                 NEW k \in 0..PageSize-1, page'[c][k].by = u
          PROVE  DeviceStart(c) + k \in Extent(via[u])
      <3>1. CASE PageOffset(c) <= k /\ k < PageOffset(c) + Chunk(c)
        <4>1. page'[c][k] = Byte(c, BlockStart(c) + k)
          BY <1>0, <1>6, <3>1, MergedBytes DEF Fill, FillWhole, StateOK
        <4>2. u = c
          BY <2>3, <4>1, ByteAt
        <4> QED
          BY <2>1, <2>3, <3>1, <4>2, ChunkInExtent
      <3>2. CASE ~(PageOffset(c) <= k /\ k < PageOffset(c) + Chunk(c))
        <4>1. Fill(c)
          <5>1. ASSUME FillWhole(c)
                PROVE  FALSE
            <6>1. Chunk(c) >= PageSize /\ Steady(c)
              BY <1>0, <1>6, <5>1 DEF FillWhole, AllSteady
            <6> QED
              BY <1>0, <2>1, <3>2, <6>1, WholePage, PageNotShort
          <5> QED
            BY <1>6, <5>1
        <4>2. InRange(c) /\ page'[c] = Merged(c, OnDisk(c))
          BY <1>0, <4>1 DEF Fill, StateOK
        <4>3. /\ DeviceStart(c) + k \in Addr
              /\ page'[c][k] = disk[DeviceStart(c) + k]
          BY <1>0, <3>2, <4>2, OnDiskType, MergedBytes
        <4> QED
          BY <1>1, <2>3, <4>3
      <3> QED
        BY <3>1, <3>2
    <2> QED
      BY <1>0, <2>2, <2>3 DEF PageKept, Extent
  <1>7. ASSUME NEW c \in Callers, FillNull(c)
        PROVE  PageKept(c)'
    <2>1. ASSUME NEW k \in 0..PageSize-1, NEW u \in Callers
          PROVE  page'[c][k].by # u
      <3>1. page'[c][k] = ZeroByte
        BY <1>7 DEF FillNull, WInv, FreshOK
      <3> QED
        BY <3>1, NamespaceAssumption DEF ZeroByte
    <2> QED
      BY <1>0, <2>1 DEF PageKept, Honest
  <1>8. ASSUME NEW c \in Callers, Store(c)
        PROVE  /\ PageKept(c)'
               /\ \A u \in Honest : \A a \in Addr :
                     disk'[a].by = u => a \in Extent(via[u])
    <2>1. /\ pc[c] = "store" /\ InRange(c) /\ DeviceStart(c) = BlockStart(c)
          /\ c \notin disturbed /\ pc'[c] = "write"
      BY <1>0, <1>8 DEF Store, StoreEffect, Wrap, Stray, StateOK
    <2>2. PageKept(c)
      BY <1>1, <2>1
    <2>3. ASSUME NEW u \in Honest, NEW a \in Addr, disk'[a].by = u
          PROVE  a \in Extent(via[u])
      <3>1. CASE a \in Window(c)
        <4> DEFINE k == a - DeviceStart(c)
        <4>1. DeviceStart(c) \in Nat /\ PageSize \in Nat
          BY <1>0, Geometry, PageNotShort
        <4>2. k \in 0..PageSize-1 /\ DeviceStart(c) + k = a
          BY <3>1, <4>1 DEF Window
        <4>3. disk'[a] = page[c][k]
          BY <1>8, <3>1 DEF Store, StoreEffect
        <4> HIDE DEF k
        <4> QED
          BY <2>1, <2>2, <2>3, <4>2, <4>3 DEF PageKept
      <3>2. CASE a \notin Window(c)
        BY <1>1, <1>8, <2>3, <3>2 DEF Store, StoreEffect
      <3> QED
        BY <3>1, <3>2
    <2> QED
      BY <2>1, <2>3 DEF PageKept
  <1>9. ASSUME NEW c \in Callers, CallStep(c)
        PROVE  /\ \A u \in Honest : \A a \in Addr :
                     disk'[a].by = u => a \in Extent(via[u])
               /\ c \notin disturbed' => PageKept(c)'
    <2>1. CASE Store(c)
      BY <1>8, <2>1
    <2>2. CASE ~Store(c)
      <3>1. disk' = disk
        BY <1>9, <2>2 DEF CallStep, ReadBlock, Fill, FillWhole, FillNull, StartStore,
           Fail, Return
      <3> QED
        BY <1>1, <1>5, <1>6, <1>7, <1>9, <2>2, <3>1 DEF CallStep
    <2> QED
      BY <2>1, <2>2
  <1>10. CASE QuietStep
    <2>1. ASSUME NEW u \in Callers \ disturbed'
          PROVE  PageKept(u)'
      <3>1. CASE pc[u] = "store"
        <4>1. /\ pc'[u] = pc[u] /\ page'[u] = page[u] /\ Offset(u)' = Offset(u)
              /\ done'[u] = done[u] /\ req'[u] = req[u]
          BY <1>10, <3>1 DEF QuietStep, Offset
        <4> QED
          BY <1>2, <4>1
      <3>2. CASE pc[u] # "store"
        BY <1>10, <3>2 DEF QuietStep, PageKept
      <3> QED
        BY <3>1, <3>2
    <2> QED
      BY <1>0, <1>1, <1>10, <2>1 DEF QuietStep
  <1> QED
    BY <1>0, <1>1, <1>3, <1>4, <1>9, <1>10 DEF NsStep

----------------------------------------------------------------------------
(* The theorems.                                                           *)

\* The invariant of both layers.
THEOREM WInvariance == WSpec => []WInv
  <1>1. WInit => WInv
    <2> SUFFICES ASSUME WInit
                 PROVE  WInv
      OBVIOUS
    <2>1. NInv /\ Init
      BY NInvInit DEF WInit
    <2>2. NoRequest \in Request /\ NoRequest.offset = 0 /\ NoRequest.len = 0
      BY DEF NoRequest, Request
    <2>3. WindowOK
      BY <2>2, WindowAssumption DEF WInit, Init, WindowOK
    <2>4. AskedOK
      BY <2>2 DEF WInit, Init, AskedOK
    <2>5. WithinOK
      <3>1. \A c \in Callers : 0 <= size_in_lbas[via[c]] * LbaSize
        BY <2>1, ExtentBytes DEF NInv, StateOK
      <3> QED
        BY <2>2, <3>1 DEF WInit, WithinOK
    <2>6. FreshOK
      BY DEF WInit, Init, FreshOK
    <2>7. Kept
      BY ByteAt, NamespaceAssumption DEF WInit, Init, Kept, PageKept, Honest
    <2> QED
      BY <2>1, <2>3, <2>4, <2>5, <2>6, <2>7 DEF WInv
  <1>2. WInv /\ [WNext]_wvars => WInv'
    <2> SUFFICES ASSUME WInv, [WNext]_wvars
                 PROVE  WInv'
      OBVIOUS
    <2>1. StateOK /\ WindowOK /\ NsStep
      BY WStepIsStep DEF WInv, NInv
    <2> QED
      BY <2>1, NInvStep, WindowNext, AskedNext, WithinNext, FreshNext, KeptNext
      DEF WInv
  <1> QED
    BY <1>1, <1>2, PTL DEF WSpec

\* Through both layers a user reads the bytes of its partition it asked for,
\* although all files of a partition share one drive handle.
THEOREM StackReads == WSpec => []StackPlaced
  <1>1. WInv => StackPlaced
    <2> SUFFICES ASSUME WInv, misuse \cap {"null", "wrap", "stray"} = {},
                        NEW c \in Callers \ disturbed, want[c].op = "read",
                        c \notin sought, NEW k \in 0..want[c].len-1, k < done[c]
                 PROVE  buffer[c][k].at
                           = start_lba[via[c]] * LbaSize + want[c].offset + k
      BY DEF StackPlaced
    <2>1. /\ StateOK /\ WindowOK /\ BufferPlaced(c) /\ done[c] \in Nat
          /\ want[c].len \in Nat /\ want[c].offset \in Nat
      BY DEF WInv, NInv, StateOK, WindowOK, Placed, Request
    <2>2. Moved(c)
      <3>1. done[c] > 0
        BY <2>1
      <3> QED
        BY <3>1 DEF WInv, AskedOK
    <2>3. buffer[c][k].at = req[c].offset + k
      BY <2>1, <2>2 DEF BufferPlaced, Moved
    <2>4. start_lba[via[c]] * LbaSize \in Nat
      BY <2>1, HandedOnFacts
    <2> QED
      BY <2>1, <2>2, <2>3, <2>4 DEF Moved
  <1> QED
    BY <1>1, WInvariance, PTL

\* Only a caller that asked for more than its partition holds puts its bytes
\* outside the partition, whatever pages are written back across its end.
THEOREM PartitionsKept == WSpec => []WindowKept
  <1>1. WInv => WindowKept
    BY DEF WInv, Kept, Honest, WindowKept
  <1> QED
    BY <1>1, WInvariance, PTL

\* What a write leaves alone is left alone through the partition layer too.
THEOREM StackWritesOwnBytes == WSpec => []OnlyOwnBytes
  <1>1. WInv => OnlyOwnBytes
    BY DEF WInv, NInv, OwnBytes, OnlyOwnBytes
  <1> QED
    BY <1>1, WInvariance, PTL

============================================================================
