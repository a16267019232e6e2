---------------------------- MODULE MemoryFiles ----------------------------
(***************************************************************************)
(* The two file drivers that live in memory, reached through the tables of *)
(* DriverTable: initramfs (sysfs/initramfs/super.c and file.c), a cpio     *)
(* archive searched by name, and buffer (sysfs/buffer.c), an array of a    *)
(* fixed size.  The virtual file system asks the super driver to stat and  *)
(* to locate a name and makes a file resource, with the index of the super *)
(* resource, from what locate returned.                                    *)
(*                                                                         *)
(* A byte of the archive is its entry and position, a byte of a buffer the *)
(* number of the call that wrote it or 0.  The operations that return      *)
(* constants (write, seek, rename of initramfs, seek of buffer) and stat,  *)
(* which copies header fields, do not change state.                        *)
(***************************************************************************)
EXTENDS DriverTable

CONSTANTS
    Archives,    \* archives the loader may pass: sequences of [name, size]
    Names,       \* names that are looked for
    Begins,      \* Begins[n]: the names in Names that n begins with
    BufferSizes, \* sizes a buffer may be made with
    Transfers,   \* file operations: [op, offset, size, count]
    SizeMod,     \* 2^64: size_t arithmetic is modulo this
    MaxTransfers \* bound: file operations in one behaviour

Super == [group |-> Head(Cluster), name |-> "initramfs"]
File  == Last(Cluster)

ASSUME MemoryAssumption ==
    /\ \A a \in Archives : a \in Seq([name : Names, size : Nat])
    /\ \A n \in Names : n \in Begins[n]
    \* A transfer of no bytes does nothing.
    /\ \A t \in Transfers : t \in [op : {"read", "write"}, offset : Nat,
                                    size : Nat \ {0}, count : Nat \ {0}]
    /\ SizeMod \in Nat \ {0} /\ SizeMod % 2 = 0
    /\ BufferSizes \subseteq 0 .. (SizeMod \div 2) - 1
    /\ MaxTransfers \in Nat
    \* Where there is an initramfs every file system has a file driver, as in
    \* the repository: Covered, of the sources.
    /\ \A s \in SourceSets : Super \in s =>
          \A d \in s : d.group \in ToSet(Cluster) =>
              [d EXCEPT !.group = Last(Cluster)] \in s

VARIABLES
    state,      \* id -> driver_state of the resource
    fault,      \* "none", or why the kernel died: "memory" or "overrun"
    transfers,  \* file operations so far
    reply,      \* the last file operation and what it gave
    abuse       \* history: a buffer was used past its end, or for 2^63 bytes

memoryVars == <<state, fault, transfers, reply, abuse>>
mvars      == <<tableVars, memoryVars>>

NoState  == [kind |-> "none"]
NoReply  == [id |-> -1]
ZeroByte == <<0, 0>>    \* of an archive

----------------------------------------------------------------------------
MInit ==
    /\ TInit
    /\ state = [id \in 0..MaxResources-1 |-> NoState]
    /\ fault = "none"
    /\ transfers = 0
    /\ reply = NoReply
    /\ abuse = FALSE

\* What the new resource's init leaves in driver_state, if it succeeded.
NewState(s) ==
    /\ state' = [state EXCEPT ![current_id] =
                    IF resources'[current_id] = NoDriver THEN NoState ELSE s]
    /\ UNCHANGED <<fault, transfers, reply, abuse>>

\* initramfs_init of super.c, with the archive as its argument.
MountArchive(a) ==
    /\ SuperResource(Super)
    /\ NewState([kind |-> "super", archive |-> a])

\* Mutant: the header is moved on before it is returned.
MutFindFile(a, name) ==
    LET hits == {k \in DOMAIN a : name \in Begins[a[k].name]}
    IN  IF hits = {} THEN 0 ELSE Min(hits) + 1

\* initramfs_find_file: strncmp over the length of the name looked for.
FindFile(a, name) ==
    LET hits == {k \in DOMAIN a : name \in Begins[a[k].name]}
    IN  IF hits = {} THEN 0 ELSE Min(hits)

\* initramfs_stat and initramfs_locate of the super resource: both search, and
\* the virtual file system goes on only if both find the name.
Located(id, name) == FindFile(state[id].archive, name)

\* initramfs_init of file.c, with what locate returned as its argument.
OpenEntry(id, name) ==
    /\ Live(id) /\ state[id].kind = "super"
    /\ Located(id, name) # 0
    /\ NodeResource(id, File)
    /\ NewState([kind |-> table[File][resources[id].index],
                 archive |-> state[id].archive,
                 entry |-> Located(id, name), asked |-> name])

\* buffer_init.
MakeBuffer(n) ==
    LET d == [group |-> File, name |-> "buffer"]
    IN  /\ stage = "built" /\ d \in DOMAIN index
        /\ InitResource(File, index[d], NoDriver, -1)
        /\ NewState([kind |-> "buffer", size |-> n,
                     bytes |-> [k \in 0..n-1 |-> 0],
                     ideal |-> [k \in 0..n-1 |-> 0]])

\* initramfs_init of super.c and buffer_init use what alloc returned without
\* looking at it.
AllocFails ==
    /\ stage = "built" /\ current_id < MaxResources
    /\ {Super, [group |-> File, name |-> "buffer"]} \cap DOMAIN index # {}
    /\ fault' = "memory"
    /\ UNCHANGED <<tableVars, state, transfers, reply, abuse>>

----------------------------------------------------------------------------
(* Transfers.                                                              *)

\* Mutant: the size is rounded down.
MutDataSize(e) == e.size - (e.size % 2)

\* ARC_DATA_SIZE: cpio pads file data to an even number of bytes.
DataSize(e) == e.size + (e.size % 2)

\* Byte p of entry k of archive a as it lies in memory, the padding included.
EntryByte(a, k, p) == IF p < a[k].size THEN <<k, p>> ELSE ZeroByte

Done(id, t, count, got) ==
    /\ transfers < MaxTransfers
    /\ transfers' = transfers + 1
    /\ reply' = [id |-> id, t |-> t, count |-> count, got |-> got]
    /\ UNCHANGED tableVars

\* initramfs_read: every byte asked for is given, zeros after the end.
ReadEntry(id, t) ==
    LET s == state[id]
        n == (t.size * t.count) % SizeMod
    IN  /\ Live(id) /\ s.kind = "initramfs" /\ t.op = "read"
        /\ Done(id, t, n, [k \in 0..n-1 |->
              IF t.offset + k < DataSize(s.archive[s.entry])
              THEN EntryByte(s.archive, s.entry, t.offset + k)
              ELSE ZeroByte])
        /\ UNCHANGED <<state, fault, abuse>>

Signed(x) == IF x >= SizeMod \div 2 THEN x - SizeMod ELSE x

\* Mutant: the bytes left in the buffer are counted from its start.
MutGiven(size, offset, wanted) == IF wanted > size THEN size ELSE wanted

\* size_t accessible, int64_t delta and size_t given of buffer_read and
\* buffer_write.
Given(size, offset, wanted) ==
    LET accessible == (size - offset) % SizeMod
        delta      == Signed((wanted - accessible) % SizeMod)
    IN  IF accessible = 0 THEN 0
        ELSE IF delta > 0 THEN (wanted - delta) % SizeMod ELSE wanted

\* What should be given: what is asked for, up to the end of the buffer.
Share(s, t) == Min({t.size * t.count, s.size - t.offset})

Written(f, from, n) ==
    [k \in DOMAIN f |-> IF from <= k /\ k < from + n THEN transfers + 1 ELSE f[k]]

\* buffer_read and buffer_write.
UseBuffer(id, t) ==
    LET s      == state[id]
        wanted == (t.size * t.count) % SizeMod
        given  == Given(s.size, t.offset, wanted)
        fits   == t.offset + given <= s.size
        wrong  == t.offset > s.size \/ t.size * t.count >= SizeMod \div 2
    IN  /\ Live(id) /\ s.kind = "buffer"
        /\ abuse' = (abuse \/ wrong)
        /\ fault' = IF given > 0 /\ ~fits THEN "overrun" ELSE fault
        /\ Done(id, t, given,
                IF t.op = "read" /\ fits
                THEN [k \in 0..given-1 |-> s.bytes[t.offset + k]] ELSE << >>)
        /\ state' = [state EXCEPT ![id] =
              IF t.op = "read" THEN s
              ELSE [s EXCEPT !.bytes = Written(@, t.offset, given),
                             !.ideal = IF wrong THEN @
                                       ELSE Written(@, t.offset, Share(s, t))]]

\* buffer_uninit, initramfs_uninit: driver_state is freed with the resource.
Close(id) ==
    /\ Uninit(id)
    /\ state' = [state EXCEPT ![id] = NoState]
    /\ UNCHANGED <<fault, transfers, reply, abuse>>

----------------------------------------------------------------------------
\* A resource of a driver that is not modelled here.
OtherResource ==
    /\ ResourceStep
    /\ LET r == resources'[current_id]
       IN  IF r = NoDriver THEN TRUE ELSE r.name # "initramfs"
    /\ NewState(NoState)

Running ==
    \/ GenStep /\ UNCHANGED memoryVars
    \/ OtherResource
    \/ \E a \in Archives : MountArchive(a)
    \/ \E id \in 0..current_id-1 :
          \/ \E name \in Names : OpenEntry(id, name)
          \/ \E t \in Transfers : ReadEntry(id, t) \/ UseBuffer(id, t)
          \/ Close(id)
    \/ \E n \in BufferSizes : MakeBuffer(n)
    \/ AllocFails

\* The script or the kernel has died, or the bounds are used up.
Quiescent ==
    /\ stage = "error" \/ fault # "none" \/ current_id = MaxResources
    /\ UNCHANGED mvars

MNext == (fault = "none" /\ Running) \/ Quiescent

MSpec == MInit /\ [][MNext]_mvars

----------------------------------------------------------------------------
(* Properties.                                                             *)

\* Every variable, those of DriverTable among them, stays within its type: an
\* open file of the archive lies in the archive.
TypeOK ==
    /\ stage \in {"scan", "fill", "built", "error"}
    /\ \E s \in SourceSets : unread \subseteq s /\ Found \subseteq s
    /\ index \in [DOMAIN index -> Int]
    /\ indices \in [Groups -> Nat]
    /\ DOMAIN table = Groups
    /\ current_id \in 0..MaxResources
    /\ \A id \in 0..MaxResources-1 :
          /\ id >= current_id => ~Live(id) /\ state[id] = NoState
          /\ ~Live(id) => state[id] = NoState
          /\ state[id].kind \in {"none", "super", "initramfs", "buffer"}
          /\ state[id].kind = "initramfs" =>
                state[id].entry \in DOMAIN state[id].archive
          /\ state[id].kind = "buffer" =>
                DOMAIN state[id].bytes = 0 .. state[id].size - 1
    /\ fault \in {"none", "memory", "overrun"}
    /\ transfers \in 0..MaxTransfers
    /\ abuse \in BOOLEAN

\* From the numbering of the drivers to the bytes: a file opened by name gives
\* the bytes of the archive's entry of that name and zeros after its end,
\* unless an earlier entry's name begins with the name looked for.
ArchiveExact ==
    reply # NoReply /\ Live(reply.id) /\ state[reply.id].kind = "initramfs" =>
        LET s == state[reply.id]
            named == {k \in DOMAIN s.archive : s.archive[k].name = s.asked}
            first == Min(named)
        IN  named # {} /\ (\A k \in 1..first-1 :
                              s.asked \notin Begins[s.archive[k].name]) =>
                \A k \in DOMAIN reply.got : LET p == reply.t.offset + k IN
                    reply.got[k] = IF p < s.archive[first].size
                                   THEN <<first, p>> ELSE ZeroByte

\* As long as nobody starts past the end of a buffer or asks for 2^63 bytes,
\* the unsigned arithmetic of buffer_read and buffer_write keeps every copy in
\* the buffer, gives all that there is, and a read gives what was written.
BufferExact ==
    ~abuse =>
        /\ fault # "overrun"
        /\ \A id \in 0..current_id-1 :
              state[id].kind = "buffer" => state[id].bytes = state[id].ideal
        /\ reply # NoReply /\ Live(reply.id) /\ state[reply.id].kind = "buffer" =>
              LET s == state[reply.id] IN
              /\ reply.count = Share(s, reply.t)
              /\ reply.t.op = "read" => \A k \in DOMAIN reply.got :
                    reply.got[k] = s.ideal[reply.t.offset + k]

============================================================================
