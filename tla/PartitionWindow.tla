-------------------------- MODULE PartitionWindow --------------------------
(***************************************************************************)
(* Files on partitions of an NVMe namespace: sysdev/partition_dummy.c on   *)
(* top of NvmeNamespace.  A partition opens the drive once, and all its    *)
(* files share that handle, so the Handles of NvmeNamespace are the        *)
(* partitions.  A user of a file (ext2/util.c:61 is one) seeks on the file *)
(* and then transfers; the driver seeks on the drive handle to the file's  *)
(* offset moved by the start of the partition, and transfers there.        *)
(*                                                                         *)
(* uninit returns 0 and stat copies three fields: neither changes state.   *)
(***************************************************************************)
EXTENDS NvmeNamespace

CONSTANTS
    Files,       \* open files on the partitions
    FileOn,      \* file -> its partition
    start_lba,   \* partition -> its first block
    size_in_lbas,
    Usings       \* which files the callers may use: functions Callers -> Files

ASSUME WindowAssumption ==
    /\ FileOn \in [Files -> Handles]
    /\ start_lba \in [Handles -> Nat]
    /\ size_in_lbas \in [Handles -> Nat]
    /\ Usings \subseteq [Callers -> Files]

VARIABLES
    drive,      \* partition -> "none" before init, then "open" or "null"
    using,      \* caller -> its file
    fpos,       \* file -> its offset
    sought,     \* callers between the seek on their file and the transfer
    want,       \* caller -> what it asked of its file
    beyond      \* history: callers that asked for bytes past their partition

windowVars == <<drive, using, fpos, sought, want, beyond>>
wvars      == <<vars, windowVars>>

\* The bytes of a partition.
Extent(h) == start_lba[h] * LbaSize ..
             (start_lba[h] + size_in_lbas[h]) * LbaSize - 1

----------------------------------------------------------------------------
WInit ==
    /\ Init
    /\ using \in Usings
    /\ via = [c \in Callers |-> FileOn[using[c]]]
    /\ drive = [h \in Handles |-> "none"]
    /\ fpos = [f \in Files |-> 0]
    /\ sought = {}
    /\ want = [c \in Callers |-> NoRequest]
    /\ beyond = {}

\* init_partition_dummy.  The result of vfs_open is not looked at: when it
\* fails the partition exists with a NULL drive.
Attach(h) ==
    /\ drive[h] = "none"
    /\ \/ drive' = [drive EXCEPT ![h] = "open"] /\ UNCHANGED failures
       \/ /\ failures < MaxFailures
          /\ failures' = failures + 1
          /\ drive' = [drive EXCEPT ![h] = "null"]
    /\ UNCHANGED <<disk, fileVars, callVars, calls, historyVars, using, fpos,
                   sought, want, beyond>>

InFile(u) == u \in sought \/ pc[u] \notin {"idle", "fault"}

\* vfs_seek on the file, the first half of every access.
FileSeek(c, r) ==
    LET sharing == {u \in Callers \ {c} : using[u] = using[c] /\ InFile(u)}
    IN  /\ pc[c] = "idle" /\ c \notin sought
        /\ drive[via[c]] # "none"
        /\ calls + Cardinality(sought) < MaxCalls
        /\ fpos' = [fpos EXCEPT ![using[c]] = r.offset]
        /\ want' = [want EXCEPT ![c] = r]
        /\ sought' = sought \cup {c}
        /\ disturbed' = IF sharing = {} THEN disturbed
                        ELSE disturbed \cup sharing \cup {c}
        /\ beyond' = IF r.offset + r.len <= size_in_lbas[via[c]] * LbaSize
                     THEN beyond ELSE beyond \cup {c}
        /\ UNCHANGED <<disk, fileVars, callVars, failures, calls, shadow,
                       misuse, drive, using>>

\* Mutant: the start of the partition is added in blocks, not bytes.
MutDriveOffset(c) == fpos[using[c]] + start_lba[via[c]]

DriveOffset(c) == fpos[using[c]] + start_lba[via[c]] * LbaSize

\* read_partition_dummy and write_partition_dummy up to the namespace.
Transfer(c) ==
    /\ c \in sought
    /\ drive[via[c]] = "open" /\ want[c].len > 0
    /\ Call(c, [want[c] EXCEPT !.offset = DriveOffset(c)])
    /\ sought' = sought \ {c}
    /\ UNCHANGED <<drive, using, fpos, want, beyond>>

\* Nothing to transfer, or no drive to transfer from: 0 is returned.
TransferNothing(c) ==
    /\ c \in sought
    /\ drive[via[c]] = "null" \/ want[c].len = 0
    /\ sought' = sought \ {c}
    /\ calls' = calls + 1
    /\ done' = [done EXCEPT ![c] = 0]
    /\ UNCHANGED <<disk, fileVars, pc, req, at, mapped, page, buffer, failures,
                   historyVars, drive, using, fpos, want, beyond>>

WQuiescent ==
    /\ sought = {}
    /\ \A h \in Handles : drive[h] # "none"
    /\ Quiescent /\ UNCHANGED windowVars

WNext ==
    \/ \E h \in Handles : Attach(h)
    \/ \E c \in Callers :
          \/ \E r \in Requests : FileSeek(c, r)
          \/ Transfer(c)
          \/ TransferNothing(c)
          \/ CallStep(c) /\ UNCHANGED windowVars
    \/ WQuiescent

WSpec == WInit /\ [][WNext]_wvars

----------------------------------------------------------------------------
(* Properties.                                                             *)

\* Through both layers, what a caller reads at position k is the byte of the
\* namespace at its offset in the partition plus k: two users of a partition
\* do not read at each other's position unless one sought during a call of the
\* other.
StackPlaced ==
    misuse \cap {"null", "wrap", "stray"} = {} =>
        \A c \in Callers \ disturbed :
            want[c].op = "read" /\ c \notin sought /\ pc[c] # "fault" =>
                \A k \in 0..want[c].len-1 :
                    k < done[c] => buffer[c][k].at
                        = start_lba[via[c]] * LbaSize + want[c].offset + k

\* Although nothing compares a request with size_in_lbas, and although pages
\* are written back whole across the end of a partition, only a caller that
\* asked for more than its partition holds puts its bytes outside of it.
WindowKept ==
    misuse \cap {"wrap", "stray"} = {} =>
        \A c \in Callers \ (disturbed \cup beyond) : \A a \in Addr :
            disk[a].by = c => a \in Extent(via[c])

============================================================================
