----------------------------- MODULE Ext2Mount -----------------------------
(***************************************************************************)
(* Mounting an ext2 file system, finding a file in it by name, and the     *)
(* life of the resource that stands for the file: sysfs/ext2/super.c,      *)
(* file.c and directory.c, with the directory search of util.c.            *)
(*                                                                         *)
(* Each driver function is one action.  How the virtual file system calls  *)
(* them is external: it mounts once, and to open a name it calls stat,     *)
(* then locate in the directory, then the init function of the file or     *)
(* directory driver with what locate returned (the order super.c relies on *)
(* in its comment on stat).  Reading a directory's blocks is the business  *)
(* of Ext2Blocks; here a directory is the sequence of its blocks.          *)
(*                                                                         *)
(* `live' is what has been allocated and not freed, one tag for each       *)
(* object; an open partition handle is one of them.  A NULL inode pointer, *)
(* and the inode number of a name that is not found, are both 0.           *)
(***************************************************************************)
EXTENDS Integers, Sequences, SequencesExt, FiniteSetsExt

CONSTANTS
    Supers,       \* super blocks to mount, see Geometry and MountChecks
    Dirs,         \* directory inode -> sequence of blocks of entries
    Names,        \* names that callers look for; names are sequences
    MaxOpens,     \* bound: names looked up in one behaviour
    MaxFailures   \* bound: allocations, opens and reads that fail

Slots == 1..MaxOpens

\* A super block that tells the truth about its block groups: each group has
\* its inodes, and every group but the last all of its blocks.
Truthful(s) ==
    /\ s.blocks_per_group \in Nat \ {0} /\ s.inodes_per_group \in Nat \ {0}
    /\ s.total_blocks \in Nat
    /\ \E g \in 1..s.total_inodes :
          /\ s.total_inodes = s.inodes_per_group * g
          /\ s.total_blocks > s.blocks_per_group * (g - 1)

DirEntry == [name : Seq(Nat), inode : Nat, total_size : Nat]

ASSUME MountAssumption ==
    /\ MaxOpens \in Nat /\ MaxFailures \in Nat
    /\ 2 \in DOMAIN Dirs /\ 0 \notin DOMAIN Dirs
    /\ \A d \in DOMAIN Dirs : Dirs[d] \in Seq(Seq(DirEntry))
    /\ \A s \in Supers : s.total_inodes \in Nat /\ Truthful(s)

VARIABLES
    super,      \* the super block on the partition
    mount,      \* "no", "failed", "mounted", "unmounted"
    enabled,    \* the mount's bit 1 of attributes: "Write enabled"
    groups,     \* state->descriptor_count
    root,       \* the mount's basic.node: inode 2, or NULL
    slot,       \* [Slots -> record]: the names being opened, see Unused
    live,
    fault,      \* a NULL or wild pointer was used
    written,    \* file data has been written to the partition
    failures

vars == <<super, mount, enabled, groups, root, slot, live, fault, written,
          failures>>

\* via is the opened directory the name is looked up in, or 0 for the mount,
\* and dir that directory's inode; wbit is bit 1 of the attributes in the
\* state of the file or directory driver; stale, that its partition
\* handle is what the memory of the state held before.
Unused == [st |-> "unused", via |-> 0, dir |-> 0, name |-> <<>>,
           kind |-> "file", inode |-> 0,
           node |-> 0, wbit |-> FALSE, stale |-> FALSE]

Fails     == failures < MaxFailures /\ failures' = failures + 1
NoFailure == UNCHANGED failures

----------------------------------------------------------------------------
(* The super block.                                                        *)

\* Mutant: a sign is wrong in the rounding.
MutCeilDiv(a, b) == (a - b + 1) \div b

CeilDiv(a, b) == (a + b - 1) \div b

\* Mutant: the larger count.
MutDescriptorCount(s) ==
    Max({CeilDiv(s.total_blocks, s.blocks_per_group),
         CeilDiv(s.total_inodes, s.inodes_per_group)})

DescriptorCount(s) ==
    Min({CeilDiv(s.total_blocks, s.blocks_per_group),
         CeilDiv(s.total_inodes, s.inodes_per_group)})

\* ext2_check_super refuses a file system.
Refused(s) ==
    \/ ~s.clean /\ s.err_handle = 3
    \/ s.required \cap {"compression", "replay", "journal"} # {}

\* Bit 1 of the attributes after init_ext2_super set it and
\* ext2_check_super went over it.
WriteEnabled(s) ==
    /\ s.clean \/ s.err_handle # 2
    /\ s.write \cap {"sparse", "btree"} = {}

----------------------------------------------------------------------------
Init ==
    /\ super \in Supers
    /\ mount = "no" /\ enabled = FALSE /\ groups = 0 /\ root = 0
    /\ slot = [s \in Slots |-> Unused]
    /\ live = {} /\ fault = FALSE /\ written = FALSE /\ failures = 0

\* The points of init_ext2_super that return an error, in order.
MountPoints == <<"state", "open", "read", "signature", "check", "table",
                 "descriptors">>

\* What init_ext2_super holds when it reaches a point.
HeldAt(p) ==
    {<<"state", 0>> : x \in {p} \ {"state"}}
        \cup {<<"handle", 0>> : x \in {p} \ {"state", "open"}}
        \cup {<<"table", 0>> : x \in {p} \cap {"descriptors"}}

\* Mutant: the last error path forgets the descriptor table.
MutReleasedAt(p) == {<<"state", 0>>, <<"handle", 0>>}

\* What the error path of the point gives back.
ReleasedAt(p) ==
    {<<"state", 0>>, <<"handle", 0>>}
        \cup {<<"table", 0>> : x \in {p} \cap {"descriptors"}}

\* Whether the mount fails at point p.
MountFailsAt(p) ==
    CASE p = "signature" -> super.sig = "other" /\ NoFailure
      [] p = "check" -> super.sig = "ext2" /\ Refused(super) /\ NoFailure
      [] p \in {"table", "descriptors"} ->
            super.sig = "ext2" /\ ~Refused(super) /\ Fails
      [] OTHER -> Fails

MountFails ==
    /\ mount = "no"
    /\ \E k \in 1..Len(MountPoints) :
          /\ MountFailsAt(MountPoints[k])
          /\ live' = HeldAt(MountPoints[k]) \ ReleasedAt(MountPoints[k])
    /\ mount' = "failed"
    /\ UNCHANGED <<super, enabled, groups, root, slot, fault, written>>

\* init_ext2_super to its end.  The root inode and the copy of the path are
\* not looked at: with either of them missing the mount still succeeds.
Mount ==
    /\ mount = "no" /\ super.sig = "ext2" /\ ~Refused(super)
    /\ mount' = "mounted"
    /\ enabled' = WriteEnabled(super)
    /\ groups' = DescriptorCount(super)
    /\ \E lost \in {{}, {"path"}, {"root"}} :
          /\ IF lost = {} THEN NoFailure ELSE Fails
          /\ root' = IF "root" \in lost THEN 0 ELSE 2
          /\ live' = ({"state", "handle", "table", "path", "root"} \ lost)
                        \X {0}
    /\ UNCHANGED <<super, slot, fault, written>>

\* uninit_ext2_super does nothing.
Unmount ==
    /\ mount = "mounted" /\ ~fault
    /\ mount' = "unmounted"
    /\ UNCHANGED <<super, enabled, groups, root, slot, live, fault, written,
                   failures>>

----------------------------------------------------------------------------
(* Finding a name: ext2_list_directory with callback_get_inode_in_dir,     *)
(* then ext2_read_inode.                                                   *)

\* The entries of a block, up to one of size zero.
Visible(entries) ==
    LET z == SelectInSeq(entries, LAMBDA e : e.total_size = 0)
    IN  IF z = 0 THEN entries ELSE SubSeq(entries, 1, z - 1)

Entries(d) == FlattenSeq([k \in DOMAIN Dirs[d] |-> Visible(Dirs[d][k])])

\* Mutant: an entry matches as far as the shorter of the two names goes.
MutMatches(e, name) == IsPrefix(e.name, name) \/ IsPrefix(name, e.name)

\* strncmp over the length of the entry's name.
Matches(e, name) == IsPrefix(e.name, name)

\* The inode of the first entry that matches, or 0.
InodeInDir(d, name) ==
    LET k == SelectInSeq(Entries(d), LAMBDA e : Matches(e, name))
    IN  IF k = 0 THEN 0 ELSE Entries(d)[k].inode

\* With no memory for the block the directory seems empty; with none for
\* the inode, or no such name, the pointer returned is NULL.  What an inode
\* holds, and so whether its transfer worked, is left to Ext2Blocks.
Found(d, name) ==
    LET n == InodeInDir(d, name)
    IN  {[inode |-> n, node |-> n, ok |-> TRUE],
         [inode |-> n, node |-> 0, ok |-> FALSE],
         [inode |-> 0, node |-> 0, ok |-> FALSE]}

Outcome(f) == IF f.ok THEN NoFailure ELSE Fails

\* The directory a lookup goes through.
Usable(d)  == IF d = 0 THEN mount = "mounted"
                       ELSE slot[d].st = "ready" /\ slot[d].kind = "dir"
DirNode(d) == IF d = 0 THEN root ELSE slot[d].node

\* A state with no inode, or with a handle that was never opened.
Broken(r) == r.node = 0 \/ r.stale
DirBroken(d) == IF d = 0 THEN root = 0 ELSE Broken(slot[d])

\* A driver function is called for slot s; after a fault nothing is.
At(s, st) == ~fault /\ slot[s].st = st

\* A lookup reads the blocks of a directory.
LookupFault(d) ==
    /\ Usable(d) /\ DirBroken(d)
    /\ \E s \in Slots : At(s, "unused")
    /\ fault' = TRUE
    /\ UNCHANGED <<super, mount, enabled, groups, root, slot, live, written,
                   failures>>

----------------------------------------------------------------------------
(* stat and locate, which the super and the directory driver share.        *)

\* Mutant: stat succeeds whether or not there is an inode.
MutStat(s, d, name) ==
    /\ At(s, "unused") /\ Usable(d) /\ ~DirBroken(d)
    /\ \E f \in Found(DirNode(d), name) :
          /\ Outcome(f)
          /\ slot' = [slot EXCEPT ![s] =
                [Unused EXCEPT
                    !.st   = "known",
                    !.kind = IF f.inode \in DOMAIN Dirs THEN "dir" ELSE "file",
                    !.via  = d, !.dir = DirNode(d), !.name = name]]
          /\ live' = live \cup {<<"stat", s>>}
    /\ UNCHANGED <<super, mount, enabled, groups, root, fault, written>>

\* stat: the inode it reads is never freed.
Stat(s, d, name) ==
    /\ At(s, "unused") /\ Usable(d) /\ ~DirBroken(d)
    /\ \E f \in Found(DirNode(d), name) :
          /\ Outcome(f)
          /\ slot' = [slot EXCEPT ![s] =
                [Unused EXCEPT
                    !.st   = IF f.node = 0 THEN "failed" ELSE "known",
                    !.kind = IF f.inode \in DOMAIN Dirs THEN "dir" ELSE "file",
                    !.via  = d, !.dir = DirNode(d), !.name = name]]
          /\ live' = IF f.node = 0 THEN live ELSE live \cup {<<"stat", s>>}
    /\ UNCHANGED <<super, mount, enabled, groups, root, fault, written>>

\* locate: what it returns is not NULL even when there is no inode.
Locate(s) ==
    /\ At(s, "known")
    /\ \E f \in Found(slot[s].dir, slot[s].name) :
          /\ Outcome(f)
          /\ slot' = [slot EXCEPT ![s].st = "located", ![s].inode = f.inode,
                                  ![s].node = f.node]
          /\ live' = live \cup {<<"args", s>>} \cup
                       (IF f.node = 0 THEN {} ELSE {<<"node", s>>})
    /\ UNCHANGED <<super, mount, enabled, groups, root, fault, written>>

\* locate has no memory for its arguments.
LocateNull(s) ==
    /\ At(s, "known") /\ Fails
    /\ slot' = [slot EXCEPT ![s].st = "failed"]
    /\ UNCHANGED <<super, mount, enabled, groups, root, live, fault, written>>

----------------------------------------------------------------------------
(* The file and the directory driver.                                      *)

\* init_ext2_file and init_ext2_directory.  The state is not cleared and
\* the attributes are never set: the write bit is whatever memory held.
Open(s) ==
    /\ At(s, "located") /\ <<"path", 0>> \in live
    /\ \E w \in BOOLEAN :
          slot' = [slot EXCEPT ![s].st = "ready", ![s].wbit = w]
    /\ live' = (live \cup {<<"state", s>>, <<"handle", s>>}) \ {<<"args", s>>}
    /\ UNCHANGED <<super, mount, enabled, groups, root, fault, written,
                   failures>>

\* Their error paths: no memory for the state, or a partition that does not
\* open; the state is freed, the arguments and the inode are not.
OpenFails(s) ==
    /\ At(s, "located")
    /\ IF <<"path", 0>> \in live THEN Fails ELSE NoFailure
    /\ slot' = [slot EXCEPT ![s].st = "failed"]
    /\ UNCHANGED <<super, mount, enabled, groups, root, live, fault, written>>

\* The test for a handle that did not open is made on memory that was not
\* cleared: when it is not zero the driver goes on with it.
OpenStale(s) ==
    /\ At(s, "located")
    /\ IF <<"path", 0>> \in live THEN Fails ELSE NoFailure
    /\ \E w \in BOOLEAN :
          slot' = [slot EXCEPT ![s].st = "ready", ![s].wbit = w,
                               ![s].stale = TRUE]
    /\ live' = (live \cup {<<"state", s>>}) \ {<<"args", s>>}
    /\ UNCHANGED <<super, mount, enabled, groups, root, fault, written>>

\* read_ext2_file follows the inode and the handle; a read that finds them
\* good changes nothing here.
ReadFault(s) ==
    /\ At(s, "ready") /\ slot[s].kind = "file" /\ Broken(slot[s])
    /\ fault' = TRUE
    /\ UNCHANGED <<super, mount, enabled, groups, root, slot, live, written,
                   failures>>

\* write_ext2_file, when the write bit of the file's state lets it.
Write(s) ==
    /\ At(s, "ready") /\ slot[s].kind = "file" /\ slot[s].wbit
    /\ IF Broken(slot[s]) THEN fault' = TRUE /\ UNCHANGED written
                          ELSE written' = TRUE /\ UNCHANGED fault
    /\ UNCHANGED <<super, mount, enabled, groups, root, slot, live, failures>>

\* uninit_ext2_file and uninit_ext2_directory: the state is freed, what it
\* pointed to is not.
Close(s) ==
    /\ At(s, "ready")
    /\ \A t \in Slots : slot[t].via = s => slot[t].st # "known"
    /\ slot' = [slot EXCEPT ![s].st = "closed"]
    /\ live' = live \ {<<"state", s>>}
    /\ UNCHANGED <<super, mount, enabled, groups, root, fault, written,
                   failures>>

----------------------------------------------------------------------------
NodeStep(s) ==
    \/ \E d \in {0} \cup Slots, name \in Names : Stat(s, d, name)
    \/ Locate(s) \/ LocateNull(s) \/ Open(s) \/ OpenFails(s)
    \/ OpenStale(s) \/ ReadFault(s) \/ Write(s) \/ Close(s)

\* Nothing is left to be done, or the kernel has faulted.
Finished ==
    /\ \/ fault
       \/ mount \in {"failed", "unmounted"}
    /\ UNCHANGED vars

Next ==
    \/ MountFails \/ Mount \/ Unmount
    \/ \E d \in {0} \cup Slots : LookupFault(d)
    \/ \E s \in Slots : NodeStep(s)
    \/ Finished

Spec == Init /\ [][Next]_vars

----------------------------------------------------------------------------
(* Properties.                                                             *)

\* Every variable stays within its type.
TypeOK ==
    /\ super \in Supers
    /\ mount \in {"no", "failed", "mounted", "unmounted"}
    /\ enabled \in BOOLEAN /\ groups \in Nat /\ root \in {0, 2}
    /\ slot \in [Slots ->
          [st : {"unused", "failed", "known", "located", "ready", "closed"},
           via : {0} \cup Slots, dir : {0} \cup DOMAIN Dirs,
           name : Names \cup {<<>>}, kind : {"file", "dir"}, inode : Nat,
           node : Nat, wbit : BOOLEAN, stale : BOOLEAN]]
    /\ fault \in BOOLEAN /\ written \in BOOLEAN
    /\ failures \in 0..MaxFailures

\* Each error path of init_ext2_super gives back exactly what was acquired
\* before it, so a mount that fails leaves nothing behind; and of what locate
\* allocates for a file's init function, a file that is ready has its state,
\* its inode, no arguments left over, and a handle unless the open of the
\* partition failed unnoticed.
MemoryOwned ==
    /\ mount = "failed" => live = {}
    /\ \A s \in Slots :
          slot[s].st = "ready" =>
              /\ <<"state", s>> \in live
              /\ <<"handle", s>> \in live <=> ~slot[s].stale
              /\ slot[s].node # 0 => <<"node", s>> \in live
              /\ <<"args", s>> \notin live

\* The descriptor table has one entry for each block group, also when the
\* blocks do not fill the last group and when block 0 is not in a group: no
\* inode of the file system has its group outside the table, and no entry
\* is read from behind it.
DescriptorsExact ==
    mount = "mounted" =>
        groups = Max({(n - 1) \div super.inodes_per_group + 1 :
                         n \in 1..super.total_inodes})

\* The entry of directory d that has exactly this name.
Named(d, name) == {e \in Range(Entries(d)) : e.name = name}

\* No other entry's name is the beginning of this one.
Unambiguous(d, name) ==
    \A e \in Range(Entries(d)) : IsPrefix(e.name, name) => e.name = name

\* A file or directory that is opened by name is the one with that name,
\* at every depth, unless the name of another entry of the directory is the
\* beginning of it: then the first of the two that is listed is opened.
LookupExact ==
    \A s \in Slots :
        /\ slot[s].st \in {"located", "ready", "closed"}
        /\ slot[s].inode # 0
        /\ Unambiguous(slot[s].dir, slot[s].name)
        => \E e \in Named(slot[s].dir, slot[s].name) :
              e.inode = slot[s].inode

\* With stat called before locate, no driver function follows the inode
\* pointer of a file that does not exist: a NULL inode means that memory
\* ran out, in locate or while mounting.
NoFaultWithMemory == fault => failures > 0

\* super.c, when it clears the bit: "mounting as read only", "disabling
\* write".  Then no file of the mount is written.
ReadOnlyHonoured == mount = "mounted" /\ ~enabled => ~written

\* file.c and directory.c on the inode: "we own it now, we must free it".
\* Once the file or directory is closed, its inode is no longer allocated.
NodeReleased ==
    \A s \in Slots : slot[s].st = "closed" => <<"node", s>> \notin live

============================================================================
