---------------------------- MODULE MCExt2Mount ----------------------------
(* Constants for the TLC runs of Ext2Mount.                                *)
EXTENDS Ext2Mount, TLC

\* Names are sequences of letters, so that one can begin with another.
a == <<1>>
b == <<2>>
ab == <<1, 2>>
ba == <<2, 1>>
ThreeNames == {a, ab, ba}

Entry(name, inode) == [name |-> name, inode |-> inode, total_size |-> 8]

\* The root holds ba, which is a directory, a and ab in a second block, and
\* behind an entry of size zero one that is never listed; the directory
\* holds ab before a.
TwoDirs ==
    2 :> << <<Entry(ba, 5)>>,
            <<Entry(a, 6), Entry(ab, 7),
              [Entry(<<>>, 0) EXCEPT !.total_size = 0], Entry(b, 8)>> >>
    @@ 5 :> << <<Entry(ab, 9), Entry(a, 10)>> >>

\* The ways to lay out one to three groups of four blocks and two inodes,
\* with block 0 inside the first group or before it.
Layouts ==
    UNION {{[total_blocks |-> first + 4 * (g - 1) + last, total_inodes |-> 2 * g]
               : first \in {0, 1}, last \in 1..4} : g \in 1..3}

Block(l, sig, clean, err, required, write) ==
    [sig |-> sig, clean |-> clean, err_handle |-> err, required |-> required,
     write |-> write, blocks_per_group |-> 4, inodes_per_group |-> 2,
     total_blocks |-> l.total_blocks, total_inodes |-> l.total_inodes]

Plain == [total_blocks |-> 4, total_inodes |-> 2]

\* Every layout, and on one of them the flags that refuse the mount or the
\* writes, alone and together.
ManySupers ==
    {Block(l, "ext2", TRUE, 1, {"typed"}, {"sparse"}) : l \in Layouts}
    \cup {Block(Plain, "other", TRUE, 1, {}, {})}
    \cup {Block(Plain, "ext2", FALSE, 3, {}, {})}
    \cup {Block(Plain, "ext2", FALSE, 2, required, write) :
             required \in {{}, {"compression"}, {"replay", "journal"}},
             write \in {{}, {"btree"}}}

\* Clean file systems and file systems with errors, with and without a
\* feature that rules out writing.
FewSupers ==
    {Block(Plain, "ext2", clean, 2, {}, write) :
        clean \in BOOLEAN, write \in SUBSET {"sparse"}}
============================================================================
