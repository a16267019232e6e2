-------------------------- MODULE Ext2MountProofs --------------------------
(***************************************************************************)
(* Theorems about Ext2Mount: every truthful super block, every tree of     *)
(* directories, any number of names opened, allocations and transfers free *)
(* to fail.                                                                *)
(***************************************************************************)
EXTENDS Ext2Mount, WellFoundedInduction, TLAPS

----------------------------------------------------------------------------
(* Numbers.                                                                *)

\* The order of the naturals as a relation.
LEMMA LessRelated ==
    ASSUME NEW x \in Nat, NEW y \in Nat, y < x
    PROVE  <<y, x>> \in OpToRel(<, Nat)
  <1> DEFINE p == <<y, x>>
  <1>1. p \in Nat \X Nat
    OBVIOUS
  <1>2. p[1] < p[2]
    OBVIOUS
  <1> HIDE DEF p
  <1>3. p \in OpToRel(<, Nat)
    BY <1>1, <1>2, Zenon DEF OpToRel
  <1> QED
    BY <1>3 DEF p

\* A set of naturals that is not empty has a least element.
LEMMA LeastExists ==
    ASSUME NEW S, S \subseteq Nat, S # {}
    PROVE  \E x \in S : \A y \in S : x <= y
  <1> DEFINE R == OpToRel(<, Nat)
  <1>1. IsWellFoundedOn(R, Nat)
    BY NatLessThanWellFounded
  <1>2. \A x, y \in Nat : y < x => <<y, x>> \in R
    BY LessRelated
  <1> HIDE DEF R
  <1>3. PICK x \in S : \A y \in S : ~(<<y, x>> \in R)
    BY <1>1, WFMin
  <1>4. ASSUME NEW y \in S PROVE x <= y
    <2>1. x \in Nat /\ y \in Nat
      OBVIOUS
    <2>2. ~(y < x)
      BY <1>2, <1>3, <2>1
    <2> QED
      BY <2>1, <2>2
  <1> QED
    BY <1>4

\* Min returns it.
LEMMA MinIn ==
    ASSUME NEW S, S \subseteq Nat, S # {}
    PROVE  Min(S) \in S /\ \A y \in S : Min(S) <= y
  <1>1. PICK x \in S : \A y \in S : x <= y
    BY LeastExists
  <1>2. \A y \in S : x =< y
    BY <1>1
  <1> QED
    BY <1>1, <1>2 DEF Min

\* A set of naturals that holds 0 and with each number the next holds all.
LEMMA NaturalsAll ==
    ASSUME NEW S, 0 \in S, \A n \in Nat : n \in S => n + 1 \in S
    PROVE  Nat \subseteq S
  <1> SUFFICES ASSUME NEW m \in Nat, m \notin S PROVE FALSE
    OBVIOUS
  <1> DEFINE T == {n \in Nat : n \notin S}
  <1>1. PICK x \in T : \A y \in T : x <= y
    BY LeastExists
  <1>2. x \in Nat /\ x # 0 /\ x \notin S
    BY <1>1
  <1>3. x - 1 \in Nat /\ x - 1 \notin T
    BY <1>1, <1>2
  <1>4. (x - 1) + 1 \in S
    BY <1>3
  <1> QED
    BY <1>2, <1>4

\* Quotient and remainder.
LEMMA DivMod ==
    ASSUME NEW n \in Nat \ {0}, NEW a \in Int
    PROVE  /\ a \div n \in Int
           /\ a % n \in 0..n-1
           /\ a = n * (a \div n) + (a % n)
  OBVIOUS

\* Products with a positive factor keep the order.
LEMMA TimesMono ==
    ASSUME NEW n \in Nat \ {0}, NEW p \in Int, NEW q \in Int, p >= q + 1
    PROVE  n * p >= n * q + n
  <1>1. n * p - n * q = n * (p - q)
    OBVIOUS
  <1>2. n * (p - q) >= n
    OBVIOUS
  <1>3. n * p \in Int /\ n * q \in Int
    OBVIOUS
  <1> QED
    BY <1>1, <1>2, <1>3

\* Division keeps the order.
LEMMA DivMono ==
    ASSUME NEW n \in Nat \ {0}, NEW a \in Int, NEW b \in Int, a <= b
    PROVE  a \div n <= b \div n
  <1> DEFINE p == a \div n
             q == b \div n
             r == a % n
             t == b % n
  <1>1. /\ p \in Int /\ q \in Int /\ r \in 0..n-1 /\ t \in 0..n-1
        /\ a = n * p + r /\ b = n * q + t
    BY DivMod
  <1> HIDE DEF p, q, r, t
  <1>2. n * p \in Int /\ n * q \in Int
    BY <1>1
  <1>3. ~(p >= q + 1)
    BY <1>1, <1>2, TimesMono
  <1>4. p <= q
    BY <1>1, <1>3
  <1> QED
    BY <1>4 DEF p, q

\* A quotient and a remainder are the only ones.
LEMMA QuotientIs ==
    ASSUME NEW n \in Nat \ {0}, NEW q \in Int, NEW r \in 0..n-1, NEW a \in Int,
           a = n * q + r
    PROVE  a \div n = q
  <1> DEFINE p == a \div n
             t == a % n
  <1>1. p \in Int /\ t \in 0..n-1 /\ a = n * p + t
    BY DivMod
  <1> HIDE DEF p, t
  <1>2. n * p \in Int /\ n * q \in Int
    BY <1>1
  <1>3. ~(p >= q + 1)
    BY <1>1, <1>2, TimesMono
  <1>4. ~(q >= p + 1)
    BY <1>1, <1>2, TimesMono
  <1>5. p = q
    BY <1>1, <1>3, <1>4
  <1> QED
    BY <1>5 DEF p

----------------------------------------------------------------------------
(* Sequences: what SelectInSeq and FlattenSeq return.                      *)

\* FlattenSeq is computed by a function of the number of sequences joined.
Joins(f, n, seqs) ==
    f = [i \in 1..n |-> IF i = 1 THEN seqs[i] ELSE f[i-1] \o seqs[i]]

\* There is such a function for every number of sequences.
LEMMA JoinsExists ==
    ASSUME NEW seqs, NEW n \in Nat
    PROVE  \E f : Joins(f, n, seqs)
  <1> DEFINE S == {m \in Nat : \E f : Joins(f, m, seqs)}
  <1>1. 0 \in S
    <2> DEFINE e == [i \in 1..0 |-> 0]
    <2>1. Joins(e, 0, seqs)
      BY DEF Joins
    <2> QED
      BY <2>1
  <1>2. ASSUME NEW m \in Nat, m \in S PROVE m + 1 \in S
    <2>1. PICK f : Joins(f, m, seqs)
      BY <1>2
    <2> DEFINE g == [i \in 1..m+1 |-> IF i \in 1..m THEN f[i]
                                      ELSE IF i = 1 THEN seqs[i]
                                      ELSE f[i-1] \o seqs[i]]
    <2>2. \A i \in 1..m : g[i] = f[i]
      OBVIOUS
    <2>3. ASSUME NEW i \in 1..m+1
          PROVE  g[i] = IF i = 1 THEN seqs[i] ELSE g[i-1] \o seqs[i]
      <3>1. i # 1 => i - 1 \in 1..m
        OBVIOUS
      <3>2. i # 1 => g[i-1] = f[i-1]
        BY <2>2, <3>1
      <3>3. CASE i \in 1..m
        <4>1. g[i] = f[i]
          BY <2>2, <3>3
        <4>2. f[i] = IF i = 1 THEN seqs[i] ELSE f[i-1] \o seqs[i]
          BY <2>1, <3>3 DEF Joins
        <4> HIDE DEF g
        <4> QED
          BY <3>2, <4>1, <4>2
      <3>4. CASE i \notin 1..m
        <4>1. g[i] = IF i = 1 THEN seqs[i] ELSE f[i-1] \o seqs[i]
          BY <3>4
        <4> HIDE DEF g
        <4> QED
          BY <3>2, <4>1
      <3> QED
        BY <3>3, <3>4
    <2>4. g = [i \in 1..m+1 |-> g[i]]
      OBVIOUS
    <2> HIDE DEF g
    <2>5. Joins(g, m + 1, seqs)
      BY <2>3, <2>4 DEF Joins
    <2> QED
      BY <2>5
  <1> HIDE DEF S
  <1>3. n \in S
    BY <1>1, <1>2, NaturalsAll
  <1> QED
    BY <1>3 DEF S

\* What it computes is a sequence of elements of the parts.
LEMMA JoinsType ==
    ASSUME NEW E, NEW seqs \in Seq(Seq(E)), NEW f, Joins(f, Len(seqs), seqs),
           Len(seqs) # 0
    PROVE  f[Len(seqs)] \in Seq(E)
  <1> DEFINE S == {m \in Nat : m \in 1..Len(seqs) => f[m] \in Seq(E)}
  <1>0. Len(seqs) \in Nat /\ \A i \in 1..Len(seqs) : seqs[i] \in Seq(E)
    OBVIOUS
  <1>1. 0 \in S
    BY <1>0
  <1>2. ASSUME NEW m \in Nat, m \in S PROVE m + 1 \in S
    <2> SUFFICES ASSUME m + 1 \in 1..Len(seqs) PROVE f[m+1] \in Seq(E)
      OBVIOUS
    <2>1. f[m+1] = IF m + 1 = 1 THEN seqs[m+1] ELSE f[(m+1)-1] \o seqs[m+1]
      BY DEF Joins
    <2>2. m # 0 => f[(m+1)-1] \in Seq(E)
      BY <1>0, <1>2
    <2>3. seqs[m+1] \in Seq(E)
      BY <1>0
    <2>4. m # 0 => f[(m+1)-1] \o seqs[m+1] \in Seq(E)
      BY <2>2, <2>3
    <2> QED
      BY <2>1, <2>3, <2>4
  <1> HIDE DEF S
  <1>3. Len(seqs) \in S
    BY <1>0, <1>1, <1>2, NaturalsAll
  <1> QED
    BY <1>0, <1>3 DEF S

\* Joining sequences gives a sequence.
LEMMA FlattenType ==
    ASSUME NEW E, NEW seqs \in Seq(Seq(E))
    PROVE  FlattenSeq(seqs) \in Seq(E)
  <1>1. CASE Len(seqs) = 0
    BY <1>1 DEF FlattenSeq
  <1>2. CASE Len(seqs) # 0
    <2> DEFINE f == CHOOSE g : Joins(g, Len(seqs), seqs)
    <2>1. Joins(f, Len(seqs), seqs)
      <3>1. Len(seqs) \in Nat
        OBVIOUS
      <3>2. \E g : Joins(g, Len(seqs), seqs)
        BY <3>1, JoinsExists, Zenon
      <3> QED
        BY <3>2, Zenon
    <2>2. f[Len(seqs)] \in Seq(E)
      BY <1>2, <2>1, JoinsType
    <2>3. FlattenSeq(seqs) = f[Len(seqs)]
      BY <1>2 DEF FlattenSeq, Joins
    <2> QED
      BY <2>2, <2>3
  <1> QED
    BY <1>1, <1>2

----------------------------------------------------------------------------
(* Directories.                                                            *)

\* The entries a listing comes to, of one block.
LEMMA VisibleType ==
    ASSUME NEW entries \in Seq(DirEntry)
    PROVE  Visible(entries) \in Seq(DirEntry)
  <1> DEFINE I == {i \in 1..Len(entries) : entries[i].total_size = 0}
             z == IF I # {} THEN Min(I) ELSE 0
  <1>1. I \subseteq Nat
    OBVIOUS
  <1>2. I # {} => Min(I) \in I
    BY <1>1, MinIn
  <1>3. z = 0 \/ z \in 1..Len(entries)
    BY <1>2
  <1>4. Visible(entries) = IF z = 0 THEN entries ELSE SubSeq(entries, 1, z - 1)
    BY DEF Visible, SelectInSeq
  <1> HIDE DEF z, I
  <1>5. z \in 1..Len(entries) => SubSeq(entries, 1, z - 1) \in Seq(DirEntry)
    OBVIOUS
  <1> QED
    BY <1>3, <1>4, <1>5

\* The entries of a directory are a sequence of entries.
LEMMA EntriesType ==
    ASSUME NEW d \in DOMAIN Dirs
    PROVE  Entries(d) \in Seq(DirEntry)
  <1> DEFINE blocks == [k \in DOMAIN Dirs[d] |-> Visible(Dirs[d][k])]
  <1>1. Dirs[d] \in Seq(Seq(DirEntry))
    BY MountAssumption
  <1>2. \A k \in DOMAIN Dirs[d] : Dirs[d][k] \in Seq(DirEntry)
    BY <1>1
  <1>3. \A k \in DOMAIN Dirs[d] : Visible(Dirs[d][k]) \in Seq(DirEntry)
    BY <1>2, VisibleType
  <1>4. blocks \in Seq(Seq(DirEntry))
    <2> DEFINE n == Len(Dirs[d])
    <2>1. DOMAIN Dirs[d] = 1..n /\ n \in Nat
      BY <1>1
    <2> HIDE DEF n
    <2>2. blocks \in [1..n -> Seq(DirEntry)]
      BY <1>3, <2>1
    <2> QED
      BY <2>1, <2>2
  <1> HIDE DEF blocks
  <1>5. FlattenSeq(blocks) \in Seq(DirEntry)
    BY <1>4, FlattenType
  <1> QED
    BY <1>5 DEF Entries, blocks

\* The inode found for a name is that of an entry that matches it.
LEMMA InodeFound ==
    ASSUME NEW d \in DOMAIN Dirs, NEW name
    PROVE  /\ InodeInDir(d, name) \in Nat
           /\ InodeInDir(d, name) # 0 =>
                 \E e \in Range(Entries(d)) :
                     Matches(e, name) /\ e.inode = InodeInDir(d, name)
  <1> DEFINE es == Entries(d)
             I  == {i \in 1..Len(es) : Matches(es[i], name)}
             k  == IF I # {} THEN Min(I) ELSE 0
  <1>1. es \in Seq(DirEntry)
    BY EntriesType
  <1>2. InodeInDir(d, name) = IF k = 0 THEN 0 ELSE es[k].inode
    BY DEF InodeInDir, SelectInSeq
  <1> HIDE DEF es
  <1>3. I \subseteq Nat
    BY <1>1
  <1>4. k # 0 => k \in I
    BY <1>3, MinIn
  <1>5. k # 0 => k \in DOMAIN es /\ es[k] \in DirEntry /\ Matches(es[k], name)
    BY <1>1, <1>4
  <1> HIDE DEF k
  <1>6. k # 0 => es[k].inode \in Nat /\ es[k] \in Range(es)
    BY <1>5 DEF DirEntry, Range
  <1> QED
    BY <1>2, <1>5, <1>6 DEF es

\* A name that no other entry begins is found under its own entry.
LEMMA ExactFound ==
    ASSUME NEW d \in DOMAIN Dirs, NEW name, Unambiguous(d, name),
           InodeInDir(d, name) # 0
    PROVE  \E e \in Named(d, name) : e.inode = InodeInDir(d, name)
  BY InodeFound DEF Unambiguous, Named, Matches

----------------------------------------------------------------------------
(* The super block.                                                        *)

\* The lesser of two numbers.
LEMMA MinTwo ==
    ASSUME NEW a \in Int, NEW b \in Int, a <= b
    PROVE  Min({a, b}) = a /\ Min({b, a}) = a
  <1>1. \A x \in {a, b} : (\A y \in {a, b} : x =< y) => x = a
    OBVIOUS
  <1>2. a \in {a, b} /\ \A y \in {a, b} : a =< y
    OBVIOUS
  <1>3. {b, a} = {a, b}
    OBVIOUS
  <1> QED
    BY <1>1, <1>2, <1>3 DEF Min

\* The number of block groups is what both ways of counting give: the
\* inodes divide evenly, and the blocks need at least as many groups.
LEMMA GroupCount ==
    ASSUME NEW s, s.total_inodes \in Nat, Truthful(s),
           NEW g \in 1..s.total_inodes,
           s.total_inodes = s.inodes_per_group * g,
           s.total_blocks > s.blocks_per_group * (g - 1)
    PROVE  DescriptorCount(s) = g
  <1> DEFINE i == s.inodes_per_group
             b == s.blocks_per_group
             t == s.total_blocks
  <1>0. /\ i \in Nat \ {0} /\ b \in Nat \ {0} /\ t \in Nat /\ g \in Nat \ {0}
        /\ s.total_inodes = i * g /\ t > b * (g - 1) /\ i * g \in Nat
    BY DEF Truthful
  <1>1. CeilDiv(s.total_inodes, s.inodes_per_group) = (i * g + i - 1) \div i
    BY <1>0 DEF CeilDiv
  <1>2. CeilDiv(s.total_blocks, s.blocks_per_group) = (t + b - 1) \div b
    BY DEF CeilDiv
  <1> HIDE DEF i, b, t
  <1>3. (i * g + i - 1) \div i = g
    <2>1. i - 1 \in 0..i-1 /\ i * g + i - 1 = i * g + (i - 1)
          /\ i * g + i - 1 \in Int
      BY <1>0
    <2> QED
      BY <1>0, <2>1, QuotientIs
  <1>4. g <= (t + b - 1) \div b /\ (t + b - 1) \div b \in Int
    <2>1. b * (g - 1) = b * g - b /\ b * g \in Int
      BY <1>0
    <2>2. b * g <= t + b - 1 /\ t + b - 1 \in Int
      BY <1>0, <2>1
    <2>3. (b * g) \div b = g
      <3>1. b * g = b * g + 0 /\ 0 \in 0..b-1
        BY <1>0, <2>1
      <3> QED
        BY <1>0, <2>1, <3>1, QuotientIs
    <2>4. (b * g) \div b <= (t + b - 1) \div b
      BY <1>0, <2>1, <2>2, DivMono
    <2>5. (t + b - 1) \div b \in Int
      BY <1>0, <2>2, DivMod
    <2> QED
      BY <2>3, <2>4, <2>5
  <1> QED
    BY <1>0, <1>1, <1>2, <1>3, <1>4, MinTwo DEF DescriptorCount

\* A super block that tells the truth has such a number.
LEMMA GroupsAre ==
    ASSUME NEW s \in Supers
    PROVE  \E g \in Nat \ {0} : /\ DescriptorCount(s) = g
                                /\ s.total_inodes = s.inodes_per_group * g
                                /\ s.inodes_per_group \in Nat \ {0}
  <1>1. s.total_inodes \in Nat /\ Truthful(s)
    BY MountAssumption
  <1>2. PICK g \in 1..s.total_inodes :
           /\ s.total_inodes = s.inodes_per_group * g
           /\ s.total_blocks > s.blocks_per_group * (g - 1)
    BY <1>1 DEF Truthful
  <1>3. DescriptorCount(s) = g
    BY <1>1, <1>2, GroupCount
  <1>4. g \in Nat \ {0} /\ s.inodes_per_group \in Nat \ {0}
    BY <1>1 DEF Truthful
  <1> QED
    BY <1>2, <1>3, <1>4

\* The group of the last inode is the last group, and no inode is beyond.
LEMMA LastGroup ==
    ASSUME NEW i \in Nat \ {0}, NEW g \in Nat \ {0}, NEW T, T = i * g
    PROVE  Max({(n - 1) \div i + 1 : n \in 1..T}) = g
  <1> DEFINE S == {(n - 1) \div i + 1 : n \in 1..T}
  <1>0. T \in Nat /\ T >= 1 /\ i * (g - 1) \in Int /\ T - 1 \in Int
        /\ i * (g - 1) = i * g - i /\ T - 1 = i * (g - 1) + (i - 1)
    <2>1. i * g \in Nat /\ i * g >= 1
      OBVIOUS
    <2>2. i * (g - 1) = i * g - i
      OBVIOUS
    <2> QED
      BY <2>1, <2>2
  <1>1. (T - 1) \div i = g - 1
    <2>1. i - 1 \in 0..i-1 /\ g - 1 \in Int
      OBVIOUS
    <2> QED
      BY <1>0, <2>1, QuotientIs
  <1>2. g \in S
    <2>1. T \in 1..T /\ (T - 1) \div i + 1 = g
      BY <1>0, <1>1
    <2> QED
      BY <2>1
  <1>3. ASSUME NEW y \in S PROVE y \in Int /\ g >= y
    <2>1. PICK n \in 1..T : y = (n - 1) \div i + 1
      OBVIOUS
    <2>2. n - 1 \in Int /\ n - 1 <= T - 1
      BY <1>0
    <2>3. (n - 1) \div i \in Int /\ (n - 1) \div i <= g - 1
      <3>1. (n - 1) \div i <= (T - 1) \div i
        BY <1>0, <2>2, DivMono
      <3>2. (n - 1) \div i \in Int
        BY <2>2, DivMod
      <3> QED
        BY <1>1, <3>1, <3>2
    <2> QED
      BY <2>1, <2>3
  <1> HIDE DEF S
  <1>4. \A x \in S : (\A y \in S : x >= y) => x = g
    <2> SUFFICES ASSUME NEW x \in S, \A y \in S : x >= y PROVE x = g
      OBVIOUS
    <2>1. x >= g /\ x \in Int /\ g >= x
      BY <1>2, <1>3
    <2> QED
      BY <2>1
  <1>5. \A y \in S : g >= y
    BY <1>3
  <1>6. Max(S) = g
    BY <1>2, <1>4, <1>5 DEF Max
  <1> QED
    BY <1>6 DEF S

----------------------------------------------------------------------------
(* The invariant.                                                          *)

SlotType ==
    [st : {"unused", "failed", "known", "located", "ready", "closed"},
     via : {0} \cup Slots, dir : {0} \cup DOMAIN Dirs,
     name : Names \cup {<<>>}, kind : {"file", "dir"}, inode : Nat,
     node : Nat, wbit : BOOLEAN, stale : BOOLEAN]

\* stat has found the name, and whatever locate and init got since is the
\* inode of that name or nothing.
Looked(r) ==
    r.st \in {"known", "located", "ready", "closed"} =>
        /\ r.dir \in DOMAIN Dirs
        /\ InodeInDir(r.dir, r.name) # 0
        /\ r.kind = "dir" => InodeInDir(r.dir, r.name) \in DOMAIN Dirs
        /\ r.inode \in {0, InodeInDir(r.dir, r.name)}
        /\ r.node \in {0, InodeInDir(r.dir, r.name)}

\* What slot s, in state r, owns of the allocated objects.
Owned(s, r, allocated) ==
    /\ r.st \in {"unused", "known", "located"} =>
          <<"handle", s>> \notin allocated /\ r.stale = FALSE
    /\ r.st = "located" /\ r.node # 0 => <<"node", s>> \in allocated
    /\ r.st = "ready" =>
          /\ <<"state", s>> \in allocated
          /\ (<<"handle", s>> \in allocated) <=> (r.stale = FALSE)
          /\ r.node # 0 => <<"node", s>> \in allocated
          /\ <<"args", s>> \notin allocated

\* A state with no inode or with a stale handle comes from a failure.
Excused(r, count) ==
    /\ r.st \in {"located", "ready"} /\ r.node = 0 => count > 0
    /\ r.st = "ready" /\ r.stale = TRUE => count > 0

SlotsInv ==
    \A s \in Slots : /\ Looked(slot[s])
                     /\ Owned(s, slot[s], live)
                     /\ Excused(slot[s], failures)

\* The mount: before it there are no slots; a failed one holds nothing; one
\* that succeeded lacks its root or its path only after a failure.
MountInv ==
    /\ mount \in {"no", "failed"} => \A s \in Slots : slot[s] = Unused
    /\ mount = "failed" => live = {}
    /\ mount \in {"mounted", "unmounted"} =>
          /\ root = 0 => failures > 0
          /\ <<"path", 0>> \notin live => failures > 0
          /\ groups = DescriptorCount(super)
    /\ fault = TRUE => failures > 0

MTypes ==
    /\ super \in Supers
    /\ mount \in {"no", "failed", "mounted", "unmounted"}
    /\ groups \in Nat /\ root \in {0, 2}
    /\ slot \in [Slots -> SlotType]
    /\ failures \in 0..MaxFailures

MFlags == enabled \in BOOLEAN /\ fault \in BOOLEAN /\ written \in BOOLEAN

MInv == MTypes /\ MFlags /\ SlotsInv /\ MountInv

\* The slot of a name nobody looks for.
LEMMA UnusedShape ==
    /\ Unused \in SlotType /\ Unused.st = "unused"
    /\ Unused.stale = FALSE
  BY DEF Unused, SlotType

\* The initial state.
LEMMA MInit == Init => MInv
  <1> SUFFICES ASSUME Init PROVE MInv
    OBVIOUS
  <1>1. MTypes
    BY UnusedShape, MountAssumption DEF Init, MTypes
  <1>2. MFlags
    BY Zenon DEF Init, MFlags
  <1>3. \A s \in Slots : slot[s] = Unused
    BY DEF Init
  <1>4. SlotsInv
    BY <1>3, UnusedShape DEF Init, SlotsInv, Looked, Owned, Excused
  <1>5. MountInv
    BY <1>3 DEF Init, MountInv
  <1> QED
    BY <1>1, <1>2, <1>4, <1>5 DEF MInv

\* Failures are counted within the bound.
LEMMA FailsCount ==
    ASSUME MTypes, Fails
    PROVE  failures' \in 0..MaxFailures /\ failures' >= failures /\ failures' > 0
  BY MountAssumption DEF MTypes, Fails

\* A step with no failure.
LEMMA NoFailCount ==
    ASSUME MTypes, NoFailure
    PROVE  failures' \in 0..MaxFailures /\ failures' >= failures
  BY MountAssumption DEF MTypes, NoFailure

----------------------------------------------------------------------------
(* Mounting.                                                               *)

\* Every error path gives back what was acquired before it.
LEMMA PathsBalanced ==
    ASSUME NEW k \in 1..Len(MountPoints)
    PROVE  HeldAt(MountPoints[k]) \ ReleasedAt(MountPoints[k]) = {}
  <1>1. MountPoints[k] \in {"state", "open", "read", "signature", "check",
                            "table", "descriptors"}
    BY DEF MountPoints
  <1> QED
    BY <1>1 DEF HeldAt, ReleasedAt

\* A mount that fails.
LEMMA MountFailsM == ASSUME MInv, MountFails PROVE MInv'
  <1>1. PICK k \in 1..Len(MountPoints) :
           /\ MountFailsAt(MountPoints[k])
           /\ live' = HeldAt(MountPoints[k]) \ ReleasedAt(MountPoints[k])
    BY DEF MountFails
  <1>2. live' = {}
    BY <1>1, PathsBalanced
  <1>3. Fails \/ NoFailure
    BY <1>1 DEF MountFailsAt
  <1>4. failures' \in 0..MaxFailures /\ failures' >= failures
    BY <1>3, FailsCount, NoFailCount DEF MInv
  <1>5. MTypes'
    BY <1>4 DEF MInv, MTypes, MountFails
  <1>6. MFlags'
    BY Zenon DEF MInv, MFlags, MountFails
  <1>7. \A s \in Slots : slot'[s] = Unused
    BY DEF MInv, MountInv, MountFails
  <1>8. SlotsInv'
    BY <1>2, <1>7, UnusedShape DEF SlotsInv, Looked, Owned, Excused
  <1>9. MountInv'
    <2>1. failures \in Int /\ failures' \in Int
      BY <1>4 DEF MInv, MTypes
    <2> QED
      BY <1>2, <1>4, <1>7, <2>1 DEF MInv, MountInv, MountFails
  <1> QED
    BY <1>5, <1>6, <1>8, <1>9 DEF MInv

\* A mount that succeeds, its root inode or the copy of its path missing.
LEMMA MountM == ASSUME MInv, Mount PROVE MInv'
  <1>1. PICK lost \in {{}, {"path"}, {"root"}} :
           /\ IF lost = {} THEN NoFailure ELSE Fails
           /\ root' = IF "root" \in lost THEN 0 ELSE 2
           /\ live' = ({"state", "handle", "table", "path", "root"} \ lost)
                         \X {0}
    BY DEF Mount
  <1>2. /\ failures' \in 0..MaxFailures /\ failures' >= failures
        /\ lost # {} => failures' > 0
    BY <1>1, FailsCount, NoFailCount DEF MInv
  <1>3. DescriptorCount(super) \in Nat
    BY GroupsAre DEF MInv, MTypes
  <1>4. MTypes'
    BY <1>1, <1>2, <1>3 DEF MInv, MTypes, Mount
  <1>5. MFlags'
    <2>1. enabled' \in BOOLEAN
      BY DEF Mount, WriteEnabled
    <2> QED
      BY <2>1, Zenon DEF MInv, MFlags, Mount
  <1>6. \A s \in Slots : slot'[s] = Unused
    BY DEF MInv, MountInv, Mount
  <1>7. \A s \in Slots : \A tag : <<tag, s>> \notin live'
    BY <1>1, MountAssumption DEF Slots
  <1>8. SlotsInv'
    BY <1>6, <1>7, UnusedShape DEF SlotsInv, Looked, Owned, Excused
  <1>9. MountInv'
    <2>1. failures \in Int /\ failures' \in Int
      BY <1>2 DEF MInv, MTypes
    <2>2. root' = 0 => failures' > 0
      BY <1>1, <1>2
    <2>3. <<"path", 0>> \notin live' => failures' > 0
      BY <1>1, <1>2
    <2>4. fault' = TRUE => failures' > 0
      BY <1>2, <2>1 DEF MInv, MountInv, Mount
    <2> QED
      BY <2>2, <2>3, <2>4 DEF MountInv, Mount
  <1> QED
    BY <1>4, <1>5, <1>8, <1>9 DEF MInv

\* Unmounting does nothing.
LEMMA UnmountM == ASSUME MInv, Unmount PROVE MInv'
  <1>1. MTypes'
    BY DEF MInv, MTypes, Unmount
  <1>2. MFlags'
    BY Zenon DEF MInv, MFlags, Unmount
  <1>3. SlotsInv'
    BY DEF MInv, SlotsInv, Unmount
  <1>4. MountInv'
    BY DEF MInv, MountInv, Unmount
  <1> QED
    BY <1>1, <1>2, <1>3, <1>4 DEF MInv

----------------------------------------------------------------------------
(* A directory that is used, and the faults.                               *)

\* A directory that a lookup may go through is one, unless it is broken.
LEMMA DirNodeType ==
    ASSUME MInv, NEW d \in {0} \cup Slots, Usable(d), ~DirBroken(d)
    PROVE  DirNode(d) \in DOMAIN Dirs
  <1>1. CASE d = 0
    BY <1>1, MountAssumption DEF MInv, MTypes, DirBroken, DirNode
  <1>2. CASE d # 0
    <2>1. d \in Slots /\ slot[d].st = "ready" /\ slot[d].kind = "dir"
          /\ slot[d].node # 0
      BY <1>2 DEF Usable, DirBroken, Broken
    <2> QED
      BY <1>2, <2>1 DEF MInv, SlotsInv, Looked, DirNode
  <1> QED
    BY <1>1, <1>2

\* A broken state comes from a failure.
LEMMA BrokenExcused ==
    ASSUME MInv, NEW s \in Slots, slot[s].st = "ready", Broken(slot[s])
    PROVE  failures > 0
  <1>1. slot[s].node = 0 \/ slot[s].stale = TRUE
    BY DEF Broken, MInv, MTypes, SlotType
  <1> QED
    BY <1>1 DEF MInv, SlotsInv, Excused

\* A directory is broken only after a failure.
LEMMA DirBrokenExcused ==
    ASSUME MInv, NEW d \in {0} \cup Slots, Usable(d), DirBroken(d)
    PROVE  failures > 0
  <1>1. CASE d = 0
    BY <1>1 DEF Usable, DirBroken, MInv, MountInv
  <1>2. CASE d # 0
    BY <1>2, BrokenExcused DEF Usable, DirBroken
  <1> QED
    BY <1>1, <1>2

\* A step that only faults.
LEMMA FaultM ==
    ASSUME MInv, failures > 0, fault' \in BOOLEAN, written' \in BOOLEAN,
           UNCHANGED <<super, mount, enabled, groups, root, slot, live, failures>>
    PROVE  MInv'
  <1>1. MTypes'
    BY DEF MInv, MTypes
  <1>2. MFlags'
    BY Zenon DEF MInv, MFlags
  <1>3. SlotsInv'
    BY DEF MInv, SlotsInv
  <1>4. MountInv'
    BY DEF MInv, MountInv
  <1> QED
    BY <1>1, <1>2, <1>3, <1>4 DEF MInv

----------------------------------------------------------------------------
(* The steps of one slot.                                                  *)

\* A step of slot s changes that slot, the objects of that slot, and the
\* count of failures, and nothing else.
LEMMA SlotStep ==
    ASSUME MInv, NEW s \in Slots, mount \in {"mounted", "unmounted"},
           slot' \in [Slots -> SlotType],
           \A t \in Slots \ {s} : slot'[t] = slot[t],
           \A t \in {0} \cup (Slots \ {s}) : \A tag :
               (<<tag, t>> \in live') <=> (<<tag, t>> \in live),
           Looked(slot'[s]), Owned(s, slot'[s], live'),
           failures' \in 0..MaxFailures, failures' >= failures,
           Excused(slot'[s], failures'),
           UNCHANGED <<super, mount, enabled, groups, root, fault, written>>
    PROVE  MInv'
  <1>0. failures \in Int /\ failures' \in Int /\ failures' >= failures
    BY DEF MInv, MTypes
  <1>1. MTypes'
    BY DEF MInv, MTypes
  <1>2. MFlags'
    BY Zenon DEF MInv, MFlags
  <1>3. ASSUME NEW t \in Slots
        PROVE  /\ Looked(slot'[t]) /\ Owned(t, slot'[t], live')
               /\ Excused(slot'[t], failures')
    <2>1. CASE t = s
      BY <2>1
    <2>2. CASE t # s
      <3>1. slot'[t] = slot[t] /\ \A tag : (<<tag, t>> \in live') <=> (<<tag, t>> \in live)
        BY <2>2
      <3>2. Looked(slot[t]) /\ Owned(t, slot[t], live) /\ Excused(slot[t], failures)
        BY DEF MInv, SlotsInv
      <3>3. Owned(t, slot[t], live')
        BY <3>1, <3>2 DEF Owned
      <3>4. Excused(slot[t], failures')
        BY <1>0, <3>2 DEF Excused
      <3> QED
        BY <3>1, <3>2, <3>3, <3>4
    <2> QED
      BY <2>1, <2>2
  <1>4. SlotsInv'
    BY <1>3 DEF SlotsInv
  <1>5. MountInv'
    <2>1. (<<"path", 0>> \in live') <=> (<<"path", 0>> \in live)
      OBVIOUS
    <2> QED
      BY <1>0, <2>1 DEF MInv, MountInv
  <1> QED
    BY <1>1, <1>2, <1>4, <1>5 DEF MInv

\* A slot in use belongs to a mount.
LEMMA SlotMounted ==
    ASSUME MInv, NEW s \in Slots, slot[s].st # "unused"
    PROVE  mount \in {"mounted", "unmounted"}
  BY UnusedShape DEF MInv, MTypes, MountInv

\* So does a directory that a lookup goes through.
LEMMA UsableMounted ==
    ASSUME MInv, NEW d \in {0} \cup Slots, Usable(d)
    PROVE  mount \in {"mounted", "unmounted"}
  BY SlotMounted DEF Usable

\* What a search may return, counted as a failure or not.
LEMMA FoundShape ==
    ASSUME MInv, NEW d \in DOMAIN Dirs, NEW name, NEW f \in Found(d, name),
           Outcome(f)
    PROVE  /\ f.inode \in {0, InodeInDir(d, name)}
           /\ f.node \in {0, InodeInDir(d, name)}
           /\ f.inode \in Nat /\ f.node \in Nat
           /\ f.node # 0 => f.inode = InodeInDir(d, name)
           /\ f.node = 0 => InodeInDir(d, name) = 0 \/ failures' > 0
           /\ failures' \in 0..MaxFailures /\ failures' >= failures
  <1>1. InodeInDir(d, name) \in Nat
    BY InodeFound
  <1>2. /\ f.inode \in {0, InodeInDir(d, name)}
        /\ f.node \in {0, InodeInDir(d, name)}
        /\ f.node # 0 => f.inode = InodeInDir(d, name)
        /\ f.ok \in BOOLEAN
        /\ f.ok = TRUE => f.node = InodeInDir(d, name)
    <2> DEFINE n == InodeInDir(d, name)
    <2>1. \/ f = [inode |-> n, node |-> n, ok |-> TRUE]
          \/ f = [inode |-> n, node |-> 0, ok |-> FALSE]
          \/ f = [inode |-> 0, node |-> 0, ok |-> FALSE]
      BY DEF Found
    <2> HIDE DEF n
    <2>2. CASE f = [inode |-> n, node |-> n, ok |-> TRUE]
      <3>1. f.inode = n /\ f.node = n /\ f.ok = TRUE
        BY <2>2, Zenon
      <3> QED
        BY <3>1, Zenon DEF n
    <2>3. CASE f = [inode |-> n, node |-> 0, ok |-> FALSE]
      <3>1. f.inode = n /\ f.node = 0 /\ f.ok = FALSE
        BY <2>3, Zenon
      <3> QED
        BY <3>1, Zenon DEF n
    <2>4. CASE f = [inode |-> 0, node |-> 0, ok |-> FALSE]
      <3>1. f.inode = 0 /\ f.node = 0 /\ f.ok = FALSE
        BY <2>4, Zenon
      <3> QED
        BY <3>1, Zenon DEF n
    <2> QED
      BY <2>1, <2>2, <2>3, <2>4, Zenon
  <1>3. failures' \in 0..MaxFailures /\ failures' >= failures
    BY <1>2, FailsCount, NoFailCount DEF Outcome, MInv
  <1>4. f.ok = FALSE => failures' > 0
    BY FailsCount DEF Outcome, MInv
  <1> QED
    BY <1>1, <1>2, <1>3, <1>4

\* stat.
LEMMA StatM ==
    ASSUME MInv, NEW s \in Slots, NEW d \in {0} \cup Slots, NEW name \in Names,
           Stat(s, d, name)
    PROVE  MInv'
  <1>0. /\ slot[s].st = "unused" /\ DirNode(d) \in DOMAIN Dirs
        /\ mount \in {"mounted", "unmounted"}
    BY DirNodeType, UsableMounted DEF Stat, At
  <1>1. PICK f \in Found(DirNode(d), name) :
           /\ Outcome(f)
           /\ slot' = [slot EXCEPT ![s] =
                 [Unused EXCEPT
                     !.st   = IF f.node = 0 THEN "failed" ELSE "known",
                     !.kind = IF f.inode \in DOMAIN Dirs THEN "dir" ELSE "file",
                     !.via  = d, !.dir = DirNode(d), !.name = name]]
           /\ live' = IF f.node = 0 THEN live ELSE live \cup {<<"stat", s>>}
    BY DEF Stat
  <1>2. /\ f.node \in {0, InodeInDir(DirNode(d), name)}
        /\ f.node # 0 => f.inode = InodeInDir(DirNode(d), name)
        /\ failures' \in 0..MaxFailures /\ failures' >= failures
    BY <1>0, <1>1, FoundShape
  <1> DEFINE r == [Unused EXCEPT
                     !.st   = IF f.node = 0 THEN "failed" ELSE "known",
                     !.kind = IF f.inode \in DOMAIN Dirs THEN "dir" ELSE "file",
                     !.via  = d, !.dir = DirNode(d), !.name = name]
  <1>3. /\ r \in SlotType
        /\ r.st = IF f.node = 0 THEN "failed" ELSE "known"
        /\ r.kind = IF f.inode \in DOMAIN Dirs THEN "dir" ELSE "file"
        /\ r.dir = DirNode(d) /\ r.name = name
        /\ r.inode = 0 /\ r.node = 0 /\ r.stale = FALSE
    BY <1>0 DEF Unused, SlotType
  <1>4. slot' = [slot EXCEPT ![s] = r]
    BY <1>1
  <1> HIDE DEF r
  <1>5. /\ slot' \in [Slots -> SlotType] /\ slot'[s] = r
        /\ \A t \in Slots \ {s} : slot'[t] = slot[t]
    BY <1>3, <1>4 DEF MInv, MTypes
  <1>6. \A t \in {0} \cup (Slots \ {s}) : \A tag :
            (<<tag, t>> \in live') <=> (<<tag, t>> \in live)
    <2>1. 0 \notin Slots
      BY DEF Slots
    <2> QED
      BY <1>1, <2>1
  <1>7. Looked(r)
    BY <1>0, <1>2, <1>3 DEF Looked
  <1>8. Owned(s, r, live')
    <2>1. <<"handle", s>> \notin live
      BY <1>0 DEF MInv, SlotsInv, Owned
    <2>2. <<"handle", s>> \notin live'
      BY <1>1, <2>1
    <2> QED
      BY <1>3, <2>2 DEF Owned
  <1>9. Excused(r, failures')
    BY <1>3 DEF Excused
  <1> QED
    BY <1>0, <1>2, <1>5, <1>6, <1>7, <1>8, <1>9, SlotStep DEF Stat

\* locate.
LEMMA LocateM == ASSUME MInv, NEW s \in Slots, Locate(s) PROVE MInv'
  <1> DEFINE o == slot[s]
             r == slot'[s]
  <1>0. /\ o.st = "known" /\ o.dir \in DOMAIN Dirs /\ o \in SlotType
        /\ InodeInDir(o.dir, o.name) # 0
        /\ o.kind = "dir" => InodeInDir(o.dir, o.name) \in DOMAIN Dirs
        /\ o.stale = FALSE /\ <<"handle", s>> \notin live
        /\ mount \in {"mounted", "unmounted"}
    BY SlotMounted DEF Locate, At, MInv, MTypes, SlotsInv, Looked, Owned
  <1>1. PICK f \in Found(o.dir, o.name) :
           /\ Outcome(f)
           /\ slot' = [slot EXCEPT ![s].st = "located", ![s].inode = f.inode,
                                   ![s].node = f.node]
           /\ live' = live \cup {<<"args", s>>} \cup
                        (IF f.node = 0 THEN {} ELSE {<<"node", s>>})
    BY DEF Locate
  <1>2. /\ f.inode \in {0, InodeInDir(o.dir, o.name)}
        /\ f.node \in {0, InodeInDir(o.dir, o.name)}
        /\ f.inode \in Nat /\ f.node \in Nat
        /\ f.node = 0 => failures' > 0
        /\ failures' \in 0..MaxFailures /\ failures' >= failures
    BY <1>0, <1>1, FoundShape
  <1>3. /\ slot' \in [Slots -> SlotType]
        /\ \A t \in Slots \ {s} : slot'[t] = slot[t]
        /\ r.st = "located" /\ r.inode = f.inode /\ r.node = f.node
        /\ r.dir = o.dir /\ r.name = o.name /\ r.kind = o.kind
        /\ r.stale = o.stale
    BY <1>0, <1>1, <1>2 DEF MInv, MTypes, SlotType
  <1>4. \A t \in {0} \cup (Slots \ {s}) : \A tag :
            (<<tag, t>> \in live') <=> (<<tag, t>> \in live)
    <2>1. 0 \notin Slots
      BY DEF Slots
    <2> QED
      BY <1>1, <2>1
  <1> HIDE DEF o, r
  <1>5. Looked(r)
    BY <1>0, <1>2, <1>3 DEF Looked
  <1>6. Owned(s, r, live')
    BY <1>0, <1>1, <1>3 DEF Owned
  <1>7. Excused(r, failures')
    BY <1>0, <1>2, <1>3 DEF Excused
  <1> QED
    BY <1>0, <1>2, <1>3, <1>4, <1>5, <1>6, <1>7, SlotStep DEF Locate, r

\* A slot whose opening ends owns nothing the invariant speaks of.
LEMMA FailedM ==
    ASSUME MInv, NEW s \in Slots, slot[s].st # "unused",
           slot' = [slot EXCEPT ![s].st = "failed"],
           failures' \in 0..MaxFailures, failures' >= failures,
           UNCHANGED <<super, mount, enabled, groups, root, live, fault, written>>
    PROVE  MInv'
  <1> DEFINE r == slot'[s]
  <1>1. /\ slot' \in [Slots -> SlotType]
        /\ \A t \in Slots \ {s} : slot'[t] = slot[t]
        /\ r.st = "failed"
    BY DEF MInv, MTypes, SlotType
  <1> HIDE DEF r
  <1>2. Looked(r) /\ Owned(s, r, live') /\ Excused(r, failures')
    BY <1>1 DEF Looked, Owned, Excused
  <1>3. mount \in {"mounted", "unmounted"}
    BY SlotMounted
  <1> QED
    BY <1>1, <1>2, <1>3, SlotStep DEF r

\* The open that succeeds, with the partition or with a handle that is none.
LEMMA ReadyM ==
    ASSUME MInv, NEW s \in Slots, slot[s].st = "located",
           NEW w \in BOOLEAN, NEW stale \in BOOLEAN,
           slot' = [slot EXCEPT ![s].st = "ready", ![s].wbit = w,
                                ![s].stale = stale],
           live' = (live \cup {<<"state", s>>}
                         \cup (IF stale THEN {} ELSE {<<"handle", s>>}))
                      \ {<<"args", s>>},
           failures' \in 0..MaxFailures, failures' >= failures,
           stale => failures' > 0,
           UNCHANGED <<super, mount, enabled, groups, root, fault, written>>
    PROVE  MInv'
  <1> DEFINE o == slot[s]
             r == slot'[s]
  <1>0. /\ o \in SlotType /\ Looked(o) /\ Excused(o, failures)
        /\ <<"handle", s>> \notin live
        /\ o.node # 0 => <<"node", s>> \in live
        /\ mount \in {"mounted", "unmounted"}
    BY SlotMounted DEF MInv, MTypes, SlotsInv, Owned
  <1>1. /\ slot' \in [Slots -> SlotType]
        /\ \A t \in Slots \ {s} : slot'[t] = slot[t]
        /\ r.st = "ready" /\ r.inode = o.inode /\ r.node = o.node
        /\ r.dir = o.dir /\ r.name = o.name /\ r.kind = o.kind
        /\ r.stale = stale
    <2>1. \A t \in Slots \ {s} : slot'[t] = slot[t]
      BY DEF MInv, MTypes
    <2>2. r = [o EXCEPT !.st = "ready", !.wbit = w, !.stale = stale]
      BY DEF MInv, MTypes
    <2>3. DOMAIN slot' = Slots /\ slot' = [t \in Slots |-> slot'[t]]
      BY DEF MInv, MTypes
    <2> HIDE DEF r, o
    <2>4. r \in SlotType
      BY <1>0, <2>2 DEF SlotType
    <2>5. /\ r.st = "ready" /\ r.inode = o.inode /\ r.node = o.node
          /\ r.dir = o.dir /\ r.name = o.name /\ r.kind = o.kind
          /\ r.stale = stale
      BY <1>0, <2>2 DEF SlotType
    <2>6. slot' \in [Slots -> SlotType]
      <3>1. \A t \in Slots : slot'[t] \in SlotType
        BY <2>1, <2>4 DEF MInv, MTypes, r
      <3> QED
        BY <2>3, <3>1
    <2> QED
      BY <2>1, <2>5, <2>6
  <1>2. \A t \in {0} \cup (Slots \ {s}) : \A tag :
            (<<tag, t>> \in live') <=> (<<tag, t>> \in live)
    <2>1. 0 \notin Slots
      BY DEF Slots
    <2> QED
      BY <2>1
  <1>3. o.st = "located"
    OBVIOUS
  <1> HIDE DEF o, r
  <1>4. Looked(r)
    BY <1>0, <1>1, <1>3 DEF Looked
  <1>5. Owned(s, r, live')
    <2>1. <<"handle", s>> \in live' <=> stale = FALSE
      BY <1>0
    <2>2. <<"state", s>> \in live' /\ <<"args", s>> \notin live'
          /\ (<<"node", s>> \in live => <<"node", s>> \in live')
      OBVIOUS
    <2> QED
      BY <1>0, <1>1, <2>1, <2>2 DEF Owned
  <1>6. Excused(r, failures')
    <2>1. failures \in Int /\ failures' \in Int
      BY DEF MInv, MTypes
    <2> QED
      BY <1>0, <1>1, <1>3, <2>1 DEF Excused
  <1> QED
    BY <1>0, <1>1, <1>2, <1>4, <1>5, <1>6, SlotStep DEF r

\* A slot's record with the flags of an open.
LEMMA StaleKept ==
    ASSUME MInv, NEW s \in Slots, slot[s].st = "located", NEW w \in BOOLEAN
    PROVE  [slot EXCEPT ![s].st = "ready", ![s].wbit = w]
              = [slot EXCEPT ![s].st = "ready", ![s].wbit = w, ![s].stale = FALSE]
  <1> DEFINE o == slot[s]
             x == [o EXCEPT !.st = "ready", !.wbit = w]
             y == [o EXCEPT !.st = "ready", !.wbit = w, !.stale = FALSE]
  <1>1. o \in SlotType /\ o.stale = FALSE
    BY DEF MInv, MTypes, SlotsInv, Owned
  <1> HIDE DEF o
  <1>2. x = y
    BY <1>1 DEF SlotType
  <1>3. /\ [slot EXCEPT ![s].st = "ready", ![s].wbit = w] = [slot EXCEPT ![s] = x]
        /\ [slot EXCEPT ![s].st = "ready", ![s].wbit = w, ![s].stale = FALSE]
              = [slot EXCEPT ![s] = y]
    BY DEF o, MInv, MTypes
  <1> QED
    BY <1>2, <1>3, Zenon

\* init_ext2_file and init_ext2_directory.
LEMMA OpenM == ASSUME MInv, NEW s \in Slots, Open(s) PROVE MInv'
  <1>1. PICK w \in BOOLEAN :
           slot' = [slot EXCEPT ![s].st = "ready", ![s].wbit = w]
    BY DEF Open
  <1>2. slot[s].st = "located"
    BY DEF Open, At
  <1>3. slot' = [slot EXCEPT ![s].st = "ready", ![s].wbit = w, ![s].stale = FALSE]
    BY <1>1, <1>2, StaleKept
  <1>4. live' = (live \cup {<<"state", s>>}
                      \cup (IF FALSE THEN {} ELSE {<<"handle", s>>}))
                   \ {<<"args", s>>}
    BY DEF Open
  <1>5. failures' \in 0..MaxFailures /\ failures' >= failures
    BY NoFailCount DEF Open, NoFailure, MInv
  <1>6. UNCHANGED <<super, mount, enabled, groups, root, fault, written>>
    BY DEF Open
  <1> DEFINE stale == FALSE
  <1>7. /\ stale \in BOOLEAN
        /\ slot' = [slot EXCEPT ![s].st = "ready", ![s].wbit = w, ![s].stale = stale]
        /\ live' = (live \cup {<<"state", s>>}
                         \cup (IF stale THEN {} ELSE {<<"handle", s>>}))
                      \ {<<"args", s>>}
        /\ stale => failures' > 0
    BY <1>3, <1>4, Zenon
  <1> HIDE DEF stale
  <1> QED
    BY <1>2, <1>5, <1>6, <1>7, ReadyM, Zenon

\* When the partition does not open, something has failed: the open itself,
\* or the copy of the path while mounting.
LEMMA OpenCount ==
    ASSUME MInv, NEW s \in Slots, At(s, "located"),
           IF <<"path", 0>> \in live THEN Fails ELSE NoFailure
    PROVE  /\ failures' \in 0..MaxFailures /\ failures' >= failures
           /\ failures' > 0
  <1>1. CASE <<"path", 0>> \in live
    BY <1>1, FailsCount DEF MInv
  <1>2. CASE <<"path", 0>> \notin live
    <2>1. mount \in {"mounted", "unmounted"}
      BY SlotMounted DEF At
    <2>2. failures > 0 /\ failures \in Int
      BY <1>2, <2>1 DEF MInv, MountInv, MTypes
    <2> QED
      BY <1>2, <2>2, NoFailCount DEF MInv
  <1> QED
    BY <1>1, <1>2

\* The error path of the two init functions.
LEMMA OpenFailsM == ASSUME MInv, NEW s \in Slots, OpenFails(s) PROVE MInv'
  <1>1. failures' \in 0..MaxFailures /\ failures' >= failures
    BY OpenCount DEF OpenFails
  <1> QED
    BY <1>1, FailedM DEF OpenFails, At

\* The partition does not open and nobody notices.
LEMMA OpenStaleM == ASSUME MInv, NEW s \in Slots, OpenStale(s) PROVE MInv'
  <1> DEFINE stale == TRUE
  <1>1. PICK w \in BOOLEAN :
           slot' = [slot EXCEPT ![s].st = "ready", ![s].wbit = w, ![s].stale = TRUE]
    BY DEF OpenStale
  <1>2. slot[s].st = "located"
    BY DEF OpenStale, At
  <1>3. /\ failures' \in 0..MaxFailures /\ failures' >= failures
        /\ failures' > 0
    BY OpenCount DEF OpenStale
  <1>4. live' = (live \cup {<<"state", s>>}
                      \cup (IF TRUE THEN {} ELSE {<<"handle", s>>}))
                   \ {<<"args", s>>}
    BY DEF OpenStale
  <1>5. UNCHANGED <<super, mount, enabled, groups, root, fault, written>>
    BY DEF OpenStale
  <1>6. /\ stale \in BOOLEAN
        /\ slot' = [slot EXCEPT ![s].st = "ready", ![s].wbit = w, ![s].stale = stale]
        /\ live' = (live \cup {<<"state", s>>}
                         \cup (IF stale THEN {} ELSE {<<"handle", s>>}))
                      \ {<<"args", s>>}
    BY <1>1, <1>4, Zenon
  <1> HIDE DEF stale
  <1> QED
    BY <1>2, <1>3, <1>5, <1>6, ReadyM, Zenon

\* locate without memory for its arguments.
LEMMA LocateNullM == ASSUME MInv, NEW s \in Slots, LocateNull(s) PROVE MInv'
  <1>1. failures' \in 0..MaxFailures /\ failures' >= failures
    BY FailsCount DEF LocateNull, MInv
  <1> QED
    BY <1>1, FailedM DEF LocateNull, At

\* A read through a broken state.
LEMMA ReadFaultM == ASSUME MInv, NEW s \in Slots, ReadFault(s) PROVE MInv'
  <1>1. failures > 0
    BY BrokenExcused DEF ReadFault, At
  <1>2. fault' \in BOOLEAN /\ written' \in BOOLEAN
    BY Zenon DEF ReadFault, MInv, MFlags
  <1> QED
    BY <1>1, <1>2, FaultM DEF ReadFault

\* A write.
LEMMA WriteM == ASSUME MInv, NEW s \in Slots, Write(s) PROVE MInv'
  <1>1. CASE Broken(slot[s])
    <2>1. failures > 0
      BY <1>1, BrokenExcused DEF Write, At
    <2>2. fault' \in BOOLEAN /\ written' \in BOOLEAN
      BY <1>1, Zenon DEF Write, MInv, MFlags
    <2> QED
      BY <2>1, <2>2, FaultM DEF Write
  <1>2. CASE ~Broken(slot[s])
    <2>1. MTypes'
      BY <1>2 DEF MInv, MTypes, Write
    <2>2. MFlags'
      BY <1>2, Zenon DEF MInv, MFlags, Write
    <2>3. SlotsInv'
      BY <1>2 DEF MInv, SlotsInv, Write
    <2>4. MountInv'
      BY <1>2 DEF MInv, MountInv, Write
    <2> QED
      BY <2>1, <2>2, <2>3, <2>4 DEF MInv
  <1> QED
    BY <1>1, <1>2

\* The two uninit functions.
LEMMA CloseM == ASSUME MInv, NEW s \in Slots, Close(s) PROVE MInv'
  <1> DEFINE o == slot[s]
             r == slot'[s]
  <1>0. /\ o \in SlotType /\ Looked(o) /\ o.st = "ready"
        /\ mount \in {"mounted", "unmounted"}
    BY SlotMounted DEF MInv, MTypes, SlotsInv, Close, At
  <1>1. /\ slot' \in [Slots -> SlotType]
        /\ \A t \in Slots \ {s} : slot'[t] = slot[t]
        /\ r.st = "closed" /\ r.inode = o.inode /\ r.node = o.node
        /\ r.dir = o.dir /\ r.name = o.name /\ r.kind = o.kind
    BY DEF MInv, MTypes, SlotType, Close
  <1>2. \A t \in {0} \cup (Slots \ {s}) : \A tag :
            (<<tag, t>> \in live') <=> (<<tag, t>> \in live)
    <2>1. 0 \notin Slots /\ live' = live \ {<<"state", s>>}
      BY DEF Slots, Close
    <2> QED
      BY <2>1
  <1>3. failures' \in 0..MaxFailures /\ failures' >= failures
    BY NoFailCount DEF Close, NoFailure, MInv
  <1> HIDE DEF o, r
  <1>4. Looked(r)
    BY <1>0, <1>1 DEF Looked
  <1>5. Owned(s, r, live') /\ Excused(r, failures')
    BY <1>1 DEF Owned, Excused
  <1> QED
    BY <1>0, <1>1, <1>2, <1>3, <1>4, <1>5, SlotStep DEF r, Close

\* A lookup through a broken directory.
LEMMA LookupFaultM ==
    ASSUME MInv, NEW d \in {0} \cup Slots, LookupFault(d)
    PROVE  MInv'
  <1>1. failures > 0
    BY DirBrokenExcused DEF LookupFault
  <1>2. fault' \in BOOLEAN /\ written' \in BOOLEAN
    BY Zenon DEF LookupFault, MInv, MFlags
  <1> QED
    BY <1>1, <1>2, FaultM DEF LookupFault

----------------------------------------------------------------------------
(* The theorems.                                                           *)

\* MInv is inductive.
LEMMA MNext == MInv /\ [Next]_vars => MInv'
  <1> SUFFICES ASSUME MInv, [Next]_vars PROVE MInv'
    OBVIOUS
  <1>1. CASE MountFails \/ Mount \/ Unmount
    BY <1>1, MountFailsM, MountM, UnmountM
  <1>2. ASSUME NEW d \in {0} \cup Slots, LookupFault(d) PROVE MInv'
    BY <1>2, LookupFaultM
  <1>3. ASSUME NEW s \in Slots, NodeStep(s) PROVE MInv'
    <2>1. CASE \E d \in {0} \cup Slots, name \in Names : Stat(s, d, name)
      BY <2>1, StatM
    <2>2. CASE \/ Locate(s) \/ LocateNull(s) \/ Open(s) \/ OpenFails(s)
               \/ OpenStale(s) \/ ReadFault(s) \/ Write(s) \/ Close(s)
      BY <2>2, LocateM, LocateNullM, OpenM, OpenFailsM, OpenStaleM, ReadFaultM,
         WriteM, CloseM
    <2> QED
      BY <1>3, <2>1, <2>2 DEF NodeStep
  <1>4. CASE Finished \/ UNCHANGED vars
    <2>1. UNCHANGED vars
      BY <1>4 DEF Finished
    <2>2. MTypes' /\ SlotsInv' /\ MountInv'
      BY <2>1 DEF MInv, MTypes, SlotsInv, MountInv, vars
    <2>3. MFlags'
      BY <2>1, Zenon DEF MInv, MFlags, vars
    <2> QED
      BY <2>2, <2>3 DEF MInv
  <1> QED
    BY <1>1, <1>2, <1>3, <1>4 DEF Next

\* MInv holds in every reachable state.
THEOREM Invariance == Spec => []MInv
  BY MInit, MNext, PTL DEF Spec

\* Type correctness; in particular a directory looked in is one, and the
\* inode numbers are numbers of the tree.
THEOREM TypeCorrect == Spec => []TypeOK
  <1>1. MInv => TypeOK
    BY DEF MInv, MTypes, MFlags, TypeOK, SlotType
  <1> QED
    BY <1>1, Invariance, PTL

\* A mount that fails, at whatever point of init_ext2_super, leaves nothing
\* allocated, and an open file or directory owns its state, its inode, and
\* its handle unless the open failed unnoticed.
THEOREM MountMemoryIsOwned == Spec => []MemoryOwned
  <1>1. MInv => MemoryOwned
    <2> SUFFICES ASSUME MInv PROVE MemoryOwned
      OBVIOUS
    <2>1. mount = "failed" => live = {}
      BY DEF MInv, MountInv
    <2>2. ASSUME NEW s \in Slots, slot[s].st = "ready"
          PROVE  /\ <<"state", s>> \in live
                 /\ <<"handle", s>> \in live <=> ~slot[s].stale
                 /\ slot[s].node # 0 => <<"node", s>> \in live
                 /\ <<"args", s>> \notin live
      <3>1. slot[s].stale \in BOOLEAN
        BY DEF MInv, MTypes, SlotType
      <3> QED
        BY <2>2, <3>1 DEF MInv, SlotsInv, Owned
    <2> QED
      BY <2>1, <2>2 DEF MemoryOwned
  <1> QED
    BY <1>1, Invariance, PTL

\* Of every truthful super block the descriptor table has one entry for each
\* block group: the larger of the group numbers of its inodes.
THEOREM TableIsExact == Spec => []DescriptorsExact
  <1>1. MInv => DescriptorsExact
    <2> SUFFICES ASSUME MInv, mount = "mounted"
                 PROVE  groups = Max({(n - 1) \div super.inodes_per_group + 1 :
                                         n \in 1..super.total_inodes})
      BY DEF DescriptorsExact
    <2>1. super \in Supers /\ groups = DescriptorCount(super)
      BY DEF MInv, MTypes, MountInv
    <2>2. PICK g \in Nat \ {0} :
             /\ DescriptorCount(super) = g
             /\ super.total_inodes = super.inodes_per_group * g
             /\ super.inodes_per_group \in Nat \ {0}
      BY <2>1, GroupsAre
    <2> QED
      BY <2>1, <2>2, LastGroup
  <1> QED
    BY <1>1, Invariance, PTL

\* A name is opened as the entry of exactly that name, in every directory of
\* every tree, unless another entry's name is the beginning of it.
THEOREM LookupIsExact == Spec => []LookupExact
  <1>1. MInv => LookupExact
    <2> SUFFICES ASSUME MInv, NEW s \in Slots,
                        slot[s].st \in {"located", "ready", "closed"},
                        slot[s].inode # 0,
                        Unambiguous(slot[s].dir, slot[s].name)
                 PROVE  \E e \in Named(slot[s].dir, slot[s].name) :
                           e.inode = slot[s].inode
      BY DEF LookupExact
    <2>1. /\ slot[s].dir \in DOMAIN Dirs
          /\ slot[s].inode = InodeInDir(slot[s].dir, slot[s].name)
      BY DEF MInv, SlotsInv, Looked
    <2> QED
      BY <2>1, ExactFound
  <1> QED
    BY <1>1, Invariance, PTL

\* No driver function follows a NULL inode or a stale handle unless memory
\* or a transfer has failed before: stat keeps locate from names that do not
\* exist.
THEOREM FaultsNeedFailures == Spec => []NoFaultWithMemory
  <1>1. MInv => NoFaultWithMemory
    BY DEF MInv, MFlags, MountInv, NoFaultWithMemory
  <1> QED
    BY <1>1, Invariance, PTL

============================================================================
