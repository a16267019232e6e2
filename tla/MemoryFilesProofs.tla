------------------------- MODULE MemoryFilesProofs -------------------------
(***************************************************************************)
(* Theorems about DriverTable and MemoryFiles: any groups and sources read *)
(* in any order, any archives, buffers and transfers, any width of size_t, *)
(* any number of resources.                                                *)
(***************************************************************************)
EXTENDS MemoryFiles, WellFoundedInduction, TLAPS

----------------------------------------------------------------------------
(* The inductive invariant.                                                *)

\* The groups g and h are numbered together.
Shares(g, h) == g = h \/ (g \in ToSet(Cluster) /\ h \in ToSet(Cluster))

\* The group whose next index a driver of group g gets.
Counter(g) == IF g \in ToSet(Cluster) THEN Last(Cluster) ELSE g

GenTypes ==
    /\ stage \in {"scan", "fill", "built", "error"}
    /\ definitions \in [Groups -> Seq(Driver)]
    /\ \A g \in Groups : \A k \in DOMAIN definitions[g] : definitions[g][k].group = g
    /\ order \in Seq(Groups)
    /\ queue \in Seq(Driver)
    /\ index \in [DOMAIN index -> Int]
    /\ indices \in [Groups -> Nat]
    /\ DOMAIN table = Groups

\* Nothing that was registered is lost between the sources and the indices.
Registered ==
    /\ stage = "scan" =>
          /\ unread \cup Found \in SourceSets
          /\ \A g \in Groups : definitions[g] # <<>> => g \in ToSet(order)
    /\ stage # "scan" => unread = {} /\ DOMAIN index \in SourceSets
    /\ stage \in {"fill", "error"} => Found = DOMAIN index
    /\ stage = "built" => Found = {}

\* The drivers of one name that are numbered together have one index, and the
\* next index is above all that were given.
Numbering ==
    /\ \E b \in Nat : \A d \in DOMAIN index : index[d] \in -1..b
    /\ \A d, e \in DOMAIN index :
          d.name = e.name /\ Shares(d.group, e.group) => index[d] = index[e]
    /\ \A d \in DOMAIN index :
          Sound(d.group) => index[d] < indices[Counter(d.group)]
    /\ \A d, e \in DOMAIN index :
          /\ Sound(d.group) /\ Sound(e.group) /\ Shares(d.group, e.group)
          /\ index[d] # -1 /\ index[d] = index[e]
          => d.name = e.name

Filling ==
    stage = "fill" =>
        /\ Numbering
        /\ \A d \in DOMAIN index : index[d] = -1 => d \in ToSet(queue)

\* An entry of a table is a driver of the group that has this index.
Entries ==
    \A g \in Groups :
        /\ DOMAIN table[g] \subseteq Nat
        /\ \A i \in DOMAIN table[g] : table[g][i] # NoDriver =>
              \E d \in DOMAIN index :
                  d.group = g /\ index[d] = i /\ d.name = table[g][i]

Tables == stage = "built" => Entries /\ ExactTable

\* What a resource that is in use keeps of how it was made.
Made(id) ==
    LET r == resources[id] IN
    /\ id < current_id
    /\ r.group \in Groups /\ Valid(r.group, r.index)
    /\ r.name = table[r.group][r.index]
    /\ r.code # NoDriver => r.code \in CodesOf[[group |-> r.group, name |-> r.name]]
    /\ r.super \in -1..id-1
    /\ r.super # -1 =>
          /\ r.group \in ToSet(Cluster)
          /\ resources[r.super] # NoDriver =>
                /\ resources[r.super].group \in ToSet(Cluster)
                /\ resources[r.super].index = r.index

Resources ==
    /\ current_id \in 0..MaxResources
    /\ DOMAIN resources = 0..MaxResources-1
    /\ current_id > 0 => stage = "built"
    /\ \A id \in 0..MaxResources-1 : resources[id] # NoDriver => Made(id)

TableInv == GenTypes /\ Registered /\ Filling /\ Tables /\ Resources

\* driver_state of a mounted archive, of an open entry of one, of a buffer.
SuperState(id) ==
    /\ stage = "built" /\ Super \in DOMAIN index
    /\ state[id].archive \in Archives
    /\ resources[id].index = index[Super]

EntryState(id) ==
    LET s == state[id] IN
    /\ s.archive \in Archives /\ s.asked \in Names
    /\ s.entry # 0 /\ s.entry = FindFile(s.archive, s.asked)

BufferState(id) ==
    \E n \in BufferSizes :
        /\ state[id] \in [kind : {"buffer"}, size : {n},
                          bytes : [0..n-1 -> Nat], ideal : [0..n-1 -> Nat]]
        /\ ~abuse => state[id].bytes = state[id].ideal

States ==
    /\ DOMAIN state = 0..MaxResources-1
    /\ \A id \in 0..MaxResources-1 :
          /\ resources[id] = NoDriver => state[id] = NoState
          /\ state[id].kind \in {"none", "super", "initramfs", "buffer"}
          /\ state[id].kind = "super" => SuperState(id)
          /\ state[id].kind = "initramfs" => EntryState(id)
          /\ state[id].kind = "buffer" => BufferState(id)

\* The last reply against the file it came from.
EntryReply ==
    LET s == state[reply.id] IN
    /\ DOMAIN reply.got \subseteq Nat
    /\ \A k \in DOMAIN reply.got :
          reply.got[k] = IF reply.t.offset + k < DataSize(s.archive[s.entry])
                         THEN EntryByte(s.archive, s.entry, reply.t.offset + k)
                         ELSE ZeroByte

BufferReply ==
    LET s == state[reply.id] IN
    /\ reply.count = Share(s, reply.t)
    /\ reply.t.op = "read" => \A k \in DOMAIN reply.got :
          reply.got[k] = s.ideal[reply.t.offset + k]

Replies ==
    reply # NoReply =>
        /\ reply.id \in 0..current_id-1
        /\ reply.t \in Transfers
        /\ state[reply.id].kind = "initramfs" => EntryReply
        /\ state[reply.id].kind = "buffer" /\ ~abuse => BufferReply

Flags ==
    /\ fault \in {"none", "memory", "overrun"}
    /\ transfers \in 0..MaxTransfers
    /\ abuse \in BOOLEAN
    /\ ~abuse => fault # "overrun"

MInv == TableInv /\ States /\ Replies /\ Flags

----------------------------------------------------------------------------
(* Numbers.                                                                *)

\* The order of the naturals as a relation.
LEMMA LessRelated ==
    ASSUME NEW x \in Nat, NEW y \in Nat, y < x
    PROVE  <<y, x>> \in OpToRel(<, Nat)
  <1> DEFINE p == <<y, x>>
  <1>1. p \in Nat \X Nat
    OBVIOUS
  <1>2. p[1] < p[2]
    OBVIOUS
  <1> HIDE DEF p
  <1>3. p \in OpToRel(<, Nat)
    BY <1>1, <1>2, Zenon DEF OpToRel
  <1> QED
    BY <1>3 DEF p

\* A set of naturals that is not empty has a least element.
LEMMA LeastExists ==
    ASSUME NEW S, S \subseteq Nat, S # {}
    PROVE  \E x \in S : \A y \in S : x <= y
  <1> DEFINE R == OpToRel(<, Nat)
  <1>1. IsWellFoundedOn(R, Nat)
    BY NatLessThanWellFounded
  <1>2. \A x, y \in Nat : y < x => <<y, x>> \in R
    BY LessRelated
  <1> HIDE DEF R
  <1>3. PICK x \in S : \A y \in S : ~(<<y, x>> \in R)
    BY <1>1, WFMin
  <1>4. ASSUME NEW y \in S PROVE x <= y
    <2>1. x \in Nat /\ y \in Nat
      OBVIOUS
    <2>2. ~(y < x)
      BY <1>2, <1>3, <2>1
    <2> QED
      BY <2>1, <2>2
  <1> QED
    BY <1>4

\* Min returns it.
LEMMA MinIn ==
    ASSUME NEW S, S \subseteq Nat, S # {}
    PROVE  Min(S) \in S /\ \A y \in S : Min(S) <= y
  <1>1. PICK x \in S : \A y \in S : x <= y
    BY LeastExists
  <1>2. \A y \in S : x =< y
    BY <1>1
  <1> QED
    BY <1>1, <1>2 DEF Min

\* A set of naturals that holds 0 and with each number the next holds all.
LEMMA NaturalsAll ==
    ASSUME NEW S, 0 \in S, \A n \in Nat : n \in S => n + 1 \in S
    PROVE  Nat \subseteq S
  <1> SUFFICES ASSUME NEW m \in Nat, m \notin S PROVE FALSE
    OBVIOUS
  <1> DEFINE T == {n \in Nat : n \notin S}
  <1>1. PICK x \in T : \A y \in T : x <= y
    BY LeastExists
  <1>2. x \in Nat /\ x # 0 /\ x \notin S
    BY <1>1
  <1>3. x - 1 \in Nat /\ x - 1 \notin T
    BY <1>1, <1>2
  <1>4. (x - 1) + 1 \in S
    BY <1>3
  <1> QED
    BY <1>2, <1>4

\* A set of integers that is bounded and not empty has a greatest element, and
\* Max returns it.
LEMMA MaxIn ==
    ASSUME NEW S, S \subseteq Int, S # {}, NEW b \in Int, \A y \in S : y <= b
    PROVE  Max(S) \in S /\ \A y \in S : y <= Max(S)
  <1> DEFINE D == {b - y : y \in S}
  <1>0. \A y \in S : b - y \in Nat
    OBVIOUS
  <1>1. D \subseteq Nat /\ D # {}
    BY <1>0
  <1>2. PICK d \in D : \A e \in D : d <= e
    BY <1>1, LeastExists
  <1>3. PICK x \in S : d = b - x
    BY <1>2
  <1>4. \A y \in S : x >= y
    BY <1>2, <1>3
  <1> QED
    BY <1>4 DEF Max

----------------------------------------------------------------------------
(* Sequences.                                                              *)

\* What appending and joining do to the set of elements.
LEMMA AppendSet ==
    ASSUME NEW E, NEW s \in Seq(E), NEW e \in E
    PROVE  ToSet(Append(s, e)) = ToSet(s) \cup {e}
  <1> DEFINE t == Append(s, e)
  <1>1. /\ DOMAIN s = 1..Len(s) /\ Len(s) \in Nat
        /\ DOMAIN t = 1..Len(s)+1
        /\ \A i \in 1..Len(s) : t[i] = s[i]
        /\ t[Len(s)+1] = e
    OBVIOUS
  <1> HIDE DEF t
  <1>2. ASSUME NEW x \in ToSet(s) \cup {e} PROVE x \in ToSet(t)
    <2>1. CASE x = e
      BY <1>1, <2>1 DEF ToSet
    <2>2. CASE x \in ToSet(s)
      <3>1. PICK i \in 1..Len(s) : x = s[i]
        BY <1>1, <2>2 DEF ToSet
      <3>2. i \in DOMAIN t /\ t[i] = x
        BY <1>1, <3>1
      <3> QED
        BY <3>2 DEF ToSet
    <2> QED
      BY <2>1, <2>2
  <1>3. ASSUME NEW x \in ToSet(t) PROVE x \in ToSet(s) \cup {e}
    <2>1. PICK i \in 1..Len(s)+1 : x = t[i]
      BY <1>1 DEF ToSet
    <2>2. i \in 1..Len(s) \/ i = Len(s) + 1
      BY <1>1
    <2> QED
      BY <1>1, <2>1, <2>2 DEF ToSet
  <1>4. ToSet(t) = ToSet(s) \cup {e}
    BY <1>2, <1>3
  <1> QED
    BY <1>4 DEF t

LEMMA ConcatSet ==
    ASSUME NEW E, NEW s \in Seq(E), NEW t \in Seq(E)
    PROVE  ToSet(s) \subseteq ToSet(s \o t) /\ ToSet(t) \subseteq ToSet(s \o t)
  <1> DEFINE u == s \o t
  <1>1. /\ DOMAIN s = 1..Len(s) /\ Len(s) \in Nat
        /\ DOMAIN t = 1..Len(t) /\ Len(t) \in Nat
        /\ DOMAIN u = 1..Len(s)+Len(t)
        /\ \A i \in 1..Len(s) : u[i] = s[i]
        /\ \A i \in 1..Len(t) : u[Len(s)+i] = t[i]
    OBVIOUS
  <1> HIDE DEF u
  <1>2. ASSUME NEW x \in ToSet(s) PROVE x \in ToSet(u)
    <2>1. PICK i \in 1..Len(s) : x = s[i]
      BY <1>1 DEF ToSet
    <2>2. i \in DOMAIN u /\ u[i] = x
      BY <1>1, <2>1
    <2> QED
      BY <2>2 DEF ToSet
  <1>3. ASSUME NEW x \in ToSet(t) PROVE x \in ToSet(u)
    <2>1. PICK i \in 1..Len(t) : x = t[i]
      BY <1>1 DEF ToSet
    <2>2. Len(s) + i \in DOMAIN u /\ u[Len(s) + i] = x
      BY <1>1, <2>1
    <2> QED
      BY <2>2 DEF ToSet
  <1>4. ToSet(s) \subseteq ToSet(u) /\ ToSet(t) \subseteq ToSet(u)
    BY <1>2, <1>3
  <1> QED
    BY <1>4 DEF u

\* The rest of a sequence lacks at most its head.
LEMMA TailSet ==
    ASSUME NEW E, NEW s \in Seq(E), s # <<>>
    PROVE  /\ Head(s) \in E /\ Tail(s) \in Seq(E)
           /\ Head(s) \in ToSet(s)
           /\ ToSet(s) \subseteq {Head(s)} \cup ToSet(Tail(s))
           /\ ToSet(Tail(s)) \subseteq ToSet(s)
  <1> DEFINE t == Tail(s)
             h == Head(s)
  <1>1. /\ DOMAIN s = 1..Len(s) /\ Len(s) \in Nat /\ Len(s) # 0
        /\ h = s[1] /\ h \in E /\ t \in Seq(E)
        /\ DOMAIN t = 1..Len(s)-1
        /\ \A i \in 1..Len(s)-1 : t[i] = s[i+1]
    OBVIOUS
  <1> HIDE DEF t, h
  <1>2. ASSUME NEW x \in ToSet(s), x # h PROVE x \in ToSet(t)
    <2>1. PICK i \in 1..Len(s) : x = s[i]
      BY <1>1 DEF ToSet
    <2>2. i - 1 \in DOMAIN t /\ t[i-1] = x
      BY <1>1, <1>2, <2>1
    <2> QED
      BY <2>2 DEF ToSet
  <1>3. ASSUME NEW x \in ToSet(t) PROVE x \in ToSet(s)
    <2>1. PICK i \in 1..Len(s)-1 : x = t[i]
      BY <1>1 DEF ToSet
    <2>2. i + 1 \in DOMAIN s /\ s[i+1] = x
      BY <1>1, <2>1
    <2> QED
      BY <2>2 DEF ToSet
  <1>4. h \in ToSet(s)
    BY <1>1 DEF ToSet
  <1> QED
    BY <1>1, <1>2, <1>3, <1>4 DEF t, h

\* FlattenSeq is computed by a function of the number of sequences joined.
Joins(f, n, seqs) ==
    f = [i \in 1..n |-> IF i = 1 THEN seqs[i] ELSE f[i-1] \o seqs[i]]

\* There is such a function for every number of sequences.
LEMMA JoinsExists ==
    ASSUME NEW seqs, NEW n \in Nat
    PROVE  \E f : Joins(f, n, seqs)
  <1> DEFINE S == {m \in Nat : \E f : Joins(f, m, seqs)}
  <1>1. 0 \in S
    <2> DEFINE e == [i \in 1..0 |-> 0]
    <2>1. Joins(e, 0, seqs)
      BY DEF Joins
    <2> QED
      BY <2>1
  <1>2. ASSUME NEW m \in Nat, m \in S PROVE m + 1 \in S
    <2>1. PICK f : Joins(f, m, seqs)
      BY <1>2
    <2> DEFINE g == [i \in 1..m+1 |-> IF i \in 1..m THEN f[i]
                                      ELSE IF i = 1 THEN seqs[i]
                                      ELSE f[i-1] \o seqs[i]]
    <2>2. \A i \in 1..m : g[i] = f[i]
      OBVIOUS
    <2>3. ASSUME NEW i \in 1..m+1
          PROVE  g[i] = IF i = 1 THEN seqs[i] ELSE g[i-1] \o seqs[i]
      <3>1. i # 1 => i - 1 \in 1..m
        OBVIOUS
      <3>2. i # 1 => g[i-1] = f[i-1]
        BY <2>2, <3>1
      <3>3. CASE i \in 1..m
        <4>1. g[i] = f[i]
          BY <2>2, <3>3
        <4>2. f[i] = IF i = 1 THEN seqs[i] ELSE f[i-1] \o seqs[i]
          BY <2>1, <3>3 DEF Joins
        <4> HIDE DEF g
        <4> QED
          BY <3>2, <4>1, <4>2
      <3>4. CASE i \notin 1..m
        <4>1. g[i] = IF i = 1 THEN seqs[i] ELSE f[i-1] \o seqs[i]
          BY <3>4
        <4> HIDE DEF g
        <4> QED
          BY <3>2, <4>1
      <3> QED
        BY <3>3, <3>4
    <2>4. g = [i \in 1..m+1 |-> g[i]]
      OBVIOUS
    <2> HIDE DEF g
    <2>5. Joins(g, m + 1, seqs)
      BY <2>3, <2>4 DEF Joins
    <2> QED
      BY <2>5
  <1> HIDE DEF S
  <1>3. n \in S
    BY <1>1, <1>2, NaturalsAll
  <1> QED
    BY <1>3 DEF S

\* What it computes is a sequence that holds all elements of the parts.
LEMMA JoinsHold ==
    ASSUME NEW E, NEW seqs \in Seq(Seq(E)), NEW f, Joins(f, Len(seqs), seqs),
           Len(seqs) # 0
    PROVE  /\ f[Len(seqs)] \in Seq(E)
           /\ \A j \in 1..Len(seqs) : ToSet(seqs[j]) \subseteq ToSet(f[Len(seqs)])
  <1> DEFINE Holds(m) == /\ f[m] \in Seq(E)
                         /\ \A j \in 1..m : ToSet(seqs[j]) \subseteq ToSet(f[m])
             S == {m \in Nat : m \in 1..Len(seqs) => Holds(m)}
  <1>0. Len(seqs) \in Nat /\ \A i \in 1..Len(seqs) : seqs[i] \in Seq(E)
    OBVIOUS
  <1>1. 0 \in S
    BY <1>0
  <1>2. ASSUME NEW m \in Nat, m \in S PROVE m + 1 \in S
    <2> SUFFICES ASSUME m + 1 \in 1..Len(seqs) PROVE Holds(m + 1)
      OBVIOUS
    <2>1. f[m+1] = IF m + 1 = 1 THEN seqs[m+1] ELSE f[(m+1)-1] \o seqs[m+1]
      BY DEF Joins
    <2>2. seqs[m+1] \in Seq(E)
      BY <1>0
    <2>3. CASE m = 0
      <3>1. f[m+1] = seqs[m+1] /\ \A j \in 1..m+1 : j = m + 1
        BY <2>1, <2>3
      <3> QED
        BY <2>2, <3>1
    <2>4. CASE m # 0
      <3>1. (m + 1) - 1 = m /\ m \in 1..Len(seqs)
        BY <1>0, <2>4
      <3>2. Holds(m)
        BY <1>2, <3>1
      <3> DEFINE c == f[(m+1)-1] \o seqs[m+1]
      <3>3. m + 1 # 1
        BY <2>4
      <3>4. f[m+1] = c
        BY <2>1, <3>3, Zenon
      <3>5. c = f[m] \o seqs[m+1]
        BY <3>1, Zenon
      <3>6. f[m+1] = f[m] \o seqs[m+1]
        BY <3>4, <3>5, Zenon
      <3>7. f[m+1] \in Seq(E)
        BY <2>2, <3>2, <3>6
      <3>8. ToSet(f[m]) \subseteq ToSet(f[m+1]) /\ ToSet(seqs[m+1]) \subseteq ToSet(f[m+1])
        BY <2>2, <3>2, <3>6, ConcatSet
      <3>9. \A j \in 1..m+1 : j \in 1..m \/ j = m + 1
        OBVIOUS
      <3> QED
        BY <3>2, <3>7, <3>8, <3>9
    <2> QED
      BY <2>3, <2>4
  <1> HIDE DEF S
  <1>3. Len(seqs) \in S
    BY <1>0, <1>1, <1>2, NaturalsAll
  <1> QED
    BY <1>0, <1>3 DEF S

\* Joining sequences gives a sequence, and loses nothing.
LEMMA FlattenHolds ==
    ASSUME NEW E, NEW seqs \in Seq(Seq(E))
    PROVE  /\ FlattenSeq(seqs) \in Seq(E)
           /\ \A j \in DOMAIN seqs : ToSet(seqs[j]) \subseteq ToSet(FlattenSeq(seqs))
  <1>0. DOMAIN seqs = 1..Len(seqs) /\ Len(seqs) \in Nat
    OBVIOUS
  <1>1. CASE Len(seqs) = 0
    <2>1. DOMAIN seqs = {} /\ FlattenSeq(seqs) = <<>>
      BY <1>0, <1>1 DEF FlattenSeq
    <2> QED
      BY <2>1
  <1>2. CASE Len(seqs) # 0
    <2> DEFINE f == CHOOSE g : Joins(g, Len(seqs), seqs)
    <2>1. Joins(f, Len(seqs), seqs)
      <3>1. \E g : Joins(g, Len(seqs), seqs)
        BY <1>0, JoinsExists, Zenon
      <3> QED
        BY <3>1, Zenon
    <2>2. FlattenSeq(seqs) = f[Len(seqs)]
      BY <1>2 DEF FlattenSeq, Joins
    <2> HIDE DEF f
    <2>3. /\ f[Len(seqs)] \in Seq(E)
          /\ \A j \in 1..Len(seqs) : ToSet(seqs[j]) \subseteq ToSet(f[Len(seqs)])
      BY <1>2, <2>1, JoinsHold
    <2> QED
      BY <1>0, <2>2, <2>3
  <1> QED
    BY <1>1, <1>2

----------------------------------------------------------------------------
(* The generator keeps the invariant.                                      *)

LEMMA ClusterFacts ==
    /\ Head(Cluster) \in ToSet(Cluster) /\ Last(Cluster) \in ToSet(Cluster)
    /\ ToSet(Cluster) \subseteq Groups
    /\ ToSet(Tail(Cluster)) \subseteq ToSet(Cluster)
  <1>1. Cluster \in Seq(Groups) /\ Cluster # <<>>
    BY TableAssumption
  <1>2. /\ Head(Cluster) \in ToSet(Cluster)
        /\ ToSet(Tail(Cluster)) \subseteq ToSet(Cluster)
    BY <1>1, TailSet
  <1>3. /\ DOMAIN Cluster = 1..Len(Cluster) /\ Len(Cluster) \in Nat
        /\ Len(Cluster) # 0
        /\ \A i \in DOMAIN Cluster : Cluster[i] \in Groups
    BY <1>1
  <1>4. Last(Cluster) \in ToSet(Cluster)
    BY <1>3 DEF Last, ToSet
  <1>5. ToSet(Cluster) \subseteq Groups
    BY <1>3 DEF ToSet
  <1> QED
    BY <1>2, <1>4, <1>5

\* Found, driver by driver.
LEMMA FoundIn ==
    ASSUME GenTypes
    PROVE  \A d : d \in Found <=> d \in Driver /\ d \in ToSet(definitions[d.group])
  <1> SUFFICES ASSUME NEW d
               PROVE  d \in Found <=> d \in Driver /\ d \in ToSet(definitions[d.group])
    OBVIOUS
  <1>1. ASSUME d \in Found
        PROVE  d \in Driver /\ d \in ToSet(definitions[d.group])
    <2>1. PICK g \in Groups : d \in ToSet(definitions[g])
      BY <1>1 DEF Found
    <2>2. PICK k \in DOMAIN definitions[g] : d = definitions[g][k]
      BY <2>1 DEF ToSet
    <2>3. d.group = g
      BY <2>2 DEF GenTypes
    <2>4. definitions[g] \in Seq(Driver)
      BY DEF GenTypes
    <2>5. d \in Driver
      BY <2>2, <2>4
    <2> QED
      BY <2>1, <2>3, <2>5
  <1>2. ASSUME d \in Driver, d \in ToSet(definitions[d.group]) PROVE d \in Found
    <2>1. d.group \in Groups
      BY <1>2 DEF Driver
    <2> QED
      BY <1>2, <2>1 DEF Found
  <1> QED
    BY <1>1, <1>2

\* A registered driver is one of the assumption.
LEMMA SourcesAre ==
    ASSUME NEW s \in SourceSets, NEW d \in s
    PROVE  d \in Driver /\ d.group \in Groups /\ d.name # NoDriver
  <1>1. d \in Driver /\ d.name # NoDriver
    BY TableAssumption
  <1> QED
    BY <1>1 DEF Driver

LEMMA CounterIn ==
    ASSUME NEW g \in Groups
    PROVE  /\ Counter(g) \in Groups
           /\ Counter(Counter(g)) = Counter(g)
           /\ \A h \in Together(g) : Shares(g, h) /\ Counter(h) = Counter(g)
  BY ClusterFacts DEF Counter, Together, Shares

\* No resource is made before the tables are written.
LEMMA NoResourcesYet ==
    ASSUME Resources, stage # "built", UNCHANGED <<current_id, resources>>
    PROVE  Resources'
  <1>1. current_id = 0
    BY DEF Resources
  <1>2. \A id \in 0..MaxResources-1 : resources[id] = NoDriver
    <2> SUFFICES ASSUME NEW id \in 0..MaxResources-1, resources[id] # NoDriver
                 PROVE  FALSE
      OBVIOUS
    <2>1. id < current_id
      BY DEF Resources, Made
    <2>2. id \in Nat
      BY TableAssumption
    <2> QED
      BY <1>1, <2>1, <2>2
  <1>3. \A id \in 0..MaxResources-1 : resources'[id] = NoDriver
    BY <1>2
  <1> QED
    BY <1>1, <1>3 DEF Resources

LEMMA TableInit ==
    ASSUME TInit PROVE TableInv
  <1> USE DEF TInit
  <1>1. Found = {}
    <2>1. \A g \in Groups : ToSet(definitions[g]) = {}
      BY DEF ToSet
    <2> QED
      BY <2>1 DEF Found
  <1>2. GenTypes
    <2>1. definitions \in [Groups -> Seq(Driver)]
      OBVIOUS
    <2>2. order \in Seq(Groups) /\ queue \in Seq(Driver)
      OBVIOUS
    <2>3. index \in [DOMAIN index -> Int]
      OBVIOUS
    <2>4. indices \in [Groups -> Nat] /\ DOMAIN table = Groups
      OBVIOUS
    <2>5. \A g \in Groups : \A k \in DOMAIN definitions[g] : definitions[g][k].group = g
      OBVIOUS
    <2> QED
      BY <2>1, <2>2, <2>3, <2>4, <2>5 DEF GenTypes
  <1>3. Registered
    BY <1>1 DEF Registered
  <1>4. Resources
    BY TableAssumption DEF Resources
  <1> QED
    BY <1>2, <1>3, <1>4 DEF TableInv, Filling, Tables

LEMMA ScanKeeps ==
    ASSUME TableInv, NEW d \in unread, Scan(d)
    PROVE  TableInv'
  <1> USE DEF Scan
  <1> DEFINE s == unread \cup Found
  <1>1. s \in SourceSets /\ stage' = "scan"
    BY DEF TableInv, Registered
  <1>2. d \in Driver /\ d.group \in Groups
    BY <1>1, SourcesAre
  <1>3. definitions \in [Groups -> Seq(Driver)]
    BY DEF TableInv, GenTypes
  <1>4. definitions[d.group] \in Seq(Driver)
    BY <1>2, <1>3
  <1>5. /\ definitions'[d.group] = Append(definitions[d.group], d)
        /\ \A g \in Groups \ {d.group} : definitions'[g] = definitions[g]
        /\ DOMAIN definitions' = Groups
    BY <1>2, <1>3
  <1>6. ToSet(definitions'[d.group]) = ToSet(definitions[d.group]) \cup {d}
    BY <1>2, <1>4, <1>5, AppendSet
  <1>7. Found' = Found \cup {d}
    <2>1. ASSUME NEW x \in Found' PROVE x \in Found \cup {d}
      <3>1. PICK g \in Groups : x \in ToSet(definitions'[g])
        BY DEF Found
      <3>2. CASE g = d.group
        BY <1>2, <1>6, <3>1, <3>2 DEF Found
      <3>3. CASE g # d.group
        <4>1. definitions'[g] = definitions[g]
          BY <1>5, <3>3
        <4> QED
          BY <3>1, <4>1 DEF Found
      <3> QED
        BY <3>2, <3>3
    <2>2. ASSUME NEW x \in Found \cup {d} PROVE x \in Found'
      <3>1. CASE x = d
        BY <1>2, <1>6, <3>1 DEF Found
      <3>2. CASE x \in Found
        <4>1. PICK g \in Groups : x \in ToSet(definitions[g])
          BY <3>2 DEF Found
        <4>2. x \in ToSet(definitions'[g])
          BY <1>5, <1>6, <4>1
        <4> QED
          BY <4>2 DEF Found
      <3> QED
        BY <3>1, <3>2
    <2> QED
      BY <2>1, <2>2
  <1>8. GenTypes'
    <2>1. Append(definitions[d.group], d) \in Seq(Driver)
      BY <1>2, <1>4
    <2>2. definitions' \in [Groups -> Seq(Driver)]
      BY <1>3, <2>1
    <2>3. ASSUME NEW g \in Groups, NEW k \in DOMAIN definitions'[g]
          PROVE  definitions'[g][k].group = g
      <3>1. CASE g # d.group
        BY <1>5, <3>1 DEF TableInv, GenTypes
      <3>2. CASE g = d.group
        <4>1. definitions'[g][k] \in ToSet(definitions[d.group]) \cup {d}
          BY <1>6, <3>2 DEF ToSet
        <4>2. ASSUME definitions'[g][k] \in ToSet(definitions[d.group])
              PROVE  definitions'[g][k].group = g
          BY <1>2, <3>2, <4>2 DEF ToSet, TableInv, GenTypes
        <4> QED
          BY <3>2, <4>1, <4>2
      <3> QED
        BY <3>1, <3>2
    <2>4. order' \in Seq(Groups)
      BY <1>2 DEF TableInv, GenTypes
    <2> QED
      BY <2>2, <2>3, <2>4 DEF TableInv, GenTypes
  <1>9. Registered'
    <2>1. unread' \cup Found' = s
      BY <1>7
    <2>2. ASSUME NEW g \in Groups, definitions'[g] # <<>> PROVE g \in ToSet(order')
      <3>1. order \in Seq(Groups)
        BY DEF TableInv, GenTypes
      <3>2. ToSet(order) \subseteq ToSet(order')
        BY <1>2, <3>1, AppendSet
      <3>3. CASE definitions[g] # <<>>
        BY <3>2, <3>3 DEF TableInv, Registered
      <3>4. CASE definitions[g] = <<>>
        <4>1. g = d.group
          BY <1>5, <2>2, <3>4
        <4>2. order' = Append(order, g)
          BY <3>4, <4>1
        <4> QED
          BY <3>1, <4>2, AppendSet
      <3> QED
        BY <3>3, <3>4
    <2> QED
      BY <1>1, <2>1, <2>2 DEF Registered
  <1>10. Resources'
    BY NoResourcesYet DEF TableInv
  <1> QED
    BY <1>1, <1>8, <1>9, <1>10 DEF TableInv, Filling, Tables

LEMMA StartFillKeeps ==
    ASSUME TableInv, StartFill
    PROVE  TableInv'
  <1> USE DEF StartFill
  <1>1. Found \in SourceSets /\ stage' = "fill" /\ unread' = {}
    BY DEF TableInv, Registered
  <1>2. Found' = Found
    BY DEF Found
  <1>3. index' = [d \in Found |-> -1]
    OBVIOUS
  <1> DEFINE parts == [k \in DOMAIN order |-> definitions[order[k]]]
  <1>4. /\ order \in Seq(Groups)
        /\ definitions \in [Groups -> Seq(Driver)]
    BY DEF TableInv, GenTypes
  <1>5. parts \in Seq(Seq(Driver)) /\ DOMAIN parts = DOMAIN order
    <2> DEFINE n == Len(order)
    <2>1. DOMAIN order = 1..n /\ n \in Nat
      BY <1>4
    <2>2. \A k \in 1..n : order[k] \in Groups
      BY <1>4
    <2>3. \A k \in 1..n : definitions[order[k]] \in Seq(Driver)
      BY <1>4, <2>2
    <2> HIDE DEF n
    <2>4. parts \in [1..n -> Seq(Driver)]
      BY <2>1, <2>3
    <2> QED
      BY <2>1, <2>4
  <1>6. \A k \in DOMAIN order : parts[k] = definitions[order[k]]
    OBVIOUS
  <1>7. queue' = FlattenSeq(parts)
    OBVIOUS
  <1> HIDE DEF parts
  <1>8. /\ queue' \in Seq(Driver)
        /\ \A j \in DOMAIN order : ToSet(parts[j]) \subseteq ToSet(queue')
    BY <1>5, <1>7, FlattenHolds
  <1>9. ASSUME NEW d \in Found PROVE d \in ToSet(queue')
    <2>1. d \in Driver /\ d \in ToSet(definitions[d.group])
      BY FoundIn DEF TableInv
    <2>2. d.group \in Groups /\ definitions[d.group] # <<>>
      BY <2>1 DEF Driver, ToSet
    <2>3. d.group \in ToSet(order)
      BY <2>2 DEF TableInv, Registered
    <2>4. PICK k \in DOMAIN order : d.group = order[k]
      BY <2>3 DEF ToSet
    <2> QED
      BY <1>6, <1>8, <2>1, <2>4
  <1>10. GenTypes'
    <2>1. index' \in [DOMAIN index' -> Int]
      BY <1>3
    <2> QED
      BY <1>8, <2>1 DEF TableInv, GenTypes
  <1>11. Registered'
    BY <1>1, <1>2, <1>3 DEF Registered
  <1>12. Filling'
    <2>1. \A d \in DOMAIN index' : index'[d] = -1 /\ d \in Found
      BY <1>3
    <2>2. \A d \in DOMAIN index' : index'[d] < indices'[Counter(d.group)]
      <3> SUFFICES ASSUME NEW d \in DOMAIN index'
                   PROVE  index'[d] < indices'[Counter(d.group)]
        OBVIOUS
      <3>1. d.group \in Groups
        BY <1>1, <2>1, SourcesAre
      <3>2. indices'[Counter(d.group)] \in Nat
        BY <3>1, CounterIn DEF TableInv, GenTypes
      <3> QED
        BY <2>1, <3>2
    <2>3. \E b \in Nat : \A d \in DOMAIN index' : index'[d] \in -1..b
      BY <2>1
    <2>4. Numbering'
      BY <2>1, <2>2, <2>3 DEF Numbering
    <2> QED
      BY <1>9, <2>1, <2>4 DEF Filling
  <1>13. Resources'
    BY NoResourcesYet DEF TableInv
  <1> QED
    BY <1>1, <1>10, <1>11, <1>12, <1>13 DEF TableInv, Tables

\* One turn of fill_in_indices.
LEMMA FillKeeps ==
    ASSUME TableInv, Fill
    PROVE  TableInv'
  <1> DEFINE d == Head(queue)
             v == IndexFor(d)
             c == Counter(d.group)
             lost == \E g \in Together(d.group) : definitions[g] = <<>>
             new == {e \in Found : /\ e.name = d.name /\ e.group \in Together(d.group)
                                   /\ index[e] = -1}
  <1>1. /\ stage = "fill" /\ queue # <<>> /\ queue' = Tail(queue)
        /\ stage' = IF lost THEN "error" ELSE stage
        /\ index' = [e \in Found |-> IF e \in new /\ ~lost THEN v ELSE index[e]]
        /\ indices' = [g \in Groups |->
              IF ~lost /\ \E e \in new : e.group = g THEN v + 1 ELSE indices[g]]
        /\ UNCHANGED <<unread, definitions, order, table, current_id, resources>>
    BY DEF Fill
  <1>2. /\ Found = DOMAIN index /\ Found \in SourceSets /\ unread = {}
        /\ queue \in Seq(Driver) /\ index \in [DOMAIN index -> Int]
        /\ indices \in [Groups -> Nat]
        /\ Numbering
        /\ \A e \in DOMAIN index : index[e] = -1 => e \in ToSet(queue)
    BY <1>1 DEF TableInv, Registered, GenTypes, Filling
  <1>3. /\ d \in Driver /\ d.group \in Groups /\ Tail(queue) \in Seq(Driver)
        /\ ToSet(queue) \subseteq {d} \cup ToSet(Tail(queue))
    <2>1. /\ d \in Driver /\ Tail(queue) \in Seq(Driver)
          /\ ToSet(queue) \subseteq {d} \cup ToSet(Tail(queue))
      BY <1>1, <1>2, TailSet
    <2>2. d.group \in Groups
      BY <2>1 DEF Driver
    <2> QED
      BY <2>1, <2>2
  <1>4. c \in Groups /\ v = indices[c] /\ v \in Nat
    BY <1>2, <1>3, CounterIn DEF Counter, IndexFor
  <1>5. \A e \in new : /\ e \in DOMAIN index /\ e.name = d.name /\ index[e] = -1
                       /\ Shares(d.group, e.group) /\ Counter(e.group) = c
    BY <1>2, <1>3, CounterIn
  <1>6. \A e \in DOMAIN index : e.group \in Groups
    BY <1>2, SourcesAre
  <1>7. Found' = Found /\ DOMAIN index' = DOMAIN index
    BY <1>1, <1>2 DEF Found
  <1>8. \A e \in DOMAIN index : e.name = d.name /\ Shares(d.group, e.group) /\ index[e] = -1
                                => e \in new
    <2>1. \A g \in Groups : Shares(d.group, g) => g \in Together(d.group)
      BY DEF Shares, Together
    <2> QED
      BY <1>2, <1>6, <2>1
  <1> HIDE DEF new, v, c
  <1>9. GenTypes'
    <2>1. index' \in [DOMAIN index' -> Int]
      BY <1>1, <1>2, <1>4
    <2>2. indices' \in [Groups -> Nat]
      BY <1>1, <1>2, <1>4
    <2>3. stage' \in {"fill", "error"}
      BY <1>1
    <2>4. queue' \in Seq(Driver)
      BY <1>1, <1>3
    <2> QED
      BY <1>1, <2>1, <2>2, <2>3, <2>4 DEF TableInv, GenTypes
  <1>10. Registered'
    <2>1. stage' \in {"fill", "error"}
      BY <1>1
    <2> QED
      BY <1>1, <1>2, <1>7, <2>1 DEF Registered
  <1>11. Resources'
    BY <1>1, NoResourcesYet DEF TableInv
  <1>12. ASSUME ~lost PROVE Numbering'
    <2>1. \A e \in DOMAIN index : index'[e] = IF e \in new THEN v ELSE index[e]
      BY <1>1, <1>2, <1>12
    <2>2. \A g \in Groups : indices'[g] = IF \E e \in new : e.group = g THEN v + 1
                                          ELSE indices[g]
      BY <1>1, <1>12
    <2>3. \A g : Sound(g)' <=> Sound(g)
      BY <1>7 DEF Sound, Covered
    <2>4. \A e, f \in DOMAIN index : e.name = f.name /\ Shares(e.group, f.group) =>
              index[e] = index[f]
      BY <1>2 DEF Numbering
    <2>5. \E b \in Nat : \A e \in DOMAIN index : index'[e] \in -1..b
      <3>1. PICK b \in Nat : \A e \in DOMAIN index : index[e] \in -1..b
        BY <1>2 DEF Numbering
      <3>2. b + v \in Nat
        BY <1>4
      <3>3. \A e \in DOMAIN index : index'[e] \in -1..b+v
        BY <1>4, <2>1, <3>1
      <3> QED
        BY <3>2, <3>3
    <2>6. ASSUME NEW e \in DOMAIN index, NEW f \in DOMAIN index,
                 e.name = f.name, Shares(e.group, f.group)
          PROVE  index'[e] = index'[f]
      <3>1. index[e] = index[f]
        BY <2>4, <2>6
      <3>2. \A g \in Groups : Shares(g, e.group) <=> Shares(g, f.group)
        BY <2>6 DEF Shares
      <3>3. e \in new <=> f \in new
        BY <1>3, <1>5, <1>8, <2>6, <3>1, <3>2
      <3> QED
        BY <2>1, <3>1, <3>3
    <2>7. ASSUME NEW e \in DOMAIN index, e \in new, Sound(e.group)
          PROVE  \E f \in new : f.group = c
      <3>1. CASE e.group \notin ToSet(Cluster) \/ e.group = Last(Cluster)
        BY <1>5, <2>7, <3>1, ClusterFacts DEF Counter
      <3>2. CASE e.group \in ToSet(Cluster) /\ e.group # Last(Cluster)
        <4> DEFINE f == [e EXCEPT !.group = Last(Cluster)]
        <4>1. f \in DOMAIN index
          BY <2>7, <3>2 DEF Sound, Covered
        <4>2. e \in Driver
          BY <1>2, SourcesAre
        <4>3. f.group = Last(Cluster) /\ f.name = e.name
          BY <4>2 DEF Driver
        <4> HIDE DEF f
        <4>4. c = Last(Cluster) /\ Shares(e.group, f.group)
          BY <1>5, <2>7, <3>2, <4>3, ClusterFacts DEF Counter, Shares
        <4>5. index[f] = -1
          BY <1>5, <2>4, <2>7, <4>1, <4>3, <4>4
        <4>6. Shares(d.group, f.group)
          BY <1>5, <2>7, <4>4 DEF Shares
        <4>7. f \in new
          BY <1>5, <1>8, <2>7, <4>1, <4>3, <4>5, <4>6
        <4> QED
          BY <4>3, <4>4, <4>7
      <3> QED
        BY <3>1, <3>2
    <2>8. ASSUME NEW e \in DOMAIN index, Sound(e.group)
          PROVE  index'[e] < indices'[Counter(e.group)]
      <3>1. CASE e \in new
        <4>1. indices'[c] = v + 1
          BY <1>4, <2>2, <2>7, <2>8, <3>1
        <4> QED
          BY <1>4, <1>5, <2>1, <3>1, <4>1
      <3>2. CASE e \notin new
        <4> DEFINE g == Counter(e.group)
        <4>1. g \in Groups /\ Counter(g) = g
          BY <1>6, CounterIn
        <4>2. index[e] < indices[g]
          BY <1>2, <2>8 DEF Numbering
        <4> HIDE DEF g
        <4>3. indices'[g] = indices[g] \/ (indices'[g] = v + 1 /\ indices[g] = v)
          <5>1. CASE \E f \in new : f.group = g
            <6>1. g = c
              BY <1>5, <4>1, <5>1
            <6> QED
              BY <1>4, <2>2, <4>1, <5>1, <6>1
          <5>2. CASE ~\E f \in new : f.group = g
            BY <2>2, <4>1, <5>2
          <5> QED
            BY <5>1, <5>2
        <4>4. index[e] \in Int /\ indices[g] \in Nat
          BY <1>2, <4>1
        <4>5. index'[e] < indices'[g]
          BY <1>4, <2>1, <3>2, <4>2, <4>3, <4>4
        <4> QED
          BY <4>5 DEF g
      <3> QED
        BY <3>1, <3>2
    <2>9. ASSUME NEW e \in DOMAIN index, NEW f \in DOMAIN index, Sound(f.group),
                 Shares(e.group, f.group), e \in new, f \notin new
          PROVE  index'[e] # index'[f]
      <3>1. Counter(f.group) = c
        BY <1>5, <2>9 DEF Shares, Counter
      <3>2. index[f] < v
        BY <1>2, <1>4, <2>9, <3>1 DEF Numbering
      <3>3. index[f] \in Int
        BY <1>2
      <3> QED
        BY <1>4, <2>1, <2>9, <3>2, <3>3
    <2>10. ASSUME NEW e \in DOMAIN index, NEW f \in DOMAIN index, Sound(e.group),
                  Sound(f.group), Shares(e.group, f.group), index'[e] # -1, index'[e] = index'[f]
           PROVE  e.name = f.name
      <3>1. Shares(f.group, e.group)
        BY <2>10 DEF Shares
      <3>2. e \in new <=> f \in new
        BY <2>9, <2>10, <3>1
      <3>3. CASE e \in new
        BY <1>5, <3>2, <3>3
      <3>4. CASE e \notin new
        BY <1>2, <2>1, <2>10, <3>2, <3>4 DEF Numbering
      <3> QED
        BY <3>3, <3>4
    <2> QED
      BY <1>7, <2>3, <2>5, <2>6, <2>8, <2>10 DEF Numbering
  <1>13. ASSUME ~lost, NEW e \in DOMAIN index, index'[e] = -1
         PROVE  e \in ToSet(queue')
    <2>1. index'[e] = IF e \in new THEN v ELSE index[e]
      BY <1>1, <1>2, <1>13
    <2>2. e \notin new /\ index[e] = -1
      BY <1>4, <1>13, <2>1
    <2>3. e # d
      BY <1>8, <2>2 DEF Shares
    <2> QED
      BY <1>1, <1>2, <1>3, <2>2, <2>3
  <1>14. Filling' /\ Tables'
    <2>1. CASE lost
      BY <1>1, <2>1 DEF Filling, Tables
    <2>2. CASE ~lost
      BY <1>1, <1>7, <1>12, <1>13, <2>2 DEF Filling, Tables
    <2> QED
      BY <2>1, <2>2
  <1> QED
    BY <1>9, <1>10, <1>11, <1>14 DEF TableInv

\* What a table that is written has of the numbering.
LEMMA TableIs ==
    ASSUME TableInv, stage = "fill", NEW g \in Groups
    PROVE  /\ DOMAIN TableOf(g) \subseteq Nat
           /\ \A i \in DOMAIN TableOf(g) : TableOf(g)[i] # NoDriver =>
                 \E d \in DOMAIN index :
                     d.group = g /\ index[d] = i /\ d.name = TableOf(g)[i]
           /\ \A d \in DOMAIN index : d.group = g /\ index[d] # -1 =>
                 /\ index[d] \in DOMAIN TableOf(g)
                 /\ \E e \in DOMAIN index : /\ e.group = g /\ index[e] = index[d]
                                            /\ e.name = TableOf(g)[index[d]]
  <1> DEFINE own  == definitions[g]
             V    == {index[d] : d \in ToSet(own)} \cup {-1}
             m    == Max(V)
             at(i) == {k \in DOMAIN own : index[own[k]] = i}
             T    == [i \in 0..(m+1)-1 |-> IF at(i) = {} THEN NoDriver
                                           ELSE own[Max(at(i))].name]
  <1>1. TableOf(g) = T
    BY DEF TableOf
  <1>2. own \in Seq(Driver) /\ Found = DOMAIN index /\ index \in [DOMAIN index -> Int]
    BY DEF TableInv, GenTypes, Registered
  <1>3. DOMAIN own = 1..Len(own) /\ Len(own) \in Nat
    BY <1>2
  <1>4. \A k \in DOMAIN own : own[k] \in DOMAIN index /\ own[k].group = g
    BY <1>2 DEF TableInv, GenTypes, Found, ToSet
  <1>5. \A d \in ToSet(own) : d \in DOMAIN index
    BY <1>4 DEF ToSet
  <1>6. m \in Int /\ m >= -1 /\ \A d \in ToSet(own) : index[d] <= m
    <2>1. PICK b \in Nat : \A d \in DOMAIN index : index[d] \in -1..b
      BY DEF TableInv, Filling, Numbering
    <2>2. V \subseteq Int /\ -1 \in V /\ \A y \in V : y <= b
      BY <1>5, <2>1
    <2>3. m \in V /\ \A y \in V : y <= m
      <3> HIDE DEF V
      <3>1. V # {} /\ b \in Int
        BY <2>2
      <3> QED
        BY <2>2, <3>1, MaxIn
    <2> QED
      BY <2>2, <2>3
  <1> HIDE DEF m, V
  <1>7. DOMAIN T = 0..m
    BY <1>6
  <1>8. \A i \in 0..m : T[i] = IF at(i) = {} THEN NoDriver ELSE own[Max(at(i))].name
    BY <1>6
  <1> HIDE DEF T
  <1>9. \A i : at(i) # {} => Max(at(i)) \in at(i)
    <2> SUFFICES ASSUME NEW i, at(i) # {} PROVE Max(at(i)) \in at(i)
      OBVIOUS
    <2> DEFINE A == at(i)
    <2>1. A \subseteq Int /\ \A y \in A : y <= Len(own)
      BY <1>3
    <2>2. A # {}
      OBVIOUS
    <2> DEFINE n == Len(own)
    <2>3. n \in Int
      BY <1>3
    <2>4. \A y \in A : y <= n
      BY <2>1
    <2> HIDE DEF A, n
    <2>5. Max(A) \in A
      BY <2>1, <2>2, <2>3, <2>4, MaxIn
    <2> QED
      BY <2>5 DEF A
  <1>10. ASSUME NEW i \in 0..m, at(i) # {}
         PROVE  \E e \in DOMAIN index : e.group = g /\ index[e] = i /\ e.name = T[i]
    <2> DEFINE k == Max(at(i))
    <2>1. k \in DOMAIN own /\ index[own[k]] = i
      BY <1>9, <1>10
    <2>2. T[i] = own[k].name
      BY <1>8, <1>10
    <2> HIDE DEF k, own
    <2> QED
      BY <1>4, <2>1, <2>2
  <1>11. ASSUME NEW i \in 0..m, T[i] # NoDriver PROVE at(i) # {}
    BY <1>8, <1>11
  <1>12. ASSUME NEW d \in DOMAIN index, d.group = g, index[d] # -1
         PROVE  index[d] \in 0..m /\ at(index[d]) # {}
    <2>1. d \in ToSet(own)
      BY <1>2, <1>12, FoundIn DEF TableInv
    <2>2. PICK k \in DOMAIN own : d = own[k]
      BY <2>1 DEF ToSet
    <2>3. PICK b \in Nat : \A e \in DOMAIN index : index[e] \in -1..b
      BY DEF TableInv, Filling, Numbering
    <2>4. index[d] \in Nat /\ index[d] <= m
      BY <1>6, <1>12, <2>1, <2>3
    <2>5. k \in at(index[d])
      BY <2>2
    <2> QED
      BY <1>6, <2>4, <2>5
  <1> HIDE DEF at
  <1> QED
    BY <1>1, <1>6, <1>7, <1>10, <1>11, <1>12

LEMMA BuildKeeps ==
    ASSUME TableInv, Build
    PROVE  TableInv'
  <1> USE DEF Build
  <1>1. /\ stage = "fill" /\ stage' = "built" /\ index' = index
        /\ DOMAIN index \in SourceSets /\ index \in [DOMAIN index -> Int]
        /\ Numbering
    BY DEF TableInv, Registered, GenTypes, Filling
  <1>2. \A d \in DOMAIN index : index[d] # -1
    <2>1. ToSet(queue) = {}
      BY DEF ToSet
    <2> QED
      BY <1>1, <2>1 DEF TableInv, Filling
  <1>3. \A g \in Groups : table'[g] = TableOf(g)
    OBVIOUS
  <1>4. Found' = {}
    <2>1. \A g \in Groups : ToSet(definitions'[g]) = {}
      BY DEF ToSet
    <2> QED
      BY <2>1 DEF Found
  <1>5. GenTypes'
    <2>1. definitions' \in [Groups -> Seq(Driver)]
      OBVIOUS
    <2>2. \A g \in Groups : \A k \in DOMAIN definitions'[g] : definitions'[g][k].group = g
      OBVIOUS
    <2>3. order' \in Seq(Groups) /\ indices' \in [Groups -> Nat] /\ DOMAIN table' = Groups
      OBVIOUS
    <2> QED
      BY <2>1, <2>2, <2>3 DEF TableInv, GenTypes
  <1>6. Registered'
    BY <1>1, <1>4 DEF TableInv, Registered
  <1>7. Entries'
    <2> SUFFICES ASSUME NEW g \in Groups
                 PROVE  /\ DOMAIN table'[g] \subseteq Nat
                        /\ \A i \in DOMAIN table'[g] : table'[g][i] # NoDriver =>
                              \E d \in DOMAIN index :
                                 d.group = g /\ index[d] = i /\ d.name = table'[g][i]
      BY <1>1 DEF Entries
    <2>1. table'[g] = TableOf(g)
      BY <1>3
    <2> QED
      BY <1>1, <2>1, TableIs
  <1>8. ExactTable'
    <2> SUFFICES /\ \A d \in DOMAIN index : Sound(d.group) =>
                       /\ index[d] \in DOMAIN table'[d.group]
                       /\ table'[d.group][index[d]] # NoDriver
                       /\ table'[d.group][index[d]] = d.name
                 /\ Covered => \A d, e \in DOMAIN index :
                       d.group \in ToSet(Cluster) /\ e.group \in ToSet(Cluster) =>
                          (index[d] = index[e] <=> d.name = e.name)
      BY <1>1 DEF ExactTable, Sound, Covered, Valid
    <2>1. ASSUME NEW d \in DOMAIN index, Sound(d.group)
          PROVE  /\ index[d] \in DOMAIN table'[d.group]
                 /\ table'[d.group][index[d]] # NoDriver
                 /\ table'[d.group][index[d]] = d.name
      <3>1. d.group \in Groups /\ d.name # NoDriver
        BY <1>1, SourcesAre
      <3>2. table'[d.group] = TableOf(d.group)
        BY <1>3, <3>1
      <3>3. index[d] \in DOMAIN table'[d.group]
        BY <1>1, <1>2, <3>1, <3>2, TableIs
      <3>4. PICK e \in DOMAIN index : /\ e.group = d.group /\ index[e] = index[d]
                                      /\ e.name = table'[d.group][index[d]]
        <4>1. \E e \in DOMAIN index : /\ e.group = d.group /\ index[e] = index[d]
                                      /\ e.name = TableOf(d.group)[index[d]]
          BY <1>1, <1>2, <3>1, TableIs
        <4> QED
          BY <3>2, <4>1
      <3>5. e.name = d.name
        BY <1>1, <1>2, <2>1, <3>4 DEF Numbering, Shares
      <3> QED
        BY <3>1, <3>3, <3>4, <3>5
    <2>2. ASSUME Covered, NEW d \in DOMAIN index, NEW e \in DOMAIN index,
                 d.group \in ToSet(Cluster), e.group \in ToSet(Cluster)
          PROVE  index[d] = index[e] <=> d.name = e.name
      BY <1>1, <1>2, <2>2 DEF Numbering, Sound, Shares
    <2> QED
      BY <2>1, <2>2
  <1>9. Resources'
    BY <1>1, NoResourcesYet DEF TableInv
  <1> QED
    BY <1>1, <1>5, <1>6, <1>7, <1>8, <1>9 DEF TableInv, Filling, Tables

\* Whatever gen_dri_defs.py does.
LEMMA GenKeeps ==
    ASSUME TableInv, GenStep
    PROVE  TableInv' /\ UNCHANGED <<current_id, resources>>
  <1>1. CASE \E d \in unread : Scan(d)
    BY <1>1, ScanKeeps DEF Scan
  <1>2. CASE StartFill
    BY <1>2, StartFillKeeps DEF StartFill
  <1>3. CASE Fill
    BY <1>3, FillKeeps DEF Fill
  <1>4. CASE Build
    BY <1>4, BuildKeeps DEF Build
  <1> QED
    BY <1>1, <1>2, <1>3, <1>4 DEF GenStep

----------------------------------------------------------------------------
(* The resource manager keeps the invariant.                               *)

\* What init_resource with index i does to the resources.
ResourceMade(i) ==
    /\ stage = "built" /\ current_id \in 0..MaxResources-1
    /\ current_id' = current_id + 1
    /\ UNCHANGED <<stage, index, table>>
    /\ \A id \in 0..MaxResources-1 : id # current_id => resources'[id] = resources[id]
    /\ resources'[current_id] # NoDriver => resources'[current_id].index = i

LEMMA InitResourceKeeps ==
    ASSUME TableInv, NEW g \in Groups, NEW i, NEW code, NEW super \in -1..current_id-1,
           InitResource(g, i, code, super),
           code # NoDriver => code \in CodesOf[[group |-> g, name |-> table[g][i]]],
           super # -1 => /\ g \in ToSet(Cluster)
                         /\ resources[super] # NoDriver =>
                               /\ resources[super].group \in ToSet(Cluster)
                               /\ resources[super].index = i
    PROVE  TableInv' /\ ResourceMade(i)
  <1> DEFINE new == [group |-> g, index |-> i, name |-> table[g][i],
                     code |-> code, super |-> super]
             c == current_id
  <1>1. /\ stage = "built" /\ Valid(g, i) /\ c < MaxResources
        /\ current_id' = c + 1
        /\ UNCHANGED <<stage, unread, definitions, order, queue, index, indices, table>>
    BY DEF InitResource, genVars
  <1>2. /\ c \in Nat /\ MaxResources \in Nat /\ c \in 0..MaxResources-1
        /\ DOMAIN resources = 0..MaxResources-1
    BY <1>1, TableAssumption DEF TableInv, Resources
  <1>3. /\ DOMAIN resources' = 0..MaxResources-1
        /\ resources'[c] \in {new, NoDriver}
        /\ \A id \in 0..MaxResources-1 : id # c => resources'[id] = resources[id]
    BY <1>2 DEF InitResource
  <1>4. GenTypes' /\ Registered' /\ Filling' /\ Tables'
    <2>1. GenTypes'
      BY <1>1 DEF TableInv, GenTypes
    <2>2. Registered'
      BY <1>1 DEF TableInv, Registered, Found
    <2>3. Filling'
      BY <1>1 DEF Filling
    <2>4. Tables'
      BY <1>1 DEF TableInv, Tables, Entries, ExactTable, Sound, Covered, Valid
    <2> QED
      BY <2>1, <2>2, <2>3, <2>4
  <1>5. ASSUME NEW id \in 0..MaxResources-1, resources'[id] # NoDriver
        PROVE  Made(id)'
    <2>1. CASE id # c
      <3>1. resources'[id] = resources[id] /\ Made(id)
        BY <1>3, <1>5, <2>1 DEF TableInv, Resources
      <3>2. /\ resources[id].super \in -1..id-1 /\ id < c /\ id \in Nat
        BY <1>2, <3>1 DEF Made
      <3>3. resources[id].super # -1 =>
               /\ resources[id].super \in 0..MaxResources-1
               /\ resources'[resources[id].super] = resources[resources[id].super]
        BY <1>2, <1>3, <3>2
      <3>4. id < current_id'
        BY <1>1, <1>2, <3>2
      <3> QED
        BY <1>1, <3>1, <3>3, <3>4 DEF Made, Valid
    <2>2. CASE id = c
      <3>1. /\ resources'[c] = new
            /\ new.group = g /\ new.index = i /\ new.name = table[g][i]
            /\ new.code = code /\ new.super = super
        BY <1>3, <1>5, <2>2
      <3> HIDE DEF new
      <3>2. super # -1 => /\ super \in 0..MaxResources-1
                          /\ resources'[super] = resources[super]
        BY <1>2, <1>3
      <3>3. c < c + 1
        BY <1>2
      <3> QED
        BY <1>1, <2>2, <3>1, <3>2, <3>3 DEF Made, Valid
    <2> QED
      BY <2>1, <2>2
  <1>6. Resources'
    BY <1>1, <1>2, <1>3, <1>5 DEF Resources
  <1>7. ResourceMade(i)
    BY <1>1, <1>2, <1>3 DEF ResourceMade
  <1> QED
    BY <1>4, <1>6, <1>7 DEF TableInv

LEMMA NoneIn ==
    ASSUME TableInv PROVE -1 \in -1..current_id-1
  BY TableAssumption DEF TableInv, Resources

LEMMA DeviceKeeps ==
    ASSUME TableInv, NEW g \in Groups, NEW code, DeviceResource(g, code)
    PROVE  TableInv' /\ \E i : ResourceMade(i)
  <1> DEFINE hits == {i \in DOMAIN table[g] : HasCode(g, i, code)}
  <1>1. hits # {} /\ InitResource(g, Min(hits), code, -1)
    BY DEF DeviceResource
  <1>2. hits \subseteq Nat
    <2>1. stage = "built"
      BY <1>1 DEF InitResource
    <2> QED
      BY <2>1 DEF TableInv, Tables, Entries
  <1>3. Min(hits) \in hits
    <2> HIDE DEF hits
    <2> QED
      BY <1>1, <1>2, MinIn
  <1>4. HasCode(g, Min(hits), code)
    BY <1>3
  <1> HIDE DEF hits
  <1>5. code \in CodesOf[[group |-> g, name |-> table[g][Min(hits)]]]
    BY <1>4 DEF HasCode
  <1> QED
    BY <1>1, <1>5, NoneIn, InitResourceKeeps

LEMMA SuperKeeps ==
    ASSUME TableInv, NEW d, SuperResource(d)
    PROVE  TableInv' /\ ResourceMade(index[d])
  <1>1. InitResource(d.group, index[d], NoDriver, -1) /\ d.group \in Groups
    BY ClusterFacts DEF SuperResource
  <1> QED
    BY <1>1, NoneIn, InitResourceKeeps

LEMMA NodeKeeps ==
    ASSUME TableInv, NEW id \in 0..current_id-1, NEW g, NodeResource(id, g)
    PROVE  TableInv' /\ ResourceMade(resources[id].index)
  <1>1. /\ InitResource(g, resources[id].index, NoDriver, id)
        /\ g \in ToSet(Cluster) /\ g \in Groups
        /\ resources[id].group \in ToSet(Cluster)
    BY ClusterFacts DEF NodeResource
  <1>2. id \in -1..current_id-1
    BY TableAssumption DEF TableInv, Resources
  <1> QED
    BY <1>1, <1>2, InitResourceKeeps

LEMMA ResourceStepKeeps ==
    ASSUME TableInv, ResourceStep
    PROVE  TableInv' /\ \E i : ResourceMade(i)
  <1>1. CASE \E g \in Groups \ ToSet(Cluster) :
                \E code \in UNION {CodesOf[d] : d \in DOMAIN CodesOf} :
                    DeviceResource(g, code)
    BY <1>1, DeviceKeeps
  <1>2. CASE \E d \in DOMAIN index : SuperResource(d)
    BY <1>2, SuperKeeps
  <1>3. CASE \E id \in 0..current_id-1 : \E g \in Groups : NodeResource(id, g)
    BY <1>3, NodeKeeps
  <1> QED
    BY <1>1, <1>2, <1>3 DEF ResourceStep

LEMMA UninitKeeps ==
    ASSUME TableInv, NEW id \in 0..current_id-1, Uninit(id)
    PROVE  /\ TableInv'
           /\ id \in 0..MaxResources-1
           /\ resources'[id] = NoDriver
           /\ \A j \in 0..MaxResources-1 : j # id => resources'[j] = resources[j]
           /\ UNCHANGED <<stage, index, current_id>>
  <1>1. /\ resources' = [resources EXCEPT ![id] = NoDriver]
        /\ UNCHANGED <<stage, unread, definitions, order, queue, index, indices,
                       table, current_id>>
    BY DEF Uninit, genVars
  <1>2. /\ current_id \in 0..MaxResources /\ MaxResources \in Nat
        /\ DOMAIN resources = 0..MaxResources-1 /\ id \in 0..MaxResources-1
    BY TableAssumption DEF TableInv, Resources
  <1>3. /\ DOMAIN resources' = 0..MaxResources-1
        /\ resources'[id] = NoDriver
        /\ \A j \in 0..MaxResources-1 : j # id => resources'[j] = resources[j]
    BY <1>1, <1>2
  <1>4. GenTypes' /\ Registered' /\ Filling' /\ Tables'
    <2>1. GenTypes'
      BY <1>1 DEF TableInv, GenTypes
    <2>2. Registered'
      BY <1>1 DEF TableInv, Registered, Found
    <2>3. Filling'
      BY <1>1 DEF TableInv, Filling, Numbering, Sound, Covered
    <2>4. Tables'
      BY <1>1 DEF TableInv, Tables, Entries, ExactTable, Sound, Covered, Valid
    <2> QED
      BY <2>1, <2>2, <2>3, <2>4
  <1>5. ASSUME NEW j \in 0..MaxResources-1, resources'[j] # NoDriver
        PROVE  Made(j)'
    <2>1. resources'[j] = resources[j] /\ Made(j)
      BY <1>3, <1>5 DEF TableInv, Resources
    <2> DEFINE p == resources[j].super
    <2>2. p # -1 => p \in 0..MaxResources-1
      BY <1>2, <2>1 DEF Made
    <2>3. p # -1 /\ resources'[p] # NoDriver => resources'[p] = resources[p]
      BY <1>3, <2>2
    <2> QED
      BY <1>1, <2>1, <2>3 DEF Made, Valid
  <1>6. Resources'
    BY <1>1, <1>2, <1>3, <1>5 DEF TableInv, Resources
  <1> QED
    BY <1>1, <1>2, <1>3, <1>4, <1>6 DEF TableInv

----------------------------------------------------------------------------
(* The arithmetic of the buffer.                                           *)

\* Quotient and remainder.
LEMMA DivMod ==
    ASSUME NEW n \in Nat \ {0}, NEW a \in Int
    PROVE  /\ a \div n \in Int
           /\ a % n \in 0..n-1
           /\ a = n * (a \div n) + (a % n)
  OBVIOUS

\* A remainder is the only one.
LEMMA RemainderIs ==
    ASSUME NEW n \in Nat \ {0}, NEW q \in Int, NEW r \in 0..n-1, NEW a \in Int,
           a = n * q + r
    PROVE  a % n = r
  <1> DEFINE p == a \div n
             t == a % n
  <1>1. p \in Int /\ t \in 0..n-1 /\ a = n * p + t
    BY DivMod
  <1> HIDE DEF p, t
  <1>2. n * (p - q) = r - t
    BY <1>1
  <1>3. p - q \in Int /\ r - t \in -(n-1)..n-1
    BY <1>1
  <1>4. ~(p - q >= 1) /\ ~(p - q <= -1)
    <2>1. p - q >= 1 => n * (p - q) >= n
      BY <1>3
    <2>2. p - q <= -1 => n * (p - q) <= -n
      BY <1>3
    <2> QED
      BY <1>2, <1>3, <2>1, <2>2
  <1>5. p - q = 0
    BY <1>3, <1>4
  <1>6. t = r
    BY <1>1, <1>2, <1>5
  <1> QED
    BY <1>6 DEF t

\* size_t holds a number from 0 on, and a small negative one as its complement.
LEMMA Wrapped ==
    ASSUME NEW n \in Nat \ {0}, NEW a \in Int
    PROVE  /\ a \in 0..n-1 => a % n = a
           /\ a \in -n..-1 => a % n = a + n
  <1>1. n * 0 = 0 /\ n * (-1) = -n
    OBVIOUS
  <1>2. a \in 0..n-1 => a = n * 0 + a
    BY <1>1
  <1>3. a \in -n..-1 => a = n * (-1) + (a + n) /\ a + n \in 0..n-1
    BY <1>1
  <1> QED
    BY <1>2, <1>3, RemainderIs

LEMMA MinTwo ==
    ASSUME NEW a \in Int, NEW b \in Int
    PROVE  Min({a, b}) = IF a <= b THEN a ELSE b
  BY DEF Min

\* Within the limits the unsigned arithmetic gives what is left of the buffer.
LEMMA GivenIs ==
    ASSUME NEW size \in BufferSizes, NEW offset \in Nat, offset <= size,
           NEW w \in Nat, w < SizeMod \div 2
    PROVE  /\ Given(size, offset, w % SizeMod) = Min({w, size - offset})
           /\ Min({w, size - offset}) \in Nat
           /\ offset + Min({w, size - offset}) <= size
  <1> DEFINE H == SizeMod \div 2
             l == size - offset
             wanted == w % SizeMod
             accessible == (size - offset) % SizeMod
             delta == Signed((wanted - accessible) % SizeMod)
  <1>1. SizeMod \in Nat \ {0} /\ H \in Nat /\ SizeMod = 2 * H /\ size \in 0..H-1
    BY MemoryAssumption
  <1> HIDE DEF H
  <1>2. l \in 0..H-1 /\ w \in 0..H-1 /\ w - l \in -H+1..H-1
    BY <1>1 DEF H
  <1>3. accessible = l /\ wanted = w
    <2>1. l \in 0..SizeMod-1 /\ w \in 0..SizeMod-1
      BY <1>1, <1>2
    <2> QED
      BY <1>1, <2>1, Wrapped
  <1>4. delta = w - l
    <2> DEFINE y == w - l
               x == y % SizeMod
    <2>1. delta = IF x >= H THEN x - SizeMod ELSE x
      BY <1>3 DEF Signed, H
    <2>2. y \in Int /\ y \in -H+1..H-1
      BY <1>2
    <2> HIDE DEF y
    <2>3. CASE y >= 0
      <3>1. y \in 0..SizeMod-1
        BY <1>1, <2>2, <2>3
      <3>2. x = y
        BY <1>1, <2>2, <3>1, Wrapped
      <3>3. delta = y
        <4> HIDE DEF x, delta
        <4> QED
          BY <1>1, <2>2, <2>1, <2>3, <3>2
      <3> QED
        BY <3>3 DEF y
    <2>4. CASE y < 0
      <3>1. y \in -SizeMod..-1
        BY <1>1, <2>2, <2>4
      <3>2. x = y + SizeMod
        BY <1>1, <2>2, <3>1, Wrapped
      <3>3. delta = y
        <4> HIDE DEF x, delta
        <4> QED
          BY <1>1, <2>2, <2>1, <2>4, <3>2
      <3> QED
        BY <3>3 DEF y
    <2> QED
      BY <2>2, <2>3, <2>4 DEF y
  <1>5. Given(size, offset, wanted) =
           IF accessible = 0 THEN 0
           ELSE IF delta > 0 THEN (wanted - delta) % SizeMod ELSE wanted
    BY DEF Given
  <1>6. Min({w, l}) = IF w <= l THEN w ELSE l
    BY <1>2, MinTwo
  <1> HIDE DEF accessible, delta, wanted
  <1>7. delta > 0 => (wanted - delta) % SizeMod = l
    <2>1. wanted - delta = l
      BY <1>2, <1>3, <1>4
    <2>2. l \in 0..SizeMod-1
      BY <1>1, <1>2
    <2> QED
      BY <1>1, <2>1, <2>2, Wrapped
  <1>8. Given(size, offset, wanted) = Min({w, l})
    BY <1>2, <1>3, <1>4, <1>5, <1>6, <1>7
  <1>9. Min({w, l}) \in Nat /\ offset + Min({w, l}) <= size
    BY <1>1, <1>2, <1>6
  <1> QED
    BY <1>8, <1>9 DEF wanted

----------------------------------------------------------------------------
(* The files keep the invariant.                                           *)

\* What locate returns is an entry of the archive whose name begins so.
LEMMA FoundEntry ==
    ASSUME NEW a \in Archives, NEW name, FindFile(a, name) # 0
    PROVE  LET hits == {k \in DOMAIN a : name \in Begins[a[k].name]}
           IN  /\ FindFile(a, name) \in hits
               /\ \A k \in hits : FindFile(a, name) <= k
               /\ DOMAIN a = 1..Len(a) /\ Len(a) \in Nat
  <1> DEFINE hits == {k \in DOMAIN a : name \in Begins[a[k].name]}
  <1>1. a \in Seq([name : Names, size : Nat])
    BY MemoryAssumption
  <1>2. DOMAIN a = 1..Len(a) /\ Len(a) \in Nat
    BY <1>1
  <1>3. hits \subseteq Nat
    BY <1>2
  <1>4. hits # {} /\ FindFile(a, name) = Min(hits)
    BY DEF FindFile
  <1>5. Min(hits) \in hits /\ \A k \in hits : Min(hits) <= k
    <2> HIDE DEF hits
    <2> QED
      BY <1>3, <1>4, MinIn
  <1> QED
    BY <1>2, <1>4, <1>5

\* With an initramfs there are exact tables, and the index of its super driver
\* is the index of its file driver and of no other one.
LEMMA SuperIndex ==
    ASSUME TableInv, stage = "built", Super \in DOMAIN index,
           NEW g \in ToSet(Cluster), Valid(g, index[Super])
    PROVE  table[g][index[Super]] = "initramfs"
  <1>1. DOMAIN index \in SourceSets
    BY DEF TableInv, Registered
  <1>2. Covered
    BY <1>1, MemoryAssumption DEF Covered
  <1>3. ExactTable /\ Entries
    BY DEF TableInv, Tables
  <1>4. PICK d \in DOMAIN index :
           d.group = g /\ index[d] = index[Super] /\ d.name = table[g][index[Super]]
    BY <1>3, ClusterFacts DEF Entries, Valid
  <1>5. Super.group \in ToSet(Cluster) /\ Super.name = "initramfs"
    BY ClusterFacts DEF Super
  <1>6. d.name = Super.name
    BY <1>2, <1>3, <1>4, <1>5 DEF ExactTable
  <1> QED
    BY <1>4, <1>5, <1>6

\* A resource is made, and its driver_state is one of the kinds.
LEMMA NewStateKeeps ==
    ASSUME MInv, TableInv', NEW i, ResourceMade(i), NEW s, NewState(s),
           s.kind \in {"none", "super", "initramfs", "buffer"},
           s.kind = "super" => /\ Super \in DOMAIN index /\ s.archive \in Archives
                               /\ i = index[Super],
           s.kind = "initramfs" =>
               /\ s.archive \in Archives /\ s.asked \in Names
               /\ s.entry # 0 /\ s.entry = FindFile(s.archive, s.asked),
           s.kind = "buffer" =>
               \E n \in BufferSizes :
                   /\ s \in [kind : {"buffer"}, size : {n},
                             bytes : [0..n-1 -> Nat], ideal : [0..n-1 -> Nat]]
                   /\ s.bytes = s.ideal
    PROVE  MInv'
  <1> DEFINE c == current_id
             new == IF resources'[c] = NoDriver THEN NoState ELSE s
  <1>1. /\ state' = [state EXCEPT ![c] = new]
        /\ UNCHANGED <<fault, transfers, reply, abuse>>
    BY DEF NewState
  <1>2. /\ stage = "built" /\ stage' = stage /\ index' = index
        /\ c \in 0..MaxResources-1 /\ current_id' = c + 1
        /\ \A id \in 0..MaxResources-1 : id # c => resources'[id] = resources[id]
        /\ resources'[c] # NoDriver => resources'[c].index = i
    BY DEF ResourceMade
  <1>3. DOMAIN state = 0..MaxResources-1
    BY DEF MInv, States
  <1>4. /\ DOMAIN state' = 0..MaxResources-1 /\ state'[c] = new
        /\ \A id \in 0..MaxResources-1 : id # c => state'[id] = state[id]
    BY <1>1, <1>2, <1>3
  <1>5. NoState.kind = "none"
    BY DEF NoState
  <1>6. new.kind \in {"none", "super", "initramfs", "buffer"}
    BY <1>5
  <1>7. new.kind # "none" => new = s /\ resources'[c] # NoDriver
    BY <1>5
  <1>8. resources'[c] = NoDriver => new = NoState
    OBVIOUS
  <1> HIDE DEF new
  <1>9. States'
    <2> SUFFICES ASSUME NEW id \in 0..MaxResources-1
                 PROVE  /\ resources'[id] = NoDriver => state'[id] = NoState
                        /\ state'[id].kind \in {"none", "super", "initramfs", "buffer"}
                        /\ state'[id].kind = "super" => SuperState(id)'
                        /\ state'[id].kind = "initramfs" => EntryState(id)'
                        /\ state'[id].kind = "buffer" => BufferState(id)'
      BY <1>4 DEF States
    <2>1. CASE id = c
      <3>1. state'[id] = new /\ resources'[id] = resources'[c]
        BY <1>4, <2>1
      <3>2. resources'[id] = NoDriver => state'[id] = NoState
        BY <1>8, <3>1
      <3>3. state'[id].kind \in {"none", "super", "initramfs", "buffer"}
        BY <1>6, <3>1
      <3>4. state'[id].kind = "super" => SuperState(id)'
        BY <1>2, <1>7, <3>1 DEF SuperState
      <3>5. state'[id].kind = "initramfs" => EntryState(id)'
        BY <1>7, <3>1 DEF EntryState
      <3>6. state'[id].kind = "buffer" => BufferState(id)'
        BY <1>7, <3>1 DEF BufferState
      <3> QED
        BY <3>2, <3>3, <3>4, <3>5, <3>6
    <2>2. CASE id # c
      <3>1. state'[id] = state[id] /\ resources'[id] = resources[id]
        BY <1>2, <1>4, <2>2
      <3> QED
        BY <1>1, <1>2, <3>1 DEF MInv, States, SuperState, EntryState, BufferState
    <2> QED
      BY <2>1, <2>2
  <1>10. Replies'
    <2> SUFFICES ASSUME reply # NoReply PROVE Replies'
      BY <1>1 DEF Replies, NoReply
    <2>1. reply.id \in 0..c-1
      BY DEF MInv, Replies
    <2> DEFINE r == reply.id
    <2>2. r \in 0..MaxResources-1 /\ r # c /\ r \in 0..(c+1)-1
      <3>1. MaxResources \in Nat /\ c \in Int /\ r \in 0..c-1 /\ c \in 0..MaxResources-1
        BY <1>2, <2>1, TableAssumption
      <3> HIDE DEF c, r
      <3> QED
        BY <3>1
    <2>3. state'[reply.id] = state[reply.id]
      BY <1>4, <2>2
    <2> QED
      BY <1>1, <1>2, <2>2, <2>3 DEF MInv, Replies, EntryReply, BufferReply
  <1>11. Flags'
    BY <1>1 DEF MInv, Flags
  <1> QED
    BY <1>9, <1>10, <1>11 DEF MInv

\* A step of the files alone leaves the tables and resources as they are.
LEMMA TableStays ==
    ASSUME TableInv, UNCHANGED tableVars
    PROVE  TableInv'
  <1>1. UNCHANGED <<stage, unread, definitions, order, queue, index, indices,
                    table, current_id, resources>>
    BY DEF tableVars, genVars
  <1>2. GenTypes'
    BY <1>1 DEF TableInv, GenTypes
  <1>3. Registered'
    BY <1>1 DEF TableInv, Registered, Found
  <1>4. Filling'
    BY <1>1 DEF TableInv, Filling, Numbering, Sound, Covered
  <1>5. Tables'
    BY <1>1 DEF TableInv, Tables, Entries, ExactTable, Sound, Covered, Valid
  <1>6. Resources'
    BY <1>1 DEF TableInv, Resources, Made, Valid
  <1> QED
    BY <1>2, <1>3, <1>4, <1>5, <1>6 DEF TableInv

LEMMA MemoryInit ==
    ASSUME MInit PROVE MInv
  <1> USE DEF MInit
  <1>1. TableInv
    BY TableInit
  <1>2. States
    BY DEF States, NoState
  <1>3. Replies
    BY DEF Replies
  <1>4. Flags
    <2>1. transfers \in 0..MaxTransfers
      BY MemoryAssumption
    <2> QED
      BY <2>1 DEF Flags
  <1> QED
    BY <1>1, <1>2, <1>3, <1>4 DEF MInv

\* The generator runs before any resource is made.
LEMMA GenStepKeeps ==
    ASSUME MInv, GenStep, UNCHANGED memoryVars
    PROVE  MInv'
  <1>1. TableInv' /\ UNCHANGED <<current_id, resources>>
    BY GenKeeps DEF MInv
  <1>2. stage # "built"
    BY DEF GenStep, Scan, StartFill, Fill, Build
  <1>3. UNCHANGED <<state, fault, transfers, reply, abuse>>
    BY DEF memoryVars
  <1>4. \A id \in 0..MaxResources-1 : state[id].kind # "super"
    BY <1>2 DEF MInv, States, SuperState
  <1>5. States'
    <2>1. \A id \in 0..MaxResources-1 : state'[id].kind = "buffer" => BufferState(id)'
      BY <1>3 DEF MInv, States, BufferState
    <2>2. \A id \in 0..MaxResources-1 : state'[id].kind = "initramfs" => EntryState(id)'
      BY <1>3 DEF MInv, States, EntryState
    <2> QED
      BY <1>1, <1>3, <1>4, <2>1, <2>2 DEF MInv, States
  <1>6. Replies' /\ Flags'
    BY <1>1, <1>3 DEF MInv, Replies, EntryReply, BufferReply, Flags
  <1> QED
    BY <1>1, <1>5, <1>6 DEF MInv

LEMMA OtherResourceKeeps ==
    ASSUME MInv, OtherResource
    PROVE  MInv'
  <1>1. TableInv' /\ \E i : ResourceMade(i)
    BY ResourceStepKeeps DEF MInv, OtherResource
  <1>2. NewState(NoState)
    BY DEF OtherResource
  <1>3. NoState.kind = "none"
    BY DEF NoState
  <1> HIDE DEF NoState
  <1> QED
    BY <1>1, <1>2, <1>3, NewStateKeeps

LEMMA MountArchiveKeeps ==
    ASSUME MInv, NEW a \in Archives, MountArchive(a)
    PROVE  MInv'
  <1> DEFINE s == [kind |-> "super", archive |-> a]
  <1>1. SuperResource(Super) /\ NewState(s)
    BY DEF MountArchive
  <1>2. TableInv' /\ ResourceMade(index[Super])
    BY <1>1, SuperKeeps DEF MInv
  <1>3. s.kind = "super" /\ s.archive = a /\ Super \in DOMAIN index
    BY <1>1 DEF SuperResource
  <1> HIDE DEF s
  <1> QED
    BY <1>1, <1>2, <1>3, NewStateKeeps

LEMMA OpenEntryKeeps ==
    ASSUME MInv, NEW id \in 0..current_id-1, NEW name \in Names, OpenEntry(id, name)
    PROVE  MInv'
  <1> DEFINE i == resources[id].index
             s == [kind |-> table[File][i], archive |-> state[id].archive,
                   entry |-> Located(id, name), asked |-> name]
  <1>1. /\ state[id].kind = "super" /\ Located(id, name) # 0
        /\ NodeResource(id, File) /\ NewState(s)
    BY DEF OpenEntry
  <1>2. id \in 0..MaxResources-1
    BY TableAssumption DEF MInv, TableInv, Resources
  <1>3. /\ stage = "built" /\ Super \in DOMAIN index
        /\ state[id].archive \in Archives /\ i = index[Super]
    BY <1>1, <1>2 DEF MInv, States, SuperState
  <1>4. Valid(File, i) /\ File \in ToSet(Cluster)
    BY <1>1, ClusterFacts DEF NodeResource, InitResource, File
  <1>5. table[File][i] = "initramfs"
    BY <1>3, <1>4, SuperIndex DEF MInv
  <1>6. TableInv' /\ ResourceMade(i)
    BY <1>1, NodeKeeps DEF MInv
  <1>7. /\ s.kind = "initramfs" /\ s.archive = state[id].archive /\ s.asked = name
        /\ s.entry = Located(id, name)
    BY <1>5
  <1>8. s.entry = FindFile(s.archive, s.asked)
    BY <1>7 DEF Located
  <1> HIDE DEF s, i
  <1> QED
    BY <1>1, <1>3, <1>6, <1>7, <1>8, NewStateKeeps

LEMMA MakeBufferKeeps ==
    ASSUME MInv, NEW n \in BufferSizes, MakeBuffer(n)
    PROVE  MInv'
  <1> DEFINE d == [group |-> File, name |-> "buffer"]
             i == index[d]
             zeros == [k \in 0..n-1 |-> 0]
             s == [kind |-> "buffer", size |-> n, bytes |-> zeros, ideal |-> zeros]
  <1>1. InitResource(File, i, NoDriver, -1) /\ NewState(s)
    BY DEF MakeBuffer
  <1>2. File \in Groups
    BY ClusterFacts DEF File
  <1>3. TableInv' /\ ResourceMade(i)
    BY <1>1, <1>2, NoneIn, InitResourceKeeps DEF MInv
  <1>4. zeros \in [0..n-1 -> Nat]
    OBVIOUS
  <1> HIDE DEF zeros
  <1>5. /\ s.kind = "buffer" /\ s.bytes = s.ideal
        /\ s \in [kind : {"buffer"}, size : {n},
                  bytes : [0..n-1 -> Nat], ideal : [0..n-1 -> Nat]]
    BY <1>4
  <1> HIDE DEF s, i
  <1> QED
    BY <1>1, <1>3, <1>5, NewStateKeeps

LEMMA AllocFailsKeeps ==
    ASSUME MInv, AllocFails
    PROVE  MInv'
  <1>1. UNCHANGED <<tableVars, state, transfers, reply, abuse>> /\ fault' = "memory"
    BY DEF AllocFails
  <1>2. TableInv'
    BY <1>1, TableStays DEF MInv
  <1>3. UNCHANGED <<stage, index, current_id, resources, state, reply, abuse>>
    BY <1>1 DEF tableVars, genVars
  <1>4. States'
    BY <1>3 DEF MInv, States, SuperState, EntryState, BufferState
  <1>5. Replies'
    BY <1>3 DEF MInv, Replies, EntryReply, BufferReply
  <1>6. Flags'
    BY <1>1 DEF MInv, Flags
  <1> QED
    BY <1>2, <1>4, <1>5, <1>6 DEF MInv

LEMMA CloseKeeps ==
    ASSUME MInv, NEW id \in 0..current_id-1, Close(id)
    PROVE  MInv'
  <1>1. /\ state' = [state EXCEPT ![id] = NoState]
        /\ UNCHANGED <<fault, transfers, reply, abuse>>
    BY DEF Close
  <1>2. /\ TableInv' /\ id \in 0..MaxResources-1
        /\ resources'[id] = NoDriver
        /\ \A j \in 0..MaxResources-1 : j # id => resources'[j] = resources[j]
        /\ UNCHANGED <<stage, index, current_id>>
    BY UninitKeeps DEF MInv, Close
  <1>3. DOMAIN state = 0..MaxResources-1
    BY DEF MInv, States
  <1>4. /\ DOMAIN state' = 0..MaxResources-1 /\ state'[id] = NoState
        /\ \A j \in 0..MaxResources-1 : j # id => state'[j] = state[j]
    BY <1>1, <1>2, <1>3
  <1>5. NoState.kind = "none"
    BY DEF NoState
  <1>6. States'
    <2> SUFFICES ASSUME NEW j \in 0..MaxResources-1
                 PROVE  /\ resources'[j] = NoDriver => state'[j] = NoState
                        /\ state'[j].kind \in {"none", "super", "initramfs", "buffer"}
                        /\ state'[j].kind = "super" => SuperState(j)'
                        /\ state'[j].kind = "initramfs" => EntryState(j)'
                        /\ state'[j].kind = "buffer" => BufferState(j)'
      BY <1>4 DEF States
    <2>1. CASE j = id
      BY <1>4, <1>5, <2>1
    <2>2. CASE j # id
      <3>1. state'[j] = state[j] /\ resources'[j] = resources[j]
        BY <1>2, <1>4, <2>2
      <3> QED
        BY <1>1, <1>2, <3>1 DEF MInv, States, SuperState, EntryState, BufferState
    <2> QED
      BY <2>1, <2>2
  <1>7. Replies'
    <2> SUFFICES ASSUME reply # NoReply PROVE Replies'
      BY <1>1 DEF Replies, NoReply
    <2>1. reply.id \in 0..current_id-1 /\ reply.id \in 0..MaxResources-1
      BY TableAssumption DEF MInv, Replies, TableInv, Resources
    <2>2. CASE reply.id = id
      <3>1. state'[reply.id].kind = "none"
        BY <1>4, <1>5, <2>2
      <3> QED
        BY <1>1, <1>2, <2>1, <3>1 DEF MInv, Replies
    <2>3. CASE reply.id # id
      <3>1. state'[reply.id] = state[reply.id]
        BY <1>4, <2>1, <2>3
      <3> QED
        BY <1>1, <1>2, <3>1 DEF MInv, Replies, EntryReply, BufferReply
    <2> QED
      BY <2>2, <2>3
  <1>8. Flags'
    BY <1>1 DEF MInv, Flags
  <1> QED
    BY <1>2, <1>6, <1>7, <1>8 DEF MInv

\* Reading a file of the archive.
LEMMA ReadEntryKeeps ==
    ASSUME MInv, NEW id \in 0..current_id-1, NEW t \in Transfers, ReadEntry(id, t)
    PROVE  MInv'
  <1> DEFINE s == state[id]
             n == (t.size * t.count) % SizeMod
             got == [k \in 0..n-1 |->
                        IF t.offset + k < DataSize(s.archive[s.entry])
                        THEN EntryByte(s.archive, s.entry, t.offset + k)
                        ELSE ZeroByte]
  <1>1. /\ s.kind = "initramfs" /\ Done(id, t, n, got)
        /\ UNCHANGED <<state, fault, abuse>>
    BY DEF ReadEntry
  <1>2. /\ transfers < MaxTransfers /\ transfers' = transfers + 1
        /\ reply' = [id |-> id, t |-> t, count |-> n, got |-> got]
        /\ UNCHANGED tableVars
    BY <1>1 DEF Done
  <1>3. TableInv'
    BY <1>2, TableStays DEF MInv
  <1>4. UNCHANGED <<stage, index, current_id, resources, state, abuse>>
    BY <1>1, <1>2 DEF tableVars, genVars
  <1>5. States'
    BY <1>4 DEF MInv, States, SuperState, EntryState, BufferState
  <1>6. n \in Nat
    <2>1. t.size \in Nat /\ t.count \in Nat /\ SizeMod \in Nat \ {0}
      BY MemoryAssumption
    <2>2. t.size * t.count \in Int
      BY <2>1
    <2> QED
      BY <2>1, <2>2, DivMod
  <1> HIDE DEF n
  <1>7. /\ DOMAIN got \subseteq Nat
        /\ \A k \in DOMAIN got :
              got[k] = IF t.offset + k < DataSize(s.archive[s.entry])
                       THEN EntryByte(s.archive, s.entry, t.offset + k)
                       ELSE ZeroByte
    BY <1>6
  <1> HIDE DEF got
  <1>8. reply'.id = id /\ reply'.t = t /\ reply'.got = got
    BY <1>2
  <1>9. EntryReply'
    BY <1>4, <1>7, <1>8 DEF EntryReply
  <1>10. Replies'
    BY <1>1, <1>4, <1>8, <1>9 DEF Replies
  <1>11. Flags'
    BY <1>1, <1>2, MemoryAssumption DEF MInv, Flags
  <1> QED
    BY <1>3, <1>5, <1>10, <1>11 DEF MInv

\* Writing changes the bytes of the range.
LEMMA WrittenType ==
    ASSUME MInv, NEW n, NEW f \in [0..n-1 -> Nat], NEW from, NEW m
    PROVE  Written(f, from, m) \in [0..n-1 -> Nat]
  <1>1. transfers + 1 \in Nat
    BY MemoryAssumption DEF MInv, Flags
  <1> QED
    BY <1>1 DEF Written

\* Reading and writing a buffer.
LEMMA UseBufferKeeps ==
    ASSUME MInv, NEW id \in 0..current_id-1, NEW t \in Transfers, UseBuffer(id, t)
    PROVE  MInv'
  <1> DEFINE s == state[id]
             w == t.size * t.count
             given == Given(s.size, t.offset, w % SizeMod)
             fits == t.offset + given <= s.size
             wrong == t.offset > s.size \/ w >= SizeMod \div 2
             got == IF t.op = "read" /\ fits
                    THEN [k \in 0..given-1 |-> s.bytes[t.offset + k]] ELSE << >>
             new == IF t.op = "read" THEN s
                    ELSE [s EXCEPT !.bytes = Written(@, t.offset, given),
                                   !.ideal = IF wrong THEN @
                                             ELSE Written(@, t.offset, Share(s, t))]
  <1>1. /\ s.kind = "buffer" /\ abuse' = (abuse \/ wrong)
        /\ fault' = IF given > 0 /\ ~fits THEN "overrun" ELSE fault
        /\ Done(id, t, given, got)
        /\ state' = [state EXCEPT ![id] = new]
    BY DEF UseBuffer
  <1>2. /\ transfers < MaxTransfers /\ transfers' = transfers + 1
        /\ reply' = [id |-> id, t |-> t, count |-> given, got |-> got]
        /\ UNCHANGED tableVars
    BY <1>1 DEF Done
  <1>3. TableInv'
    BY <1>2, TableStays DEF MInv
  <1>4. UNCHANGED <<stage, index, current_id, resources>>
    BY <1>2 DEF tableVars, genVars
  <1>5. id \in 0..MaxResources-1
    BY TableAssumption DEF MInv, TableInv, Resources
  <1>6. /\ DOMAIN state' = 0..MaxResources-1 /\ state'[id] = new
        /\ \A j \in 0..MaxResources-1 : j # id => state'[j] = state[j]
    BY <1>1, <1>5 DEF MInv, States
  <1>7. PICK n \in BufferSizes :
           /\ s \in [kind : {"buffer"}, size : {n},
                     bytes : [0..n-1 -> Nat], ideal : [0..n-1 -> Nat]]
           /\ ~abuse => s.bytes = s.ideal
    BY <1>1, <1>5 DEF MInv, States, BufferState
  <1>8. /\ s.size = n /\ s.bytes \in [0..n-1 -> Nat] /\ s.ideal \in [0..n-1 -> Nat]
        /\ n \in Nat
    BY <1>7, MemoryAssumption
  <1>9. /\ t.op \in {"read", "write"} /\ t.offset \in Nat /\ w \in Nat
        /\ t.size \in Nat /\ t.count \in Nat
    <2>1. t \in [op : {"read", "write"}, offset : Nat,
                 size : Nat \ {0}, count : Nat \ {0}]
      BY MemoryAssumption
    <2>2. /\ t.op \in {"read", "write"} /\ t.offset \in Nat
          /\ t.size \in Nat /\ t.count \in Nat
      BY <2>1
    <2>3. w \in Nat
      BY <2>2
    <2> QED
      BY <2>2, <2>3
  <1>10. Share(s, t) = Min({w, n - t.offset})
    BY <1>8 DEF Share
  <1>11. ~wrong => /\ given = Share(s, t) /\ fits
    <2> HAVE ~wrong
    <2>1. t.offset <= n /\ w < SizeMod \div 2
      BY <1>8, <1>9, MemoryAssumption
    <2> HIDE DEF w
    <2>2. /\ Given(n, t.offset, w % SizeMod) = Min({w, n - t.offset})
          /\ t.offset + Min({w, n - t.offset}) <= n
      BY <1>9, <2>1, GivenIs
    <2> QED
      BY <1>8, <1>10, <2>2
  <1> HIDE DEF w, given, wrong, fits
  <1>12. /\ new \in [kind : {"buffer"}, size : {n},
                     bytes : [0..n-1 -> Nat], ideal : [0..n-1 -> Nat]]
         /\ t.op = "read" => new = s
         /\ ~wrong /\ s.bytes = s.ideal => new.bytes = new.ideal
    <2>1. CASE t.op = "read"
      BY <1>7, <2>1
    <2>2. CASE t.op # "read"
      <3> DEFINE b == Written(s.bytes, t.offset, given)
                 i == IF wrong THEN s.ideal ELSE Written(s.ideal, t.offset, Share(s, t))
      <3>1. b \in [0..n-1 -> Nat] /\ i \in [0..n-1 -> Nat]
        BY <1>8, WrittenType
      <3>2. ~wrong /\ s.bytes = s.ideal => b = i
        BY <1>11
      <3>3. new = [s EXCEPT !.bytes = b, !.ideal = i]
        BY <1>7, <2>2
      <3> HIDE DEF b, i, new
      <3>4. new \in [kind : {"buffer"}, size : {n},
                     bytes : [0..n-1 -> Nat], ideal : [0..n-1 -> Nat]]
        BY <1>7, <3>1, <3>3
      <3>5. new.bytes = b /\ new.ideal = i
        BY <1>7, <3>3
      <3> QED
        BY <2>2, <3>2, <3>4, <3>5
    <2> QED
      BY <2>1, <2>2
  <1> HIDE DEF new
  <1>13. new.kind = "buffer" /\ new.size = n /\ NoState.kind = "none"
    BY <1>12 DEF NoState
  <1>14. ~abuse' => ~abuse /\ ~wrong
    BY <1>1
  <1>15. States'
    <2> SUFFICES ASSUME NEW j \in 0..MaxResources-1
                 PROVE  /\ resources'[j] = NoDriver => state'[j] = NoState
                        /\ state'[j].kind \in {"none", "super", "initramfs", "buffer"}
                        /\ state'[j].kind = "super" => SuperState(j)'
                        /\ state'[j].kind = "initramfs" => EntryState(j)'
                        /\ state'[j].kind = "buffer" => BufferState(j)'
      BY <1>6 DEF States
    <2>1. CASE j = id
      <3>1. state'[j] = new
        BY <1>6, <2>1
      <3>2. resources'[j] # NoDriver
        BY <1>1, <1>4, <1>5, <1>13, <2>1 DEF MInv, States
      <3>3. BufferState(j)'
        BY <1>7, <1>12, <1>14, <3>1 DEF BufferState
      <3> QED
        BY <1>13, <3>1, <3>2, <3>3
    <2>2. CASE j # id
      <3>1. state'[j] = state[j] /\ resources'[j] = resources[j]
        BY <1>4, <1>6, <2>2
      <3> QED
        BY <1>4, <1>14, <3>1 DEF MInv, States, SuperState, EntryState, BufferState
    <2> QED
      BY <2>1, <2>2
  <1>16. reply'.id = id /\ reply'.t = t /\ reply'.got = got /\ reply'.count = given
    BY <1>2
  <1>17. ASSUME ~abuse' PROVE BufferReply'
    <2>1. ~abuse /\ ~wrong /\ given = Share(s, t) /\ fits /\ s.bytes = s.ideal
      BY <1>7, <1>11, <1>14, <1>17
    <2>2. Share(new, t) = Share(s, t)
      BY <1>8, <1>13 DEF Share
    <2>3. ASSUME t.op = "read", NEW k \in DOMAIN got
          PROVE  got[k] = new.ideal[t.offset + k]
      <3>1. got = [j \in 0..given-1 |-> s.bytes[t.offset + j]] /\ new = s
        BY <1>12, <2>1, <2>3
      <3> HIDE DEF got
      <3> QED
        BY <2>1, <2>3, <3>1
    <2> HIDE DEF got
    <2> QED
      BY <1>6, <1>16, <2>1, <2>2, <2>3 DEF BufferReply
  <1>18. Replies'
    <2>1. state'[reply'.id] = new /\ reply'.id \in 0..current_id'-1
      BY <1>4, <1>6, <1>16
    <2> QED
      BY <1>13, <1>16, <1>17, <2>1 DEF Replies
  <1>19. Flags'
    <2>1. fault' \in {"none", "memory", "overrun"} /\ (~abuse' => fault' # "overrun")
      BY <1>1, <1>11, <1>14 DEF MInv, Flags
    <2>2. transfers' \in 0..MaxTransfers
      BY <1>2, MemoryAssumption DEF MInv, Flags
    <2>3. abuse' \in BOOLEAN
      BY <1>1, Zenon DEF MInv, Flags
    <2> QED
      BY <2>1, <2>2, <2>3 DEF Flags
  <1> QED
    BY <1>3, <1>15, <1>18, <1>19 DEF MInv

LEMMA StutterKeeps ==
    ASSUME MInv, UNCHANGED mvars
    PROVE  MInv'
  <1>1. UNCHANGED <<tableVars, state, fault, transfers, reply, abuse>>
    BY DEF mvars, memoryVars
  <1>2. TableInv'
    BY <1>1, TableStays DEF MInv
  <1>3. UNCHANGED <<stage, index, current_id, resources, state, reply, abuse>>
    BY <1>1 DEF tableVars, genVars
  <1>4. States'
    BY <1>3 DEF MInv, States, SuperState, EntryState, BufferState
  <1>5. Replies'
    BY <1>3 DEF MInv, Replies, EntryReply, BufferReply
  <1>6. Flags'
    BY <1>1 DEF MInv, Flags
  <1> QED
    BY <1>2, <1>4, <1>5, <1>6 DEF MInv

----------------------------------------------------------------------------
(* Theorems.                                                               *)

\* The invariant holds in every state that gen_dri_defs.py, resource.c and the
\* two drivers can reach.
THEOREM Invariance == MSpec => []MInv
  <1>1. MInit => MInv
    BY MemoryInit
  <1>2. MInv /\ [MNext]_mvars => MInv'
    <2> SUFFICES ASSUME MInv, [MNext]_mvars PROVE MInv'
      OBVIOUS
    <2>1. CASE GenStep /\ UNCHANGED memoryVars
      BY <2>1, GenStepKeeps
    <2>2. CASE OtherResource
      BY <2>2, OtherResourceKeeps
    <2>3. ASSUME NEW a \in Archives, MountArchive(a) PROVE MInv'
      BY <2>3, MountArchiveKeeps
    <2>4. ASSUME NEW id \in 0..current_id-1, NEW name \in Names, OpenEntry(id, name)
          PROVE  MInv'
      BY <2>4, OpenEntryKeeps
    <2>5. ASSUME NEW id \in 0..current_id-1, NEW t \in Transfers, ReadEntry(id, t)
          PROVE  MInv'
      BY <2>5, ReadEntryKeeps
    <2>6. ASSUME NEW id \in 0..current_id-1, NEW t \in Transfers, UseBuffer(id, t)
          PROVE  MInv'
      BY <2>6, UseBufferKeeps
    <2>7. ASSUME NEW id \in 0..current_id-1, Close(id) PROVE MInv'
      BY <2>7, CloseKeeps
    <2>8. ASSUME NEW n \in BufferSizes, MakeBuffer(n) PROVE MInv'
      BY <2>8, MakeBufferKeeps
    <2>9. CASE AllocFails
      BY <2>9, AllocFailsKeeps
    <2>10. CASE UNCHANGED mvars
      BY <2>10, StutterKeeps
    <2> QED
      BY <2>1, <2>2, <2>3, <2>4, <2>5, <2>6, <2>7, <2>8, <2>9, <2>10
      DEF MNext, Running, Quiescent
  <1> QED
    BY <1>1, <1>2, PTL DEF MSpec

\* Every variable stays within its type; an open file of the archive is of the
\* archive's driver and lies in the archive.
THEOREM TypeCorrect == MSpec => []TypeOK
  <1>1. MInv => TypeOK
    <2> SUFFICES ASSUME MInv PROVE TypeOK
      OBVIOUS
    <2>1. \E s \in SourceSets : unread \subseteq s /\ Found \subseteq s
      <3>1. CASE stage = "scan"
        BY <3>1 DEF MInv, TableInv, Registered
      <3>2. CASE stage # "scan"
        <4>1. unread = {} /\ DOMAIN index \in SourceSets /\ Found \subseteq DOMAIN index
          BY <3>2 DEF MInv, TableInv, GenTypes, Registered
        <4> QED
          BY <4>1
      <3> QED
        BY <3>1, <3>2
    <2>2. ASSUME NEW id \in 0..MaxResources-1
          PROVE  /\ id >= current_id => ~Live(id) /\ state[id] = NoState
                 /\ ~Live(id) => state[id] = NoState
                 /\ state[id].kind \in {"none", "super", "initramfs", "buffer"}
                 /\ state[id].kind = "initramfs" =>
                       state[id].entry \in DOMAIN state[id].archive
                 /\ state[id].kind = "buffer" =>
                       DOMAIN state[id].bytes = 0 .. state[id].size - 1
      <3>1. resources[id] # NoDriver => id < current_id
        BY DEF MInv, TableInv, Resources, Made
      <3>2. id \in Int /\ current_id \in Int
        BY TableAssumption DEF MInv, TableInv, Resources
      <3>3. ~Live(id) => state[id] = NoState
        BY <3>1 DEF Live, MInv, States
      <3>4. id >= current_id => ~Live(id)
        BY <3>2 DEF Live
      <3>5. state[id].kind = "initramfs" => state[id].entry \in DOMAIN state[id].archive
        BY FoundEntry DEF MInv, States, EntryState
      <3>6. state[id].kind = "buffer" =>
               DOMAIN state[id].bytes = 0 .. state[id].size - 1
        BY DEF MInv, States, BufferState
      <3> QED
        BY <3>3, <3>4, <3>5, <3>6 DEF MInv, States
    <2>3. /\ stage \in {"scan", "fill", "built", "error"}
          /\ index \in [DOMAIN index -> Int] /\ indices \in [Groups -> Nat]
          /\ DOMAIN table = Groups /\ current_id \in 0..MaxResources
      BY DEF MInv, TableInv, GenTypes, Resources
    <2> QED
      BY <2>1, <2>2, <2>3 DEF TypeOK, MInv, Flags
  <1> QED
    BY <1>1, Invariance, PTL

\* Whatever the drivers and in whatever order their sources are read, a driver
\* of a group with indices of its own, or of the last group that shares them,
\* has the entry its macro names; if every file system has a driver in that
\* last group, all drivers do, and one index means one file system.
THEOREM TablesAreExact == MSpec => []ExactTable
  <1>1. MInv => ExactTable
    BY DEF MInv, TableInv, Tables, ExactTable
  <1> QED
    BY <1>1, Invariance, PTL

\* A resource is served by a driver that has the code it was looked up by, or
\* that is of the file system of its super resource.
THEOREM DriversAreRight == MSpec => []RightDriver
  <1>1. MInv => RightDriver
    <2> SUFFICES ASSUME MInv, NEW id \in 0..current_id-1, Live(id)
                 PROVE  LET r == resources[id] IN
                        /\ r.code # NoDriver =>
                              r.code \in CodesOf[[group |-> r.group, name |-> r.name]]
                        /\ Covered /\ r.super \in 0..id /\ Live(r.super) =>
                              r.name = resources[r.super].name
      BY DEF RightDriver
    <2> DEFINE r == resources[id]
               q == resources[r.super]
    <2>1. id \in 0..MaxResources-1
      BY TableAssumption DEF MInv, TableInv, Resources
    <2>2. Made(id) /\ stage = "built"
      <3>1. current_id > 0
        BY TableAssumption DEF MInv, TableInv, Resources
      <3> QED
        BY <2>1, <3>1 DEF MInv, TableInv, Resources, Live
    <2>3. ASSUME Covered, r.super \in 0..id, Live(r.super) PROVE r.name = q.name
      <3>1. r.super \in 0..MaxResources-1 /\ r.super # -1
        BY <2>1, <2>3, TableAssumption
      <3>2. Made(r.super) /\ q # NoDriver
        BY <2>3, <3>1 DEF MInv, TableInv, Resources, Live
      <3>3. /\ r.group \in ToSet(Cluster) /\ q.group \in ToSet(Cluster)
            /\ q.index = r.index
        BY <2>2, <3>1, <3>2 DEF Made
      <3>4. /\ r.group \in Groups /\ Valid(r.group, r.index)
            /\ r.name = table[r.group][r.index]
        BY <2>2 DEF Made
      <3>5. /\ q.group \in Groups /\ Valid(q.group, q.index)
            /\ q.name = table[q.group][q.index]
        BY <3>2 DEF Made
      <3>6. Entries /\ ExactTable
        BY <2>2 DEF MInv, TableInv, Tables
      <3> HIDE DEF r, q
      <3>7. PICK d \in DOMAIN index :
               d.group = r.group /\ index[d] = r.index /\ d.name = r.name
        BY <3>4, <3>6 DEF Entries, Valid
      <3>8. PICK e \in DOMAIN index :
               e.group = q.group /\ index[e] = q.index /\ e.name = q.name
        BY <3>5, <3>6 DEF Entries, Valid
      <3> QED
        BY <2>2, <2>3, <3>3, <3>6, <3>7, <3>8 DEF ExactTable
    <2> QED
      BY <2>2, <2>3 DEF Made
  <1> QED
    BY <1>1, Invariance, PTL

\* A file opened by name gives the bytes of the entry of that name, unless an
\* earlier entry's name begins with it.
THEOREM ArchivesAreExact == MSpec => []ArchiveExact
  <1>1. MInv => ArchiveExact
    <2> DEFINE s == state[reply.id]
               named == {k \in DOMAIN s.archive : s.archive[k].name = s.asked}
               first == Min(named)
    <2> SUFFICES ASSUME MInv, reply # NoReply, Live(reply.id), s.kind = "initramfs",
                        named # {},
                        \A k \in 1..first-1 : s.asked \notin Begins[s.archive[k].name],
                        NEW k \in DOMAIN reply.got
                 PROVE  reply.got[k] = IF reply.t.offset + k < s.archive[first].size
                                       THEN <<first, reply.t.offset + k>> ELSE ZeroByte
      BY DEF ArchiveExact
    <2> DEFINE a == s.archive
               p == reply.t.offset + k
    <2>1. reply.id \in 0..MaxResources-1
      BY TableAssumption DEF MInv, Replies, TableInv, Resources
    <2>2. /\ a \in Archives /\ s.asked \in Names /\ s.entry # 0
          /\ s.entry = FindFile(a, s.asked)
      BY <2>1 DEF MInv, States, EntryState
    <2>3. EntryReply
      BY DEF MInv, Replies
    <2>4. a \in Seq([name : Names, size : Nat])
      BY <2>2, MemoryAssumption
    <2>5. /\ DOMAIN a = 1..Len(a) /\ Len(a) \in Nat
          /\ \A j \in DOMAIN a : a[j].size \in Nat
      <3> HIDE DEF a
      <3>1. DOMAIN a = 1..Len(a) /\ Len(a) \in Nat
        BY <2>4
      <3> DEFINE E == [name : Names, size : Nat]
      <3>2. \A j \in DOMAIN a : a[j] \in E
        <4> HIDE DEF E
        <4>1. a \in Seq(E)
          BY <2>4 DEF E
        <4> QED
          BY <3>1, <4>1
      <3> QED
        BY <3>1, <3>2
    <2>6. first \in named /\ first \in 1..Len(a)
      <3>1. named \subseteq Nat
        BY <2>5
      <3>2. first \in named
        <4> HIDE DEF named
        <4> QED
          BY <3>1, MinIn
      <3> QED
        BY <2>5, <3>2
    <2>7. s.asked \in Begins[a[first].name]
      BY <2>2, <2>6, MemoryAssumption
    <2>8. /\ s.entry \in DOMAIN a /\ s.asked \in Begins[a[s.entry].name]
          /\ s.entry <= first
      BY <2>2, <2>5, <2>6, <2>7, FoundEntry
    <2> HIDE DEF first
    <2>9. s.entry = first
      BY <2>5, <2>6, <2>8
    <2>10. p \in Nat
      BY <2>3, MemoryAssumption DEF EntryReply, MInv, Replies
    <2>11. reply.got[k] = IF p < DataSize(a[first]) THEN EntryByte(a, first, p)
                          ELSE ZeroByte
      BY <2>3, <2>9 DEF EntryReply
    <2>12. a[first].size \in Nat /\ a[first].size <= DataSize(a[first])
      BY <2>5, <2>6 DEF DataSize
    <2>13. DataSize(a[first]) \in Int
      BY <2>12 DEF DataSize
    <2> HIDE DEF p
    <2> QED
      BY <2>10, <2>11, <2>12, <2>13 DEF EntryByte, p
  <1> QED
    BY <1>1, Invariance, PTL

\* The unsigned arithmetic of buffer_read and buffer_write is right for every
\* width of size_t as long as nobody starts past the end of a buffer or asks
\* for half the range of size_t.
THEOREM BuffersAreExact == MSpec => []BufferExact
  <1>1. MInv => BufferExact
    <2> SUFFICES ASSUME MInv, ~abuse
                 PROVE  /\ fault # "overrun"
                        /\ \A id \in 0..current_id-1 : state[id].kind = "buffer" =>
                              state[id].bytes = state[id].ideal
                        /\ reply # NoReply /\ Live(reply.id)
                           /\ state[reply.id].kind = "buffer" => BufferReply
      BY DEF BufferExact, BufferReply
    <2>1. \A id \in 0..current_id-1 : id \in 0..MaxResources-1
      BY TableAssumption DEF MInv, TableInv, Resources
    <2>2. \A id \in 0..current_id-1 : state[id].kind = "buffer" =>
             state[id].bytes = state[id].ideal
      BY <2>1 DEF MInv, States, BufferState
    <2> QED
      BY <2>2 DEF MInv, Flags, Replies
  <1> QED
    BY <1>1, Invariance, PTL

============================================================================
