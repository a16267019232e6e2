-------------------------- MODULE Ext2BlocksProofs --------------------------
(***************************************************************************)
(* Theorems about Ext2Blocks: every block size, every consistent inode and *)
(* every sequence of calls, with transfers and allocations free to fail.   *)
(***************************************************************************)
EXTENDS Ext2Blocks, SequenceTheorems, TLAPS

----------------------------------------------------------------------------
(* Arithmetic.                                                             *)

\* Quotient and remainder.
LEMMA DivMod ==
    ASSUME NEW n \in Nat \ {0}, NEW a \in Int
    PROVE  /\ a \div n \in Int
           /\ a % n \in 0..n-1
           /\ a = n * (a \div n) + (a % n)
  OBVIOUS

\* Products with a positive factor keep the order.
LEMMA TimesMono ==
    ASSUME NEW n \in Nat \ {0}, NEW p \in Int, NEW q \in Int, p >= q + 1
    PROVE  n * p >= n * q + n
  <1>1. n * p - n * q = n * (p - q)
    OBVIOUS
  <1>2. n * (p - q) >= n
    OBVIOUS
  <1>3. n * p \in Int /\ n * q \in Int
    OBVIOUS
  <1> QED
    BY <1>1, <1>2, <1>3

\* Division keeps the order.
LEMMA DivMono ==
    ASSUME NEW n \in Nat \ {0}, NEW a \in Int, NEW b \in Int, a <= b
    PROVE  a \div n <= b \div n
  <1> DEFINE p == a \div n
             q == b \div n
             r == a % n
             t == b % n
  <1>1. /\ p \in Int /\ q \in Int /\ r \in 0..n-1 /\ t \in 0..n-1
        /\ a = n * p + r /\ b = n * q + t
    BY DivMod
  <1> HIDE DEF p, q, r, t
  <1>2. n * p \in Int /\ n * q \in Int
    BY <1>1
  <1>3. ~(p >= q + 1)
    BY <1>1, <1>2, TimesMono
  <1>4. p <= q
    BY <1>1, <1>3
  <1> QED
    BY <1>4 DEF p, q

\* Within a block only the remainder changes.
LEMMA SameQuotient ==
    ASSUME NEW n \in Nat \ {0}, NEW a \in Nat, NEW j \in Nat, (a % n) + j < n
    PROVE  (a + j) \div n = a \div n /\ (a + j) % n = (a % n) + j
  <1> DEFINE p == a \div n
             r == a % n
             q == (a + j) \div n
             t == (a + j) % n
  <1>1. /\ p \in Int /\ q \in Int /\ r \in 0..n-1 /\ t \in 0..n-1
        /\ a = n * p + r /\ a + j = n * q + t /\ r + j < n
    BY DivMod
  <1> HIDE DEF p, q, r, t
  <1>2. n * p \in Int /\ n * q \in Int
    BY <1>1
  <1>3. ~(p >= q + 1)
    BY <1>1, <1>2, TimesMono
  <1>4. ~(q >= p + 1)
    BY <1>1, <1>2, TimesMono
  <1>5. p = q
    BY <1>1, <1>3, <1>4
  <1>6. t = r + j
    BY <1>1, <1>2, <1>5
  <1> QED
    BY <1>5, <1>6 DEF p, q, r, t

\* A number below the divisor.
LEMMA SmallQuotient ==
    ASSUME NEW n \in Nat \ {0}, NEW c \in Nat, c < n
    PROVE  c \div n = 0 /\ c % n = c
  <1> DEFINE p == c \div n
             r == c % n
  <1>1. p \in Int /\ r \in 0..n-1 /\ c = n * p + r
    BY DivMod
  <1> HIDE DEF p, r
  <1>2. n * p \in Int /\ n * 0 = 0
    BY <1>1
  <1>3. ~(p >= 0 + 1)
    BY <1>1, <1>2, TimesMono
  <1>4. ~(0 >= p + 1)
    BY <1>1, <1>2, TimesMono
  <1>5. p = 0
    BY <1>1, <1>3, <1>4
  <1>6. r = c
    BY <1>1, <1>2, <1>5
  <1> QED
    BY <1>5, <1>6 DEF p, r

\* A block holds at least one block number.
LEMMA Sizes == /\ BlockSize \in Nat \ {0} /\ PtrCount \in Nat \ {0}
               /\ PtrCount <= BlockSize
  BY BlocksAssumption DEF PtrCount

\* The indices stay within the tables, and move forward with the byte.
LEMMA Indices ==
    ASSUME NEW n \in Nat
    PROVE  /\ BaseIdx(n) \in Nat /\ Jank(n) \in 0..BlockSize-1
           /\ DoublyIdx(n) \in Int
           /\ BaseIdx(n) >= 12 => DoublyIdx(n) \in Nat
           /\ SinglyIdx(n) \in 0..PtrCount-1
           /\ InDibp(n) \in 0..PtrCount-1
           /\ InTibp(n) \in 0..PtrCount-1
  <1>0. BlockSize \in Nat \ {0} /\ PtrCount \in Nat \ {0}
    BY Sizes
  <1>1. BaseIdx(n) \in Nat /\ Jank(n) \in 0..BlockSize-1
    BY <1>0 DEF BaseIdx, Jank
  <1>2. DoublyIdx(n) \in Int /\ (BaseIdx(n) >= 12 => DoublyIdx(n) \in Nat)
    BY <1>0, <1>1 DEF DoublyIdx
  <1>3. TriplyIdx(n) \in Int
    BY <1>0, <1>2 DEF TriplyIdx
  <1> QED
    BY <1>0, <1>1, <1>2, <1>3 DEF SinglyIdx, InDibp, InTibp

\* A later byte is in the same or in a later block, and under the same or a
\* later entry of the doubly indirect table.
LEMMA IndicesMono ==
    ASSUME NEW n \in Nat, NEW m \in Nat, n <= m
    PROVE  BaseIdx(n) <= BaseIdx(m) /\ DoublyIdx(n) <= DoublyIdx(m)
  <1>0. BlockSize \in Nat \ {0}
    BY Sizes
  <1>1. BaseIdx(n) <= BaseIdx(m) /\ BaseIdx(n) \in Nat /\ BaseIdx(m) \in Nat
    BY <1>0, DivMono, Indices DEF BaseIdx
  <1>2. (BaseIdx(n) - 12) \in Int /\ (BaseIdx(m) - 12) \in Int
           /\ BaseIdx(n) - 12 <= BaseIdx(m) - 12
    BY <1>1
  <1> QED
    BY <1>0, <1>1, <1>2, DivMono DEF DoublyIdx

\* The bytes from n to the end of its block.
LEMMA SameBlock ==
    ASSUME NEW n \in Nat, NEW j \in Nat, j < BlockSize - Jank(n)
    PROVE  /\ BaseIdx(n + j) = BaseIdx(n)
           /\ Jank(n + j) = Jank(n) + j
  <1>1. Jank(n) \in Nat /\ BlockSize \in Nat \ {0}
    BY Indices, Sizes
  <1>2. (n % BlockSize) + j < BlockSize
    BY <1>1 DEF Jank
  <1> QED
    BY <1>1, <1>2, SameQuotient DEF BaseIdx, Jank

----------------------------------------------------------------------------
(* Types and control.                                                      *)

Tables == DOMAIN file.tables

\* The tables in memory and on the partition hold block numbers.
BlockTypes ==
    /\ TypeOK
    /\ sibp \in Numbers \cup {NoTable}
    /\ dibp \in Numbers \cup {NoTable}
    /\ tibp \in Numbers \cup {NoTable}
    /\ disk \in [Tables \cup {0, Wild} -> [0..PtrCount-1 -> Int]]
    /\ \A b \in Tables : disk[b] \in Numbers
    /\ moved \in Seq(Nat \X Nat)

\* Which tables are in memory, by the place the traversal has reached.  A
\* lower table can be missing only while the traversal is about to index it:
\* no other step follows a failed allocation.
TablesHeld ==
    /\ pc \in {"triple", "double", "single", "data"} => traversed < size
    /\ pc = "triple" => tibp # NoTable
    /\ last_triply # 0 /\ dibp = NoTable => pc \in {"double", "fault"}
    /\ last_doubly # 0 /\ sibp = NoTable => pc \in {"single", "fault"}
    /\ pc \in {"exitD", "exitS", "idle"} => tibp = NoTable
    /\ pc \in {"exitS", "idle"} => dibp = NoTable /\ last_triply = 0
    /\ pc = "idle" => sibp = NoTable /\ last_doubly = 0

BInv == BlockTypes /\ TablesHeld

\* The file of a behaviour is consistent.
LEMMA FileShape ==
    ASSUME file \in Files
    PROVE  /\ Tables \subseteq Nat \ {0, Wild}
           /\ file.tables \in [Tables -> Numbers]
           /\ node.dbp \in [0..11 -> Nat]
           /\ node.sibp \in Tables \cup {0}
           /\ node.dibp \in Tables \cup {0}
           /\ node.tibp \in Tables \cup {0}
           /\ node.dibp # 0 => \A k \in 0..PtrCount-1 :
                  file.tables[node.dibp][k] \in Tables \cup {0}
           /\ node.tibp # 0 => \A k \in 0..PtrCount-1 :
                  LET b == file.tables[node.tibp][k] IN
                  /\ b \in Tables \cup {0}
                  /\ b # 0 => \A i \in 0..PtrCount-1 :
                                 file.tables[b][i] \in Tables \cup {0}
  BY BlocksAssumption DEF Consistent, Tables, node

\* The buffers of a fresh allocation are tables, of meaningless numbers.
LEMMA GarbageShape == Garbage \subseteq Numbers
  BY Sizes DEF Garbage, Numbers, Wild

\* No table is the NULL pointer.
LEMMA TableIsNotNull == NoTable \notin Numbers
  BY BlocksAssumption

\* A failure is counted, and the bound on failures is kept.
LEMMA FailsType ==
    ASSUME BlockTypes, Fails
    PROVE  failures' \in 0..MaxFailures /\ failures' >= failures /\ failures' > 0
  BY BlocksAssumption DEF Fails, BlockTypes, TypeOK

\* A step with no failure leaves the count alone.
LEMMA NoFailType ==
    ASSUME BlockTypes, UNCHANGED failures
    PROVE  failures' \in 0..MaxFailures /\ failures' >= failures
  BY BlocksAssumption DEF BlockTypes, TypeOK

\* Transfers of a table leave a table in the buffer.
LEMMA ReadTableType ==
    ASSUME BlockTypes, NEW b, NEW old \in Numbers \cup {NoTable}, NEW new,
           ReadTable(b, old, new)
    PROVE  /\ new \in Numbers
           /\ failures' \in 0..MaxFailures /\ torn' \in BOOLEAN
           /\ failures' >= failures
           /\ torn => torn'
           /\ ~torn' => new \in IF b \in Tables THEN {disk[b]} ELSE Garbage
  <1>0. torn \in BOOLEAN /\ \A c \in Tables : disk[c] \in Numbers
    BY DEF BlockTypes, TypeOK
  <1>1. CASE /\ new \in IF b \in DOMAIN file.tables THEN {disk[b]} ELSE Garbage
             /\ UNCHANGED <<failures, torn>>
    <2>1. failures' \in 0..MaxFailures /\ failures' >= failures
      BY <1>1, NoFailType
    <2> QED
      BY <1>0, <1>1, <2>1, GarbageShape, Zenon DEF Tables
  <1>2. CASE /\ Fails
             /\ new \in IF old = NoTable THEN Garbage ELSE {old}
             /\ torn' = TRUE
    <2>1. new \in Numbers
      BY <1>2, GarbageShape
    <2> QED
      BY <1>2, <2>1, FailsType, Zenon
  <1> QED
    BY <1>1, <1>2 DEF ReadTable

\* After LoadTop the traversal has the table, or leaves.
LEMMA LoadTopType ==
    ASSUME BlockTypes, NEW b, NEW old \in Numbers \cup {NoTable}, NEW new,
           NEW next, next # "exit", LoadTop(b, old, new, next)
    PROVE  /\ new \in Numbers \cup {NoTable}
           /\ failures' \in 0..MaxFailures /\ torn' \in BOOLEAN
           /\ (pc' = next /\ new # NoTable) \/ pc' = "exit"
           /\ old # NoTable => new = old
           /\ failures' >= failures
           /\ torn => torn'
           /\ pc' = "exit" /\ ~torn' => failures' > 0
           /\ ~torn' /\ new # NoTable /\ old = NoTable
                 => /\ b # 0
                    /\ new \in IF b \in Tables THEN {disk[b]} ELSE Garbage
  <1>0. torn \in BOOLEAN
    BY DEF BlockTypes, TypeOK
  <1>1. CASE /\ old # NoTable /\ new = old /\ pc' = next
             /\ UNCHANGED <<failures, torn>>
    BY <1>0, <1>1, NoFailType, Zenon
  <1>2. CASE old = NoTable /\ b # 0 /\ ReadTable(b, old, new) /\ pc' = next
    BY <1>2, ReadTableType, TableIsNotNull, Zenon
  <1>3. CASE /\ old = NoTable /\ b = 0 /\ new \in Garbage /\ pc' = "exit"
             /\ torn' = TRUE /\ UNCHANGED failures
    BY <1>3, NoFailType, GarbageShape, Zenon
  <1>4. CASE /\ old = NoTable /\ Fails /\ new = NoTable /\ pc' = "exit"
             /\ UNCHANGED torn
    BY <1>0, <1>4, FailsType, Zenon
  <1> QED
    BY <1>1, <1>2, <1>3, <1>4, Zenon DEF LoadTop

\* LoadInner fills the buffer, whatever its result is.
LEMMA LoadInnerType ==
    ASSUME BlockTypes, NEW b, NEW old \in Numbers \cup {NoTable}, NEW new,
           LoadInner(b, old, new)
    PROVE  /\ new \in Numbers \cup {NoTable}
           /\ failures' \in 0..MaxFailures /\ torn' \in BOOLEAN
           /\ failures' >= failures
           /\ torn => torn'
           /\ new = NoTable => failures' > 0
           /\ ~torn' /\ new # NoTable
                 => new \in IF b \in Tables THEN {disk[b]} ELSE Garbage
  <1>0. torn \in BOOLEAN
    BY DEF BlockTypes, TypeOK
  <1>1. CASE ReadTable(b, old, new)
    BY <1>1, ReadTableType, TableIsNotNull, Zenon
  <1>2. CASE old = NoTable /\ Fails /\ new = NoTable /\ UNCHANGED torn
    BY <1>0, <1>2, FailsType, Zenon
  <1> QED
    BY <1>1, <1>2, Zenon DEF LoadInner

\* Writing a table, anywhere, leaves tables where tables were.
LEMMA WriteTableType ==
    ASSUME BlockTypes, NEW b, NEW table \in Numbers, WriteTable(b, table)
    PROVE  /\ disk' \in [Tables \cup {0, Wild} -> [0..PtrCount-1 -> Int]]
           /\ \A c \in Tables : disk'[c] \in Numbers
           /\ wrote' \in BOOLEAN
  <1>1. table \in [0..PtrCount-1 -> Int]
    BY DEF Numbers
  <1> QED
    BY <1>1 DEF WriteTable, BlockTypes

----------------------------------------------------------------------------
(* Every step keeps the types and the tables held.                         *)

\* Nothing is in memory before the first call.
LEMMA BInit == Init => BInv
  <1> SUFFICES ASSUME Init PROVE BInv
    OBVIOUS
  <1>1. TypeOK
    <2>1. enabled \in BOOLEAN /\ torn \in BOOLEAN /\ wrote \in BOOLEAN
      BY Zenon DEF Init
    <2>2. /\ offset \in Nat /\ size \in Nat /\ traversed \in 0..size
          /\ block \in Nat /\ last_doubly \in Nat /\ last_triply \in Nat
          /\ Len(moved) = traversed
          /\ calls \in 0..MaxCalls /\ failures \in 0..MaxFailures
      BY BlocksAssumption DEF Init
    <2> QED
      BY <2>1, <2>2, Zenon DEF Init, TypeOK
  <1>2. \A b \in Tables : disk[b] = file.tables[b]
    BY <1>1, FileShape DEF Init, Formatted, Tables, TypeOK
  <1>3. \A b \in Tables : disk[b] \in Numbers
    BY <1>1, <1>2, FileShape DEF TypeOK
  <1>4. Boot \in [0..PtrCount-1 -> Int] /\ Numbers \subseteq [0..PtrCount-1 -> Int]
    BY Sizes DEF Boot, Numbers
  <1>5. disk \in [Tables \cup {0, Wild} -> [0..PtrCount-1 -> Int]]
    <2>1. \A b \in Tables : file.tables[b] \in [0..PtrCount-1 -> Int]
      BY <1>1, <1>4, FileShape DEF TypeOK
    <2> QED
      BY <1>4, <2>1 DEF Init, Formatted, Tables
  <1>6. moved \in Seq(Nat \X Nat)
    BY DEF Init
  <1> QED
    BY <1>1, <1>3, <1>5, <1>6 DEF Init, BInv, BlockTypes, TablesHeld

\* The parts of the state no step of a call changes.
LEMMA FrameTypes ==
    ASSUME BlockTypes, Frame, Kept
    PROVE  /\ file' \in Files /\ enabled' \in BOOLEAN
           /\ op' \in {"none", "read", "write"}
           /\ offset' \in Nat /\ size' \in Nat /\ traversed' \in 0..size'
           /\ calls' \in 0..MaxCalls /\ Len(moved') = traversed'
           /\ moved' \in Seq(Nat \X Nat)
           /\ Tables' = Tables
  BY DEF BlockTypes, TypeOK, Frame, Kept, Tables

\* The partition when nothing is written.
LEMMA NoWriteTypes ==
    ASSUME BlockTypes, NoWrite, UNCHANGED file
    PROVE  /\ disk' \in [Tables' \cup {0, Wild} -> [0..PtrCount-1 -> Int]]
           /\ \A b \in Tables' : disk'[b] \in Numbers
           /\ wrote' \in BOOLEAN
  BY DEF BlockTypes, TypeOK, NoWrite, Tables

\* The state of the tables in memory.
TableTypes ==
    /\ sibp \in Numbers \cup {NoTable}
    /\ dibp \in Numbers \cup {NoTable}
    /\ tibp \in Numbers \cup {NoTable}
    /\ last_doubly \in Nat /\ last_triply \in Nat
    /\ pc \in {"idle", "loop", "triple", "double", "single", "data", "exit",
               "exitD", "exitS", "fault"}
    /\ block \in Nat
    /\ failures \in 0..MaxFailures /\ torn \in BOOLEAN

DiskTypes ==
    /\ disk \in [Tables \cup {0, Wild} -> [0..PtrCount-1 -> Int]]
    /\ \A b \in Tables : disk[b] \in Numbers
    /\ wrote \in BOOLEAN

\* The types of a step that transfers no data.
LEMMA KeptTypes ==
    ASSUME BlockTypes, Frame, Kept, TableTypes', DiskTypes'
    PROVE  BlockTypes'
  BY FrameTypes DEF BlockTypes, TypeOK, TableTypes, DiskTypes

\* A call begins with no table in memory.
LEMMA CallB ==
    ASSUME BInv, NEW r \in Requests, Call(r)
    PROVE  BInv'
  <1>1. r.op \in {"read", "write"} /\ r.offset \in Nat /\ r.size \in Nat
    BY BlocksAssumption
  <1>2. file' = file /\ Tables' = Tables
    BY DEF Call, Tables
  <1>3. calls' \in 0..MaxCalls
    BY BlocksAssumption DEF Call, BInv, BlockTypes, TypeOK
  <1>4. TypeOK'
    <2>1. enabled' \in BOOLEAN /\ torn' \in BOOLEAN /\ wrote' \in BOOLEAN
      BY Zenon DEF Call, BInv, BlockTypes, TypeOK
    <2>2. /\ offset' \in Nat /\ size' \in Nat /\ traversed' \in 0..size'
          /\ block' \in Nat /\ Len(moved') = traversed'
          /\ op' \in {"none", "read", "write"} /\ pc' \in {"idle", "loop"}
      BY <1>1 DEF Call
    <2> QED
      BY <1>3, <2>1, <2>2 DEF Call, BInv, BlockTypes, TypeOK, tableVars
  <1>5. BlockTypes'
    BY <1>2, <1>4 DEF Call, BInv, BlockTypes, tableVars
  <1> QED
    BY <1>1, <1>5 DEF Call, BInv, TablesHeld, tableVars

\* The byte the traversal looks for.
LEMMA HereType == BlockTypes => Here \in Nat /\ traversed \in Nat /\ offset \in Nat
  BY DEF BlockTypes, TypeOK, Here

\* A direct block needs no table.
LEMMA DirectB == ASSUME BInv, DirectBlock PROVE BInv'
  <1>0. Here \in Nat /\ BaseIdx(Here) \in 0..11
    <2>1. Here \in Nat
      BY HereType DEF BInv
    <2>2. BaseIdx(Here) \in Nat
      BY <2>1, Indices
    <2>3. BaseIdx(Here) < 12
      BY DEF DirectBlock
    <2> QED
      BY <2>1, <2>2, <2>3
  <1>1. node.dbp[BaseIdx(Here)] \in Nat
    BY <1>0, FileShape DEF BInv, BlockTypes, TypeOK
  <1>2. TableTypes'
    BY <1>1 DEF DirectBlock, Resolve, TableTypes, tableVars, BInv, BlockTypes,
                TypeOK
  <1>3. DiskTypes'
    BY NoWriteTypes DEF DirectBlock, Frame, DiskTypes, BInv
  <1>4. BlockTypes'
    BY <1>2, <1>3, KeptTypes DEF DirectBlock, BInv
  <1> QED
    BY <1>1, <1>4 DEF DirectBlock, Turn, Resolve, Frame, Kept, tableVars, BInv,
                      TablesHeld

\* The parts of the types that steps on tables need.
LEMMA TableParts ==
    ASSUME BInv
    PROVE  /\ TableTypes /\ DiskTypes
           /\ traversed \in Nat /\ size \in Nat /\ traversed <= size
  BY DEF BInv, BlockTypes, TypeOK, TableTypes, DiskTypes

\* A step that loads one of the inode's own tables.
LEMMA SinglyTableB == ASSUME BInv, SinglyTable PROVE BInv'
  <1> PICK next : next = "single" /\ LoadTop(node.sibp, sibp, sibp', next)
    BY DEF SinglyTable
  <1>1. /\ sibp' \in Numbers \cup {NoTable}
        /\ failures' \in 0..MaxFailures /\ torn' \in BOOLEAN
        /\ (pc' = next /\ sibp' # NoTable) \/ pc' = "exit"
        /\ sibp # NoTable => sibp' = sibp
    <2>1. BlockTypes /\ sibp \in Numbers \cup {NoTable} /\ next # "exit"
      BY DEF BInv, BlockTypes
    <2> QED
      BY <2>1, LoadTopType, Zenon
  <1>2. TableTypes'
    BY <1>1, TableParts DEF SinglyTable, TableTypes
  <1>3. DiskTypes'
    BY NoWriteTypes DEF SinglyTable, Frame, DiskTypes, BInv
  <1>4. BlockTypes'
    BY <1>2, <1>3, KeptTypes DEF SinglyTable, BInv
  <1> QED
    BY <1>1, <1>4 DEF SinglyTable, Turn, Frame, Kept, BInv, TablesHeld

\* The same for the doubly indirect table.
LEMMA DoublyTableB == ASSUME BInv, DoublyTable PROVE BInv'
  <1> PICK next : next = "double" /\ LoadTop(node.dibp, dibp, dibp', next)
    BY DEF DoublyTable
  <1>1. /\ dibp' \in Numbers \cup {NoTable}
        /\ failures' \in 0..MaxFailures /\ torn' \in BOOLEAN
        /\ (pc' = next /\ dibp' # NoTable) \/ pc' = "exit"
        /\ dibp # NoTable => dibp' = dibp
    <2>1. BlockTypes /\ dibp \in Numbers \cup {NoTable} /\ next # "exit"
      BY DEF BInv, BlockTypes
    <2> QED
      BY <2>1, LoadTopType, Zenon
  <1>2. TableTypes'
    BY <1>1, TableParts DEF DoublyTable, TableTypes
  <1>3. DiskTypes'
    BY NoWriteTypes DEF DoublyTable, Frame, DiskTypes, BInv
  <1>4. BlockTypes'
    BY <1>2, <1>3, KeptTypes DEF DoublyTable, BInv
  <1> QED
    BY <1>1, <1>4 DEF DoublyTable, Turn, Frame, Kept, BInv, TablesHeld

\* The same for the triply indirect table.
LEMMA TriplyTableB == ASSUME BInv, TriplyTable PROVE BInv'
  <1> PICK next : next = "triple" /\ LoadTop(node.tibp, tibp, tibp', next)
    BY DEF TriplyTable
  <1>1. /\ tibp' \in Numbers \cup {NoTable}
        /\ failures' \in 0..MaxFailures /\ torn' \in BOOLEAN
        /\ (pc' = next /\ tibp' # NoTable) \/ pc' = "exit"
        /\ tibp # NoTable => tibp' = tibp
    <2>1. BlockTypes /\ tibp \in Numbers \cup {NoTable} /\ next # "exit"
      BY DEF BInv, BlockTypes
    <2> QED
      BY <2>1, LoadTopType, Zenon
  <1>2. TableTypes'
    BY <1>1, TableParts DEF TriplyTable, TableTypes
  <1>3. DiskTypes'
    BY NoWriteTypes DEF TriplyTable, Frame, DiskTypes, BInv
  <1>4. BlockTypes'
    BY <1>2, <1>3, KeptTypes DEF TriplyTable, BInv
  <1> QED
    BY <1>1, <1>4 DEF TriplyTable, Turn, Frame, Kept, BInv, TablesHeld

\* The write back of a lower table before it is replaced.
LEMMA ReplaceTypes ==
    ASSUME BInv, NEW last, NEW table \in Numbers \cup {NoTable},
           last # 0 => table # NoTable,
           IF last # 0 THEN WriteTable(last, table) ELSE NoWrite,
           UNCHANGED file
    PROVE  DiskTypes'
  <1>1. Tables' = Tables
    BY DEF Tables
  <1>2. CASE last # 0
    BY <1>1, <1>2, WriteTableType DEF BInv, DiskTypes
  <1>3. CASE last = 0
    BY <1>3, NoWriteTypes DEF BInv, DiskTypes
  <1> QED
    BY <1>2, <1>3

\* A lower table, of the doubly indirect kind, is replaced or kept.
LEMMA TriplyStepB == ASSUME BInv, TriplyStep PROVE BInv'
  <1> DEFINE b == tibp[InTibp(Here)]
  <1>0. tibp \in Numbers /\ Here \in Nat /\ InTibp(Here) \in 0..PtrCount-1
    BY HereType, Indices DEF TriplyStep, BInv, BlockTypes, TablesHeld
  <1>1. b \in Nat
    BY <1>0 DEF Numbers
  <1> HIDE DEF b
  <1>2. \/ /\ dibp' = dibp /\ last_triply' = last_triply /\ NoWrite
           /\ pc' \in {"exit", "double"} /\ UNCHANGED <<failures, torn>>
        \/ /\ pc' = "double" /\ last_triply' = b /\ b # 0
           /\ IF last_triply # 0 THEN WriteTable(last_triply, dibp)
                                 ELSE NoWrite
           /\ LoadInner(b, dibp, dibp')
    BY DEF TriplyStep, b
  <1>3. /\ dibp' \in Numbers \cup {NoTable} /\ last_triply' \in Nat
        /\ failures' \in 0..MaxFailures /\ torn' \in BOOLEAN
        /\ pc' \in {"exit", "double"}
        /\ dibp' = NoTable /\ last_triply' # 0 => pc' = "double"
    <2>1. CASE LoadInner(b, dibp, dibp') /\ last_triply' = b /\ pc' = "double"
      BY <1>1, <2>1, LoadInnerType DEF BInv, BlockTypes
    <2>2. CASE /\ dibp' = dibp /\ last_triply' = last_triply
               /\ pc' \in {"exit", "double"} /\ UNCHANGED <<failures, torn>>
      BY <2>2, TableParts DEF TableTypes, TablesHeld, BInv, TriplyStep
    <2> QED
      BY <1>2, <2>1, <2>2
  <1>4. TableTypes'
    BY <1>3, TableParts DEF TriplyStep, TableTypes
  <1>5. DiskTypes'
    <2>1. last_triply # 0 => dibp # NoTable
      BY DEF BInv, TablesHeld, TriplyStep
    <2> QED
      BY <1>2, <2>1, ReplaceTypes, NoWriteTypes, TableParts
         DEF TriplyStep, Frame, DiskTypes, BInv, TableTypes
  <1>6. BlockTypes'
    BY <1>4, <1>5, KeptTypes DEF TriplyStep, BInv
  <1> QED
    BY <1>0, <1>3, <1>6, TableIsNotNull
       DEF TriplyStep, Frame, Kept, BInv, TablesHeld

\* A lower table, of the singly indirect kind, is replaced or kept.
LEMMA DoublyStepB == ASSUME BInv, DoublyStep PROVE BInv'
  <1> DEFINE b == dibp[InDibp(Here)]
  <1>0. dibp \in Numbers /\ Here \in Nat /\ InDibp(Here) \in 0..PtrCount-1
    BY HereType, Indices DEF DoublyStep, BInv, BlockTypes
  <1>1. b \in Nat
    BY <1>0 DEF Numbers
  <1> HIDE DEF b
  <1>2. \/ /\ sibp' = sibp /\ last_doubly' = last_doubly /\ NoWrite
           /\ pc' \in {"exit", "single"} /\ UNCHANGED <<failures, torn>>
        \/ /\ pc' = "single" /\ last_doubly' = b /\ b # 0
           /\ IF last_doubly # 0 THEN WriteTable(last_doubly, sibp)
                                 ELSE NoWrite
           /\ LoadInner(b, sibp, sibp')
    BY DEF DoublyStep, b
  <1>3. /\ sibp' \in Numbers \cup {NoTable} /\ last_doubly' \in Nat
        /\ failures' \in 0..MaxFailures /\ torn' \in BOOLEAN
        /\ pc' \in {"exit", "single"}
        /\ sibp' = NoTable /\ last_doubly' # 0 => pc' = "single"
    <2>1. CASE LoadInner(b, sibp, sibp') /\ last_doubly' = b /\ pc' = "single"
      BY <1>1, <2>1, LoadInnerType DEF BInv, BlockTypes
    <2>2. CASE /\ sibp' = sibp /\ last_doubly' = last_doubly
               /\ pc' \in {"exit", "single"} /\ UNCHANGED <<failures, torn>>
      BY <2>2, TableParts DEF TableTypes, TablesHeld, BInv, DoublyStep
    <2> QED
      BY <1>2, <2>1, <2>2
  <1>4. TableTypes'
    BY <1>3, TableParts DEF DoublyStep, TableTypes
  <1>5. DiskTypes'
    <2>1. last_doubly # 0 => sibp # NoTable
      BY DEF BInv, TablesHeld, DoublyStep
    <2> QED
      BY <1>2, <2>1, ReplaceTypes, NoWriteTypes, TableParts
         DEF DoublyStep, Frame, DiskTypes, BInv, TableTypes
  <1>6. BlockTypes'
    BY <1>4, <1>5, KeptTypes DEF DoublyStep, BInv
  <1> QED
    BY <1>0, <1>3, <1>6, TableIsNotNull
       DEF DoublyStep, Frame, Kept, BInv, TablesHeld

\* The singly indirect table names the data block.
LEMMA SinglyStepB == ASSUME BInv, SinglyStep PROVE BInv'
  <1>0. sibp \in Numbers /\ Here \in Nat /\ SinglyIdx(Here) \in 0..PtrCount-1
    BY HereType, Indices DEF SinglyStep, BInv, BlockTypes
  <1>1. sibp[SinglyIdx(Here)] \in Nat
    BY <1>0 DEF Numbers
  <1>2. TableTypes'
    BY <1>1, TableParts DEF SinglyStep, Resolve, TableTypes, tableVars
  <1>3. DiskTypes'
    BY NoWriteTypes DEF SinglyStep, Frame, DiskTypes, BInv
  <1>4. BlockTypes'
    BY <1>2, <1>3, KeptTypes DEF SinglyStep, BInv
  <1> QED
    BY <1>0, <1>4, TableIsNotNull
       DEF SinglyStep, Resolve, Frame, Kept, tableVars, BInv, TablesHeld

\* A fault leaves everything as it is.
LEMMA NullTableB == ASSUME BInv, NullTable PROVE BInv'
  <1>2. TableTypes'
    BY TableParts DEF NullTable, TableTypes, tableVars
  <1>3. DiskTypes'
    BY NoWriteTypes DEF NullTable, Frame, DiskTypes, BInv
  <1>4. BlockTypes'
    BY <1>2, <1>3, KeptTypes DEF NullTable, BInv
  <1> QED
    BY <1>4 DEF NullTable, Frame, Kept, tableVars, BInv, TablesHeld

\* The end of the loop leaves everything as it is.
LEMMA LoopEndB == ASSUME BInv, LoopEnd PROVE BInv'
  <1>2. TableTypes'
    BY TableParts DEF LoopEnd, TableTypes, tableVars
  <1>3. DiskTypes'
    BY NoWriteTypes DEF LoopEnd, Frame, DiskTypes, BInv
  <1>4. BlockTypes'
    BY <1>2, <1>3, KeptTypes DEF LoopEnd, BInv
  <1> QED
    BY <1>4 DEF LoopEnd, Frame, Kept, tableVars, BInv, TablesHeld

\* The bytes that move are named after those already moved.
LEMMA TransferMoved ==
    ASSUME BInv, NEW n \in Nat, Transfer(n)
    PROVE  /\ moved' \in Seq(Nat \X Nat)
           /\ Len(moved') = traversed + n /\ traversed' = traversed + n
           /\ \A k \in 1..traversed : moved'[k] = moved[k]
           /\ \A k \in 1..n :
                 moved'[traversed + k] = <<block, Jank(Here) + k - 1>>
  <1> DEFINE added == [k \in 1..n |-> <<block, Jank(Here) + k - 1>>]
  <1>0. /\ block \in Nat /\ Jank(Here) \in Nat
        /\ moved \in Seq(Nat \X Nat) /\ Len(moved) = traversed
        /\ traversed \in Nat
    <2>1. Here \in Nat
      BY HereType DEF BInv
    <2>2. Jank(Here) \in Nat
      BY <2>1, Indices, Sizes
    <2> QED
      BY <2>2, TableParts DEF BInv, BlockTypes, TypeOK, TableTypes
  <1>1. \A k \in 1..n : <<block, Jank(Here) + k - 1>> \in Nat \X Nat
    BY <1>0
  <1>2. added \in Seq(Nat \X Nat) /\ Len(added) = n
        /\ \A k \in 1..n : added[k] = <<block, Jank(Here) + k - 1>>
    BY <1>1
  <1>3. moved' = moved \o added /\ traversed' = traversed + n
    BY DEF Transfer
  <1> HIDE DEF added
  <1>4. moved' \in Seq(Nat \X Nat) /\ Len(moved') = traversed + n
    BY <1>0, <1>2, <1>3, ConcatProperties
  <1>5. \A k \in 1..traversed : moved'[k] = moved[k]
    BY <1>0, <1>2, <1>3
  <1>6. \A k \in 1..n : moved'[traversed + k] = added[k]
    BY <1>0, <1>2, <1>3
  <1> QED
    BY <1>2, <1>3, <1>4, <1>5, <1>6

\* How much a turn may transfer.
LEMMA DataBound ==
    ASSUME BInv, Data
    PROVE  \E n \in Nat : /\ Transfer(n)
                          /\ n <= size - traversed
                          /\ n <= BlockSize - Jank(Here)
                          /\ failures' \in 0..MaxFailures
                          /\ failures' >= failures
  <1> DEFINE m == Lesser(BlockSize - Jank(Here), size - traversed)
  <1>0. /\ Jank(Here) \in 0..BlockSize-1 /\ BlockSize \in Nat
        /\ size \in Nat /\ traversed \in Nat /\ traversed < size
    BY HereType, Indices, TableParts, Sizes DEF BInv, TablesHeld, Data
  <1>1. m \in Nat /\ m <= size - traversed /\ m <= BlockSize - Jank(Here)
    BY <1>0 DEF Lesser
  <1>2. \/ Transfer(m) /\ UNCHANGED failures
        \/ \E k \in 0..m-1 : Transfer(k) /\ Fails
    BY DEF Data
  <1> HIDE DEF m
  <1>3. CASE Transfer(m) /\ UNCHANGED failures
    <2>1. failures' \in 0..MaxFailures /\ failures' >= failures
      BY <1>3, NoFailType DEF BInv
    <2> QED
      BY <1>1, <1>3, <2>1
  <1>4. CASE \E k \in 0..m-1 : Transfer(k) /\ Fails
    <2>1. PICK k \in 0..m-1 : Transfer(k) /\ Fails
      BY <1>4
    <2>2. failures' \in 0..MaxFailures /\ failures' >= failures
      BY <2>1, FailsType DEF BInv
    <2>3. k \in Nat /\ k <= size - traversed /\ k <= BlockSize - Jank(Here)
      BY <1>0, <1>1
    <2> QED
      BY <2>1, <2>2, <2>3
  <1> QED
    BY <1>2, <1>3, <1>4

\* A turn ends with the bytes transferred added up, never past the request.
LEMMA DataB == ASSUME BInv, Data PROVE BInv'
  <1>1. PICK n \in Nat : /\ Transfer(n) /\ n <= size - traversed
                         /\ failures' \in 0..MaxFailures
    BY DataBound
  <1>2. /\ moved' \in Seq(Nat \X Nat)
        /\ Len(moved') = traversed' /\ traversed' = traversed + n
    BY <1>1, TransferMoved
  <1>3. traversed' \in 0..size'
    BY <1>1, <1>2, TableParts DEF Transfer, Frame
  <1>4. wrote' \in BOOLEAN
    BY <1>1, TableParts DEF Transfer, DiskTypes
  <1>5. /\ disk' \in [Tables' \cup {0, Wild} -> [0..PtrCount-1 -> Int]]
        /\ \A b \in Tables' : disk'[b] \in Numbers
    BY <1>1, TableParts DEF Transfer, DiskTypes, Frame, Tables
  <1>6. BlockTypes'
    BY <1>1, <1>2, <1>3, <1>4, <1>5
       DEF Transfer, Frame, tableVars, BInv, BlockTypes, TypeOK
  <1> QED
    BY <1>1, <1>6 DEF Transfer, Frame, tableVars, BInv, TablesHeld, Data

\* The write back of a table at the label exit.
LEMMA ExitTypes ==
    ASSUME BInv, NEW table \in Numbers \cup {NoTable}, NEW b,
           IF table # NoTable THEN WriteTable(b, table) ELSE NoWrite,
           UNCHANGED file
    PROVE  DiskTypes'
  <1>1. Tables' = Tables
    BY DEF Tables
  <1>2. CASE table # NoTable
    BY <1>1, <1>2, WriteTableType DEF BInv, DiskTypes
  <1>3. CASE table = NoTable
    BY <1>3, NoWriteTypes DEF BInv, DiskTypes
  <1> QED
    BY <1>2, <1>3

\* The triply indirect table leaves memory.
LEMMA ExitTibpB == ASSUME BInv, ExitTibp PROVE BInv'
  <1>1. TableTypes'
    BY TableParts DEF ExitTibp, ExitTable, TableTypes
  <1>2. DiskTypes'
    BY ExitTypes, TableParts DEF ExitTibp, ExitTable, Frame, TableTypes
  <1>3. BlockTypes'
    BY <1>1, <1>2, KeptTypes DEF ExitTibp, ExitTable, BInv
  <1> QED
    BY <1>3 DEF ExitTibp, ExitTable, Frame, Kept, BInv, TablesHeld

\* The doubly indirect table leaves memory.
LEMMA ExitDibpB == ASSUME BInv, ExitDibp PROVE BInv'
  <1>1. TableTypes'
    BY TableParts DEF ExitDibp, ExitTable, TableTypes
  <1>2. DiskTypes'
    BY ExitTypes, TableParts DEF ExitDibp, ExitTable, Frame, TableTypes
  <1>3. BlockTypes'
    BY <1>1, <1>2, KeptTypes DEF ExitDibp, ExitTable, BInv
  <1> QED
    BY <1>3 DEF ExitDibp, ExitTable, Frame, Kept, BInv, TablesHeld

\* The singly indirect table leaves memory, and the call returns.
LEMMA ExitSibpB == ASSUME BInv, ExitSibp PROVE BInv'
  <1>1. TableTypes'
    BY TableParts DEF ExitSibp, ExitTable, TableTypes
  <1>2. DiskTypes'
    BY ExitTypes, TableParts DEF ExitSibp, ExitTable, Frame, TableTypes
  <1>3. BlockTypes'
    BY <1>1, <1>2, KeptTypes DEF ExitSibp, ExitTable, BInv
  <1> QED
    BY <1>3 DEF ExitSibp, ExitTable, Frame, Kept, BInv, TablesHeld

\* Stuttering changes nothing.
LEMMA StutterB == ASSUME BInv, UNCHANGED vars PROVE BInv'
  BY DEF BInv, BlockTypes, TablesHeld, TypeOK, Tables, vars, callVars, tableVars

\* Every step keeps the types and the tables held.
LEMMA BNext == BInv /\ [Next]_vars => BInv'
  <1> SUFFICES ASSUME BInv, [Next]_vars PROVE BInv'
    OBVIOUS
  <1>1. ASSUME NEW r \in Requests, Call(r) PROVE BInv'
    BY <1>1, CallB
  <1>2. CASE Step
    BY <1>2, DirectB, SinglyTableB, DoublyTableB, TriplyTableB, TriplyStepB,
       DoublyStepB, SinglyStepB, NullTableB, DataB, LoopEndB, ExitTibpB,
       ExitDibpB, ExitSibpB, Zenon DEF Step
  <1>3. CASE Finished \/ UNCHANGED vars
    BY <1>3, StutterB DEF Finished
  <1> QED
    BY <1>1, <1>2, <1>3 DEF Next

\* Type correctness: in every behaviour, for every block size, inode and
\* request, the variables keep their types and no call of
\* ext2_traverse_blocks transfers more than was asked for.
THEOREM TypeCorrect == Spec => []TypeOK
  <1>1. BInv => TypeOK
    BY DEF BInv, BlockTypes
  <1> QED
    BY <1>1, BInit, BNext, PTL DEF Spec

----------------------------------------------------------------------------
(* Where the traversal is, by what it holds.  A call only moves forward,   *)
(* so once it has been under the doubly or the triply indirect table it    *)
(* stays there: this is what makes a single pair of "last" variables       *)
(* enough to tell where the tables in memory came from.                    *)

Position ==
    /\ pc \in {"single", "double", "triple"} => BaseIdx(Here) >= 12
    /\ pc = "double" => DoublyIdx(Here) >= 1
    /\ pc = "triple" => DoublyIdx(Here) >= PtrCount + 1
    /\ last_triply # 0 => DoublyIdx(Here) >= PtrCount + 1
    /\ last_doubly # 0 => DoublyIdx(Here) >= 1

\* No step but a call and a transfer moves.
LEMMA HereKept ==
    ASSUME Frame, Kept
    PROVE  Here' = Here /\ file' = file /\ Tables' = Tables /\ node' = node
  BY DEF Frame, Kept, Here, Tables, node

\* Steps under a table know the byte to be beyond the tables above.
LEMMA PositionKept ==
    ASSUME BInv, Position, Frame, Kept, Step
    PROVE  Position'
  <1>0. Here' = Here
    BY HereKept
  <1>1. CASE DirectBlock
    BY <1>0, <1>1 DEF DirectBlock, Resolve, Position, tableVars
  <1>2. CASE SinglyTable
    <2>1. pc' \in {"single", "exit"}
      BY <1>2 DEF SinglyTable, LoadTop
    <2> QED
      BY <1>0, <1>2, <2>1 DEF SinglyTable, Position
  <1>3. CASE DoublyTable
    <2>1. pc' \in {"double", "exit"}
      BY <1>3 DEF DoublyTable, LoadTop
    <2> QED
      BY <1>0, <1>3, <2>1 DEF DoublyTable, Position
  <1>4. CASE TriplyTable
    <2>1. pc' \in {"triple", "exit"}
      BY <1>4 DEF TriplyTable, LoadTop
    <2> QED
      BY <1>0, <1>4, <2>1 DEF TriplyTable, Position
  <1>5. CASE TriplyStep
    <2>1. PtrCount \in Nat /\ DoublyIdx(Here) \in Int
      BY Sizes, HereType, Indices DEF BInv
    <2>2. pc = "triple" /\ pc' \in {"double", "exit"} /\ last_doubly' = last_doubly
      BY <1>5 DEF TriplyStep
    <2> QED
      BY <1>0, <2>1, <2>2 DEF Position
  <1>6. CASE DoublyStep
    BY <1>0, <1>6 DEF DoublyStep, Position
  <1>7. CASE SinglyStep
    BY <1>0, <1>7 DEF SinglyStep, Resolve, Position, tableVars
  <1>8. CASE NullTable \/ LoopEnd
    BY <1>0, <1>8 DEF NullTable, LoopEnd, Position, tableVars
  <1>9. CASE ExitTibp \/ ExitDibp \/ ExitSibp
    BY <1>0, <1>9 DEF ExitTibp, ExitDibp, ExitSibp, ExitTable, Position
  <1>10. CASE Data
    BY <1>0, <1>10 DEF Data, Transfer, Position, tableVars
  <1> QED
    BY <1>1, <1>2, <1>3, <1>4, <1>5, <1>6, <1>7, <1>8, <1>9, <1>10, Zenon
       DEF Step

\* The traversal only moves forward.
LEMMA DataForward ==
    ASSUME BInv, Data
    PROVE  Here \in Nat /\ Here' \in Nat /\ Here <= Here'
  <1>1. PICK n \in Nat : Transfer(n)
    BY DataBound
  <1> QED
    BY <1>1, HereType DEF Transfer, Frame, Here, BInv

\* Every step but Data keeps the place.
LEMMA StepKept ==
    ASSUME Step
    PROVE  Data \/ (Frame /\ Kept)
  <1>1. CASE DirectBlock \/ SinglyTable \/ DoublyTable \/ TriplyTable
    BY <1>1, Zenon DEF DirectBlock, SinglyTable, DoublyTable, TriplyTable
  <1>2. CASE TriplyStep
    BY <1>2, Zenon DEF TriplyStep
  <1>3. CASE DoublyStep
    BY <1>3, Zenon DEF DoublyStep
  <1>4. CASE SinglyStep \/ NullTable \/ LoopEnd
    BY <1>4, Zenon DEF SinglyStep, NullTable, LoopEnd
  <1>5. CASE ExitTibp \/ ExitDibp \/ ExitSibp
    BY <1>5, Zenon DEF ExitTibp, ExitDibp, ExitSibp, ExitTable
  <1>6. CASE Data
    BY <1>6
  <1> QED
    BY <1>1, <1>2, <1>3, <1>4, <1>5, <1>6 DEF Step

\* Every step keeps Position.
LEMMA PositionNext == BInv /\ Position /\ [Next]_vars => Position'
  <1> SUFFICES ASSUME BInv, Position, [Next]_vars PROVE Position'
    OBVIOUS
  <1>1. ASSUME NEW r \in Requests, Call(r) PROVE Position'
    <2>1. pc' \in {"idle", "loop"} /\ last_triply' = 0 /\ last_doubly' = 0
      BY <1>1 DEF Call, BInv, TablesHeld, tableVars
    <2> QED
      BY <2>1 DEF Position
  <1>2. CASE Data
    <2>1. /\ DoublyIdx(Here) <= DoublyIdx(Here')
          /\ DoublyIdx(Here) \in Int /\ DoublyIdx(Here') \in Int
      BY <1>2, DataForward, IndicesMono, Indices
    <2>2. /\ pc' = "loop" /\ last_triply' = last_triply
          /\ last_doubly' = last_doubly
      BY <1>2 DEF Data, Transfer, tableVars
    <2> QED
      BY <2>1, <2>2, Sizes DEF Position
  <1>3. CASE Step /\ Frame /\ Kept
    BY <1>3, PositionKept
  <1>4. CASE Finished \/ UNCHANGED vars
    BY <1>4 DEF Position, Finished, vars, callVars, tableVars, Here
  <1> QED
    BY <1>1, <1>2, <1>3, <1>4, StepKept, Zenon DEF Next

----------------------------------------------------------------------------
(* The tables in memory are the ones the inode has.                        *)

\* What entry k of the table in block b of file f names; 0 below a hole.
Entry(f, b, k) == IF b = 0 THEN 0 ELSE f.tables[b][k]

DoublyOf(f, n) == IF DoublyIdx(n) > PtrCount
                  THEN Entry(f, f.node.tibp, InTibp(n)) ELSE f.node.dibp
SinglyOf(f, n) == IF DoublyIdx(n) = 0
                  THEN f.node.sibp ELSE Entry(f, DoublyOf(f, n), InDibp(n))
BlockOf(f, n)  == IF BaseIdx(n) < 12
                  THEN f.node.dbp[BaseIdx(n)]
                  ELSE Entry(f, SinglyOf(f, n), SinglyIdx(n))

\* The blocks dibp and sibp go back to at the label exit.
DSource == IF last_triply = 0 THEN file.node.dibp ELSE last_triply
SSource == IF last_doubly = 0 THEN file.node.sibp ELSE last_doubly

\* Each table in memory is the one of the block it goes back to, and the
\* traversal has followed the tables of the byte it looks for.
TablesTrue ==
    /\ disk = Formatted(file)
    /\ tibp # NoTable => /\ file.node.tibp \in Tables
                         /\ tibp = file.tables[file.node.tibp]
    /\ dibp # NoTable => /\ DSource \in Tables
                         /\ dibp = file.tables[DSource]
                         /\ \A k \in 0..PtrCount-1 : dibp[k] \in Tables \cup {0}
    /\ sibp # NoTable => SSource \in Tables /\ sibp = file.tables[SSource]
    /\ pc = "double" => DSource = DoublyOf(file, Here) /\ DSource # 0
    /\ pc = "single" => SSource = SinglyOf(file, Here) /\ SSource # 0
    /\ pc = "data"   => block = BlockOf(file, Here) /\ block # 0

\* When the traversal leaves early, or has left, there is a reason.
ShortReason ==
    pc \in {"exit", "exitD", "exitS", "idle"} /\ traversed < size =>
        \/ BlockOf(file, Here) = 0
        \/ failures > 0
        \/ op = "write" /\ ~enabled

CacheInv == ~torn => TablesTrue /\ ShortReason

CInv == BInv /\ Position /\ CacheInv

\* UncachedBlock is BlockOf of the file of the behaviour.
LEMMA UncachedIs == ASSUME NEW n PROVE UncachedBlock(n) = BlockOf(file, n)
  BY DEF UncachedBlock, BlockOf, SinglyOf, DoublyOf, Entry, node

\* What an intact partition holds.
LEMMA IntactDisk ==
    ASSUME BInv, disk = Formatted(file)
    PROVE  /\ \A b \in Tables : disk[b] = file.tables[b]
           /\ file.node.tibp # 0 => file.node.tibp \in Tables
           /\ file.node.dibp # 0 => file.node.dibp \in Tables
           /\ file.node.sibp # 0 => file.node.sibp \in Tables
           /\ 0 \notin Tables
  BY FileShape DEF Formatted, Tables, BInv, BlockTypes, TypeOK, node

\* A table that goes back to where it came from changes nothing.
LEMMA WriteBack ==
    ASSUME BInv, disk = Formatted(file), NEW b \in Tables,
           WriteTable(b, file.tables[b])
    PROVE  disk' = disk
  <1>1. disk[b] = file.tables[b] /\ b \in DOMAIN disk
    BY IntactDisk DEF BInv, BlockTypes
  <1>2. [disk EXCEPT ![b] = file.tables[b]] = disk
    BY <1>1 DEF BInv, BlockTypes
  <1> QED
    BY <1>2 DEF WriteTable

\* At first nothing is in memory.
LEMMA CacheInit == Init => CacheInv
  BY DEF Init, CacheInv, TablesTrue, ShortReason

\* The inode's own table, just loaded, is the table of its block.
LEMMA LoadTopTrue ==
    ASSUME BInv, disk = Formatted(file), NEW b \in Tables \cup {0},
           NEW old \in Numbers \cup {NoTable}, NEW new, NEW next, next # "exit",
           LoadTop(b, old, new, next), ~torn', old = NoTable, new # NoTable
    PROVE  b \in Tables /\ new = file.tables[b]
  <1>1. b # 0 /\ new \in IF b \in Tables THEN {disk[b]} ELSE Garbage
    BY LoadTopType DEF BInv
  <1> QED
    BY <1>1, IntactDisk

\* A call begins: the tables of the last one are gone.
LEMMA CallC == ASSUME CInv, NEW r \in Requests, Call(r) PROVE CacheInv'
  <1> SUFFICES ASSUME ~torn' PROVE TablesTrue' /\ ShortReason'
    BY DEF CacheInv
  <1>1. ~torn /\ TablesTrue
    BY DEF Call, CInv, CacheInv
  <1>2. /\ tibp' = NoTable /\ dibp' = NoTable /\ sibp' = NoTable
        /\ pc' \in {"idle", "loop"} /\ disk' = disk /\ file' = file
    BY DEF Call, CInv, BInv, TablesHeld, tableVars
  <1>3. TablesTrue'
    BY <1>1, <1>2 DEF TablesTrue
  <1>4. ShortReason'
    <2>1. traversed' = 0 /\ size' = r.size /\ op' = r.op /\ enabled' = enabled
      BY DEF Call
    <2>2. pc' = "idle" => r.size = 0 \/ (r.op = "write" /\ ~enabled)
      BY DEF Call
    <2> QED
      BY <1>2, <2>1, <2>2 DEF ShortReason
  <1> QED
    BY <1>3, <1>4

\* The parts of a step that leaves the tables in memory alone.
LEMMA TablesKept ==
    ASSUME TablesTrue, Frame, NoWrite, UNCHANGED tableVars,
           pc' \notin {"double", "single", "data"}
    PROVE  TablesTrue'
  BY DEF TablesTrue, Frame, NoWrite, tableVars, DSource, SSource, Tables

\* The inode names the block itself.
LEMMA DirectC == ASSUME CInv, DirectBlock PROVE CacheInv'
  <1> SUFFICES ASSUME ~torn' PROVE TablesTrue' /\ ShortReason'
    BY DEF CacheInv
  <1>1. ~torn /\ TablesTrue
    BY DEF DirectBlock, CInv, CacheInv
  <1>2. Here' = Here /\ file' = file /\ Tables' = Tables
    BY HereKept DEF DirectBlock
  <1>3. block' = BlockOf(file, Here)
    BY DEF DirectBlock, Resolve, BlockOf, node
  <1>4. TablesTrue'
    BY <1>1, <1>2, <1>3
       DEF TablesTrue, DirectBlock, Resolve, NoWrite, tableVars, DSource, SSource
  <1>5. ShortReason'
    BY <1>2, <1>3 DEF ShortReason, DirectBlock, Resolve
  <1> QED
    BY <1>4, <1>5

\* The singly indirect table of the inode is in memory, or comes there.
LEMMA SinglyTableC == ASSUME CInv, SinglyTable PROVE CacheInv'
  <1> SUFFICES ASSUME ~torn' PROVE TablesTrue' /\ ShortReason'
    BY DEF CacheInv
  <1> PICK next : next = "single" /\ LoadTop(node.sibp, sibp, sibp', next)
    BY DEF SinglyTable
  <1>0. BInv /\ BlockTypes /\ sibp \in Numbers \cup {NoTable} /\ next # "exit"
    BY DEF CInv, BInv, BlockTypes
  <1>1. /\ (pc' = next /\ sibp' # NoTable) \/ pc' = "exit"
        /\ sibp # NoTable => sibp' = sibp
        /\ torn => torn'
        /\ pc' = "exit" => failures' > 0
    BY <1>0, LoadTopType, Zenon
  <1>2. ~torn /\ TablesTrue
    BY <1>1 DEF CInv, CacheInv
  <1>3. Here' = Here /\ file' = file /\ Tables' = Tables /\ Here \in Nat
    BY <1>0, HereKept, HereType DEF SinglyTable
  <1>4. last_doubly = 0
    BY <1>3, Indices DEF SinglyTable, CInv, Position
  <1>5. sibp' # NoTable => /\ node.sibp \in Tables
                           /\ sibp' = file.tables[node.sibp]
    <2>1. CASE sibp # NoTable
      BY <1>1, <1>2, <1>4, <2>1 DEF TablesTrue, SSource, node
    <2>2. CASE sibp = NoTable /\ sibp' # NoTable
      <3>1. node.sibp \in Tables \cup {0} /\ disk = Formatted(file)
        BY <1>0, <1>2, FileShape DEF TypeOK, BlockTypes, TablesTrue
      <3> QED
        BY <1>0, <2>2, <3>1, LoadTopTrue, Zenon
    <2> QED
      BY <2>1, <2>2
  <1>6. node.sibp \in Tables => node.sibp # 0
    BY <1>0, <1>2, IntactDisk DEF TablesTrue
  <1>7. SinglyOf(file, Here) = node.sibp /\ SSource = node.sibp
        /\ SSource' = node.sibp
    BY <1>3, <1>4 DEF SinglyTable, SinglyOf, SSource, node
  <1>8. TablesTrue'
    BY <1>1, <1>2, <1>3, <1>5, <1>6, <1>7
       DEF TablesTrue, SinglyTable, NoWrite, DSource
  <1>9. ShortReason'
    BY <1>1 DEF ShortReason
  <1> QED
    BY <1>8, <1>9

\* The doubly indirect table of the inode is in memory, or comes there.
LEMMA DoublyTableC == ASSUME CInv, DoublyTable PROVE CacheInv'
  <1> SUFFICES ASSUME ~torn' PROVE TablesTrue' /\ ShortReason'
    BY DEF CacheInv
  <1> PICK next : next = "double" /\ LoadTop(node.dibp, dibp, dibp', next)
    BY DEF DoublyTable
  <1>0. BInv /\ BlockTypes /\ dibp \in Numbers \cup {NoTable} /\ next # "exit"
    BY DEF CInv, BInv, BlockTypes
  <1>1. /\ (pc' = next /\ dibp' # NoTable) \/ pc' = "exit"
        /\ dibp # NoTable => dibp' = dibp
        /\ torn => torn'
        /\ pc' = "exit" => failures' > 0
    BY <1>0, LoadTopType, Zenon
  <1>2. ~torn /\ TablesTrue
    BY <1>1 DEF CInv, CacheInv
  <1>3. Here' = Here /\ file' = file /\ Tables' = Tables /\ Here \in Nat
    BY <1>0, HereKept, HereType DEF DoublyTable
  <1>4. last_triply = 0
    BY <1>3, Indices, Sizes DEF DoublyTable, CInv, Position
  <1>5. dibp' # NoTable => /\ node.dibp \in Tables
                           /\ dibp' = file.tables[node.dibp]
    <2>1. CASE dibp # NoTable
      BY <1>1, <1>2, <1>4, <2>1 DEF TablesTrue, DSource, node
    <2>2. CASE dibp = NoTable /\ dibp' # NoTable
      <3>1. node.dibp \in Tables \cup {0} /\ disk = Formatted(file)
        BY <1>0, <1>2, FileShape DEF TypeOK, BlockTypes, TablesTrue
      <3> QED
        BY <1>0, <2>2, <3>1, LoadTopTrue, Zenon
    <2> QED
      BY <2>1, <2>2
  <1>6. node.dibp \in Tables =>
           /\ node.dibp # 0
           /\ \A k \in 0..PtrCount-1 :
                 file.tables[node.dibp][k] \in Tables \cup {0}
    BY <1>0, FileShape DEF TypeOK, BlockTypes
  <1>7. DoublyOf(file, Here) = node.dibp /\ DSource' = node.dibp
    BY <1>3, <1>4, Indices, Sizes DEF DoublyTable, DoublyOf, DSource, node
  <1>8. TablesTrue'
    BY <1>1, <1>2, <1>3, <1>5, <1>6, <1>7
       DEF TablesTrue, DoublyTable, NoWrite, SSource
  <1>9. ShortReason'
    BY <1>1 DEF ShortReason
  <1> QED
    BY <1>8, <1>9

\* The triply indirect table of the inode is in memory, or comes there.
LEMMA TriplyTableC == ASSUME CInv, TriplyTable PROVE CacheInv'
  <1> SUFFICES ASSUME ~torn' PROVE TablesTrue' /\ ShortReason'
    BY DEF CacheInv
  <1> PICK next : next = "triple" /\ LoadTop(node.tibp, tibp, tibp', next)
    BY DEF TriplyTable
  <1>0. BInv /\ BlockTypes /\ tibp \in Numbers \cup {NoTable} /\ next # "exit"
    BY DEF CInv, BInv, BlockTypes
  <1>1. /\ (pc' = next /\ tibp' # NoTable) \/ pc' = "exit"
        /\ tibp # NoTable => tibp' = tibp
        /\ torn => torn'
        /\ pc' = "exit" => failures' > 0
    BY <1>0, LoadTopType, Zenon
  <1>2. ~torn /\ TablesTrue
    BY <1>1 DEF CInv, CacheInv
  <1>3. Here' = Here /\ file' = file /\ Tables' = Tables
    BY HereKept DEF TriplyTable
  <1>5. tibp' # NoTable => /\ node.tibp \in Tables
                           /\ tibp' = file.tables[node.tibp]
    <2>1. CASE tibp # NoTable
      BY <1>1, <1>2, <2>1 DEF TablesTrue, node
    <2>2. CASE tibp = NoTable /\ tibp' # NoTable
      <3>1. node.tibp \in Tables \cup {0} /\ disk = Formatted(file)
        BY <1>0, <1>2, FileShape DEF TypeOK, BlockTypes, TablesTrue
      <3> QED
        BY <1>0, <2>2, <3>1, LoadTopTrue, Zenon
    <2> QED
      BY <2>1, <2>2
  <1>8. TablesTrue'
    BY <1>1, <1>2, <1>3, <1>5
       DEF TablesTrue, TriplyTable, NoWrite, SSource, DSource, node
  <1>9. ShortReason'
    BY <1>1 DEF ShortReason
  <1> QED
    BY <1>8, <1>9

\* A lower table that replaces another is the table of its block.
LEMMA LoadInnerTrue ==
    ASSUME BInv, disk = Formatted(file), NEW b \in Tables,
           NEW old \in Numbers \cup {NoTable}, NEW new,
           LoadInner(b, old, new), ~torn', new # NoTable
    PROVE  new = file.tables[b]
  <1>1. new \in IF b \in Tables THEN {disk[b]} ELSE Garbage
    BY LoadInnerType DEF BInv
  <1> QED
    BY <1>1, IntactDisk

\* Before a lower table is replaced it goes back to where it came from.
LEMMA ReplaceBack ==
    ASSUME BInv, disk = Formatted(file), NEW last, NEW table,
           last # 0 => last \in Tables /\ table = file.tables[last],
           IF last # 0 THEN WriteTable(last, table) ELSE NoWrite
    PROVE  disk' = disk
  <1>1. CASE last # 0
    BY <1>1, WriteBack
  <1>2. CASE last = 0
    BY <1>2 DEF NoWrite
  <1> QED
    BY <1>1, <1>2

\* From the triply indirect table to the table of doubly indirect blocks
\* that the byte belongs to.
LEMMA TriplyStepC == ASSUME CInv, TriplyStep PROVE CacheInv'
  <1> SUFFICES ASSUME ~torn' PROVE TablesTrue' /\ ShortReason'
    BY DEF CacheInv
  <1> DEFINE b == tibp[InTibp(Here)]
  <1>0. /\ BInv /\ BlockTypes /\ dibp \in Numbers \cup {NoTable}
        /\ pc = "triple" /\ tibp # NoTable /\ Here \in Nat
        /\ InTibp(Here) \in 0..PtrCount-1 /\ DoublyIdx(Here) \in Int
        /\ PtrCount \in Nat
    BY HereType, Indices, Sizes
       DEF CInv, BInv, BlockTypes, TriplyStep, TablesHeld
  <1>1. \/ /\ b = 0 /\ pc' = "exit" /\ UNCHANGED <<dibp, last_triply, torn>>
           /\ disk' = disk
        \/ /\ b # 0 /\ b = last_triply /\ pc' = "double" /\ disk' = disk
           /\ UNCHANGED <<dibp, last_triply, torn>>
        \/ /\ b # 0 /\ pc' = "double" /\ last_triply' = b
           /\ IF last_triply # 0 THEN WriteTable(last_triply, dibp)
                                 ELSE NoWrite
           /\ LoadInner(b, dibp, dibp')
    BY DEF TriplyStep, NoWrite
  <1>2. ~torn /\ TablesTrue
    <2>1. torn => torn'
      BY <1>0, <1>1, LoadInnerType
    <2> QED
      BY <2>1 DEF CInv, CacheInv
  <1>3. Here' = Here /\ file' = file /\ Tables' = Tables
    BY HereKept DEF TriplyStep
  <1>4. DoublyIdx(Here) > PtrCount /\ BaseIdx(Here) >= 12
    BY <1>0 DEF CInv, Position
  <1>5. node.tibp \in Tables /\ node.tibp # 0 /\ tibp = file.tables[node.tibp]
    BY <1>0, <1>2, IntactDisk DEF TablesTrue, node
  <1>6. b = DoublyOf(file, Here)
    BY <1>4, <1>5 DEF DoublyOf, Entry, node
  <1>7. b # 0 => /\ b \in Tables
                 /\ \A k \in 0..PtrCount-1 : file.tables[b][k] \in Tables \cup {0}
    <2>1. file \in Files
      BY <1>0 DEF BlockTypes, TypeOK
    <2> QED
      BY <1>0, <1>5, <2>1, FileShape
  <1> HIDE DEF b
  <1>8. disk' = disk
    <2>1. last_triply # 0 => /\ last_triply \in Tables
                             /\ dibp = file.tables[last_triply]
      BY <1>0, <1>2 DEF TablesTrue, DSource, BInv, TablesHeld
    <2> QED
      BY <1>0, <1>1, <1>2, <2>1, ReplaceBack DEF TablesTrue
  <1>9. dibp' # NoTable =>
           /\ DSource' \in Tables /\ dibp' = file.tables[DSource']
           /\ \A k \in 0..PtrCount-1 : dibp'[k] \in Tables \cup {0}
    <2>1. CASE dibp' = dibp /\ last_triply' = last_triply
      BY <1>2, <1>3, <2>1 DEF TablesTrue, DSource
    <2>2. CASE b # 0 /\ last_triply' = b /\ LoadInner(b, dibp, dibp')
      <3>1. DSource' = b
        BY <2>2 DEF DSource
      <3>2. dibp' # NoTable => dibp' = file.tables[b]
        BY <1>0, <1>2, <1>7, <2>2, LoadInnerTrue DEF TablesTrue
      <3> QED
        BY <1>7, <2>2, <3>1, <3>2
    <2> QED
      BY <1>1, <2>1, <2>2
  <1>10. pc' = "double" => DSource' = b /\ b # 0
    BY <1>1, <1>3 DEF DSource
  <1>11. TablesTrue'
    <2>1. pc' \in {"exit", "double"} /\ tibp' = tibp /\ sibp' = sibp
          /\ last_doubly' = last_doubly
      BY <1>1 DEF TriplyStep
    <2>2. SSource' = SSource
      BY <1>3, <2>1 DEF SSource
    <2> QED
      BY <1>2, <1>3, <1>6, <1>8, <1>9, <1>10, <2>1, <2>2 DEF TablesTrue
  <1>12. ShortReason'
    <2>1. pc' = "exit" => b = 0
      BY <1>1
    <2>2. b = 0 => BlockOf(file, Here) = 0
      <3>1. ~(BaseIdx(Here) < 12) /\ DoublyIdx(Here) # 0
        BY <1>0, <1>4, Indices
      <3> QED
        BY <1>6, <3>1 DEF BlockOf, SinglyOf, Entry
    <2>3. pc' \in {"exit", "double"}
      BY <1>1
    <2> QED
      BY <1>3, <2>1, <2>2, <2>3 DEF ShortReason
  <1> QED
    BY <1>11, <1>12

\* From the doubly indirect table to the table of data blocks that the byte
\* belongs to.
LEMMA DoublyStepC == ASSUME CInv, DoublyStep PROVE CacheInv'
  <1> SUFFICES ASSUME ~torn' PROVE TablesTrue' /\ ShortReason'
    BY DEF CacheInv
  <1> DEFINE b == dibp[InDibp(Here)]
  <1>0. /\ BInv /\ BlockTypes /\ sibp \in Numbers \cup {NoTable}
        /\ pc = "double" /\ dibp # NoTable /\ Here \in Nat
        /\ InDibp(Here) \in 0..PtrCount-1 /\ DoublyIdx(Here) \in Int
    BY HereType, Indices, Sizes
       DEF CInv, BInv, BlockTypes, DoublyStep
  <1>1. \/ /\ b = 0 /\ pc' = "exit" /\ UNCHANGED <<sibp, last_doubly, torn>>
           /\ disk' = disk
        \/ /\ b # 0 /\ b = last_doubly /\ pc' = "single" /\ disk' = disk
           /\ UNCHANGED <<sibp, last_doubly, torn>>
        \/ /\ b # 0 /\ pc' = "single" /\ last_doubly' = b
           /\ IF last_doubly # 0 THEN WriteTable(last_doubly, sibp)
                                 ELSE NoWrite
           /\ LoadInner(b, sibp, sibp')
    BY DEF DoublyStep, NoWrite
  <1>2. ~torn /\ TablesTrue
    <2>1. torn => torn'
      BY <1>0, <1>1, LoadInnerType
    <2> QED
      BY <2>1 DEF CInv, CacheInv
  <1>3. Here' = Here /\ file' = file /\ Tables' = Tables
    BY HereKept DEF DoublyStep
  <1>4. ~(BaseIdx(Here) < 12) /\ DoublyIdx(Here) # 0
    BY <1>0, Indices DEF CInv, Position
  <1>5. b = SinglyOf(file, Here)
    BY <1>0, <1>2, <1>4 DEF TablesTrue, SinglyOf, Entry
  <1>6. b # 0 => b \in Tables
    BY <1>0, <1>2 DEF TablesTrue
  <1> HIDE DEF b
  <1>7. disk' = disk
    <2>1. last_doubly # 0 => /\ last_doubly \in Tables
                             /\ sibp = file.tables[last_doubly]
      BY <1>0, <1>2 DEF TablesTrue, SSource, BInv, TablesHeld
    <2> QED
      BY <1>0, <1>1, <1>2, <2>1, ReplaceBack DEF TablesTrue
  <1>8. sibp' # NoTable => SSource' \in Tables /\ sibp' = file.tables[SSource']
    <2>1. CASE sibp' = sibp /\ last_doubly' = last_doubly
      BY <1>2, <1>3, <2>1 DEF TablesTrue, SSource
    <2>2. CASE b # 0 /\ last_doubly' = b /\ LoadInner(b, sibp, sibp')
      <3>1. SSource' = b
        BY <2>2 DEF SSource
      <3>2. sibp' # NoTable => sibp' = file.tables[b]
        BY <1>0, <1>2, <1>6, <2>2, LoadInnerTrue DEF TablesTrue
      <3> QED
        BY <1>6, <2>2, <3>1, <3>2
    <2> QED
      BY <1>1, <2>1, <2>2
  <1>9. pc' = "single" => SSource' = b /\ b # 0
    BY <1>1, <1>3 DEF SSource
  <1>10. TablesTrue'
    <2>1. pc' \in {"exit", "single"} /\ tibp' = tibp /\ dibp' = dibp
          /\ last_triply' = last_triply
      BY <1>1 DEF DoublyStep
    <2>2. DSource' = DSource
      BY <1>3, <2>1 DEF DSource
    <2> QED
      BY <1>2, <1>3, <1>5, <1>7, <1>8, <1>9, <2>1, <2>2 DEF TablesTrue
  <1>11. ShortReason'
    <2>1. pc' = "exit" => b = 0
      BY <1>1
    <2>2. b = 0 => BlockOf(file, Here) = 0
      BY <1>4, <1>5 DEF BlockOf, Entry
    <2>3. pc' \in {"exit", "single"}
      BY <1>1
    <2> QED
      BY <1>3, <2>1, <2>2, <2>3 DEF ShortReason
  <1> QED
    BY <1>10, <1>11

\* The singly indirect table of the byte names its data block.
LEMMA SinglyStepC == ASSUME CInv, SinglyStep PROVE CacheInv'
  <1> SUFFICES ASSUME ~torn' PROVE TablesTrue' /\ ShortReason'
    BY DEF CacheInv
  <1>0. BInv /\ Here \in Nat /\ pc = "single" /\ sibp # NoTable
    BY HereType DEF CInv, BInv, SinglyStep
  <1>1. ~torn /\ TablesTrue
    BY DEF SinglyStep, CInv, CacheInv
  <1>2. Here' = Here /\ file' = file /\ Tables' = Tables
    BY HereKept DEF SinglyStep
  <1>3. ~(BaseIdx(Here) < 12)
    BY <1>0, Indices DEF CInv, Position
  <1>4. block' = BlockOf(file, Here)
    BY <1>0, <1>1, <1>3 DEF SinglyStep, Resolve, BlockOf, Entry, TablesTrue
  <1>5. TablesTrue'
    BY <1>1, <1>2, <1>4
       DEF TablesTrue, SinglyStep, Resolve, NoWrite, tableVars, DSource, SSource
  <1>6. ShortReason'
    BY <1>2, <1>4 DEF ShortReason, SinglyStep, Resolve
  <1> QED
    BY <1>5, <1>6

\* A fault, or the end of the loop.
LEMMA QuietC == ASSUME CInv, NullTable \/ LoopEnd PROVE CacheInv'
  <1> SUFFICES ASSUME ~torn' PROVE TablesTrue' /\ ShortReason'
    BY DEF CacheInv
  <1>1. ~torn /\ TablesTrue
    BY DEF NullTable, LoopEnd, CInv, CacheInv
  <1>2. TablesTrue'
    BY <1>1, TablesKept DEF NullTable, LoopEnd
  <1>3. ShortReason'
    BY TableParts DEF NullTable, LoopEnd, ShortReason, Frame, Kept, CInv
  <1> QED
    BY <1>2, <1>3

\* A transfer leaves the tables alone.
LEMMA DataC == ASSUME CInv, Data PROVE CacheInv'
  <1> SUFFICES ASSUME ~torn' PROVE TablesTrue' /\ ShortReason'
    BY DEF CacheInv
  <1>1. PICK n \in Nat : Transfer(n)
    BY DataBound DEF CInv
  <1>2. ~torn /\ TablesTrue
    BY <1>1 DEF Transfer, CInv, CacheInv
  <1>3. TablesTrue'
    BY <1>1, <1>2 DEF TablesTrue, Transfer, Frame, tableVars, DSource, SSource,
                      Tables
  <1>4. ShortReason'
    BY <1>1 DEF Transfer, ShortReason
  <1> QED
    BY <1>3, <1>4

\* At the label exit a table goes back to where it came from.
LEMMA ExitBack ==
    ASSUME BInv, disk = Formatted(file), NEW b, NEW table,
           table # NoTable => b \in Tables /\ table = file.tables[b],
           IF table # NoTable THEN WriteTable(b, table) ELSE NoWrite
    PROVE  disk' = disk
  <1>1. CASE table # NoTable
    BY <1>1, WriteBack
  <1>2. CASE table = NoTable
    BY <1>2 DEF NoWrite
  <1> QED
    BY <1>1, <1>2

\* The reason to leave early stays the reason.
LEMMA ReasonKept ==
    ASSUME ShortReason, Frame, Kept, UNCHANGED failures,
           pc \in {"exit", "exitD", "exitS"}
    PROVE  ShortReason'
  BY HereKept DEF ShortReason, Frame, Kept

\* The triply indirect table goes back.
LEMMA ExitTibpC == ASSUME CInv, ExitTibp PROVE CacheInv'
  <1> SUFFICES ASSUME ~torn' PROVE TablesTrue' /\ ShortReason'
    BY DEF CacheInv
  <1>1. ~torn /\ TablesTrue /\ ShortReason /\ BInv
    BY DEF ExitTibp, ExitTable, CInv, CacheInv
  <1>2. disk' = disk
    BY <1>1, ExitBack DEF ExitTibp, ExitTable, TablesTrue, node
  <1>3. TablesTrue'
    BY <1>1, <1>2 DEF TablesTrue, ExitTibp, ExitTable, Frame, DSource, SSource,
                      Tables
  <1>4. ShortReason'
    BY <1>1, ReasonKept DEF ExitTibp, ExitTable
  <1> QED
    BY <1>3, <1>4

\* The doubly indirect table goes back, under the triply indirect one or
\* under the inode.
LEMMA ExitDibpC == ASSUME CInv, ExitDibp PROVE CacheInv'
  <1> SUFFICES ASSUME ~torn' PROVE TablesTrue' /\ ShortReason'
    BY DEF CacheInv
  <1>1. ~torn /\ TablesTrue /\ ShortReason /\ BInv
    BY DEF ExitDibp, ExitTable, CInv, CacheInv
  <1>2. disk' = disk
    BY <1>1, ExitBack DEF ExitDibp, ExitTable, TablesTrue, node, DSource
  <1>3. TablesTrue'
    BY <1>1, <1>2 DEF TablesTrue, ExitDibp, ExitTable, Frame, SSource, Tables
  <1>4. ShortReason'
    BY <1>1, ReasonKept DEF ExitDibp, ExitTable
  <1> QED
    BY <1>3, <1>4

\* The singly indirect table goes back, under the doubly indirect one or
\* under the inode.
LEMMA ExitSibpC == ASSUME CInv, ExitSibp PROVE CacheInv'
  <1> SUFFICES ASSUME ~torn' PROVE TablesTrue' /\ ShortReason'
    BY DEF CacheInv
  <1>1. ~torn /\ TablesTrue /\ ShortReason /\ BInv
    BY DEF ExitSibp, ExitTable, CInv, CacheInv
  <1>2. disk' = disk
    BY <1>1, ExitBack DEF ExitSibp, ExitTable, TablesTrue, node, SSource
  <1>3. TablesTrue'
    BY <1>1, <1>2 DEF TablesTrue, ExitSibp, ExitTable, Frame, DSource, Tables
  <1>4. ShortReason'
    BY <1>1, ReasonKept DEF ExitSibp, ExitTable
  <1> QED
    BY <1>3, <1>4

\* Stuttering changes nothing.
LEMMA StutterC == ASSUME CInv, UNCHANGED vars PROVE CacheInv'
  BY DEF CInv, CacheInv, TablesTrue, ShortReason, DSource, SSource, Tables,
         Here, vars, callVars, tableVars

\* CInv is inductive.
LEMMA CNext == CInv /\ [Next]_vars => CInv'
  <1> SUFFICES ASSUME CInv, [Next]_vars PROVE CInv'
    OBVIOUS
  <1>1. BInv' /\ Position'
    BY BNext, PositionNext DEF CInv
  <1>2. ASSUME NEW r \in Requests, Call(r) PROVE CacheInv'
    BY <1>2, CallC
  <1>3. ASSUME Step PROVE CacheInv'
    BY <1>3, DirectC, SinglyTableC, DoublyTableC, TriplyTableC, TriplyStepC,
       DoublyStepC, SinglyStepC, QuietC, DataC, ExitTibpC, ExitDibpC, ExitSibpC,
       Zenon DEF Step
  <1>4. ASSUME Finished \/ UNCHANGED vars PROVE CacheInv'
    BY <1>4, StutterC DEF Finished
  <1> QED
    BY <1>1, <1>2, <1>3, <1>4 DEF Next, CInv

\* In every reachable state the tables in memory are those of the inode.
THEOREM CInvariance == Spec => []CInv
  <1>1. Init => CInv
    <2>1. Init => Position
      BY DEF Init, Position
    <2> QED
      BY <2>1, BInit, CacheInit DEF CInv
  <1> QED
    BY <1>1, CNext, PTL DEF Spec

\* Writing the tables back at the label exit, and before a lower table is
\* replaced, never changes the partition: for every inode, every path and
\* every transfer that fails unnoticed, unless a table was not filled.
THEOREM TablesStayIntact == Spec => []TablesIntact
  <1>1. CInv => TablesIntact
    BY DEF CInv, CacheInv, TablesTrue, TablesIntact
  <1> QED
    BY <1>1, CInvariance, PTL

\* A call that returns short has met an unmapped block, a failure, or a
\* partition that is not write enabled.
THEOREM ShortHasReason == Spec => []ShortOnlyAtHole
  <1>1. CInv => ShortOnlyAtHole
    <2> SUFFICES ASSUME CInv, pc = "idle", ~torn, traversed < size
                 PROVE  \/ UncachedBlock(offset + traversed) = 0
                        \/ failures > 0
                        \/ op = "write" /\ ~enabled
      BY DEF ShortOnlyAtHole
    <2>1. Here = offset + traversed
      BY HereType DEF CInv, BInv, Here
    <2> QED
      BY <2>1, UncachedIs DEF CInv, CacheInv, ShortReason
  <1> QED
    BY <1>1, CInvariance, PTL

----------------------------------------------------------------------------
(* The places of the bytes.                                                *)

\* The byte k of the buffer is the byte offset + k - 1 of the file.
MovedInv ==
    ~torn => \A k \in 1..traversed :
                 LET n == offset + k - 1 IN
                 /\ moved[k] = <<BlockOf(file, n), Jank(n)>>
                 /\ BlockOf(file, n) # 0

\* The bytes of one block of the file are in one block of the partition.
LEMMA SameBlockOf ==
    ASSUME NEW f, NEW n, NEW m, BaseIdx(n) = BaseIdx(m)
    PROVE  BlockOf(f, n) = BlockOf(f, m)
  BY DEF BlockOf, SinglyOf, DoublyOf, SinglyIdx, InDibp, InTibp, DoublyIdx,
         TriplyIdx

\* A transfer puts the next bytes where the file keeps them.
LEMMA DataMoved == ASSUME CInv, MovedInv, Data PROVE MovedInv'
  <1> SUFFICES ASSUME ~torn', NEW k \in 1..traversed'
               PROVE  LET n == offset' + k - 1 IN
                      /\ moved'[k] = <<BlockOf(file', n), Jank(n)>>
                      /\ BlockOf(file', n) # 0
    BY DEF MovedInv
  <1>1. PICK n \in Nat : Transfer(n) /\ n <= BlockSize - Jank(Here)
    BY DataBound DEF CInv
  <1>2. /\ traversed' = traversed + n
        /\ \A j \in 1..traversed : moved'[j] = moved[j]
        /\ \A j \in 1..n : moved'[traversed + j] = <<block, Jank(Here) + j - 1>>
    BY <1>1, TransferMoved DEF CInv
  <1>3. ~torn /\ TablesTrue /\ file' = file /\ offset' = offset
    BY <1>1 DEF Transfer, Frame, CInv, CacheInv
  <1>4. traversed \in Nat /\ offset \in Nat /\ Here \in Nat
    BY HereType DEF CInv, BInv
  <1>5. CASE k \in 1..traversed
    BY <1>2, <1>3, <1>5 DEF MovedInv
  <1>6. CASE k \notin 1..traversed
    <2>1. PICK j \in 1..n : k = traversed + j
      <3>1. k - traversed \in 1..n /\ k = traversed + (k - traversed)
        BY <1>1, <1>2, <1>4, <1>6
      <3> QED
        BY <3>1
    <2>2. /\ j - 1 \in Nat /\ offset + k - 1 = Here + (j - 1)
          /\ BlockSize \in Nat /\ Jank(Here) \in Nat
      BY <1>1, <1>4, <2>1, Indices, Sizes DEF Here
    <2>3. j - 1 < BlockSize - Jank(Here)
      BY <1>1, <2>1, <2>2
    <2>4. /\ BaseIdx(Here + (j - 1)) = BaseIdx(Here)
          /\ Jank(Here + (j - 1)) = Jank(Here) + (j - 1)
      BY <1>4, <2>2, <2>3, SameBlock
    <2>5. BlockOf(file, Here + (j - 1)) = BlockOf(file, Here)
      BY <2>4, SameBlockOf
    <2>6. block = BlockOf(file, Here) /\ block # 0
      BY <1>3 DEF TablesTrue, Data
    <2>7. Jank(Here) + j - 1 = Jank(Here) + (j - 1)
      BY <2>1, <2>2
    <2>8. moved'[k] = <<block, Jank(Here) + (j - 1)>>
      BY <1>2, <2>1, <2>7
    <2> QED
      BY <1>3, <2>2, <2>4, <2>5, <2>6, <2>8
  <1> QED
    BY <1>5, <1>6

\* A torn table is never forgotten.
LEMMA TornStays == ASSUME BInv, Step PROVE torn => torn'
  <1>0. BInv /\ BlockTypes /\ TableTypes
    BY TableParts DEF BInv
  <1>1. CASE SinglyTable \/ DoublyTable \/ TriplyTable
    <2>1. \A next \in {"single", "double", "triple"} : next # "exit"
      OBVIOUS
    <2> QED
      BY <1>0, <1>1, <2>1, LoadTopType
         DEF SinglyTable, DoublyTable, TriplyTable, TableTypes
  <1>2. CASE TriplyStep
    BY <1>0, <1>2, LoadInnerType DEF TriplyStep, TableTypes
  <1>3. CASE DoublyStep
    BY <1>0, <1>3, LoadInnerType DEF DoublyStep, TableTypes
  <1>4. CASE DirectBlock \/ SinglyStep \/ NullTable \/ LoopEnd
    BY <1>4 DEF DirectBlock, SinglyStep, NullTable, LoopEnd
  <1>5. CASE Data
    BY <1>5 DEF Data, Transfer
  <1>6. CASE ExitTibp \/ ExitDibp \/ ExitSibp
    BY <1>6 DEF ExitTibp, ExitDibp, ExitSibp, ExitTable
  <1> QED
    BY <1>1, <1>2, <1>3, <1>4, <1>5, <1>6 DEF Step

\* No step puts a byte in a wrong place.
LEMMA MovedNext == CInv /\ MovedInv /\ [Next]_vars => MovedInv'
  <1> SUFFICES ASSUME CInv, MovedInv, [Next]_vars PROVE MovedInv'
    OBVIOUS
  <1>1. ASSUME NEW r \in Requests, Call(r) PROVE MovedInv'
    BY <1>1 DEF Call, MovedInv
  <1>2. CASE Data
    BY <1>2, DataMoved
  <1>3. CASE Step /\ Frame /\ Kept
    <2>1. torn => torn'
      BY <1>3, TornStays DEF CInv
    <2> QED
      BY <1>3, <2>1 DEF MovedInv, Frame, Kept
  <1>4. CASE Finished \/ UNCHANGED vars
    BY <1>4 DEF MovedInv, Finished, vars, callVars
  <1> QED
    BY <1>1, <1>2, <1>3, <1>4, StepKept, Zenon DEF Next

\* Both invariants, in every reachable state.
THEOREM MovedInvariance == Spec => [](CInv /\ MovedInv)
  <1>1. Init => MovedInv
    BY DEF Init, MovedInv
  <1>2. Init => CInv
    <2>1. Init => Position
      BY DEF Init, Position
    <2> QED
      BY <2>1, BInit, CacheInit DEF CInv
  <1> QED
    BY <1>1, <1>2, CNext, MovedNext, PTL DEF Spec

\* The tables that ext2_traverse_blocks keeps from one turn to the next
\* never matter: every byte goes where a traversal that starts at that byte
\* would have put it.
THEOREM CacheIsTransparent == Spec => []CacheTransparent
  <1>1. CInv /\ MovedInv => CacheTransparent
    <2> SUFFICES ASSUME CInv, MovedInv, ~torn, NEW k \in 1..traversed
                 PROVE  moved[k][1] = UncachedBlock(offset + k - 1)
      BY DEF CacheTransparent
    <2>1. moved[k] = <<BlockOf(file, offset + k - 1), Jank(offset + k - 1)>>
      BY DEF MovedInv
    <2> QED
      BY <2>1, UncachedIs
  <1> QED
    BY <1>1, MovedInvariance, PTL

\* The singly indirect table covers the first PtrCount blocks after the
\* twelve direct ones.
LEMMA NearBlock ==
    ASSUME BInv, NEW n \in Nat, n \div BlockSize < 12 + PtrCount,
           BlockOf(file, n) # 0
    PROVE  BlockOf(file, n) = ExpectedBlock(n)
  <1>1. CASE n \div BlockSize < 12
    BY <1>1 DEF BlockOf, ExpectedBlock, BaseIdx, node
  <1>2. CASE ~(n \div BlockSize < 12)
    <2> DEFINE c == BaseIdx(n) - 12
    <2>1. /\ BaseIdx(n) = n \div BlockSize /\ BaseIdx(n) \in Nat
          /\ BlockSize \in Nat \ {0} /\ PtrCount \in Nat \ {0}
          /\ PtrCount <= BlockSize
      BY Indices, Sizes DEF BaseIdx
    <2>2. c \in Nat /\ c < PtrCount /\ c < BlockSize
      BY <1>2, <2>1
    <2> HIDE DEF c
    <2>3. c \div BlockSize = 0 /\ c % PtrCount = c
      BY <2>1, <2>2, SmallQuotient
    <2>4. DoublyIdx(n) = 0 /\ SinglyIdx(n) = c
      BY <2>3 DEF DoublyIdx, SinglyIdx, c
    <2>5. BlockOf(file, n) = Entry(file, file.node.sibp, c)
      BY <1>2, <2>1, <2>4 DEF BlockOf, SinglyOf
    <2>6. ExpectedBlock(n) = file.tables[file.node.sibp][c]
      BY <1>2, <2>1 DEF ExpectedBlock, node, c
    <2> QED
      BY <2>5, <2>6 DEF Entry
  <1> QED
    BY <1>1, <1>2

\* Every byte of the direct and singly indirect blocks is transferred from,
\* or to, the place where an ext2 file keeps it.
THEOREM BytesInPlace == Spec => []RightPlace
  <1>1. CInv /\ MovedInv => RightPlace
    <2> SUFFICES ASSUME CInv, MovedInv, ~torn, NEW k \in 1..traversed,
                        NEW n, n = offset + k - 1,
                        n \div BlockSize < 12 + PtrCount
                 PROVE  moved[k] = <<ExpectedBlock(n), n % BlockSize>>
      BY DEF RightPlace
    <2>1. n \in Nat
      BY HereType DEF CInv, BInv
    <2>2. moved[k] = <<BlockOf(file, n), Jank(n)>> /\ BlockOf(file, n) # 0
      BY DEF MovedInv
    <2>3. BlockOf(file, n) = ExpectedBlock(n)
      BY <2>1, <2>2, NearBlock DEF CInv
    <2> QED
      BY <2>2, <2>3 DEF Jank
  <1> QED
    BY <1>1, MovedInvariance, PTL

============================================================================
