--------------------------- MODULE NvmeInitProofs --------------------------
(***************************************************************************)
(* Theorems about NvmeInit: the bring-up of a controller with any number   *)
(* of command sets and namespaces, any number of processors and any        *)
(* answers of the device, with every allocation free to fail.              *)
(***************************************************************************)
EXTENDS NvmeInit, FiniteSetTheorems, WellFoundedInduction, TLAPS

----------------------------------------------------------------------------
(* Sets of numbers.                                                        *)

\* The order of the naturals as a relation.
LEMMA LessRelated ==
    ASSUME NEW x \in Nat, NEW y \in Nat, y < x
    PROVE  <<y, x>> \in OpToRel(<, Nat)
  <1> DEFINE p == <<y, x>>
  <1>1. p \in Nat \X Nat
    OBVIOUS
  <1>2. p[1] < p[2]
    OBVIOUS
  <1> HIDE DEF p
  <1>3. p \in OpToRel(<, Nat)
    BY <1>1, <1>2, Zenon DEF OpToRel
  <1> QED
    BY <1>3 DEF p

\* A set of naturals that is not empty has a least element, and LeastOf is it.
LEMMA LeastOfIn ==
    ASSUME NEW S, S \subseteq Nat, S # {}
    PROVE  LeastOf(S) \in S /\ \A y \in S : LeastOf(S) <= y
  <1> DEFINE R == OpToRel(<, Nat)
  <1>1. IsWellFoundedOn(R, Nat)
    BY NatLessThanWellFounded
  <1>2. \A x, y \in Nat : y < x => <<y, x>> \in R
    BY LessRelated
  <1> HIDE DEF R
  <1>3. PICK x \in S : \A y \in S : ~(<<y, x>> \in R)
    BY <1>1, WFMin
  <1>4. ASSUME NEW y \in S
        PROVE  x <= y
    <2>1. x \in Nat /\ y \in Nat
      OBVIOUS
    <2>2. ~(y < x)
      BY <1>2, <1>3, <2>1
    <2> QED
      BY <2>1, <2>2
  <1> QED
    BY <1>4 DEF LeastOf

\* A page of the list is the beginning of the list: with an element it has
\* every smaller one, and the whole list if that fits.
LEMMA FirstOfFacts ==
    ASSUME NEW S, S \subseteq Nat, IsFiniteSet(S), NEW n \in Nat \ {0}
    PROVE  /\ FirstOf(S, n) \subseteq S
           /\ \A x \in FirstOf(S, n) : \A y \in S : y < x => y \in FirstOf(S, n)
           /\ Cardinality(S) < n => FirstOf(S, n) = S
  <1> DEFINE Below(x) == {y \in S : y < x}
  <1>1. ASSUME NEW x
        PROVE  /\ IsFiniteSet(Below(x)) /\ Cardinality(Below(x)) \in Nat
               /\ Cardinality(Below(x)) <= Cardinality(S)
    <2>1. Below(x) \in SUBSET S
      OBVIOUS
    <2> HIDE DEF Below
    <2> QED
      BY <2>1, FS_Subset, FS_CardinalityType
  <1>2. Cardinality(S) \in Nat
    BY FS_CardinalityType
  <1>3. ASSUME NEW x \in S, NEW y \in S, y < x, Cardinality(Below(x)) < n
        PROVE  Cardinality(Below(y)) < n
    <2>1. Below(y) \subseteq Below(x)
      <3>1. ASSUME NEW z \in S, z < y
            PROVE  z < x
        <4>1. x \in Nat /\ y \in Nat /\ z \in Nat
          OBVIOUS
        <4> QED
          BY <1>3, <3>1, <4>1
      <3> QED
        BY <3>1
    <2>2. Cardinality(Below(y)) <= Cardinality(Below(x))
      <3>1. IsFiniteSet(Below(x)) /\ Below(y) \in SUBSET Below(x)
        BY <1>1, <2>1
      <3> HIDE DEF Below
      <3> QED
        BY <3>1, FS_Subset
    <2>3. Cardinality(Below(y)) \in Nat /\ Cardinality(Below(x)) \in Nat
      BY <1>1
    <2> QED
      BY <1>3, <2>2, <2>3
  <1>4. ASSUME Cardinality(S) < n, NEW x \in S
        PROVE  Cardinality(Below(x)) < n
    BY <1>1, <1>2, <1>4
  <1>5. FirstOf(S, n) = {x \in S : Cardinality(Below(x)) < n}
    BY DEF FirstOf
  <1> HIDE DEF Below
  <1> QED
    BY <1>3, <1>4, <1>5

----------------------------------------------------------------------------
(* Types.                                                                  *)

Early == {"start", "pci_state", "disable", "admin", "ready", "nvme_res", "sets"}

\* What the place in the bring-up says of the list of namespaces.
ListShape ==
    /\ pc # "walk" => page = {}
    /\ pc \in Early => /\ asked = {} /\ sets = {} /\ listed = <<>> /\ todo = <<>>
                       /\ cursor = 0 /\ ~missed
    /\ pc = "walk" => sets # {} /\ page \subseteq Active[LeastOf(sets)]
    /\ pc \in {"list", "walk", "qpairs"} => todo = <<>>
    /\ pc \in {"qpairs", "namespaces", "ok"} => sets = {}

TInv == TypeOK /\ ListShape

AllNs(S) == UNION {Active[s] : s \in S}

\* The command set being listed is one of those left, and its namespaces are
\* numbers.
LEMMA LeastSet ==
    ASSUME TypeOK, sets # {}
    PROVE  /\ LeastOf(sets) \in sets /\ LeastOf(sets) \in DOMAIN Active
           /\ Active[LeastOf(sets)] \subseteq Nat \ {0}
           /\ IsFiniteSet(Active[LeastOf(sets)])
           /\ Active[LeastOf(sets)] \subseteq AllNs(asked)
  <1>1. sets \subseteq DOMAIN Active /\ sets \subseteq asked /\ sets \subseteq Nat
    BY InitAssumption DEF TypeOK
  <1>2. LeastOf(sets) \in sets
    BY <1>1, LeastOfIn
  <1> QED
    BY <1>1, <1>2, InitAssumption DEF AllNs

\* A page not yet walked has a least namespace, which the walk takes next.
LEMMA LeastPage ==
    ASSUME TInv, pc = "walk", page # {}
    PROVE  /\ LeastOf(page) \in page /\ \A n \in page : LeastOf(page) <= n
           /\ LeastOf(page) \in Nat \ {0}
           /\ LeastOf(page) \in Active[LeastOf(sets)]
  <1>1. page \subseteq Active[LeastOf(sets)] /\ sets # {} /\ TypeOK
    BY DEF TInv, ListShape
  <1>2. page \subseteq Nat \ {0}
    BY <1>1, LeastSet
  <1> QED
    BY <1>1, <1>2, LeastOfIn

\* The first states.
LEMMA TInvInit ==
    ASSUME Init
    PROVE  TInv
  <1>1. 0 \in 0..W16-1
    BY InitAssumption
  <1>2. {enabled, ready, adminq, sizes, full, missed, again} \subseteq BOOLEAN
    BY DEF Init
  <1>3. /\ <<>> \in Seq(UNION {Active[s] : s \in asked})
        /\ \A n \in DOMAIN share : share[n] \in [base : Nat, count : Nat]
    BY DEF Init
  <1>4. TypeOK
    BY <1>1, <1>2, <1>3 DEF Init, TypeOK
  <1>5. ListShape
    BY DEF Init, ListShape, Early
  <1> QED
    BY <1>4, <1>5 DEF TInv

\* The types are kept by every step, and no step but those of the list
\* touches the list.
LEMMA TInvNext ==
    ASSUME TInv, [Next]_vars
    PROVE  TInv'
  <1>0. TypeOK /\ ListShape
    BY DEF TInv
  <1> USE <1>0
  <1>1. CASE PciResource \/ PciState \/ Disable \/ AdminQpair \/ WaitReady \/ NvmeState
    <2>1. /\ pc \in Early /\ pc' \in (Early \cup {"failed", "wild"}) \ {"start"}
          /\ UNCHANGED <<listing, queues, spaces>>
          /\ {enabled', ready', adminq', sizes'} \subseteq BOOLEAN
      BY <1>1 DEF PciResource, PciState, Disable, AdminQpair, WaitReady, NvmeState,
         device, Early, TypeOK
    <2>2. TypeOK'
      BY <2>1 DEF TypeOK, listing, queues, spaces, Early
    <2>3. ListShape'
      BY <2>1 DEF ListShape, listing, queues, spaces, Early
    <2> QED
      BY <2>2, <2>3 DEF TInv
  <1>2. CASE CommandSets
    <2>1. asked' \subseteq DOMAIN Active /\ sets' = asked'
      BY <1>2, InitAssumption DEF CommandSets
    <2>2. /\ pc = "sets" /\ pc' = "list" /\ listed' = <<>> /\ todo' = <<>>
          /\ page' = {} /\ UNCHANGED <<device, cursor, full, missed, queues, spaces>>
      BY <1>2 DEF CommandSets, ListShape, Early, spaces
    <2>3. TypeOK'
      BY <2>1, <2>2 DEF TypeOK, device, queues, spaces
    <2>4. ListShape'
      BY <2>2 DEF ListShape, Early
    <2> QED
      BY <2>3, <2>4 DEF TInv
  <1>3. CASE ListRequest
    <2>1. /\ pc = "list" /\ sets # {} /\ page = {} /\ todo = <<>>
          /\ pc' \in {"list", "walk"} /\ cursor' \in Nat /\ sets' \subseteq sets
          /\ UNCHANGED <<device, asked, listed, queues, spaces>>
      BY <1>3 DEF ListRequest, ListShape, TypeOK
    <2>0. full' \in BOOLEAN /\ missed' \in BOOLEAN
      <3> DEFINE over == Cardinality({n \in Active[LeastOf(sets)] : n > cursor}) >= PageIds
      <3>1. /\ full' = over \/ full' = full
            /\ missed' = TRUE \/ missed' = missed
        BY <1>3 DEF ListRequest
      <3>2. over \in BOOLEAN
        OBVIOUS
      <3> HIDE DEF over
      <3> QED
        BY <3>1, <3>2 DEF TypeOK
    <2>2. \/ pc' = "list" /\ page' = {}
          \/ pc' = "walk" /\ sets' = sets /\ page' \subseteq Active[LeastOf(sets)]
      BY <1>3, <2>1 DEF ListRequest, FirstOf
    <2>3. page' \subseteq UNION {Active[s] : s \in sets'}
      BY <2>1, <2>2, LeastSet
    <2>4. TypeOK'
      BY <2>0, <2>1, <2>3 DEF TypeOK, device, queues, spaces
    <2>5. ListShape'
      BY <2>1, <2>2 DEF ListShape, Early, spaces
    <2> QED
      BY <2>4, <2>5 DEF TInv
  <1>4. CASE Walk
    <2>1. /\ pc = "walk" /\ page # {} /\ sets # {} /\ todo = <<>>
          /\ page \subseteq Active[LeastOf(sets)]
          /\ cursor' = LeastOf(page) /\ pc' \in {"walk", "list"}
          /\ page' \subseteq page /\ missed' \in BOOLEAN
          /\ pc' = "walk" \/ page' = {}
          /\ listed' = listed \/ listed' = <<cursor'>> \o listed
          /\ UNCHANGED <<device, asked, sets, full, queues, spaces>>
      BY <1>4 DEF Walk, ListShape, TypeOK
    <2>2. cursor' \in Nat /\ cursor' \in AllNs(asked)
      BY <2>1, LeastPage, LeastSet DEF TInv
    <2>3. listed' \in Seq(AllNs(asked))
      BY <2>1, <2>2 DEF TypeOK, AllNs
    <2>4. TypeOK'
      BY <2>1, <2>2, <2>3 DEF TypeOK, device, queues, spaces, AllNs
    <2>5. ListShape'
      BY <2>1 DEF ListShape, Early, spaces
    <2> QED
      BY <2>4, <2>5 DEF TInv
  <1>5. CASE WalkEnd
    <2>1. /\ pc = "walk" /\ pc' = "list" /\ page' = {} /\ todo = <<>>
          /\ cursor' \in Nat /\ sets' \subseteq sets
          /\ UNCHANGED <<device, asked, full, listed, missed, queues, spaces>>
      BY <1>5 DEF WalkEnd, ListShape, TypeOK
    <2>2. TypeOK'
      BY <2>1 DEF TypeOK, device, queues, spaces
    <2>3. ListShape'
      BY <2>1 DEF ListShape, Early, spaces
    <2> QED
      BY <2>2, <2>3 DEF TInv
  <1>6. CASE RequestQueues
    <2>0. Len(listed) \in Nat
      BY DEF TypeOK
    <2>1. {requested', granted'} \subseteq 0..W16-1
      <3>1. Len(listed) * Processors \in Nat /\ W16 \in Nat \ {0}
        BY <2>0, InitAssumption
      <3>2. \A r \in Replies : (r + 1) % W16 \in 0..W16-1
        BY <3>1, InitAssumption
      <3>3. (Len(listed) * Processors) % W16 \in 0..W16-1
        BY <3>1
      <3> QED
        BY <1>6, <3>2, <3>3 DEF RequestQueues
    <2>2. /\ pc = "list" /\ pc' \in {"failed", "qpairs"} /\ sets = {}
          /\ page = {} /\ todo = <<>>
          /\ UNCHANGED <<device, listing, init, created, spaces>>
      BY <1>6 DEF RequestQueues, ListShape
    <2>3. TypeOK'
      BY <2>1, <2>2 DEF TypeOK, device, listing, spaces
    <2>4. ListShape'
      BY <2>2 DEF ListShape, Early, listing, spaces
    <2> QED
      BY <2>3, <2>4 DEF TInv
  <1>7. CASE QpairArray \/ Qpair
    <2>1. /\ pc = "qpairs" /\ pc' \in {"qpairs", "failed", "wild"} /\ created' \in Nat
          /\ UNCHANGED <<device, listing, requested, granted, init, spaces>>
      BY <1>7 DEF QpairArray, Qpair, TypeOK, queues
    <2>2. TypeOK'
      BY <2>1 DEF TypeOK, device, listing, spaces
    <2>3. ListShape'
      BY <2>1 DEF ListShape, Early, listing, spaces
    <2> QED
      BY <2>2, <2>3 DEF TInv
  <1>8. CASE QpairsDone
    <2>1. /\ pc = "qpairs" /\ pc' = "namespaces" /\ todo' = listed
          /\ UNCHANGED <<device, listing, queues, share, registered, again>>
      BY <1>8 DEF QpairsDone
    <2>2. TypeOK'
      BY <2>1 DEF TypeOK, device, listing, queues
    <2>3. ListShape'
      BY <2>1 DEF ListShape, Early, listing
    <2> QED
      BY <2>2, <2>3 DEF TInv
  <1>9. CASE NamespaceNoMemory \/ NamespaceNoInfo \/ Namespace
    <2>0. ShareCount \in Nat
      BY InitAssumption DEF ShareCount, MinOf, TypeOK
    <2>1. /\ pc = "namespaces" /\ pc' = pc /\ todo # <<>> /\ todo' = Tail(todo)
          /\ UNCHANGED <<device, listing, requested, granted, created>>
          /\ init' = init \/ init' = init + ShareCount
      BY <1>9 DEF NamespaceNoMemory, NamespaceNoInfo, Namespace, queues
    <2>2. todo' \in Seq(UNION {Active[s] : s \in asked})
      BY <2>1 DEF TypeOK
    <2>3. init' \in Nat
      BY <2>0, <2>1 DEF TypeOK
    <2>4. /\ \A n \in DOMAIN share' : share'[n] \in [base : Nat, count : Nat]
          /\ registered' \subseteq Nat /\ again' \in BOOLEAN
      <3>1. CASE Namespace
        <4>1. NewIds \subseteq Nat
          BY <2>0 DEF NewIds, TypeOK
        <4>2. registered' \subseteq Nat /\ again' \in BOOLEAN
          BY <3>1, <4>1 DEF Namespace, TypeOK
        <4>3. [base |-> init, count |-> ShareCount] \in [base : Nat, count : Nat]
          BY <2>0 DEF TypeOK
        <4> QED
          BY <3>1, <4>2, <4>3 DEF Namespace, TypeOK
      <3>2. CASE ~Namespace
        BY <1>9, <3>2 DEF NamespaceNoMemory, NamespaceNoInfo, TypeOK
      <3> QED
        BY <3>1, <3>2
    <2>5. TypeOK'
      BY <2>1, <2>2, <2>3, <2>4 DEF TypeOK, device, listing
    <2>6. ListShape'
      BY <2>1 DEF ListShape, Early, listing
    <2> QED
      BY <2>5, <2>6 DEF TInv
  <1>10. CASE Done \/ DeviceReady \/ Finished \/ UNCHANGED vars
    <2>1. /\ pc' = pc \/ (pc = "namespaces" /\ pc' = "ok")
          /\ ready' \in BOOLEAN
          /\ UNCHANGED <<enabled, adminq, sizes, listing, queues, spaces>>
      BY <1>10 DEF Done, DeviceReady, Finished, vars, device, TypeOK
    <2>2. TypeOK'
      BY <2>1 DEF TypeOK, listing, queues, spaces
    <2>3. ListShape'
      BY <2>1 DEF ListShape, Early, listing, spaces
    <2> QED
      BY <2>2, <2>3 DEF TInv
  <1> QED
    BY <1>1, <1>2, <1>3, <1>4, <1>5, <1>6, <1>7, <1>8, <1>9, <1>10 DEF Next, Driver

\* Every variable of the bring-up keeps its type: the list never names what
\* the controller does not have, and no count leaves its width.
THEOREM TypeCorrect == Spec => []TypeOK
  <1>1. TInv => TypeOK
    BY DEF TInv
  <1> QED
    BY <1>1, TInvInit, TInvNext, PTL DEF Spec

----------------------------------------------------------------------------
(* The order kept with the device.                                         *)

Commanding == {"nvme_res", "sets", "list", "walk", "qpairs", "namespaces"}

\* The controller is stopped while its queues are prepared, and runs from the
\* end of the reset on.
DeviceInv ==
    /\ pc = "admin" => ~enabled
    /\ pc = "ready" => enabled /\ adminq
    /\ pc \in Commanding => enabled /\ ready /\ adminq /\ sizes

\* A step of the reset, of the device, or one that leaves the device alone and
\* sends commands only where the step before could.
LEMMA DeviceInvNext ==
    ASSUME TypeOK, DeviceInv, [Next]_vars
    PROVE  DeviceInv'
  <1>0. {enabled, ready, adminq, sizes} \subseteq BOOLEAN
    BY DEF TypeOK
  <1> USE <1>0 DEF DeviceInv, Commanding
  <1>1. CASE PciResource \/ PciState
    BY <1>1 DEF PciResource, PciState, device
  <1>2. CASE Disable
    BY <1>2 DEF Disable
  <1>3. CASE AdminQpair
    BY <1>3 DEF AdminQpair
  <1>4. CASE WaitReady
    BY <1>4 DEF WaitReady
  <1>5. CASE DeviceReady
    BY <1>5 DEF DeviceReady
  <1>6. CASE NvmeState \/ CommandSets \/ ListRequest \/ Walk \/ WalkEnd \/ RequestQueues
    <2>1. pc \in Commanding /\ pc' # "admin" /\ pc' # "ready" /\ UNCHANGED device
      BY <1>6 DEF NvmeState, CommandSets, ListRequest, Walk, WalkEnd, RequestQueues
    <2> QED
      BY <2>1 DEF device
  <1>7. CASE \/ QpairArray \/ Qpair \/ QpairsDone \/ NamespaceNoMemory
             \/ NamespaceNoInfo \/ Namespace \/ Done
    <2>1. pc \in Commanding /\ pc' # "admin" /\ pc' # "ready" /\ UNCHANGED device
      BY <1>7 DEF QpairArray, Qpair, QpairsDone, NamespaceNoMemory, NamespaceNoInfo,
         Namespace, Done
    <2> QED
      BY <2>1 DEF device
  <1>8. CASE Finished \/ UNCHANGED vars
    BY <1>8 DEF Finished, vars, device
  <1> QED
    BY <1>1, <1>2, <1>3, <1>4, <1>5, <1>6, <1>7, <1>8 DEF Next, Driver

\* The queue addresses are written to a stopped controller only, and commands
\* go to a running one only, however long the device takes to follow CC.EN.
THEOREM OrderKept == Spec => ResetOrder
  <1>1. Init => DeviceInv
    BY DEF Init, DeviceInv, Commanding
  <1>2. ASSUME TypeOK, DeviceInv, [Next]_vars
        PROVE  [/\ adminq' # adminq => ~enabled /\ ~ready
                /\ pc \in {"sets", "list", "walk", "qpairs", "namespaces"} =>
                      enabled /\ ready /\ adminq /\ sizes]_vars
    <2>1. pc \in {"sets", "list", "walk", "qpairs", "namespaces"} =>
             enabled /\ ready /\ adminq /\ sizes
      BY <1>2 DEF DeviceInv, Commanding
    <2>2. adminq' # adminq => AdminQpair
      BY <1>2 DEF Next, Driver, PciResource, PciState, Disable, WaitReady, NvmeState,
         CommandSets, ListRequest, Walk, WalkEnd, RequestQueues, QpairArray, Qpair,
         QpairsDone, NamespaceNoMemory, NamespaceNoInfo, Namespace, Done, DeviceReady,
         Finished, device, vars
    <2>3. AdminQpair => ~enabled /\ ~ready
      BY <1>2 DEF AdminQpair, DeviceInv
    <2> QED
      BY <2>1, <2>2, <2>3
  <1> QED
    BY <1>1, <1>2, DeviceInvNext, TypeCorrect, PTL DEF Spec, ResetOrder

----------------------------------------------------------------------------
(* Memory.                                                                 *)

DriverMem == {PciRes, PciMem, NvmeRes, NvmeMem}

\* What is allocated at each place of the bring-up.
LiveAt ==
    /\ pc = "start" => live = {}
    /\ pc = "pci_state" => live = {PciRes}
    /\ pc \in {"disable", "admin", "ready", "nvme_res"} =>
          /\ {PciRes, PciMem} \subseteq live
          /\ {NvmeRes, NvmeMem, IoQpairs} \cap live = {}
    /\ pc \in {"sets", "list", "walk", "qpairs", "namespaces", "ok"} =>
          DriverMem \subseteq live
    /\ pc \in {"sets", "list", "walk"} => IoQpairs \notin live
    /\ pc \in {"namespaces", "ok"} => IoQpairs \in live
    /\ pc = "failed" => {PciRes, NvmeRes, NvmeMem, IoQpairs} \cap live = {}

\* What the array of queue pairs, the namespaces and the controller rely on.
ReliedOn ==
    /\ pc \in Early \cup {"list", "walk"} => created = 0
    /\ pc = "qpairs" => granted > 0 /\ (IoQpairs \notin live => created = 0)
    /\ pc \in {"qpairs", "namespaces", "ok"} =>
          \A k \in Nat : k < created => Base(k) \in live
    /\ \A n \in Nat : NsRes(n) \in live =>
          pc \in {"namespaces", "ok"} /\ NsState(n) \in live
    /\ pc \notin {"namespaces", "ok"} => registered = {}
    /\ \A q \in registered : Base(q - 1) \in live
    /\ adminq => AdminMem \in live

FreedOnce ==
    \/ twice = {}
    \/ twice = {NvmeMem} /\ pc = "failed" /\ granted > 0 /\ created = 0

MemInv == LiveAt /\ ReliedOn /\ FreedOnce

\* Each exit of the bring-up frees exactly what the levels above it got.
LEMMA MemInvNext ==
    ASSUME TInv, MemInv, [Next]_vars
    PROVE  MemInv'
  <1>0. LiveAt /\ ReliedOn /\ FreedOnce
    BY DEF MemInv
  <1>a. created \in Nat /\ init \in Nat /\ granted' \in Nat
    BY TInvNext DEF TInv, TypeOK
  <1> USE <1>0 DEF MemInv, LiveAt, ReliedOn, FreedOnce, DriverMem, Early, PciRes, PciMem,
          AdminMem, NvmeRes, NvmeMem, IoQpairs, NsRes, NsState, Base
  <1>1. CASE PciResource
    BY <1>1 DEF PciResource, Alloc, memory, device, queues, spaces
  <1>2. CASE PciState
    BY <1>2 DEF PciState, Alloc, Free, memory, device, queues, spaces
  <1>3. CASE Disable \/ WaitReady \/ CommandSets \/ ListRequest \/ Walk \/ WalkEnd
    BY <1>3 DEF Disable, WaitReady, CommandSets, ListRequest, Walk, WalkEnd, memory,
       device, queues, spaces
  <1>4. CASE AdminQpair
    BY <1>4 DEF AdminQpair, AdminSub, AdminCmp, queues, spaces
  <1>5. CASE NvmeState
    BY <1>5 DEF NvmeState, Free, device, queues, spaces
  <1>6. CASE RequestQueues
    BY <1>a, <1>6 DEF RequestQueues, Free, Unwound, memory, device, spaces
  <1>7. CASE QpairArray
    BY <1>7 DEF QpairArray, Alloc, Unwound, device, queues, spaces
  <1>8. CASE Qpair
    <2>1. /\ pc = "qpairs" /\ IoQpairs \in live /\ registered = {} /\ twice' = twice
          /\ UNCHANGED <<device, granted, spaces>>
      BY <1>8 DEF Qpair, Alloc, memory
    <2>2. CASE pc' = "qpairs"
      <3>1. live' = live \cup {Base(created)} /\ created' = created + 1
        BY <1>8, <2>1, <2>2 DEF Qpair, Alloc
      <3> QED
        BY <1>a, <2>1, <2>2, <3>1 DEF device, spaces
    <2>3. CASE pc' = "failed"
      <3>1. PICK lost \in SUBSET {Base(created)} :
               live' = lost \cup
                    (live \ (Unwound \cup {NvmeMem, IoQpairs}
                                     \cup {Base(k) : k \in 0..created-1}))
        BY <1>8, <2>1, <2>3 DEF Qpair
      <3>2. AdminMem \in live => AdminMem \in live'
        BY <3>1 DEF Unwound
      <3>3. {PciRes, NvmeRes, NvmeMem, IoQpairs} \cap live' = {}
        BY <3>1 DEF Unwound
      <3>4. \A n \in Nat : NsRes(n) \notin live'
        BY <2>1, <3>1 DEF Unwound
      <3> QED
        BY <2>1, <2>3, <3>2, <3>3, <3>4 DEF device, spaces
    <2>4. CASE pc' = "wild"
      BY <1>8, <2>1, <2>4 DEF Qpair, Alloc, memory, device, spaces
    <2> QED
      BY <1>8, <2>1, <2>2, <2>3, <2>4 DEF Qpair
  <1>9. CASE QpairsDone \/ NamespaceNoMemory \/ Done
    BY <1>9 DEF QpairsDone, NamespaceNoMemory, Done, memory, device, queues, spaces
  <1>10. CASE NamespaceNoInfo
    BY <1>10 DEF NamespaceNoInfo, Alloc, device
  <1>11. CASE Namespace
    BY <1>a, <1>11 DEF Namespace, NewIds, device
  <1>12. CASE DeviceReady \/ Finished \/ UNCHANGED vars
    BY <1>12 DEF DeviceReady, Finished, vars, memory, device, queues, spaces
  <1> QED
    BY <1>1, <1>2, <1>3, <1>4, <1>5, <1>6, <1>7, <1>8, <1>9, <1>10, <1>11, <1>12
    DEF Next, Driver

\* Nothing is freed twice but on the path where the array of queue pairs gets
\* no memory, every resource that stays has its driver state, and a failed
\* bring-up leaves no resource: whatever allocations fail, in whatever order.
THEOREM MemoryIsOwned == Spec => []MemoryOwned
  <1>1. Init => MemInv
    BY DEF Init, MemInv, LiveAt, ReliedOn, FreedOnce, Early
  <1>2. ASSUME TInv, MemInv
        PROVE  MemoryOwned
    <2>1. UNION {Active[s] : s \in asked} \subseteq Nat
      BY <1>2, InitAssumption DEF TInv, TypeOK
    <2> QED
      BY <1>2, <2>1 DEF MemInv, LiveAt, ReliedOn, FreedOnce, DriverMem, MemoryOwned
  <1> QED
    BY <1>1, <1>2, MemInvNext, TInvInit, TInvNext, PTL DEF Spec

\* The controller never writes to memory that was given back: the admin queues
\* stay even after a failure, and every queue it was told of exists.
THEOREM DeviceMemoryStays == Spec => []DeviceMemoryLive
  <1>1. Init => MemInv
    BY DEF Init, MemInv, LiveAt, ReliedOn, FreedOnce, Early
  <1>2. MemInv => DeviceMemoryLive
    BY DEF MemInv, ReliedOn, DeviceMemoryLive
  <1> QED
    BY <1>1, <1>2, MemInvNext, TInvInit, TInvNext, PTL DEF Spec

----------------------------------------------------------------------------
(* Shares of the queue pairs.                                              *)

\* Shares and registered queues lie below init, so that the next share is
\* fresh; init has not outrun the namespaces walked; and the array has as many
\* queue pairs as were both requested and granted.
ShareInv ==
    /\ ~again
    /\ \A q \in registered : q <= init
    /\ \A n \in DOMAIN share : /\ share[n].base + share[n].count <= init
                               /\ share[n].count = ShareCount
    /\ \A n, m \in DOMAIN share :
          n # m => \/ share[n].base + share[n].count <= share[m].base
                   \/ share[m].base + share[m].count <= share[n].base
    /\ pc \notin {"namespaces", "ok"} => DOMAIN share = {} /\ init = 0
    /\ pc \in {"qpairs", "namespaces", "ok"} =>
          requested = (Len(listed) * Processors) % W16
    /\ pc \in {"namespaces", "ok"} =>
          /\ created = MinOf(requested, granted)
          /\ Len(todo) <= Len(listed)
          /\ DOMAIN share # {} => Len(todo) < Len(listed)
          /\ init <= (Len(listed) - Len(todo)) * Processors

\* No step hands out a queue pair twice.
LEMMA ShareInvNext ==
    ASSUME TInv, MemInv, ShareInv, [Next]_vars
    PROVE  ShareInv'
  <1>0. /\ TypeOK /\ TypeOK' /\ Processors \in Nat \ {0} /\ W16 \in Nat
        /\ created \in Nat /\ init \in Nat /\ granted \in Nat
        /\ Len(listed) \in Nat /\ Len(todo) \in Nat
    BY TInvNext, InitAssumption DEF TInv, TypeOK
  <1>1. ASSUME UNCHANGED <<init, share, registered, again>>,
               pc \notin {"namespaces", "ok"},
               pc' \notin {"qpairs", "namespaces", "ok"}
        PROVE  ShareInv'
    BY <1>1 DEF ShareInv
  <1>2. CASE PciResource \/ PciState \/ Disable \/ AdminQpair \/ WaitReady \/ NvmeState
    BY <1>1, <1>2 DEF PciResource, PciState, Disable, AdminQpair, WaitReady, NvmeState,
       queues, spaces
  <1>3. CASE CommandSets \/ ListRequest \/ Walk \/ WalkEnd
    BY <1>1, <1>3 DEF CommandSets, ListRequest, Walk, WalkEnd, queues, spaces
  <1>4. CASE RequestQueues
    BY <1>4 DEF RequestQueues, ShareInv, listing, spaces
  <1>5. CASE QpairArray \/ Qpair
    <2>1. /\ pc = "qpairs" /\ pc' \in {"qpairs", "failed", "wild"}
          /\ UNCHANGED <<listing, requested, init, spaces>>
      BY <1>5 DEF QpairArray, Qpair, queues
    <2> QED
      BY <2>1 DEF ShareInv, listing, spaces
  <1>6. CASE QpairsDone
    <2>1. /\ pc = "qpairs" /\ pc' = "namespaces" /\ todo' = listed
          /\ created = MinOf(requested, granted)
          /\ UNCHANGED <<listing, queues, share, registered, again>>
      BY <1>6 DEF QpairsDone
    <2>2. 0 <= (Len(listed) - Len(listed)) * Processors
      BY <1>0
    <2> QED
      BY <1>0, <2>1, <2>2 DEF ShareInv, MinOf, listing, queues
  <1>7. CASE NamespaceNoMemory \/ NamespaceNoInfo \/ Namespace
    <2>0. ShareCount \in Nat /\ ShareCount <= Processors /\ ShareCount' = ShareCount
      BY <1>0, <1>7 DEF ShareCount, MinOf, NamespaceNoMemory, NamespaceNoInfo, Namespace,
         queues
    <2>1. /\ pc = "namespaces" /\ pc' = pc /\ todo # <<>> /\ todo' = Tail(todo)
          /\ UNCHANGED <<listing, requested, granted, created>>
          /\ init' = init \/ init' = init + ShareCount
      BY <1>7 DEF NamespaceNoMemory, NamespaceNoInfo, Namespace, queues
    <2>2. Len(todo') = Len(todo) - 1 /\ Len(todo) > 0
      BY <2>1 DEF TInv, TypeOK
    <2>3. init' <= (Len(listed') - Len(todo')) * Processors
      <3>1. (Len(listed) - (Len(todo) - 1)) * Processors
               = (Len(listed) - Len(todo)) * Processors + Processors
        BY <1>0
      <3>2. (Len(listed) - Len(todo)) * Processors \in Int
        BY <1>0
      <3>3. init <= (Len(listed) - Len(todo)) * Processors
        BY <2>1 DEF ShareInv
      <3>4. listed' = listed
        BY <2>1 DEF listing
      <3> QED
        BY <1>0, <2>0, <2>1, <2>2, <3>1, <3>2, <3>3, <3>4
    <2>4. CASE Namespace
      <3>1. /\ init' = init + ShareCount
            /\ share' = [n \in DOMAIN share \cup {Head(todo)} |->
                            IF n = Head(todo) THEN [base |-> init, count |-> ShareCount]
                            ELSE share[n]]
            /\ registered' = registered \cup NewIds
            /\ again' = (again \/ NewIds \cap registered # {})
        BY <2>4 DEF Namespace
      <3>2. \A q \in NewIds : q > init /\ q <= init + ShareCount
        BY <1>0, <2>0 DEF NewIds
      <3>3. \A q \in registered : q \in Nat /\ q <= init
        BY <1>0 DEF ShareInv, TypeOK
      <3>4. NewIds \cap registered = {}
        BY <1>0, <3>2, <3>3
      <3>5. ~again' /\ \A q \in registered' : q <= init'
        <4>1. ~again'
          BY <3>1, <3>4 DEF ShareInv
        <4>2. \A q \in NewIds : q <= init'
          BY <3>1, <3>2
        <4>3. \A q \in registered : q <= init'
          BY <1>0, <2>0, <3>1, <3>3
        <4> QED
          BY <3>1, <4>1, <4>2, <4>3
      <3>6. ASSUME NEW n \in DOMAIN share'
            PROVE  /\ share'[n].base \in Nat /\ share'[n].count = ShareCount
                   /\ share'[n].base + share'[n].count <= init'
                   /\ n = Head(todo) => share'[n].base = init
                   /\ n # Head(todo) =>
                         /\ n \in DOMAIN share /\ share'[n] = share[n]
                         /\ share[n].base + share[n].count <= init
        <4>1. CASE n = Head(todo)
          BY <1>0, <2>0, <3>1, <4>1
        <4>2. CASE n # Head(todo)
          <5>1. n \in DOMAIN share /\ share'[n] = share[n]
            BY <3>1, <4>2
          <5>2. share[n].base \in Nat /\ share[n].count = ShareCount
                   /\ share[n].base + share[n].count <= init
            BY <1>0, <5>1 DEF ShareInv, TypeOK
          <5> QED
            BY <1>0, <2>0, <3>1, <4>2, <5>1, <5>2
        <4> QED
          BY <4>1, <4>2
      <3>7. ASSUME NEW n \in DOMAIN share', NEW m \in DOMAIN share', n # m
            PROVE  \/ share'[n].base + share'[n].count <= share'[m].base
                   \/ share'[m].base + share'[m].count <= share'[n].base
        <4>1. CASE n = Head(todo)
          BY <3>6, <3>7, <4>1
        <4>2. CASE m = Head(todo)
          BY <3>6, <3>7, <4>2
        <4>3. CASE n # Head(todo) /\ m # Head(todo)
          BY <3>6, <3>7, <4>3 DEF ShareInv
        <4> QED
          BY <4>1, <4>2, <4>3
      <3> QED
        BY <1>0, <2>0, <2>1, <2>2, <2>3, <3>5, <3>6, <3>7 DEF ShareInv, listing
    <2>5. CASE ~Namespace
      <3>1. UNCHANGED <<share, registered, again>>
        BY <1>7, <2>5 DEF NamespaceNoMemory, NamespaceNoInfo
      <3>2. \A q \in registered : q \in Nat
        BY <1>0 DEF TypeOK
      <3>3. \A q \in registered' : q <= init'
        BY <1>0, <2>0, <2>1, <3>1, <3>2 DEF ShareInv
      <3>4. \A n \in DOMAIN share' : /\ share'[n].base + share'[n].count <= init'
                                     /\ share'[n].count = ShareCount
        <4>1. \A n \in DOMAIN share : share[n].base \in Nat /\ share[n].count \in Nat
          BY <1>0 DEF TypeOK
        <4> QED
          BY <1>0, <2>0, <2>1, <3>1, <4>1 DEF ShareInv
      <3> QED
        BY <1>0, <2>0, <2>1, <2>2, <2>3, <3>1, <3>3, <3>4 DEF ShareInv, listing
    <2> QED
      BY <2>4, <2>5
  <1>8. CASE Done \/ DeviceReady \/ Finished \/ UNCHANGED vars
    <2>1. /\ pc' = pc \/ (pc = "namespaces" /\ pc' = "ok")
          /\ UNCHANGED <<listing, queues, spaces>>
      BY <1>8 DEF Done, DeviceReady, Finished, vars
    <2> QED
      BY <2>1 DEF ShareInv, ShareCount, MinOf, listing, queues, spaces
  <1> QED
    BY <1>2, <1>3, <1>4, <1>5, <1>6, <1>7, <1>8 DEF Next, Driver

\* No two namespaces share a queue pair and no queue is created twice, and
\* with enough queues granted every namespace has one for each processor:
\* whatever namespaces fail on the way.
THEOREM SharesAreProper == Spec => []SharesProper
  <1>1. Init => MemInv /\ ShareInv
    BY DEF Init, MemInv, LiveAt, ReliedOn, FreedOnce, Early, ShareInv
  <1>2. ASSUME TInv, ShareInv
        PROVE  SharesProper
    <2>1. ASSUME NEW n \in DOMAIN share, Len(listed) * Processors < W16,
                 granted >= Len(listed) * Processors
          PROVE  /\ share[n].count = Processors
                 /\ share[n].base + share[n].count <= created
      <3>1. /\ Len(listed) \in Nat /\ Len(todo) \in Nat /\ Processors \in Nat \ {0}
            /\ granted \in Nat /\ W16 \in Nat /\ init \in Nat
            /\ share[n].base \in Nat
        BY <1>2, InitAssumption DEF TInv, TypeOK
      <3>2. /\ pc \in {"namespaces", "ok"} /\ created = MinOf(requested, granted)
            /\ requested = (Len(listed) * Processors) % W16
            /\ Len(todo) < Len(listed)
            /\ init <= (Len(listed) - Len(todo)) * Processors
            /\ share[n].base + share[n].count <= init
            /\ share[n].count = ShareCount
        BY <1>2 DEF ShareInv
      <3>3. Len(listed) * Processors \in Nat /\ Processors <= Len(listed) * Processors
        BY <3>1, <3>2
      <3>4. (Len(listed) - Len(todo)) * Processors <= Len(listed) * Processors
        <4>1. (Len(listed) - Len(todo)) * Processors
                 = Len(listed) * Processors - Len(todo) * Processors
          BY <3>1
        <4>2. Len(todo) * Processors \in Nat
          BY <3>1
        <4> QED
          BY <3>3, <4>1, <4>2
      <3>5. (Len(listed) - Len(todo)) * Processors \in Int
        BY <3>1
      <3>6. requested = Len(listed) * Processors
        BY <2>1, <3>1, <3>2, <3>3
      <3>7. created = Len(listed) * Processors
        BY <2>1, <3>1, <3>2, <3>3, <3>6 DEF MinOf
      <3>8. ShareCount = Processors
        BY <2>1, <3>1, <3>3 DEF ShareCount, MinOf
      <3> QED
        BY <3>1, <3>2, <3>3, <3>4, <3>5, <3>7, <3>8
    <2> QED
      BY <1>2, <2>1 DEF ShareInv, SharesProper
  <1> QED
    BY <1>1, <1>2, MemInvNext, ShareInvNext, TInvInit, TInvNext, PTL DEF Spec

----------------------------------------------------------------------------
(* The list of namespaces.                                                 *)

Found == {listed[k] : k \in 1..Len(listed)}

Distinct == \A j, k \in 1..Len(listed) : listed[j] = listed[k] => j = k

\* What is still to be listed was not found yet.
Fresh ==
    /\ \A s \in sets : \A n \in Active[s] :
          s # LeastOf(sets) \/ n > cursor => n \notin Found
    /\ pc = "walk" => \A n \in page : n > cursor

\* Without a failure everything before the cursor was found, and the page at
\* hand goes on from there without a gap.
Complete ==
    ~missed =>
        /\ \A s \in asked \ sets : Active[s] \subseteq Found
        /\ sets # {} => \A n \in Active[LeastOf(sets)] : n <= cursor => n \in Found
        /\ pc = "walk" => \A n \in Active[LeastOf(sets)] :
              n > cursor /\ n \notin page => full /\ \A m \in page : m < n

ListInv == Distinct /\ Fresh /\ Complete

\* A new entry goes to the front of the list and moves the others back.
LEMMA ConsFacts ==
    ASSUME NEW S, NEW q \in Seq(S), NEW x \in S
    PROVE  /\ Len(<<x>> \o q) = Len(q) + 1
           /\ (<<x>> \o q)[1] = x
           /\ \A k \in 1..Len(q) : (<<x>> \o q)[k + 1] = q[k]
           /\ \A k \in 2..Len(q)+1 : (<<x>> \o q)[k] = q[k - 1]
  OBVIOUS

\* Taking a namespace that was not found yet.
LEMMA FoundNext ==
    ASSUME TypeOK, Distinct, NEW x \in AllNs(asked), x \notin Found,
           listed' = <<x>> \o listed
    PROVE  Found' = Found \cup {x} /\ Distinct'
  <1>0. listed \in Seq(AllNs(asked)) /\ Len(listed) \in Nat
    BY DEF TypeOK, AllNs
  <1>1. /\ Len(listed') = Len(listed) + 1 /\ listed'[1] = x
        /\ \A k \in 1..Len(listed) : listed'[k + 1] = listed[k]
        /\ \A k \in 2..Len(listed)+1 : listed'[k] = listed[k - 1]
    BY <1>0, ConsFacts
  <1>2. ASSUME NEW k \in 1..Len(listed')
        PROVE  k = 1 \/ (k \in 2..Len(listed)+1 /\ k - 1 \in 1..Len(listed))
    BY <1>0, <1>1
  <1>3. Found' \subseteq Found \cup {x}
    BY <1>1, <1>2 DEF Found
  <1>4. Found \cup {x} \subseteq Found'
    <2>1. \A k \in 1..Len(listed) : k + 1 \in 1..Len(listed')
      BY <1>0, <1>1
    <2>2. 1 \in 1..Len(listed')
      BY <1>0, <1>1
    <2> QED
      BY <1>1, <2>1, <2>2 DEF Found
  <1>5. ASSUME NEW j \in 1..Len(listed'), NEW k \in 1..Len(listed'),
               listed'[j] = listed'[k]
        PROVE  j = k
    <2>1. \A i \in 1..Len(listed) : listed[i] # x
      BY DEF Found
    <2>2. CASE j = 1
      BY <1>1, <1>2, <1>5, <2>1, <2>2
    <2>3. CASE k = 1
      BY <1>1, <1>2, <1>5, <2>1, <2>3
    <2>4. CASE j # 1 /\ k # 1
      <3>1. listed[j - 1] = listed[k - 1] /\ j - 1 \in 1..Len(listed)
               /\ k - 1 \in 1..Len(listed)
        BY <1>1, <1>2, <1>5, <2>4
      <3>2. j - 1 = k - 1
        BY <3>1 DEF Distinct
      <3> QED
        BY <1>0, <1>1, <3>2
    <2> QED
      BY <2>2, <2>3, <2>4
  <1> QED
    BY <1>3, <1>4, <1>5 DEF Distinct

\* No namespace is listed twice, and none is passed over without a failure.
LEMMA ListInvNext ==
    ASSUME TInv, ListInv, [Next]_vars
    PROVE  ListInv'
  <1>0. /\ TypeOK /\ ListShape /\ Distinct /\ Fresh /\ Complete /\ cursor \in Nat
        /\ missed \in BOOLEAN /\ full \in BOOLEAN
    BY DEF TInv, ListInv, TypeOK
  <1>1. CASE UNCHANGED listing /\ pc' # "walk"
    BY <1>0, <1>1 DEF ListInv, Distinct, Fresh, Complete, Found, listing
  <1>2. CASE CommandSets
    <2>1. /\ listed' = <<>> /\ cursor' = 0 /\ sets' = asked' /\ pc' = "list"
          /\ asked' \subseteq DOMAIN Active
      BY <1>0, <1>2, InitAssumption DEF CommandSets, ListShape, Early
    <2>2. Found' = {} /\ Distinct'
      BY <2>1 DEF Found, Distinct
    <2>3. sets' # {} => LeastOf(sets') \in DOMAIN Active
      <3>1. sets' \subseteq Nat
        BY <2>1, InitAssumption
      <3> QED
        BY <2>1, <3>1, LeastOfIn
    <2>4. sets' # {} => \A n \in Active[LeastOf(sets')] : ~(n <= cursor')
      BY <2>1, <2>3, InitAssumption
    <2> QED
      BY <2>1, <2>2, <2>4 DEF ListInv, Fresh, Complete
  <1>3. ASSUME sets # {}, sets' = sets \ {LeastOf(sets)}, cursor' = 0, pc' = "list",
               listed' = listed, asked' = asked,
               missed' \/ (~missed /\ Active[LeastOf(sets)] \subseteq Found)
        PROVE  ListInv'
    <2>1. Found' = Found /\ Distinct'
      BY <1>0, <1>3 DEF Found, Distinct
    <2>2. Fresh'
      BY <1>0, <1>3, <2>1 DEF Fresh
    <2>3. ASSUME sets' # {}, NEW n \in Active[LeastOf(sets')]
          PROVE  ~(n <= cursor')
      <3>1. sets' \subseteq Nat /\ sets' \subseteq DOMAIN Active
        BY <1>0, <1>3, InitAssumption DEF TypeOK
      <3>2. LeastOf(sets') \in DOMAIN Active
        BY <2>3, <3>1, LeastOfIn
      <3> QED
        BY <1>3, <3>2, <2>3, InitAssumption
    <2>4. ASSUME ~missed'
          PROVE  \A s \in asked' \ sets' : Active[s] \subseteq Found'
      BY <1>0, <1>3, <2>1, <2>4 DEF Complete
    <2>5. Complete'
      BY <1>3, <2>3, <2>4 DEF Complete
    <2> QED
      BY <2>1, <2>2, <2>5 DEF ListInv
  <1>4. CASE ListRequest
    <2> DEFINE s == LeastOf(sets)
               rest == {n \in Active[s] : n > cursor}
    <2>1. pc = "list" /\ sets # {} /\ UNCHANGED <<asked, listed>>
      BY <1>4 DEF ListRequest
    <2>2. CASE pc' = "list"
      <3>1. sets' = sets \ {LeastOf(sets)} /\ cursor' = 0 /\ missed' = TRUE
        BY <1>4, <2>2 DEF ListRequest
      <3> QED
        BY <1>3, <2>1, <2>2, <3>1
    <2>3. CASE pc' = "walk"
      <3>1. /\ page' = FirstOf(rest, PageIds)
            /\ UNCHANGED <<sets, cursor, missed>>
        BY <1>4, <2>1, <2>3 DEF ListRequest
      <3>2. full' <=> (Cardinality(rest) >= PageIds)
        BY <1>4, <2>1, <2>3 DEF ListRequest
      <3>3. rest \subseteq Nat /\ IsFiniteSet(rest) /\ PageIds \in Nat \ {0}
               /\ Cardinality(rest) \in Nat
        <4>1. Active[s] \subseteq Nat \ {0} /\ IsFiniteSet(Active[s])
          BY <1>0, <2>1, LeastSet
        <4>2. rest \in SUBSET Active[s]
          OBVIOUS
        <4> HIDE DEF rest
        <4>3. IsFiniteSet(rest)
          BY <4>1, <4>2, FS_Subset
        <4> QED
          BY <4>1, <4>2, <4>3, FS_CardinalityType, InitAssumption
      <3> HIDE DEF rest
      <3>4. /\ page' \subseteq rest
            /\ \A x \in page' : \A y \in rest : y < x => y \in page'
            /\ Cardinality(rest) < PageIds => page' = rest
        BY <3>1, <3>3, FirstOfFacts
      <3>5. ASSUME NEW n \in Active[s], n > cursor, n \notin page'
            PROVE  full' /\ \A m \in page' : m < n
        <4>1. n \in rest
          BY <3>5 DEF rest
        <4>2. ~(Cardinality(rest) < PageIds)
          BY <3>4, <3>5, <4>1
        <4>3. ASSUME NEW m \in page'
              PROVE  m < n
          <5>1. m \in Nat /\ n \in Nat /\ m # n /\ ~(n < m)
            BY <3>3, <3>4, <3>5, <4>1
          <5> QED
            BY <5>1
        <4> QED
          BY <3>2, <3>3, <4>2, <4>3
      <3>6. \A n \in page' : n > cursor
        BY <3>4 DEF rest
      <3>7. Found' = Found /\ Distinct'
        BY <1>0, <2>1 DEF Found, Distinct
      <3>8. Fresh'
        BY <1>0, <3>1, <3>6, <3>7 DEF Fresh
      <3>9. Complete'
        BY <1>0, <2>1, <3>1, <3>5, <3>7 DEF Complete
      <3> QED
        BY <3>7, <3>8, <3>9 DEF ListInv
    <2> QED
      BY <1>4, <2>1, <2>2, <2>3 DEF ListRequest
  <1>5. CASE Walk
    <2>1. /\ pc = "walk" /\ page # {} /\ sets # {} /\ cursor' = LeastOf(page)
          /\ UNCHANGED <<asked, sets, full>>
      BY <1>0, <1>5 DEF Walk, ListShape
    <2>2. /\ cursor' \in page /\ \A n \in page : cursor' <= n
          /\ cursor' \in Nat /\ cursor' \in Active[LeastOf(sets)]
          /\ page \subseteq Active[LeastOf(sets)]
      BY <1>0, <2>1, LeastPage DEF TInv, ListShape
    <2>3. /\ cursor' > cursor /\ cursor' \notin Found
          /\ LeastOf(sets) \in sets /\ Active[LeastOf(sets)] \subseteq Nat
          /\ cursor' \in AllNs(asked)
      BY <1>0, <2>1, <2>2, LeastSet DEF Fresh
    <2>4. \A s \in sets : \A n \in Active[s] : s # LeastOf(sets) => n # cursor'
      <3>1. sets \subseteq DOMAIN Active
        BY <1>0 DEF TypeOK
      <3> QED
        BY <2>2, <2>3, <3>1, InitAssumption
    <2>5. ASSUME NEW s \in sets, NEW n \in Active[s],
                 s # LeastOf(sets) \/ n > cursor'
          PROVE  n \notin Found \cup {cursor'}
      <3>1. CASE s # LeastOf(sets)
        BY <1>0, <2>4, <3>1 DEF Fresh
      <3>2. CASE s = LeastOf(sets) /\ n > cursor'
        <4>1. n \in Nat /\ n > cursor
          BY <1>0, <2>2, <2>3, <3>2
        <4> QED
          BY <1>0, <2>2, <3>2, <4>1 DEF Fresh
      <3> QED
        BY <2>5, <3>1, <3>2
    <2>6. CASE page' = page \ {cursor'} /\ listed' = <<cursor'>> \o listed
                  /\ UNCHANGED <<pc, missed>>
      <3>1. Found' = Found \cup {cursor'} /\ Distinct'
        BY <1>0, <2>3, <2>6, FoundNext
      <3>2. \A n \in page' : n > cursor'
        <4>1. ASSUME NEW n \in page'
              PROVE  n > cursor'
          <5>1. n \in Nat /\ n # cursor' /\ cursor' <= n
            BY <2>2, <2>3, <2>6
          <5> QED
            BY <2>2, <5>1
        <4> QED
          BY <4>1
      <3>3. Fresh'
        BY <2>1, <2>5, <3>1, <3>2 DEF Fresh
      <3>4. ASSUME ~missed, NEW n \in Active[LeastOf(sets)], n <= cursor'
            PROVE  n \in Found'
        <4>0. n \in Nat
          BY <2>3
        <4>1. CASE n <= cursor
          BY <1>0, <2>1, <3>1, <3>4, <4>1 DEF Complete
        <4>2. CASE n > cursor /\ n \notin page
          <5>1. cursor' < n
            BY <1>0, <2>1, <2>2, <3>4, <4>2 DEF Complete
          <5> QED
            BY <2>2, <3>4, <4>0, <5>1
        <4>3. CASE n \in page
          <5>1. n = cursor'
            BY <2>2, <3>4, <4>0, <4>3
          <5> QED
            BY <3>1, <5>1
        <4> QED
          BY <1>0, <4>0, <4>1, <4>2, <4>3
      <3>5. ASSUME ~missed, NEW n \in Active[LeastOf(sets)], n > cursor', n \notin page'
            PROVE  full /\ \A m \in page' : m < n
        <4>1. n \in Nat /\ n > cursor /\ n \notin page
          BY <1>0, <2>2, <2>3, <2>6, <3>5
        <4> QED
          BY <1>0, <2>1, <2>6, <3>5, <4>1 DEF Complete
      <3>6. Complete'
        BY <1>0, <2>1, <2>6, <3>1, <3>4, <3>5 DEF Complete
      <3> QED
        BY <3>1, <3>3, <3>6 DEF ListInv
    <2>7. CASE page' = {} /\ missed' = TRUE /\ pc' = "list" /\ UNCHANGED listed
      <3>1. Found' = Found /\ Distinct'
        BY <1>0, <2>7 DEF Found, Distinct
      <3>2. Fresh'
        BY <2>1, <2>5, <2>7, <3>1 DEF Fresh
      <3> QED
        BY <2>7, <3>1, <3>2 DEF ListInv, Complete
    <2> QED
      BY <1>5, <2>6, <2>7 DEF Walk
  <1>6. CASE WalkEnd
    <2>1. /\ pc = "walk" /\ page = {} /\ pc' = "list" /\ sets # {}
          /\ UNCHANGED <<asked, listed, missed>>
      BY <1>0, <1>6 DEF WalkEnd, ListShape
    <2>2. CASE full
      <3>1. UNCHANGED <<cursor, sets>>
        BY <1>6, <2>2 DEF WalkEnd
      <3> QED
        BY <1>0, <2>1, <3>1 DEF ListInv, Distinct, Fresh, Complete, Found
    <2>3. CASE ~full
      <3>1. cursor' = 0 /\ sets' = sets \ {LeastOf(sets)}
        BY <1>6, <2>3 DEF WalkEnd
      <3>2. Active[LeastOf(sets)] \subseteq Nat
        BY <1>0, <2>1, LeastSet
      <3>3. ASSUME ~missed, NEW n \in Active[LeastOf(sets)]
            PROVE  n \in Found
        <4>1. ~(n > cursor)
          BY <1>0, <2>1, <2>3, <3>3 DEF Complete
        <4>2. n <= cursor
          BY <1>0, <3>2, <4>1
        <4> QED
          BY <1>0, <2>1, <3>3, <4>2 DEF Complete
      <3> QED
        BY <1>0, <1>3, <2>1, <3>1, <3>3
    <2> QED
      BY <2>2, <2>3
  <1>7. CASE \/ PciResource \/ PciState \/ Disable \/ AdminQpair \/ WaitReady
             \/ NvmeState \/ RequestQueues \/ QpairArray \/ Qpair
    BY <1>1, <1>7 DEF PciResource, PciState, Disable, AdminQpair, WaitReady, NvmeState,
       RequestQueues, QpairArray, Qpair
  <1>8. CASE \/ QpairsDone \/ NamespaceNoMemory \/ NamespaceNoInfo \/ Namespace
             \/ Done \/ Finished
    BY <1>1, <1>8 DEF QpairsDone, NamespaceNoMemory, NamespaceNoInfo, Namespace, Done,
       Finished, vars, listing
  <1>9. CASE DeviceReady \/ UNCHANGED vars
    BY <1>0, <1>9 DEF DeviceReady, vars, ListInv, Distinct, Fresh, Complete, Found,
       listing
  <1> QED
    BY <1>2, <1>4, <1>5, <1>6, <1>7, <1>8, <1>9 DEF Next, Driver

\* The list names every active namespace once, over any number of pages and
\* command sets, unless a command or an allocation failed, and never one twice.
THEOREM ListIsExact == Spec => []ListedOnce
  <1>1. Init => ListInv
    BY DEF Init, ListInv, Distinct, Fresh, Complete, Found
  <1>2. ASSUME TInv, ListInv
        PROVE  ListedOnce
    <2> DEFINE D == 1..Len(listed)
    <2>0. Len(listed) \in Nat /\ listed \in Seq(AllNs(asked)) /\ DOMAIN listed = D
      BY <1>2 DEF TInv, TypeOK, AllNs
    <2>1. IsFiniteSet(D) /\ Cardinality(D) = Len(listed)
      <3>1. IsFiniteSet(1..Len(listed))
               /\ Cardinality(1..Len(listed))
                     = IF 1 > Len(listed) THEN 0 ELSE Len(listed) - 1 + 1
        BY <2>0, FS_Interval
      <3> QED
        BY <2>0, <3>1
    <2>2. listed \in [D -> Found]
      BY <2>0 DEF Found
    <2>3. listed \in Injection(D, Found) /\ listed \in Surjection(D, Found)
      BY <1>2, <2>2 DEF ListInv, Distinct, Injection, Surjection, IsInjective, Found
    <2> HIDE DEF D
    <2>4. Cardinality(Found) = Cardinality(D)
      BY <2>1, <2>3, FS_Surjection
    <2>5. ASSUME pc \in {"qpairs", "namespaces", "ok"}, ~missed
          PROVE  Found = AllNs(asked)
      <3>1. sets = {}
        BY <1>2, <2>5 DEF TInv, ListShape
      <3>2. AllNs(asked) \subseteq Found
        BY <1>2, <2>5, <3>1 DEF ListInv, Complete, AllNs
      <3>3. Found \subseteq AllNs(asked)
        BY <2>0 DEF Found, D
      <3> QED
        BY <3>2, <3>3
    <2> QED
      BY <2>1, <2>4, <2>5 DEF ListedOnce, Found, AllNs
  <1> QED
    BY <1>1, <1>2, ListInvNext, TInvInit, TInvNext, PTL DEF Spec

============================================================================
