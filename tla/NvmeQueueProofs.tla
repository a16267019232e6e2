-------------------------- MODULE NvmeQueueProofs --------------------------
(***************************************************************************)
(* Theorems about NvmeQueue, for every number of threads and processors,   *)
(* every queue id and every length of the two rings.                       *)
(***************************************************************************)
EXTENDS NvmeQueue, FiniteSetTheorems, TLAPS

----------------------------------------------------------------------------
(* The inductive invariant.  Its parts about completions and about what    *)
(* the controller fetches hold as long as SafeUse does; SafeUse can only   *)
(* become false, never true again.                                         *)

\* A thread between its slot and its doorbell has interrupts disabled.
SubmitMasked == \A t \in Threads : InSubmit(t) => masked[t]

\* Without a race at most one thread is submitting; it holds the last slot
\* handed out, and the doorbell announces everything before it.
OneSubmitter ==
    /\ \A t, u \in Threads : InSubmit(t) /\ InSubmit(u) => t = u
    /\ \A t \in Threads :
          InSubmit(t) => cmd[t] = subAlloc - 1 /\ sqTail = Slot(subAlloc - 1)
    /\ (\A t \in Threads : ~InSubmit(t)) => sqTail = Slot(subAlloc)

\* The number of commands announced by the doorbell.
Rung == IF \E t \in Threads : InSubmit(t) THEN subAlloc - 1 ELSE subAlloc

\* What was announced and not fetched is intact in the ring.
RingIntact ==
    /\ fetched <= Rung
    /\ subAlloc - fetched < SubLen
    /\ \A k \in fetched..Rung-1 : subq[Slot(k)] = k
    /\ \A t \in Threads : pc[t] = "sqdb" => subq[Slot(cmd[t])] = cmd[t]

\* The controller has each fetched command once: executing, or in an entry
\* of the first lap that carries its identifier.
Completions ==
    /\ executing \subseteq 0..fetched-1
    /\ IsFiniteSet(executing)
    /\ posted + Cardinality(executing) = fetched
    /\ \A j \in 0..CmpLen-1 :
          IF j < posted
          THEN /\ cmpq[j].phase = 1
               /\ cmpq[j].cid = Cid(Slot(cmpq[j].tok))
               /\ cmpq[j].tok \in (0..fetched-1) \ executing
          ELSE cmpq[j] = ZeroEntry
    /\ \A j, k \in 0..CmpLen-1 :
          j < posted /\ k < posted /\ cmpq[j].tok = cmpq[k].tok => j = k
    /\ \A k \in 0..fetched-1 :
          k \in executing \/ \E j \in 0..CmpLen-1 : j < posted /\ cmpq[j].tok = k

\* Outstanding commands are in different slots.
SlotsDistinct ==
    /\ \A t \in Threads : Outstanding(t) => cmd[t] \in 0..subAlloc-1
    /\ \A t, u \in Threads :
          Outstanding(t) /\ Outstanding(u) /\ Slot(cmd[t]) = Slot(cmd[u]) => t = u

\* The thread has not yet retired the completion of its command.
Unretired(t) ==
    pc[t] \in {"write", "sqdb", "spin", "check", "copy", "advance"}

\* Every command either still has its thread or its completion is retired.
Owned ==
    /\ cmpAlloc <= posted
    /\ \A t \in Threads : Unretired(t) =>
          \A j \in 0..CmpLen-1 : j < cmpAlloc => cmpq[j].tok # cmd[t]
    /\ \A k \in 0..subAlloc-1 :
          \/ \E t \in Threads : Unretired(t) /\ cmd[t] = k
          \/ \E j \in 0..CmpLen-1 : j < cmpAlloc /\ cmpq[j].tok = k

\* What a polling thread may conclude from the entry it looks at: before the
\* test, that an entry with its slot is its own; after it, that the entry is
\* its own and the next to be retired.
PollOK(t) ==
    /\ pc[t] = "check" =>
          /\ i[t] <= cmpAlloc
          /\ i[t] < posted /\ Slot(cmpq[i[t]].tok) = Slot(cmd[t])
                => cmpq[i[t]].tok = cmd[t]
    /\ pc[t] \in {"copy", "advance"} =>
          i[t] = cmpAlloc /\ i[t] < posted /\ cmpq[i[t]].tok = cmd[t]
    /\ pc[t] \in {"flip", "cqdb", "flip2"} => i[t] < cmpAlloc
    /\ pc[t] \in {"advance", "flip", "cqdb", "flip2", "free"} =>
          result[t] = cmd[t]

Polling ==
    /\ cmpAlloc < CmpLen => phase = 1
    /\ \A t \in Threads : PollOK(t)

Core == RingIntact /\ Completions /\ SlotsDistinct /\ Owned /\ Polling

IInv ==
    /\ TypeOK
    /\ SubmitMasked
    /\ SerialisedSubmit
    /\ "race" \notin misuse => OneSubmitter
    /\ SafeUse => Core
----------------------------------------------------------------------------
(* Arithmetic of ring indices.                                             *)

\* Quotient and remainder of the division of a ring position by the length.
LEMMA DivMod ==
    ASSUME NEW n \in Nat \ {0}, NEW a \in Int
    PROVE  /\ a \div n \in Int
           /\ a % n \in 0..n-1
           /\ a = n * (a \div n) + (a % n)
  OBVIOUS

\* A positive multiple of n is at least n.
LEMMA MultipleAtLeast ==
    ASSUME NEW n \in Nat \ {0}, NEW k \in Int, k >= 1
    PROVE  n * k >= n
  OBVIOUS

\* Between -n and n the only multiple of n is 0.
LEMMA SmallMultiple ==
    ASSUME NEW n \in Nat \ {0}, NEW k \in Int, -n < n * k, n * k < n
    PROVE  k = 0
  <1>1. CASE k >= 1
    BY <1>1, MultipleAtLeast
  <1>2. CASE k <= -1
    <2>1. n * (-k) >= n
      BY <1>2, MultipleAtLeast
    <2>2. n * (-k) = - (n * k)
      OBVIOUS
    <2> QED
      BY <2>1, <2>2
  <1> QED
    BY <1>1, <1>2

\* Two ring positions less than a lap apart are in different slots.
LEMMA ModDistinct ==
    ASSUME NEW n \in Nat \ {0}, NEW a \in Int, NEW b \in Int,
           a % n = b % n, -n < a - b, a - b < n
    PROVE  a = b
  <1> DEFINE p == a \div n
             q == b \div n
  <1>1. /\ p \in Int /\ q \in Int
        /\ a % n \in Int
        /\ a = n * p + (a % n)
        /\ b = n * q + (a % n)
    BY DivMod
  <1> HIDE DEF p, q
  <1>2. n * (p - q) = a - b
    <2>1. n * (p - q) = n * p - n * q
      BY <1>1
    <2> QED
      BY <2>1, <1>1
  <1>3. p - q = 0
    <2>1. p - q \in Int
      BY <1>1
    <2> QED
      BY <2>1, <1>2, SmallMultiple
  <1> QED
    BY <1>1, <1>2, <1>3

\* An index is its own remainder.
LEMMA ModSmall ==
    ASSUME NEW n \in Nat \ {0}, NEW a \in 0..n-1
    PROVE  a % n = a /\ a \div n = 0
  OBVIOUS

\* The doorbell value computed from a slot is the slot of the next position.
LEMMA ModStep ==
    ASSUME NEW n \in Nat \ {0}, NEW a \in Int
    PROVE  ((a % n) + 1) % n = (a + 1) % n
  <1> DEFINE x == ((a % n) + 1) % n
             y == (a + 1) % n
             p == a \div n
             q == (a + 1) \div n
             d == ((a % n) + 1) \div n
  <1>1. /\ p \in Int /\ q \in Int /\ d \in Int
        /\ a % n \in 0..n-1 /\ x \in 0..n-1 /\ y \in 0..n-1
        /\ a = n * p + (a % n)
        /\ a + 1 = n * q + y
        /\ (a % n) + 1 = n * d + x
    <2>1. a + 1 \in Int /\ (a % n) + 1 \in Int
      BY DivMod
    <2> QED
      BY <2>1, DivMod
  <1> HIDE DEF x, y, p, q, d
  <1>2. n * (q - p - d) = x - y
    <2>1. n * (q - p - d) = n * q - n * p - n * d
      BY <1>1
    <2> QED
      BY <2>1, <1>1
  <1>3. q - p - d = 0
    <2>1. q - p - d \in Int
      BY <1>1
    <2>2. -n < n * (q - p - d) /\ n * (q - p - d) < n
      BY <1>1, <1>2
    <2> QED
      BY <2>1, <2>2, SmallMultiple
  <1>4. x = y
    BY <1>1, <1>2, <1>3
  <1> QED
    BY <1>4 DEF x, y

\* A slot is an index of the submission ring.
LEMMA SlotInRange ==
    ASSUME NEW n \in Int
    PROVE  Slot(n) \in 0..SubLen-1
  BY QueueAssumption, DivMod DEF Slot

\* What is stored in a completion index or doorbell is within the ring.
LEMMA CmpIndexInRange ==
    ASSUME NEW n \in Int
    PROVE  n % CmpLen \in 0..CmpLen-1
  BY QueueAssumption, DivMod

\* The same for the submission doorbell.
LEMMA SubIndexInRange ==
    ASSUME NEW n \in Int
    PROVE  n % SubLen \in 0..SubLen-1
  BY QueueAssumption, DivMod

\* A command identifier is a number, and tells the slots of the ring apart.
LEMMA CidNat ==
    ASSUME NEW s \in 0..SubLen-1
    PROVE  Cid(s) \in Nat
  BY QueueAssumption DEF Cid

\* Two slots of the ring never share a command identifier, on either kind of
\* queue: the slot survives in the identifier because it is below 256.
LEMMA CidInjective ==
    ASSUME NEW r \in 0..SubLen-1, NEW s \in 0..SubLen-1, Cid(r) = Cid(s)
    PROVE  r = s
  <1>1. r % 256 = r /\ s % 256 = s
    BY QueueAssumption
  <1>2. QId % 64 \in Int
    BY QueueAssumption
  <1> QED
    BY <1>1, <1>2 DEF Cid

----------------------------------------------------------------------------
(* Type correctness.                                                       *)

PcValues == {"idle", "write", "sqdb", "spin", "check", "copy", "advance",
             "flip", "cqdb", "flip2", "free"}

\* A step of one thread keeps pc a function into the places of a call.
LEMMA GotoType ==
    ASSUME TypeOK, NEW t \in Threads, NEW from, NEW to \in PcValues,
           Goto(t, from, to)
    PROVE  pc' \in [Threads -> PcValues]
  BY DEF TypeOK, Goto, PcValues

\* The queue as nvme_qpair_t is set up has its type.
LEMMA TypeInit == Init => TypeOK
  BY QueueAssumption DEF Init, TypeOK, NoCmd, ZeroEntry

\* Every step of a caller or of the controller keeps the type.
LEMMA TypeNext == TypeOK /\ [Next]_vars => TypeOK'
  <1> SUFFICES ASSUME TypeOK, [Next]_vars
               PROVE  TypeOK'
    OBVIOUS
  <1> USE QueueAssumption
  <1>1. ASSUME NEW t \in Threads, SubmitAlloc(t)
        PROVE  TypeOK'
    <2>1. pc' \in [Threads -> PcValues]
      BY <1>1, GotoType DEF SubmitAlloc, PcValues
    <2>a. subAlloc \in Int
      BY DEF TypeOK
    <2>2. Slot(subAlloc) \in 0..SubLen-1
      BY <2>a, SlotInRange
    <2>3. misuse' \subseteq {"busy", "full", "race", "overlap"}
      BY <1>1 DEF SubmitAlloc, SubmitMisuse, TypeOK
    <2>4. irq' \in [Threads -> BOOLEAN] /\ masked' \in [Threads -> BOOLEAN]
      BY <1>1 DEF SubmitAlloc, TypeOK
    <2>5. subAlloc' \in 0..MaxCommands /\ cmd' \in [Threads -> 0..MaxCommands-1 \cup {NoCmd}]
      BY <1>1 DEF SubmitAlloc, TypeOK
    <2>6. used' \subseteq 0..SubLen-1
      BY <1>1, <2>2 DEF SubmitAlloc, TypeOK
    <2> QED
      BY <1>1, <2>1, <2>3, <2>4, <2>5, <2>6 DEF SubmitAlloc, TypeOK, ctrlVars, PcValues
  <1>2. ASSUME NEW t \in Threads, SubmitWrite(t)
        PROVE  TypeOK'
    <2>1. pc' \in [Threads -> PcValues]
      BY <1>2, GotoType DEF SubmitWrite, PcValues
    <2> QED
      BY <1>2, <2>1 DEF SubmitWrite, TypeOK, ctrlVars, PcValues
  <1>3. ASSUME NEW t \in Threads, SubmitRing(t)
        PROVE  TypeOK'
    <2>1. pc' \in [Threads -> PcValues]
      BY <1>3, GotoType DEF SubmitRing, PcValues
    <2>2. cmd[t] \in Int
      BY DEF TypeOK, NoCmd
    <2>3. Slot(cmd[t]) + 1 \in Int
      BY <2>2, SlotInRange
    <2>4. sqTail' \in 0..SubLen-1
      BY <1>3, <2>3, SubIndexInRange DEF SubmitRing
    <2> QED
      BY <1>3, <2>1, <2>4 DEF SubmitRing, TypeOK, ctrlVars, PcValues
  <1>4. ASSUME NEW t \in Threads, PollRead(t)
        PROVE  TypeOK'
    <2>1. pc' \in [Threads -> PcValues]
      BY <1>4, GotoType DEF PollRead, PcValues
    <2>a. cmpAlloc \in Int
      BY DEF TypeOK
    <2>2. cmpAlloc % CmpLen \in 0..CmpLen-1
      BY <2>a, CmpIndexInRange
    <2> QED
      BY <1>4, <2>1, <2>2 DEF PollRead, TypeOK, driverVars, ctrlVars, PcValues
  <1>5. ASSUME NEW t \in Threads, PollMatch(t)
        PROVE  TypeOK'
    <2>1. pc' \in [Threads -> PcValues]
      BY <1>5, GotoType DEF PollMatch, PcValues
    <2> QED
      BY <1>5, <2>1 DEF PollMatch, TypeOK, driverVars, ctrlVars, PcValues
  <1>6. ASSUME NEW t \in Threads, PollRetry(t)
        PROVE  TypeOK'
    <2>1. pc' \in [Threads -> PcValues]
      BY <1>6, GotoType DEF PollRetry, PcValues
    <2> QED
      BY <1>6, <2>1 DEF PollRetry, TypeOK, driverVars, ctrlVars, PcValues
  <1>7. ASSUME NEW t \in Threads, PollCopy(t)
        PROVE  TypeOK'
    <2>1. pc' \in [Threads -> PcValues]
      BY <1>7, GotoType DEF PollCopy, PcValues
    <2>2. cmpq[i[t]].tok \in 0..MaxCommands-1 \cup {NoCmd}
      BY DEF TypeOK
    <2> QED
      BY <1>7, <2>1, <2>2 DEF PollCopy, TypeOK, driverVars, ctrlVars, PcValues
  <1>8. ASSUME NEW t \in Threads, PollAdvance(t)
        PROVE  TypeOK'
    <2>1. pc' \in [Threads -> PcValues]
      BY <1>8, GotoType DEF PollAdvance, PcValues
    <2>a. cmpAlloc \in Int
      BY DEF TypeOK
    <2>2. cmpAlloc % CmpLen \in 0..CmpLen-1
      BY <2>a, CmpIndexInRange
    <2>4. i' \in [Threads -> 0..CmpLen-1]
      BY <1>8, <2>2 DEF PollAdvance, TypeOK
    <2>5. cmpAlloc' \in Nat
      BY <1>8 DEF PollAdvance, TypeOK
    <2>3. misuse' \subseteq {"busy", "full", "race", "overlap"}
      BY <1>8 DEF PollAdvance, TypeOK
    <2> QED
      BY <1>8, <2>1, <2>4, <2>5, <2>3 DEF PollAdvance, TypeOK, ctrlVars, PcValues
  <1>9. ASSUME NEW t \in Threads, PollFlip(t)
        PROVE  TypeOK'
    <2>1. pc' \in [Threads -> PcValues]
      BY <1>9, GotoType DEF PollFlip, PcValues
    <2> QED
      BY <1>9, <2>1 DEF PollFlip, TypeOK, ctrlVars, PcValues
  <1>10. ASSUME NEW t \in Threads, PollRing(t)
         PROVE  TypeOK'
    <2>1. pc' \in [Threads -> PcValues]
      BY <1>10, GotoType DEF PollRing, PcValues
    <2>a. i[t] + 1 \in Int
      BY DEF TypeOK
    <2>2. (i[t] + 1) % CmpLen \in 0..CmpLen-1
      BY <2>a, CmpIndexInRange
    <2> QED
      BY <1>10, <2>1, <2>2 DEF PollRing, TypeOK, ctrlVars, PcValues
  <1>11. ASSUME NEW t \in Threads, PollFlipAgain(t)
         PROVE  TypeOK'
    <2>1. pc' \in [Threads -> PcValues]
      BY <1>11, GotoType DEF PollFlipAgain, PcValues
    <2> QED
      BY <1>11, <2>1 DEF PollFlipAgain, TypeOK, ctrlVars, PcValues
  <1>12. ASSUME NEW t \in Threads, PollFree(t)
         PROVE  TypeOK'
    <2>1. pc' \in [Threads -> PcValues]
      BY <1>12, GotoType DEF PollFree, PcValues
    <2> QED
      BY <1>12, <2>1 DEF PollFree, TypeOK, ctrlVars, PcValues
  <1>13. ASSUME Fetch
         PROVE  TypeOK'
    <2>a. fetched \in Nat
      BY DEF TypeOK
    <2>b. Slot(fetched) \in 0..SubLen-1
      BY <2>a, SlotInRange
    <2>1. subq[Slot(fetched)] \in 0..MaxCommands-1 \cup {NoCmd}
      BY <2>b DEF TypeOK
    <2>2. executing' \subseteq (0..MaxCommands-1 \cup {NoCmd})
      BY <1>13, <2>1 DEF Fetch, TypeOK
    <2>3. fetched' \in Nat
      BY <1>13, <2>a DEF Fetch
    <2>4. UNCHANGED <<driverVars, posted, cmpq, threadVars, misuse>>
      BY <1>13 DEF Fetch
    <2> QED
      BY <2>2, <2>3, <2>4 DEF TypeOK, driverVars, threadVars
  <1>14. ASSUME NEW n \in executing, Post(n)
         PROVE  TypeOK'
    <2>1. n \in 0..MaxCommands-1 \cup {NoCmd}
      BY DEF TypeOK
    <2>2. Cid(Slot(n)) \in Nat
      BY <2>1, SlotInRange, CidNat DEF NoCmd
    <2>3. LapPhase(posted) \in {0, 1}
      BY DEF TypeOK, LapPhase
    <2>4. cmpq' \in [0..CmpLen-1 -> [phase : {0, 1}, cid : Nat,
                                     tok : 0..MaxCommands-1 \cup {NoCmd}]]
      BY <1>14, <2>1, <2>2, <2>3 DEF Post, TypeOK
    <2>5. executing' \subseteq (0..MaxCommands-1 \cup {NoCmd})
      BY <1>14 DEF Post, TypeOK
    <2>6. posted' \in Nat
      BY <1>14 DEF Post, TypeOK
    <2>7. UNCHANGED <<driverVars, fetched, threadVars, misuse>>
      BY <1>14 DEF Post
    <2> QED
      BY <2>4, <2>5, <2>6, <2>7 DEF TypeOK, driverVars, threadVars
  <1>15. ASSUME UNCHANGED vars
         PROVE  TypeOK'
    BY <1>15 DEF vars, driverVars, ctrlVars, threadVars, TypeOK
  <1> QED
    BY <1>1, <1>2, <1>3, <1>4, <1>5, <1>6, <1>7, <1>8, <1>9, <1>10, <1>11,
       <1>12, <1>13, <1>14, <1>15 DEF Next, CallStep, Quiescent

\* Whatever the callers and the controller do, every variable keeps its type;
\* in particular the doorbell values stay within their rings.
THEOREM TypeCorrect == Spec => []TypeOK
  BY TypeInit, TypeNext, PTL DEF Spec

----------------------------------------------------------------------------
(* Submission.                                                             *)

\* The steps that leave the submission side alone.
SubmitQuiet ==
    /\ UNCHANGED <<subAlloc, sqTail>>
    /\ misuse' \cap {"busy", "full", "race"} = misuse \cap {"busy", "full", "race"}
    /\ cmd' = cmd
    /\ \A u \in Threads : InSubmit(u)' <=> InSubmit(u)
    /\ \A u \in Threads : InSubmit(u) => masked'[u] = masked[u]

\* Every step begins a submission, rings its doorbell, writes its entry, or
\* leaves the submission side alone.
LEMMA SubmitCases ==
    ASSUME TypeOK, [Next]_vars
    PROVE  \/ \E t \in Threads : SubmitAlloc(t)
           \/ \E t \in Threads : SubmitRing(t)
           \/ SubmitQuiet
  <1> USE DEF SubmitQuiet, InSubmit, TypeOK, Goto
  <1>1. ASSUME NEW t \in Threads, CallStep(t), ~SubmitRing(t)
        PROVE  SubmitQuiet
    <2>1. CASE SubmitWrite(t)
      BY <2>1 DEF SubmitWrite
    <2>2. CASE PollRead(t)
      BY <2>2 DEF PollRead, driverVars
    <2>3. CASE PollMatch(t)
      BY <2>3 DEF PollMatch, driverVars
    <2>4. CASE PollRetry(t)
      BY <2>4 DEF PollRetry, driverVars
    <2>5. CASE PollCopy(t)
      BY <2>5 DEF PollCopy, driverVars
    <2>6. CASE PollAdvance(t)
      BY <2>6 DEF PollAdvance
    <2>7. CASE PollFlip(t)
      BY <2>7 DEF PollFlip
    <2>8. CASE PollRing(t)
      BY <2>8 DEF PollRing
    <2>9. CASE PollFlipAgain(t)
      BY <2>9 DEF PollFlipAgain
    <2>10. CASE PollFree(t)
      BY <2>10 DEF PollFree
    <2> QED
      BY <1>1, <2>1, <2>2, <2>3, <2>4, <2>5, <2>6, <2>7, <2>8, <2>9, <2>10
      DEF CallStep
  <1>2. CASE Fetch
    BY <1>2 DEF Fetch, driverVars, threadVars
  <1>3. ASSUME NEW n \in executing, Post(n)
        PROVE  SubmitQuiet
    BY <1>3 DEF Post, driverVars, threadVars
  <1>4. CASE UNCHANGED vars
    BY <1>4 DEF vars, driverVars, threadVars
  <1> QED
    BY <1>1, <1>2, <1>3, <1>4 DEF Next, Quiescent

\* SubmitMasked is inductive.
LEMMA SubmitMaskedNext ==
    ASSUME TypeOK, SubmitMasked, [Next]_vars
    PROVE  SubmitMasked'
  <1>1. ASSUME NEW t \in Threads, SubmitAlloc(t)
        PROVE  SubmitMasked'
    BY <1>1 DEF SubmitAlloc, SubmitMasked, InSubmit, Goto, TypeOK
  <1>2. ASSUME NEW t \in Threads, SubmitRing(t)
        PROVE  SubmitMasked'
    BY <1>2 DEF SubmitRing, SubmitMasked, InSubmit, Goto, TypeOK
  <1>3. CASE SubmitQuiet
    BY <1>3 DEF SubmitMasked, SubmitQuiet
  <1> QED
    BY <1>1, <1>2, <1>3, SubmitCases

\* On one processor a submission begins only when no other is under way.
LEMMA SerialisedNext ==
    ASSUME TypeOK, SubmitMasked, SerialisedSubmit, [Next]_vars
    PROVE  SerialisedSubmit'
  <1> SUFFICES ASSUME \A t, u \in Threads : CpuOf[t] = CpuOf[u],
                      "race" \notin misuse
               PROVE  "race" \notin misuse'
    BY DEF SerialisedSubmit
  <1>1. ASSUME NEW t \in Threads, SubmitAlloc(t)
        PROVE  "race" \notin misuse'
    <2>1. \A u \in Threads \ {t} : ~masked[u]
      BY <1>1 DEF SubmitAlloc, Goto, CanRun
    <2>2. ~InSubmit(t)
      BY <1>1 DEF SubmitAlloc, Goto, InSubmit
    <2>3. ~Racing
      BY <2>1, <2>2 DEF Racing, SubmitMasked
    <2> QED
      BY <1>1, <2>3 DEF SubmitAlloc, SubmitMisuse
  <1>2. ASSUME NEW t \in Threads, SubmitRing(t)
        PROVE  "race" \notin misuse'
    BY <1>2 DEF SubmitRing
  <1>3. CASE SubmitQuiet
    BY <1>3 DEF SubmitQuiet
  <1> QED
    BY <1>1, <1>2, <1>3, SubmitCases

\* Without a race the doorbell stays one submission behind the slots at most.
LEMMA OneSubmitterNext ==
    ASSUME TypeOK, "race" \notin misuse => OneSubmitter, [Next]_vars,
           "race" \notin misuse'
    PROVE  OneSubmitter'
  <1>1. ASSUME NEW t \in Threads, SubmitAlloc(t)
        PROVE  OneSubmitter'
    <2>1. "race" \notin misuse /\ ~Racing
      BY <1>1 DEF SubmitAlloc, SubmitMisuse
    <2>2. sqTail = Slot(subAlloc)
      BY <2>1 DEF OneSubmitter, Racing
    <2>3. \A u \in Threads : InSubmit(u)' <=> u = t
      BY <1>1, <2>1 DEF SubmitAlloc, Goto, InSubmit, Racing, TypeOK
    <2>4. cmd'[t] = subAlloc /\ subAlloc' = subAlloc + 1 /\ sqTail' = sqTail
      BY <1>1 DEF SubmitAlloc, TypeOK
    <2>5. subAlloc' - 1 = subAlloc
      BY <2>4 DEF TypeOK
    <2> QED
      BY <2>2, <2>3, <2>4, <2>5 DEF OneSubmitter, Slot
  <1>2. ASSUME NEW t \in Threads, SubmitRing(t)
        PROVE  OneSubmitter'
    <2>1. "race" \notin misuse /\ InSubmit(t)
      BY <1>2 DEF SubmitRing, Goto, InSubmit
    <2>2. cmd[t] = subAlloc - 1 /\ \A u \in Threads : InSubmit(u) => u = t
      BY <2>1 DEF OneSubmitter
    <2>3. \A u \in Threads : ~InSubmit(u)'
      BY <1>2, <2>2 DEF SubmitRing, Goto, InSubmit, TypeOK
    <2>4. SubLen \in Nat \ {0} /\ subAlloc - 1 \in Int
      BY QueueAssumption DEF TypeOK
    <2>5. (((subAlloc - 1) % SubLen) + 1) % SubLen = ((subAlloc - 1) + 1) % SubLen
      BY <2>4, ModStep
    <2>6. (subAlloc - 1) + 1 = subAlloc
      BY DEF TypeOK
    <2>7. sqTail' = Slot(subAlloc) /\ subAlloc' = subAlloc
      BY <1>2, <2>2, <2>5, <2>6 DEF SubmitRing, Slot
    <2> QED
      BY <2>3, <2>7 DEF OneSubmitter, Slot
  <1>3. CASE SubmitQuiet
    <2>1. "race" \notin misuse
      BY <1>3 DEF SubmitQuiet
    <2> QED
      BY <1>3, <2>1 DEF OneSubmitter, SubmitQuiet, Slot
  <1> QED
    BY <1>1, <1>2, <1>3, SubmitCases

SubmitInv ==
    /\ TypeOK
    /\ SubmitMasked
    /\ SerialisedSubmit
    /\ "race" \notin misuse => OneSubmitter

\* No submission is in progress at first.
LEMMA SubmitInvInit == Init => SubmitInv
  <1> SUFFICES ASSUME Init
               PROVE  SubmitInv
    OBVIOUS
  <1>1. TypeOK
    BY TypeInit
  <1>2. \A t \in Threads : ~InSubmit(t)
    BY DEF Init, InSubmit
  <1>3. sqTail = Slot(subAlloc)
    BY QueueAssumption, ModSmall DEF Init, Slot
  <1>4. misuse = {}
    BY DEF Init
  <1> QED
    BY <1>1, <1>2, <1>3, <1>4 DEF SubmitInv, SubmitMasked, SerialisedSubmit, OneSubmitter

\* Masked interrupts keep a second submission of the processor out, step by
\* step of nvme_pci_submit_command.
LEMMA SubmitInvNext == SubmitInv /\ [Next]_vars => SubmitInv'
  BY TypeNext, SubmitMaskedNext, SerialisedNext, OneSubmitterNext DEF SubmitInv

\* Disabling interrupts keeps the submissions of one processor apart: the
\* slot, the entry and the doorbell of a command are never interleaved with
\* those of another, whatever the number of threads.
THEOREM SubmissionsSerialised == Spec => []SerialisedSubmit
  <1>1. SubmitInv => SerialisedSubmit
    BY DEF SubmitInv
  <1> QED
    BY <1>1, SubmitInvInit, SubmitInvNext, PTL DEF Spec

\* On one processor the tail doorbell moves forward by one entry at a time.
THEOREM DoorbellForward == Spec => DoorbellInOrder
  <1>1. ASSUME SubmitInv, [Next]_vars,
               \A t, u \in Threads : CpuOf[t] = CpuOf[u], sqTail' # sqTail
        PROVE  sqTail' = (sqTail + 1) % SubLen
    <2>1. "race" \notin misuse /\ TypeOK
      BY <1>1 DEF SubmitInv, SerialisedSubmit
    <2>2. PICK t \in Threads : SubmitRing(t)
      BY <1>1, <2>1, SubmitCases DEF SubmitAlloc, SubmitQuiet
    <2>3. cmd[t] = subAlloc - 1 /\ sqTail = Slot(subAlloc - 1)
      BY <1>1, <2>1, <2>2 DEF SubmitInv, OneSubmitter, SubmitRing, Goto, InSubmit
    <2> QED
      BY <2>2, <2>3 DEF SubmitRing
  <1>2. SubmitInv /\ [Next]_vars =>
            [(\A t, u \in Threads : CpuOf[t] = CpuOf[u]) /\ sqTail' # sqTail
                => sqTail' = (sqTail + 1) % SubLen]_vars
    BY <1>1
  <1> QED
    BY <1>2, SubmitInvInit, SubmitInvNext, PTL DEF Spec, DoorbellInOrder

----------------------------------------------------------------------------
(* Safe use: what follows from the invariant in one state.                 *)

\* The state part of the invariant under safe use.
SafeState == TypeOK /\ OneSubmitter /\ Core /\ SafeUse

\* Misuse is never forgotten.
LEMMA SafeUseBack ==
    ASSUME TypeOK, [Next]_vars, SafeUse'
    PROVE  SafeUse
  <1>1. ASSUME NEW t \in Threads, SubmitAlloc(t)
        PROVE  SafeUse
    BY <1>1, QueueAssumption DEF SubmitAlloc, SafeUse, TypeOK
  <1>2. ASSUME NEW t \in Threads, SubmitRing(t)
        PROVE  SafeUse
    BY <1>2 DEF SubmitRing, SafeUse
  <1>3. CASE SubmitQuiet
    BY <1>3 DEF SubmitQuiet, SafeUse
  <1> QED
    BY <1>1, <1>2, <1>3, SubmitCases

\* The counters of the two rings are ordered, and on the first lap.
LEMMA Counters ==
    ASSUME SafeState
    PROVE  /\ Rung \in Int /\ Rung <= subAlloc /\ subAlloc - 1 <= Rung
           /\ cmpAlloc <= posted /\ posted <= fetched /\ fetched <= Rung
           /\ subAlloc <= CmpLen
           /\ CmpLen \in Nat \ {0, 1} /\ SubLen \in Nat \ {0}
           /\ cmpAlloc \in Nat /\ posted \in Nat /\ fetched \in Nat
           /\ subAlloc \in Nat
           /\ Cardinality(executing) \in Nat
           /\ posted + Cardinality(executing) = fetched
           /\ sqTail = Slot(Rung)
  <1>1. /\ cmpAlloc \in Nat /\ posted \in Nat /\ fetched \in Nat
        /\ subAlloc \in Nat
    BY QueueAssumption DEF SafeState, TypeOK
  <1>2. CmpLen \in Nat \ {0, 1} /\ SubLen \in Nat \ {0}
    BY QueueAssumption
  <1>3. Cardinality(executing) \in Nat
    BY FS_CardinalityType DEF SafeState, Core, Completions
  <1>4. posted + Cardinality(executing) = fetched
    BY DEF SafeState, Core, Completions
  <1>5. fetched <= Rung /\ cmpAlloc <= posted
    BY DEF SafeState, Core, RingIntact, Owned
  <1>6. Rung \in Int /\ Rung <= subAlloc /\ subAlloc - 1 <= Rung
    BY <1>1 DEF Rung
  <1>7. sqTail = Slot(Rung)
    BY DEF SafeState, OneSubmitter, Rung
  <1> QED
    BY <1>1, <1>2, <1>3, <1>4, <1>5, <1>6, <1>7 DEF SafeState, SafeUse

\* Once the whole first lap is retired no thread waits for a completion.
LEMMA NoneLeft ==
    ASSUME SafeState, cmpAlloc >= CmpLen, NEW t \in Threads, Unretired(t)
    PROVE  FALSE
  <1>1. cmpAlloc = CmpLen /\ posted = CmpLen /\ fetched = subAlloc /\ Cardinality(executing) = 0
    BY Counters
  <1>2. executing = {}
    BY <1>1, FS_EmptySet DEF SafeState, Core, Completions
  <1>3. cmd[t] \in 0..fetched-1
    BY <1>1 DEF SafeState, Core, SlotsDistinct, Unretired, Outstanding
  <1>4. PICK j \in 0..CmpLen-1 : j < posted /\ cmpq[j].tok = cmd[t]
    BY <1>2, <1>3 DEF SafeState, Core, Completions
  <1>5. j < cmpAlloc
    BY <1>1, <1>4
  <1> QED
    BY <1>4, <1>5 DEF SafeState, Core, Owned

\* A completion that is not retired, or a command that is executing, belongs
\* to the one thread whose outstanding command has its slot.
LEMMA OwnerBySlot ==
    ASSUME SafeState, NEW k \in 0..subAlloc-1,
           \A j \in 0..CmpLen-1 : j < cmpAlloc => cmpq[j].tok # k,
           NEW t \in Threads, Outstanding(t), Slot(k) = Slot(cmd[t])
    PROVE  k = cmd[t]
  <1>1. PICK u \in Threads : Unretired(u) /\ cmd[u] = k
    BY DEF SafeState, Core, Owned
  <1>2. Outstanding(u)
    BY <1>1 DEF Unretired, Outstanding
  <1>3. u = t
    BY <1>1, <1>2 DEF SafeState, Core, SlotsDistinct
  <1> QED
    BY <1>1, <1>3

----------------------------------------------------------------------------
(* Safe use: each part of the invariant is kept by every step.             *)

\* The steps that leave alone what RingIntact is about.
RingQuiet ==
    /\ UNCHANGED <<fetched, subAlloc, subq, cmd>>
    /\ \A u \in Threads : InSubmit(u)' <=> InSubmit(u)
    /\ \A u \in Threads : pc'[u] = "sqdb" <=> pc[u] = "sqdb"

\* A step either submits, or fetches, or leaves the submission side alone.
LEMMA RingCases ==
    ASSUME TypeOK, [Next]_vars
    PROVE  \/ \E t \in Threads : SubmitAlloc(t) \/ SubmitWrite(t) \/ SubmitRing(t)
           \/ Fetch
           \/ RingQuiet
  <1> USE DEF RingQuiet, InSubmit, TypeOK, Goto
  <1>1. ASSUME NEW t \in Threads, CallStep(t), ~SubmitWrite(t), ~SubmitRing(t)
        PROVE  RingQuiet
    <2>2. CASE PollRead(t)
      BY <2>2 DEF PollRead, driverVars, ctrlVars
    <2>3. CASE PollMatch(t)
      BY <2>3 DEF PollMatch, driverVars, ctrlVars
    <2>4. CASE PollRetry(t)
      BY <2>4 DEF PollRetry, driverVars, ctrlVars
    <2>5. CASE PollCopy(t)
      BY <2>5 DEF PollCopy, driverVars, ctrlVars
    <2>6. CASE PollAdvance(t)
      BY <2>6 DEF PollAdvance, ctrlVars
    <2>7. CASE PollFlip(t)
      BY <2>7 DEF PollFlip, ctrlVars
    <2>8. CASE PollRing(t)
      BY <2>8 DEF PollRing, ctrlVars
    <2>9. CASE PollFlipAgain(t)
      BY <2>9 DEF PollFlipAgain, ctrlVars
    <2>10. CASE PollFree(t)
      BY <2>10 DEF PollFree, ctrlVars
    <2> QED
      BY <1>1, <2>2, <2>3, <2>4, <2>5, <2>6, <2>7, <2>8, <2>9, <2>10
      DEF CallStep
  <1>2. ASSUME NEW n \in executing, Post(n)
        PROVE  RingQuiet
    BY <1>2 DEF Post, driverVars, threadVars
  <1>3. CASE UNCHANGED vars
    BY <1>3 DEF vars, driverVars, ctrlVars, threadVars
  <1> QED
    BY <1>1, <1>2, <1>3 DEF Next, Quiescent

\* What the doorbell has announced stays intact until it is fetched: a slot
\* is written again only after the controller has passed it.
LEMMA RingIntactNext ==
    ASSUME SafeState, [Next]_vars, SafeUse', OneSubmitter', TypeOK'
    PROVE  RingIntact'
  <1>0. TypeOK /\ RingIntact /\ OneSubmitter /\ SubLen \in Nat \ {0}
    BY QueueAssumption DEF SafeState, Core
  <1>a. fetched \in Nat /\ subAlloc \in Nat /\ cmd \in [Threads -> Int]
    BY QueueAssumption, <1>0 DEF TypeOK, NoCmd
  <1>1. ASSUME NEW t \in Threads, SubmitAlloc(t)
        PROVE  RingIntact'
    <2>1. ~Racing /\ ~QueueFull
      BY <1>1 DEF SubmitAlloc, SubmitMisuse, SafeUse
    <2>2. /\ subAlloc' = subAlloc + 1 /\ fetched' = fetched /\ subq' = subq
          /\ \A u \in Threads : u # t => pc'[u] = pc[u]
          /\ pc'[t] = "write"
      BY <1>1, <1>0 DEF SubmitAlloc, Goto, ctrlVars, TypeOK
    <2>3. Rung = subAlloc /\ Rung' = subAlloc
      BY <2>1, <2>2, <1>a DEF Rung, Racing, InSubmit
    <2>4. subAlloc' - fetched' < SubLen
      BY <2>1, <2>2, <1>a, <1>0 DEF QueueFull
    <2>5. \A u \in Threads : pc'[u] # "sqdb"
      BY <2>1, <2>2 DEF Racing, InSubmit
    <2>6. fetched' <= Rung' /\ \A k \in fetched'..Rung'-1 : subq'[Slot(k)] = k
      BY <2>2, <2>3, <1>0 DEF RingIntact
    <2> QED
      BY <2>4, <2>5, <2>6 DEF RingIntact, Slot
  <1>2. ASSUME NEW t \in Threads, SubmitWrite(t)
        PROVE  RingIntact'
    <2>1. /\ InSubmit(t) /\ InSubmit(t)'
          /\ subAlloc' = subAlloc /\ fetched' = fetched /\ cmd' = cmd
      BY <1>2, <1>0 DEF SubmitWrite, Goto, InSubmit, ctrlVars, TypeOK
    <2>2. cmd[t] = subAlloc - 1 /\ Rung = subAlloc - 1 /\ Rung' = subAlloc - 1
      BY <2>1, <1>0 DEF OneSubmitter, Rung
    <2>3. \A k \in fetched..Rung-1 : Slot(k) # Slot(cmd[t])
      <3> SUFFICES ASSUME NEW k \in fetched..Rung-1, Slot(k) = Slot(cmd[t])
                   PROVE  FALSE
        OBVIOUS
      <3>1. k \in Int /\ cmd[t] \in Int /\ k < cmd[t] /\ cmd[t] - k < SubLen
        BY <2>2, <1>a, <1>0 DEF RingIntact
      <3>2. k % SubLen = cmd[t] % SubLen
        BY DEF Slot
      <3>3. -SubLen < k - cmd[t] /\ k - cmd[t] < SubLen
        BY <3>1, <1>0
      <3>4. k = cmd[t]
        BY <3>1, <3>2, <3>3, <1>0, ModDistinct
      <3> QED
        BY <3>1, <3>4
    <2>4. \A s \in 0..SubLen-1 : subq'[s] = IF s = Slot(cmd[t]) THEN cmd[t] ELSE subq[s]
      BY <1>2, <1>0 DEF SubmitWrite, TypeOK
    <2>5. \A k \in fetched..Rung-1 : subq'[Slot(k)] = k
      <3> TAKE k \in fetched..Rung-1
      <3>1. k \in Int
        BY <1>a
      <3>2. Slot(k) \in 0..SubLen-1
        BY <3>1, SlotInRange
      <3> QED
        BY <3>2, <2>3, <2>4, <1>0 DEF RingIntact
    <2>6. subq'[Slot(cmd[t])] = cmd[t]
      BY <2>4, <1>a, SlotInRange
    <2>7. \A u \in Threads : pc'[u] = "sqdb" => u = t
      <3> TAKE u \in Threads
      <3> HAVE pc'[u] = "sqdb"
      <3>1. CASE u # t
        <4>1. pc[u] = "sqdb"
          BY <3>1, <1>2, <1>0 DEF SubmitWrite, Goto, TypeOK
        <4> QED
          BY <4>1, <2>1, <1>0 DEF OneSubmitter, InSubmit
      <3> QED
        BY <3>1
    <2>8. \A u \in Threads : pc'[u] = "sqdb" => subq'[Slot(cmd[u])] = cmd[u]
      BY <2>6, <2>7
    <2> QED
      BY <2>1, <2>2, <2>5, <2>8, <1>0 DEF RingIntact, Slot
  <1>3. ASSUME NEW t \in Threads, SubmitRing(t)
        PROVE  RingIntact'
    <2>1. /\ InSubmit(t) /\ pc[t] = "sqdb" /\ subq' = subq
          /\ subAlloc' = subAlloc /\ fetched' = fetched /\ cmd' = cmd
      BY <1>3, <1>0 DEF SubmitRing, Goto, InSubmit, ctrlVars, TypeOK
    <2>2. /\ cmd[t] = subAlloc - 1 /\ Rung = subAlloc - 1
          /\ \A u \in Threads : InSubmit(u) => u = t
      BY <2>1, <1>0 DEF OneSubmitter, Rung
    <2>3. \A u \in Threads : ~InSubmit(u)' /\ pc'[u] # "sqdb"
      BY <1>3, <2>2, <1>0 DEF SubmitRing, Goto, InSubmit, TypeOK
    <2>4. Rung' = subAlloc
      BY <2>1, <2>3 DEF Rung
    <2>5. subq[Slot(subAlloc - 1)] = subAlloc - 1
      BY <2>1, <2>2, <1>0 DEF RingIntact
    <2>6. \A k \in fetched..subAlloc-1 : subq[Slot(k)] = k
      <3> TAKE k \in fetched..subAlloc-1
      <3>1. CASE k = subAlloc - 1
        BY <3>1, <2>5
      <3>2. CASE k # subAlloc - 1
        BY <3>2, <2>2, <1>0, <1>a DEF RingIntact
      <3> QED
        BY <3>1, <3>2
    <2>7. fetched <= subAlloc
      BY <2>2, <1>0, <1>a DEF RingIntact
    <2>8. subAlloc' - fetched' < SubLen
      BY <2>1, <1>0 DEF RingIntact
    <2> QED
      BY <2>1, <2>3, <2>4, <2>6, <2>7, <2>8 DEF RingIntact, Slot
  <1>4. CASE Fetch
    <2>1. /\ fetched' = fetched + 1 /\ subq' = subq /\ subAlloc' = subAlloc
          /\ cmd' = cmd /\ pc' = pc
      BY <1>4 DEF Fetch, driverVars, threadVars
    <2>2. Rung' = Rung
      BY <2>1 DEF Rung, InSubmit
    <2>3. fetched # Rung
      BY <1>4, Counters DEF Fetch
    <2>4. fetched' <= Rung'
      BY <2>1, <2>2, <2>3, Counters
    <2>5. subAlloc' - fetched' < SubLen
      BY <2>1, <1>0, <1>a DEF RingIntact
    <2>6. \A k \in fetched'..Rung'-1 : subq'[Slot(k)] = k
      BY <2>1, <2>2, <1>0, <1>a DEF RingIntact
    <2> QED
      BY <2>1, <2>4, <2>5, <2>6, <1>0 DEF RingIntact, Slot
  <1>5. CASE RingQuiet
    <2>1. Rung' = Rung
      BY <1>5 DEF RingQuiet, Rung
    <2> QED
      BY <1>5, <2>1, <1>0 DEF RingQuiet, RingIntact, Slot
  <1> QED
    BY <1>0, <1>1, <1>2, <1>3, <1>4, <1>5, RingCases

\* Every step but the controller's own leaves the controller alone.
LEMMA ControllerCases ==
    ASSUME [Next]_vars
    PROVE  \/ Fetch
           \/ \E n \in executing : Post(n)
           \/ UNCHANGED ctrlVars
  BY DEF Next, CallStep, Quiescent, vars, SubmitAlloc, SubmitWrite, SubmitRing,
         PollRead, PollMatch, PollRetry, PollCopy, PollAdvance, PollFlip,
         PollRing, PollFlipAgain, PollFree

\* Every fetched command is executing or has one completion entry, which is on
\* the first lap of the ring and carries its identifier.
LEMMA CompletionsNext ==
    ASSUME SafeState, [Next]_vars
    PROVE  Completions'
  <1>0. TypeOK /\ Completions /\ RingIntact
    BY DEF SafeState, Core
  <1>1. CASE Fetch
    <2>1. fetched < Rung
      BY <1>1, Counters DEF Fetch
    <2>2. subq[Slot(fetched)] = fetched
      BY <2>1, <1>0, Counters DEF RingIntact
    <2>3. /\ executing' = executing \cup {fetched} /\ fetched' = fetched + 1
          /\ posted' = posted /\ cmpq' = cmpq
      BY <1>1, <2>2 DEF Fetch
    <2>4. fetched \notin executing /\ fetched \in Nat
      BY <1>0 DEF Completions, TypeOK
    <2>5. /\ IsFiniteSet(executing')
          /\ Cardinality(executing') = Cardinality(executing) + 1
      BY <2>3, <2>4, <1>0, FS_AddElement DEF Completions
    <2>6. posted' + Cardinality(executing') = fetched'
      BY <2>3, <2>5, Counters
    <2>7. executing' \subseteq 0..fetched'-1
      BY <2>3, <2>4, <1>0 DEF Completions
    <2>8. \A j \in 0..CmpLen-1 :
             IF j < posted'
             THEN /\ cmpq'[j].phase = 1
                  /\ cmpq'[j].cid = Cid(Slot(cmpq'[j].tok))
                  /\ cmpq'[j].tok \in (0..fetched'-1) \ executing'
             ELSE cmpq'[j] = ZeroEntry
      BY <2>3, <2>4, <1>0 DEF Completions
    <2>9. \A k \in 0..fetched'-1 :
             k \in executing' \/ \E j \in 0..CmpLen-1 : j < posted' /\ cmpq'[j].tok = k
      BY <2>3, <2>4, <1>0 DEF Completions
    <2> QED
      BY <2>3, <2>5, <2>6, <2>7, <2>8, <2>9, <1>0 DEF Completions, Cid, Slot, ZeroEntry, NoCmd
  <1>2. ASSUME NEW n \in executing, Post(n)
        PROVE  Completions'
    <2>1. Cardinality(executing) # 0
      BY <1>0, FS_EmptySet DEF Completions
    <2>2. posted < CmpLen
      BY <2>1, Counters
    <2>3. posted % CmpLen = posted /\ posted \div CmpLen = 0
      BY <2>2, Counters, ModSmall
    <2>4. LapPhase(posted) = 1
      BY <2>3 DEF LapPhase
    <2>5. /\ executing' = executing \ {n} /\ fetched' = fetched
          /\ posted' = posted + 1
          /\ cmpq' = [cmpq EXCEPT ![posted] =
                         [phase |-> 1, cid |-> Cid(Slot(n)), tok |-> n]]
      BY <1>2, <2>3, <2>4 DEF Post
    <2>6. n \in 0..fetched-1
      BY <1>0 DEF Completions
    <2>7. /\ IsFiniteSet(executing')
          /\ Cardinality(executing') = Cardinality(executing) - 1
      BY <2>5, <1>0, FS_RemoveElement DEF Completions
    <2>8. posted' + Cardinality(executing') = fetched'
      BY <2>5, <2>7, Counters
    <2>9. /\ cmpq'[posted] = [phase |-> 1, cid |-> Cid(Slot(n)), tok |-> n]
          /\ \A j \in 0..CmpLen-1 : j # posted => cmpq'[j] = cmpq[j]
      BY <2>2, <2>5, <1>0, Counters DEF TypeOK
    <2>10. ASSUME NEW j \in 0..CmpLen-1
           PROVE  IF j < posted'
                  THEN /\ cmpq'[j].phase = 1
                       /\ cmpq'[j].cid = Cid(Slot(cmpq'[j].tok))
                       /\ cmpq'[j].tok \in (0..fetched'-1) \ executing'
                  ELSE cmpq'[j] = ZeroEntry
      <3>1. CASE j = posted
        BY <3>1, <2>9, <2>5, <2>6, Counters
      <3>2. CASE j # posted
        BY <3>2, <2>9, <2>5, <1>0, Counters DEF Completions
      <3> QED
        BY <3>1, <3>2
    <2>11. ASSUME NEW j \in 0..CmpLen-1, NEW k \in 0..CmpLen-1,
                  j < posted', k < posted', cmpq'[j].tok = cmpq'[k].tok
           PROVE  j = k
      <3>1. \A m \in 0..CmpLen-1 : m < posted => cmpq[m].tok # n
        BY <1>0 DEF Completions
      <3>2. CASE j = posted \/ k = posted
        BY <3>1, <3>2, <2>11, <2>9, <2>5, Counters
      <3>3. CASE j # posted /\ k # posted
        BY <3>3, <2>11, <2>9, <2>5, <1>0, Counters DEF Completions
      <3> QED
        BY <3>2, <3>3
    <2>12. ASSUME NEW k \in 0..fetched'-1, k \notin executing'
           PROVE  \E j \in 0..CmpLen-1 : j < posted' /\ cmpq'[j].tok = k
      <3>1. CASE k = n
        <4>1. posted \in 0..CmpLen-1 /\ posted < posted' /\ cmpq'[posted].tok = n
          BY <2>2, <2>5, <2>9, Counters
        <4> QED
          BY <3>1, <4>1
      <3>2. CASE k # n
        <4>1. PICK j \in 0..CmpLen-1 : j < posted /\ cmpq[j].tok = k
          BY <3>2, <2>12, <2>5, <1>0 DEF Completions
        <4>2. j < posted' /\ cmpq'[j].tok = k
          BY <4>1, <2>5, <2>9, Counters
        <4> QED
          BY <4>2
      <3> QED
        BY <3>1, <3>2
    <2>13. executing' \subseteq 0..fetched'-1
      BY <2>5, <1>0 DEF Completions
    <2> QED
      BY <2>7, <2>8, <2>10, <2>11, <2>12, <2>13 DEF Completions, Cid, Slot, ZeroEntry, NoCmd
  <1>3. CASE UNCHANGED ctrlVars
    BY <1>3, <1>0 DEF ctrlVars, Completions, Cid, Slot, ZeroEntry, NoCmd
  <1> QED
    BY <1>1, <1>2, <1>3, ControllerCases

\* The steps that neither begin nor end a call.
CallQuiet ==
    /\ UNCHANGED <<subAlloc, cmd>>
    /\ \A u \in Threads : Outstanding(u)' <=> Outstanding(u)

\* A step either begins a call, or ends one, or leaves the set of outstanding
\* commands alone.
LEMMA CallCases ==
    ASSUME TypeOK, [Next]_vars
    PROVE  \/ \E t \in Threads : SubmitAlloc(t) \/ PollFree(t)
           \/ CallQuiet
  <1> USE DEF CallQuiet, Outstanding, TypeOK, Goto
  <1>1. ASSUME NEW t \in Threads, CallStep(t), ~PollFree(t)
        PROVE  CallQuiet
    <2>1. CASE SubmitWrite(t) \/ SubmitRing(t)
      BY <2>1 DEF SubmitWrite, SubmitRing
    <2>2. CASE PollRead(t)
      BY <2>2 DEF PollRead, driverVars
    <2>3. CASE PollMatch(t)
      BY <2>3 DEF PollMatch, driverVars
    <2>4. CASE PollRetry(t)
      BY <2>4 DEF PollRetry, driverVars
    <2>5. CASE PollCopy(t)
      BY <2>5 DEF PollCopy, driverVars
    <2>6. CASE PollAdvance(t)
      BY <2>6 DEF PollAdvance
    <2>7. CASE PollFlip(t)
      BY <2>7 DEF PollFlip
    <2>8. CASE PollRing(t)
      BY <2>8 DEF PollRing
    <2>9. CASE PollFlipAgain(t)
      BY <2>9 DEF PollFlipAgain
    <2> QED
      BY <1>1, <2>1, <2>2, <2>3, <2>4, <2>5, <2>6, <2>7, <2>8, <2>9 DEF CallStep
  <1>2. CASE Fetch
    BY <1>2 DEF Fetch, driverVars, threadVars
  <1>3. ASSUME NEW n \in executing, Post(n)
        PROVE  CallQuiet
    BY <1>3 DEF Post, driverVars, threadVars
  <1>4. CASE UNCHANGED vars
    BY <1>4 DEF vars, driverVars, threadVars
  <1> QED
    BY <1>1, <1>2, <1>3, <1>4 DEF Next, Quiescent

\* Outstanding commands stay in different slots as long as no call is handed
\* a slot in use.
LEMMA SlotsDistinctNext ==
    ASSUME SafeState, [Next]_vars, SafeUse'
    PROVE  SlotsDistinct'
  <1>0. TypeOK /\ SlotsDistinct
    BY DEF SafeState, Core
  <1>1. ASSUME NEW t \in Threads, SubmitAlloc(t)
        PROVE  SlotsDistinct'
    <2>1. ~SlotBusy
      BY <1>1 DEF SubmitAlloc, SubmitMisuse, SafeUse
    <2>2. /\ subAlloc' = subAlloc + 1 /\ subAlloc \in Nat /\ cmd'[t] = subAlloc
          /\ \A u \in Threads : u # t => cmd'[u] = cmd[u] /\ pc'[u] = pc[u]
          /\ ~Outstanding(t)
      BY <1>1, <1>0, QueueAssumption DEF SubmitAlloc, Goto, TypeOK, Outstanding
    <2>3. \A u \in Threads : Outstanding(u)' => cmd'[u] \in 0..subAlloc'-1
      BY <2>2, <1>0 DEF SlotsDistinct, Outstanding
    <2>4. \A u \in Threads : u # t /\ Outstanding(u)' => Slot(cmd'[u]) # Slot(subAlloc)
      BY <2>1, <2>2 DEF SlotBusy, Outstanding
    <2>5. ASSUME NEW u \in Threads, NEW v \in Threads, Outstanding(u)',
                 Outstanding(v)', Slot(cmd'[u]) = Slot(cmd'[v])
          PROVE  u = v
      <3>1. CASE u # t /\ v # t
        BY <3>1, <2>5, <2>2, <1>0 DEF SlotsDistinct, Outstanding
      <3>2. CASE u = t \/ v = t
        BY <3>2, <2>5, <2>4, <2>2
      <3> QED
        BY <3>1, <3>2
    <2> QED
      BY <2>3, <2>5 DEF SlotsDistinct, Slot
  <1>2. ASSUME NEW t \in Threads, PollFree(t)
        PROVE  SlotsDistinct'
    <2>1. /\ subAlloc' = subAlloc /\ cmd' = cmd
          /\ \A u \in Threads : Outstanding(u)' => Outstanding(u)
      BY <1>2, <1>0 DEF PollFree, Goto, TypeOK, Outstanding
    <2> QED
      BY <2>1, <1>0 DEF SlotsDistinct, Slot
  <1>3. CASE CallQuiet
    BY <1>3, <1>0 DEF CallQuiet, SlotsDistinct, Slot
  <1> QED
    BY <1>0, <1>1, <1>2, <1>3, CallCases

\* The steps that leave alone what Owned is about.
OwnedQuiet ==
    /\ UNCHANGED <<subAlloc, cmpAlloc, posted, cmpq, cmd>>
    /\ \A u \in Threads : Unretired(u)' <=> Unretired(u)

\* A step either submits, posts, or retires a completion, or leaves the
\* entries owned by the callers alone.
LEMMA OwnedCases ==
    ASSUME TypeOK, [Next]_vars
    PROVE  \/ \E t \in Threads : SubmitAlloc(t) \/ PollAdvance(t)
           \/ \E n \in executing : Post(n)
           \/ OwnedQuiet
  <1> USE DEF OwnedQuiet, Unretired, TypeOK, Goto
  <1>1. ASSUME NEW t \in Threads, CallStep(t), ~PollAdvance(t)
        PROVE  OwnedQuiet
    <2>1. CASE SubmitWrite(t)
      BY <2>1 DEF SubmitWrite, ctrlVars
    <2>2. CASE SubmitRing(t)
      BY <2>2 DEF SubmitRing, ctrlVars
    <2>3. CASE PollRead(t)
      BY <2>3 DEF PollRead, driverVars, ctrlVars
    <2>4. CASE PollMatch(t)
      BY <2>4 DEF PollMatch, driverVars, ctrlVars
    <2>5. CASE PollRetry(t)
      BY <2>5 DEF PollRetry, driverVars, ctrlVars
    <2>6. CASE PollCopy(t)
      BY <2>6 DEF PollCopy, driverVars, ctrlVars
    <2>7. CASE PollFlip(t)
      BY <2>7 DEF PollFlip, ctrlVars
    <2>8. CASE PollRing(t)
      BY <2>8 DEF PollRing, ctrlVars
    <2>9. CASE PollFlipAgain(t)
      BY <2>9 DEF PollFlipAgain, ctrlVars
    <2>10. CASE PollFree(t)
      BY <2>10 DEF PollFree, ctrlVars
    <2> QED
      BY <1>1, <2>1, <2>2, <2>3, <2>4, <2>5, <2>6, <2>7, <2>8, <2>9, <2>10
      DEF CallStep
  <1>2. CASE Fetch
    BY <1>2 DEF Fetch, driverVars, threadVars
  <1>3. CASE UNCHANGED vars
    BY <1>3 DEF vars, driverVars, ctrlVars, threadVars
  <1> QED
    BY <1>1, <1>2, <1>3 DEF Next, Quiescent

\* The completion a thread is about to retire is its own.
LEMMA AdvanceFacts ==
    ASSUME SafeState, NEW t \in Threads, PollAdvance(t)
    PROVE  /\ cmpAlloc < posted /\ cmpAlloc \in 0..CmpLen-1
           /\ cmpq[cmpAlloc].tok = cmd[t]
           /\ cmpAlloc' = cmpAlloc + 1 /\ i'[t] = cmpAlloc
           /\ UNCHANGED <<posted, cmpq, subAlloc, cmd, result, phase>>
           /\ pc[t] = "advance" /\ pc'[t] = "flip"
           /\ result[t] = cmd[t]
           /\ \A u \in Threads : u # t => pc'[u] = pc[u] /\ i'[u] = i[u]
           /\ \A u \in Threads : u # t /\ Unretired(u) => cmd[u] # cmd[t]
  <1>1. TypeOK /\ Polling /\ SlotsDistinct
    BY DEF SafeState, Core
  <1>2. pc[t] = "advance"
    BY DEF PollAdvance, Goto
  <1>3. i[t] = cmpAlloc /\ i[t] < posted /\ cmpq[i[t]].tok = cmd[t] /\ result[t] = cmd[t]
    BY <1>1, <1>2 DEF Polling, PollOK
  <1>4. cmpAlloc \in 0..CmpLen-1
    BY <1>3, Counters
  <1>5. cmpAlloc % CmpLen = cmpAlloc
    BY <1>4, Counters, ModSmall
  <1>6. \A u \in Threads : u # t /\ Unretired(u) => cmd[u] # cmd[t]
    BY <1>1, <1>2 DEF SlotsDistinct, Unretired, Outstanding
  <1>7. /\ cmpAlloc' = cmpAlloc + 1 /\ i'[t] = cmpAlloc /\ pc'[t] = "flip"
        /\ UNCHANGED <<posted, cmpq, subAlloc, cmd, result, phase>>
        /\ \A u \in Threads : u # t => pc'[u] = pc[u] /\ i'[u] = i[u]
    BY <1>1, <1>5 DEF PollAdvance, Goto, TypeOK, ctrlVars
  <1> QED
    BY <1>2, <1>3, <1>4, <1>6, <1>7

\* A new completion goes to the next free entry and leaves the others alone.
LEMMA PostFacts ==
    ASSUME SafeState, NEW n \in executing, Post(n)
    PROVE  /\ posted \in 0..CmpLen-1 /\ posted' = posted + 1
           /\ cmpq'[posted].tok = n
           /\ \A j \in 0..CmpLen-1 : j # posted => cmpq'[j] = cmpq[j]
           /\ n \in 0..subAlloc-1
           /\ \A j \in 0..CmpLen-1 : j < posted => cmpq[j].tok # n
           /\ UNCHANGED <<subAlloc, cmpAlloc, phase, pc, cmd, i, result>>
  <1>0. TypeOK /\ Completions
    BY DEF SafeState, Core
  <1>1. Cardinality(executing) # 0
    BY <1>0, FS_EmptySet DEF Completions
  <1>2. posted \in 0..CmpLen-1
    BY <1>1, Counters
  <1>3. posted % CmpLen = posted
    BY <1>2, Counters, ModSmall
  <1>4. /\ posted' = posted + 1 /\ cmpq'[posted].tok = n
        /\ \A j \in 0..CmpLen-1 : j # posted => cmpq'[j] = cmpq[j]
    BY <1>0, <1>2, <1>3 DEF Post, TypeOK
  <1>5. n \in 0..fetched-1 /\ \A j \in 0..CmpLen-1 : j < posted => cmpq[j].tok # n
    BY <1>0 DEF Completions
  <1>6. n \in 0..subAlloc-1
    BY <1>5, Counters
  <1>7. UNCHANGED <<subAlloc, cmpAlloc, phase, pc, cmd, i, result>>
    BY DEF Post, driverVars, threadVars
  <1> QED
    BY <1>2, <1>4, <1>5, <1>6, <1>7

\* No completion is retired before it is posted, twice, or by a thread it does
\* not belong to.
LEMMA OwnedNext ==
    ASSUME SafeState, [Next]_vars
    PROVE  Owned'
  <1>0. TypeOK /\ Owned /\ Completions
    BY DEF SafeState, Core
  <1>1. ASSUME NEW t \in Threads, SubmitAlloc(t)
        PROVE  Owned'
    <2>1. /\ subAlloc' = subAlloc + 1 /\ cmd'[t] = subAlloc
          /\ UNCHANGED <<cmpAlloc, posted, cmpq>>
          /\ \A u \in Threads : u # t => cmd'[u] = cmd[u] /\ pc'[u] = pc[u]
          /\ pc[t] = "idle" /\ pc'[t] = "write"
      BY <1>1, <1>0 DEF SubmitAlloc, Goto, TypeOK, ctrlVars
    <2>2. \A j \in 0..CmpLen-1 : j < cmpAlloc => cmpq[j].tok # subAlloc
      <3> SUFFICES ASSUME NEW j \in 0..CmpLen-1, j < cmpAlloc
                   PROVE  cmpq[j].tok # subAlloc
        OBVIOUS
      <3>1. cmpq[j].tok \in 0..fetched-1
        BY <1>0, Counters DEF Completions
      <3> QED
        BY <3>1, Counters
    <2>3. \A u \in Threads : Unretired(u)' =>
             \A j \in 0..CmpLen-1 : j < cmpAlloc' => cmpq'[j].tok # cmd'[u]
      BY <2>1, <2>2, <1>0 DEF Owned, Unretired
    <2>4. ASSUME NEW k \in 0..subAlloc'-1
          PROVE  \/ \E u \in Threads : Unretired(u)' /\ cmd'[u] = k
                 \/ \E j \in 0..CmpLen-1 : j < cmpAlloc' /\ cmpq'[j].tok = k
      <3>1. CASE k = subAlloc
        BY <3>1, <2>1 DEF Unretired
      <3>2. CASE k # subAlloc
        <4>1. k \in 0..subAlloc-1
          BY <3>2, <2>1, Counters
        <4>2. CASE \E j \in 0..CmpLen-1 : j < cmpAlloc /\ cmpq[j].tok = k
          BY <4>2, <2>1
        <4>3. CASE \E u \in Threads : Unretired(u) /\ cmd[u] = k
          <5>1. PICK u \in Threads : Unretired(u) /\ cmd[u] = k
            BY <4>3
          <5>2. u # t
            BY <5>1, <2>1 DEF Unretired
          <5> QED
            BY <5>1, <5>2, <2>1 DEF Unretired
        <4> QED
          BY <4>1, <4>2, <4>3, <1>0 DEF Owned
      <3> QED
        BY <3>1, <3>2
    <2> QED
      BY <2>1, <2>3, <2>4, <1>0 DEF Owned
  <1>2. ASSUME NEW t \in Threads, PollAdvance(t)
        PROVE  Owned'
    <2>1. cmpAlloc' <= posted'
      BY <1>2, AdvanceFacts, Counters
    <2>2. ASSUME NEW u \in Threads, Unretired(u)', NEW j \in 0..CmpLen-1,
                 j < cmpAlloc'
          PROVE  cmpq'[j].tok # cmd'[u]
      <3>1. u # t /\ Unretired(u)
        BY <1>2, <2>2, AdvanceFacts DEF Unretired
      <3>2. CASE j = cmpAlloc
        BY <3>1, <3>2, <1>2, AdvanceFacts
      <3>3. CASE j < cmpAlloc
        BY <3>1, <3>3, <1>2, <1>0, AdvanceFacts DEF Owned
      <3> QED
        BY <3>2, <3>3, <2>2, <1>2, AdvanceFacts, Counters
    <2>3. ASSUME NEW k \in 0..subAlloc'-1
          PROVE  \/ \E u \in Threads : Unretired(u)' /\ cmd'[u] = k
                 \/ \E j \in 0..CmpLen-1 : j < cmpAlloc' /\ cmpq'[j].tok = k
      <3>1. k \in 0..subAlloc-1
        BY <1>2, AdvanceFacts
      <3>2. CASE \E j \in 0..CmpLen-1 : j < cmpAlloc /\ cmpq[j].tok = k
        BY <3>2, <1>2, AdvanceFacts, Counters
      <3>3. CASE \E u \in Threads : Unretired(u) /\ cmd[u] = k
        <4>1. PICK u \in Threads : Unretired(u) /\ cmd[u] = k
          BY <3>3
        <4>2. CASE u = t
          <5>1. cmpAlloc \in 0..CmpLen-1 /\ cmpAlloc < cmpAlloc' /\ cmpq'[cmpAlloc].tok = k
            BY <4>1, <4>2, <1>2, AdvanceFacts, Counters
          <5> QED
            BY <5>1
        <4>3. CASE u # t
          BY <4>1, <4>3, <1>2, AdvanceFacts DEF Unretired
        <4> QED
          BY <4>2, <4>3
      <3> QED
        BY <3>1, <3>2, <3>3, <1>0 DEF Owned
    <2> QED
      BY <2>1, <2>2, <2>3 DEF Owned
  <1>3. ASSUME NEW n \in executing, Post(n)
        PROVE  Owned'
    <2>1. cmpAlloc' <= posted'
      BY <1>3, PostFacts, Counters
    <2>2. \A j \in 0..CmpLen-1 : j < cmpAlloc => cmpq'[j] = cmpq[j]
      BY <1>3, PostFacts, Counters
    <2>3. \A u \in Threads : Unretired(u)' <=> Unretired(u)
      BY <1>3, PostFacts DEF Unretired
    <2>4. UNCHANGED <<cmpAlloc, subAlloc, cmd>>
      BY <1>3, PostFacts
    <2> QED
      BY <2>1, <2>2, <2>3, <2>4, <1>0 DEF Owned
  <1>4. CASE OwnedQuiet
    BY <1>4, <1>0 DEF OwnedQuiet, Owned
  <1> QED
    BY <1>0, <1>1, <1>2, <1>3, <1>4, OwnedCases

\* PollOK of a thread survives a step that changes nothing it speaks of.
LEMMA PollFrame ==
    ASSUME NEW u \in Threads, PollOK(u),
           pc'[u] = pc[u], i'[u] = i[u], cmd'[u] = cmd[u], result'[u] = result[u],
           UNCHANGED <<cmpAlloc, posted, cmpq>>
    PROVE  PollOK(u)'
  BY DEF PollOK, Slot

\* A thread whose identifier matches has found its own completion, and the
\* completion is the next to be retired.
LEMMA MatchFacts ==
    ASSUME SafeState, NEW t \in Threads, pc[t] = "check", Matches(t)
    PROVE  i[t] = cmpAlloc /\ i[t] < posted /\ cmpq[i[t]].tok = cmd[t]
  <1>0. TypeOK /\ Completions /\ Owned /\ Polling
    BY DEF SafeState, Core
  <1>1. Unretired(t)
    BY DEF Unretired
  <1>2. phase = 1
    BY <1>0, <1>1, NoneLeft, Counters DEF Polling
  <1>3. i[t] \in 0..CmpLen-1 /\ i[t] <= cmpAlloc
    BY <1>0 DEF TypeOK, Polling, PollOK
  <1>4. i[t] < posted
    BY <1>0, <1>2, <1>3 DEF Completions, Matches, ZeroEntry
  <1>5. cmpq[i[t]].cid = Cid(Slot(cmpq[i[t]].tok)) /\ cmpq[i[t]].tok \in Int
    BY <1>0, <1>3, <1>4 DEF Completions
  <1>6. cmd[t] \in Int
    BY <1>0 DEF TypeOK, NoCmd
  <1>7. Slot(cmpq[i[t]].tok) = Slot(cmd[t])
    BY <1>5, <1>6, SlotInRange, CidInjective DEF Matches
  <1>8. cmpq[i[t]].tok = cmd[t]
    BY <1>0, <1>4, <1>7 DEF Polling, PollOK
  <1>9. ~(i[t] < cmpAlloc)
    BY <1>0, <1>1, <1>3, <1>8 DEF Owned
  <1> QED
    BY <1>3, <1>4, <1>8, <1>9, Counters

\* A thread that reads cmpq->idx looks at the next entry to be retired; if
\* that entry has its slot it is its own.
LEMMA ReadFacts ==
    ASSUME SafeState, NEW t \in Threads, PollRead(t)
    PROVE  PollOK(t)'
  <1>0. TypeOK /\ Completions
    BY DEF SafeState, Core
  <1>1. Unretired(t) /\ Outstanding(t)
    BY DEF PollRead, Goto, Unretired, Outstanding
  <1>2. cmpAlloc \in 0..CmpLen-1
    BY <1>1, NoneLeft, Counters
  <1>3. cmpAlloc % CmpLen = cmpAlloc
    BY <1>2, Counters, ModSmall
  <1>4. /\ i'[t] = cmpAlloc /\ pc'[t] = "check"
        /\ UNCHANGED <<cmpAlloc, posted, cmpq, cmd>>
    BY <1>0, <1>3 DEF PollRead, Goto, TypeOK, driverVars, ctrlVars
  <1>5. ASSUME cmpAlloc < posted, Slot(cmpq[cmpAlloc].tok) = Slot(cmd[t])
        PROVE  cmpq[cmpAlloc].tok = cmd[t]
    <2>1. cmpq[cmpAlloc].tok \in 0..subAlloc-1
      <3>1. cmpq[cmpAlloc].tok \in 0..fetched-1
        BY <1>0, <1>2, <1>5 DEF Completions
      <3> QED
        BY <3>1, Counters
    <2>2. \A j \in 0..CmpLen-1 : j < cmpAlloc => cmpq[j].tok # cmpq[cmpAlloc].tok
      BY <1>0, <1>2, <1>5, Counters DEF Completions
    <2> QED
      BY <1>1, <1>5, <2>1, <2>2, OwnerBySlot
  <1> QED
    BY <1>4, <1>5, Counters DEF PollOK, Slot

\* Every thread stays entitled to what it concludes from the entry it reads,
\* whatever the other threads and the controller do in between.
LEMMA PollingNext ==
    ASSUME SafeState, [Next]_vars
    PROVE  Polling'
  <1>0. TypeOK /\ Polling
    BY DEF SafeState, Core
  <1>1. ASSUME NEW t \in Threads, SubmitAlloc(t)
        PROVE  Polling'
    <2>1. /\ UNCHANGED <<cmpAlloc, posted, cmpq, phase, i, result>>
          /\ pc'[t] = "write"
          /\ \A u \in Threads : u # t => pc'[u] = pc[u] /\ cmd'[u] = cmd[u]
      BY <1>1, <1>0 DEF SubmitAlloc, Goto, TypeOK, ctrlVars
    <2>2. PollOK(t)'
      BY <2>1 DEF PollOK
    <2>3. \A u \in Threads : u # t => PollOK(u)'
      BY <2>1, <1>0, PollFrame DEF Polling
    <2> QED
      BY <2>1, <2>2, <2>3, <1>0 DEF Polling
  <1>2. ASSUME NEW t \in Threads, PollAdvance(t)
        PROVE  Polling'
    <2>1. PollOK(t)'
      BY <1>2, AdvanceFacts, Counters DEF PollOK
    <2>2. ASSUME NEW u \in Threads, u # t
          PROVE  PollOK(u)'
      <3>1. PollOK(u) /\ i[u] \in Int
        BY <1>0 DEF Polling, TypeOK
      <3>2. pc[u] \notin {"copy", "advance"}
        <4> SUFFICES ASSUME pc[u] \in {"copy", "advance"}
                     PROVE  FALSE
          OBVIOUS
        <4>1. cmd[u] = cmpq[cmpAlloc].tok /\ Unretired(u)
          BY <3>1 DEF PollOK, Unretired
        <4> QED
          BY <4>1, <1>2, <2>2, AdvanceFacts
      <3>3. /\ pc'[u] = pc[u] /\ i'[u] = i[u]
            /\ UNCHANGED <<posted, cmpq, cmd, result>>
            /\ cmpAlloc' = cmpAlloc + 1 /\ cmpAlloc \in Nat
        BY <1>2, <2>2, AdvanceFacts, Counters
      <3> QED
        BY <3>1, <3>2, <3>3 DEF PollOK, Slot
    <2>3. cmpAlloc' < CmpLen => phase' = 1
      BY <1>2, <1>0, AdvanceFacts, Counters DEF Polling
    <2> QED
      BY <2>1, <2>2, <2>3 DEF Polling
  <1>3. ASSUME NEW n \in executing, Post(n)
        PROVE  Polling'
    <2>1. ASSUME NEW u \in Threads
          PROVE  PollOK(u)'
      <3>1. PollOK(u) /\ i[u] \in 0..CmpLen-1
        BY <1>0 DEF Polling, TypeOK
      <3>2. /\ pc'[u] = pc[u] /\ i'[u] = i[u] /\ cmd'[u] = cmd[u]
            /\ result'[u] = result[u] /\ cmpAlloc' = cmpAlloc
        BY <1>3, PostFacts
      <3>3. ASSUME pc[u] = "check", i[u] = posted, Slot(n) = Slot(cmd[u])
            PROVE  n = cmd[u]
        <4>1. Outstanding(u)
          BY <3>3 DEF Outstanding
        <4>2. \A j \in 0..CmpLen-1 : j < cmpAlloc => cmpq[j].tok # n
          BY <1>3, PostFacts, Counters
        <4>3. n \in 0..subAlloc-1
          BY <1>3, PostFacts
        <4> QED
          BY <3>3, <4>1, <4>2, <4>3, OwnerBySlot
      <3>4. pc[u] = "check" =>
               /\ i'[u] <= cmpAlloc'
               /\ i'[u] < posted' /\ Slot(cmpq'[i'[u]].tok) = Slot(cmd'[u])
                     => cmpq'[i'[u]].tok = cmd'[u]
        <4>1. CASE i[u] = posted
          BY <4>1, <3>1, <3>2, <3>3, <1>3, PostFacts DEF PollOK
        <4>2. CASE i[u] # posted
          BY <4>2, <3>1, <3>2, <1>3, PostFacts, Counters DEF PollOK
        <4> QED
          BY <4>1, <4>2
      <3>5. pc[u] \in {"copy", "advance"} =>
               i'[u] = cmpAlloc' /\ i'[u] < posted' /\ cmpq'[i'[u]].tok = cmd'[u]
        BY <3>1, <3>2, <1>3, PostFacts, Counters DEF PollOK
      <3> QED
        BY <3>1, <3>2, <3>4, <3>5 DEF PollOK, Slot
    <2> QED
      BY <2>1, <1>3, <1>0, PostFacts DEF Polling
  <1>4. ASSUME NEW t \in Threads, CallStep(t), ~PollAdvance(t)
        PROVE  Polling'
    <2>1. /\ UNCHANGED <<cmpAlloc, posted, cmpq, cmd>>
          /\ \A u \in Threads : u # t =>
                pc'[u] = pc[u] /\ i'[u] = i[u] /\ result'[u] = result[u]
      <3> USE DEF Goto, driverVars, ctrlVars
      <3>0. /\ pc \in [Threads -> PcValues] /\ i \in [Threads -> 0..CmpLen-1]
            /\ result \in [Threads -> 0..MaxCommands-1 \cup {NoCmd}]
        BY <1>0 DEF TypeOK, PcValues
      <3>1. CASE SubmitWrite(t) \/ SubmitRing(t)
        BY <3>0, <3>1 DEF SubmitWrite, SubmitRing
      <3>2. CASE PollRead(t)
        BY <3>0, <3>2 DEF PollRead
      <3>3. CASE PollMatch(t) \/ PollRetry(t)
        BY <3>0, <3>3 DEF PollMatch, PollRetry
      <3>4. CASE PollCopy(t)
        BY <3>0, <3>4 DEF PollCopy
      <3>5. CASE PollFlip(t) \/ PollRing(t) \/ PollFlipAgain(t) \/ PollFree(t)
        BY <3>0, <3>5 DEF PollFlip, PollRing, PollFlipAgain, PollFree
      <3> QED
        BY <1>4, <3>1, <3>2, <3>3, <3>4, <3>5 DEF CallStep
    <2>2. \A u \in Threads : u # t => PollOK(u)'
      BY <2>1, <1>0, PollFrame DEF Polling
    <2>3. PollOK(t)'
      <3>0. PollOK(t) /\ pc \in [Threads -> PcValues]
        BY <1>0 DEF Polling, TypeOK, PcValues
      <3>1. CASE SubmitWrite(t) \/ SubmitRing(t) \/ PollRetry(t) \/ PollFree(t)
        <4>1. pc'[t] \in {"sqdb", "spin"} \/ pc'[t] = "idle"
          BY <3>0, <3>1 DEF SubmitWrite, SubmitRing, PollRetry, PollFree, Goto
        <4> QED
          BY <4>1 DEF PollOK
      <3>2. CASE PollRead(t)
        BY <3>2, ReadFacts
      <3>3. CASE PollMatch(t)
        <4>1. pc[t] = "check" /\ pc'[t] = "copy" /\ i' = i /\ Matches(t)
          BY <3>0, <3>3 DEF PollMatch, Goto
        <4>2. i[t] = cmpAlloc /\ i[t] < posted /\ cmpq[i[t]].tok = cmd[t]
          BY <4>1, MatchFacts
        <4> QED
          BY <4>1, <4>2, <2>1 DEF PollOK
      <3>4. CASE PollCopy(t)
        <4>1. /\ pc[t] = "copy" /\ pc'[t] = "advance" /\ i' = i
              /\ result'[t] = cmpq[i[t]].tok
          BY <3>0, <3>4, <1>0 DEF PollCopy, Goto, TypeOK
        <4> QED
          BY <4>1, <2>1, <3>0 DEF PollOK
      <3>5. CASE PollFlip(t) \/ PollRing(t) \/ PollFlipAgain(t)
        <4>1. /\ pc[t] \in {"flip", "cqdb", "flip2"}
              /\ pc'[t] \in {"cqdb", "flip2", "free"}
              /\ i' = i /\ result' = result
          BY <3>0, <3>5 DEF PollFlip, PollRing, PollFlipAgain, Goto
        <4> QED
          BY <4>1, <2>1, <3>0 DEF PollOK
      <3> QED
        BY <1>4, <3>1, <3>2, <3>3, <3>4, <3>5 DEF CallStep
    <2>4. cmpAlloc' < CmpLen => phase' = 1
      <3>1. CASE PollFlip(t) \/ PollFlipAgain(t)
        <4>1. i[t] < cmpAlloc /\ i[t] \in Nat
          BY <3>1, <1>0 DEF PollFlip, PollFlipAgain, Goto, Polling, PollOK, TypeOK
        <4>2. cmpAlloc < CmpLen => phase' = phase
          BY <3>1, <4>1, Counters DEF PollFlip, PollFlipAgain
        <4> QED
          BY <4>2, <2>1, <1>0 DEF Polling
      <3>2. CASE ~(PollFlip(t) \/ PollFlipAgain(t))
        <4>1. phase' = phase
          BY <1>4, <3>2 DEF CallStep, SubmitWrite, SubmitRing, PollRead, PollMatch,
             PollRetry, PollCopy, PollRing, PollFree, driverVars
        <4> QED
          BY <4>1, <2>1, <1>0 DEF Polling
      <3> QED
        BY <3>1, <3>2
    <2> QED
      BY <2>2, <2>3, <2>4 DEF Polling
  <1>5. CASE Fetch \/ UNCHANGED vars
    <2>1. UNCHANGED <<cmpAlloc, posted, cmpq, phase, pc, cmd, i, result>>
      BY <1>5 DEF Fetch, vars, driverVars, ctrlVars, threadVars
    <2>2. \A u \in Threads : PollOK(u)'
      BY <2>1, <1>0, PollFrame DEF Polling
    <2> QED
      BY <2>1, <2>2, <1>0 DEF Polling
  <1> QED
    BY <1>1, <1>2, <1>3, <1>4, <1>5 DEF Next, Quiescent

----------------------------------------------------------------------------
(* The invariant and what it implies.                                      *)

\* The inductive invariant holds of a fresh queue.
LEMMA IInvInit == Init => IInv
  <1> SUFFICES ASSUME Init
               PROVE  IInv
    OBVIOUS
  <1>1. SubmitInv
    BY SubmitInvInit
  <1>2. Rung = 0
    BY DEF Init, Rung, InSubmit
  <1>3. RingIntact
    BY <1>2, QueueAssumption DEF Init, RingIntact
  <1>4. Completions
    BY FS_EmptySet DEF Init, Completions
  <1>5. SlotsDistinct /\ Owned
    BY DEF Init, SlotsDistinct, Owned, Outstanding, Unretired
  <1>6. Polling
    BY DEF Init, Polling, PollOK
  <1> QED
    BY <1>1, <1>3, <1>4, <1>5, <1>6 DEF IInv, SubmitInv, Core

\* Every step preserves the inductive invariant.
LEMMA IInvNext == IInv /\ [Next]_vars => IInv'
  <1> SUFFICES ASSUME IInv, [Next]_vars
               PROVE  IInv'
    OBVIOUS
  <1>1. SubmitInv /\ SubmitInv'
    BY SubmitInvNext DEF IInv, SubmitInv
  <1>2. ASSUME SafeUse'
        PROVE  Core'
    <2>1. SafeUse
      BY <1>1, <1>2, SafeUseBack DEF SubmitInv
    <2>2. SafeState
      BY <1>1, <2>1 DEF SafeState, SubmitInv, SafeUse, IInv
    <2>3. TypeOK' /\ OneSubmitter'
      BY <1>1, <1>2 DEF SubmitInv, SafeUse
    <2> QED
      BY <1>2, <2>2, <2>3, RingIntactNext, CompletionsNext, SlotsDistinctNext,
         OwnedNext, PollingNext DEF Core
  <1> QED
    BY <1>1, <1>2 DEF IInv, SubmitInv

\* The inductive invariant holds of every behaviour of the two functions.
LEMMA Invariant == Spec => []IInv
  BY IInvInit, IInvNext, PTL DEF Spec

\* As long as no caller is handed a slot in use, fills the ring or races
\* another processor, and the completion ring is on its first lap, every call
\* returns the completion of the command it submitted, for any number of
\* threads and any order in which the controller completes commands.
THEOREM CompletionIsOwn == Spec => []OwnCompletion
  <1>1. IInv => OwnCompletion
    BY DEF IInv, Core, Polling, PollOK, OwnCompletion
  <1> QED
    BY <1>1, Invariant, PTL

\* Under the same conditions the controller fetches every command once, in
\* order, as it was written.
THEOREM FetchedIntact == Spec => []FetchIntact
  <1>1. ASSUME IInv, SafeUse
        PROVE  /\ fetched <= subAlloc
               /\ Slot(fetched) # sqTail => subq[Slot(fetched)] = fetched
    <2>1. SafeState
      BY <1>1 DEF IInv, SafeState, SafeUse
    <2>2. fetched <= subAlloc
      BY <2>1, Counters
    <2>3. Slot(fetched) # sqTail => fetched < Rung
      BY <2>1, Counters
    <2> QED
      BY <2>1, <2>2, <2>3, Counters DEF SafeState, Core, RingIntact
  <1>2. IInv => FetchIntact
    BY <1>1 DEF FetchIntact
  <1> QED
    BY <1>2, Invariant, PTL

\* Under the same conditions a completion is retired once, after it was
\* posted, by one thread.
THEOREM RetiredOnce == Spec => []OneConsumer
  <1>1. ASSUME IInv, SafeUse, NEW t \in Threads, NEW u \in Threads,
               pc[t] \in {"copy", "advance"}, pc[u] \in {"copy", "advance"}
        PROVE  t = u
    <2>1. cmd[t] = cmd[u]
      BY <1>1 DEF IInv, Core, Polling, PollOK
    <2> QED
      BY <1>1, <2>1 DEF IInv, Core, SlotsDistinct, Outstanding
  <1>2. ASSUME IInv, SafeUse
        PROVE  cmpAlloc <= posted
    BY <1>2 DEF IInv, Core, Owned
  <1>3. IInv => OneConsumer
    BY <1>1, <1>2 DEF OneConsumer
  <1> QED
    BY <1>3, Invariant, PTL

============================================================================
