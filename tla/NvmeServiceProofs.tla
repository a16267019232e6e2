------------------------- MODULE NvmeServiceProofs -------------------------
(***************************************************************************)
(* NvmeQueue implements CommandService, and two facts about the resources  *)
(* of a queue pair that hold whatever the callers do elsewhere: the slots  *)
(* of the submission ring and the head doorbell of the completion ring.    *)
(***************************************************************************)
EXTENDS NvmeQueueService, NvmeQueueProofs

----------------------------------------------------------------------------
(* The slots given back with ringbuffer_free.                              *)

\* As long as the ring never handed out a slot in use, outstanding commands
\* are in different slots and those are the slots in use.
SlotsInv ==
    "busy" \notin misuse =>
        /\ \A t \in Threads : Outstanding(t) => cmd[t] \in Nat
        /\ \A t, u \in Threads :
              Outstanding(t) /\ Outstanding(u) /\ Slot(cmd[t]) = Slot(cmd[u])
                  => t = u
        /\ QId # 0 =>
              used = {Slot(cmd[t]) : t \in {u \in Threads : Outstanding(u)}}

\* The shifts of nvme_pci_submit_command and nvme_pci_poll_completion undo
\* each other: the index given back is the slot the identifier was made from.
LEMMA FreedIdxInverse ==
    ASSUME NEW s \in 0..SubLen-1, QId # 0
    PROVE  FreedIdx(Cid(s)) = s
  <1>1. s \in 0..255
    BY QueueAssumption
  <1>2. QId % 64 \in 0..63
    BY QueueAssumption
  <1>3. s % 256 = s
    BY <1>1
  <1>4. (QId % 64) + 64 * s \in Nat /\ ((QId % 64) + 64 * s) \div 64 = s
    BY <1>1, <1>2
  <1> QED
    BY <1>3, <1>4 DEF FreedIdx, Cid

\* A step that is neither an allocation nor the end of a call leaves the
\* slots and the outstanding commands alone.
SlotsQuiet ==
    /\ UNCHANGED <<used, cmd>>
    /\ "busy" \in misuse' <=> "busy" \in misuse
    /\ \A u \in Threads : Outstanding(u)' <=> Outstanding(u)

\* Every step allocates a slot, gives one back, or leaves the slots alone.
LEMMA SlotsCases ==
    ASSUME TypeOK, [Next]_vars
    PROVE  \/ \E t \in Threads : SubmitAlloc(t)
           \/ \E t \in Threads : PollFree(t)
           \/ SlotsQuiet
  <1> USE DEF SlotsQuiet, Outstanding, TypeOK, Goto
  <1>1. ASSUME NEW t \in Threads, CallStep(t), ~PollFree(t)
        PROVE  SlotsQuiet
    <2>1. CASE SubmitWrite(t)
      BY <2>1 DEF SubmitWrite
    <2>2. CASE SubmitRing(t)
      BY <2>2 DEF SubmitRing
    <2>3. CASE PollRead(t)
      BY <2>3 DEF PollRead, driverVars
    <2>4. CASE PollMatch(t)
      BY <2>4 DEF PollMatch, driverVars
    <2>5. CASE PollRetry(t)
      BY <2>5 DEF PollRetry, driverVars
    <2>6. CASE PollCopy(t)
      BY <2>6 DEF PollCopy, driverVars
    <2>7. CASE PollAdvance(t)
      BY <2>7 DEF PollAdvance
    <2>8. CASE PollFlip(t)
      BY <2>8 DEF PollFlip
    <2>9. CASE PollRing(t)
      BY <2>9 DEF PollRing
    <2>10. CASE PollFlipAgain(t)
      BY <2>10 DEF PollFlipAgain
    <2> QED
      BY <1>1, <2>1, <2>2, <2>3, <2>4, <2>5, <2>6, <2>7, <2>8, <2>9, <2>10
      DEF CallStep
  <1>2. CASE Fetch
    BY <1>2 DEF Fetch, driverVars, threadVars
  <1>3. ASSUME NEW n \in executing, Post(n)
        PROVE  SlotsQuiet
    BY <1>3 DEF Post, driverVars, threadVars
  <1>4. CASE UNCHANGED vars
    BY <1>4 DEF vars, driverVars, threadVars
  <1> QED
    BY <1>1, <1>2, <1>3, <1>4 DEF Next, Quiescent

\* The slots in use follow the outstanding commands through every step.
LEMMA SlotsInvNext ==
    ASSUME TypeOK, SlotsInv, [Next]_vars
    PROVE  SlotsInv'
  <1> SUFFICES ASSUME "busy" \notin misuse'
               PROVE  SlotsInv'
    BY DEF SlotsInv
  <1>1. ASSUME NEW t \in Threads, SubmitAlloc(t)
        PROVE  SlotsInv'
    <2>1. "busy" \notin misuse /\ ~SlotBusy
      BY <1>1 DEF SubmitAlloc, SubmitMisuse
    <2>2. /\ ~Outstanding(t)
          /\ \A u \in Threads : Outstanding(u)' <=> (u = t \/ Outstanding(u))
      BY <1>1 DEF SubmitAlloc, Goto, Outstanding, TypeOK
    <2>3. /\ cmd'[t] = subAlloc /\ subAlloc \in Nat
          /\ \A u \in Threads \ {t} : cmd'[u] = cmd[u]
          /\ used' = used \cup {Slot(subAlloc)}
      BY <1>1, QueueAssumption DEF SubmitAlloc, TypeOK
    <2>4. \A u \in Threads : Outstanding(u) => Slot(cmd[u]) # Slot(subAlloc)
      BY <2>1 DEF SlotBusy
    <2>5. \A u \in Threads : Outstanding(u)' => cmd'[u] \in Nat
      BY <2>1, <2>2, <2>3 DEF SlotsInv
    <2>6. \A u, v \in Threads :
             Outstanding(u)' /\ Outstanding(v)' /\ Slot(cmd'[u]) = Slot(cmd'[v])
                 => u = v
      BY <2>1, <2>2, <2>3, <2>4 DEF SlotsInv
    <2>7. ASSUME QId # 0
          PROVE  used' = {Slot(cmd'[u]) : u \in {v \in Threads : Outstanding(v)'}}
      <3>1. used = {Slot(cmd[u]) : u \in {v \in Threads : Outstanding(v)}}
        BY <2>1, <2>7 DEF SlotsInv
      <3> QED
        BY <3>1, <2>2, <2>3
    <2> QED
      BY <2>5, <2>6, <2>7 DEF SlotsInv, Slot
  <1>2. ASSUME NEW t \in Threads, PollFree(t)
        PROVE  SlotsInv'
    <2>1. "busy" \notin misuse /\ cmd' = cmd
      BY <1>2 DEF PollFree
    <2>2. /\ Outstanding(t)
          /\ \A u \in Threads : Outstanding(u)' <=> (u # t /\ Outstanding(u))
      BY <1>2 DEF PollFree, Goto, Outstanding, TypeOK
    <2>3. ASSUME QId # 0
          PROVE  used' = {Slot(cmd[u]) : u \in {v \in Threads : Outstanding(v)'}}
      <3>1. used = {Slot(cmd[u]) : u \in {v \in Threads : Outstanding(v)}}
        BY <2>1, <2>3 DEF SlotsInv
      <3>2. Slot(cmd[t]) \in 0..SubLen-1
        BY <2>1, <2>2, SlotInRange DEF SlotsInv
      <3>3. used' = used \ {Slot(cmd[t])}
        BY <1>2, <2>3, <3>2, FreedIdxInverse DEF PollFree
      <3>4. \A u \in Threads : Outstanding(u) /\ u # t => Slot(cmd[u]) # Slot(cmd[t])
        BY <2>1, <2>2 DEF SlotsInv
      <3> QED
        BY <3>1, <3>3, <3>4, <2>2
    <2> QED
      BY <2>1, <2>2, <2>3 DEF SlotsInv, Slot
  <1>3. CASE SlotsQuiet
    <2>1. "busy" \notin misuse /\ cmd' = cmd /\ used' = used
      BY <1>3 DEF SlotsQuiet
    <2>2. {u \in Threads : Outstanding(u)'} = {u \in Threads : Outstanding(u)}
      BY <1>3 DEF SlotsQuiet
    <2>3. \A u \in Threads : Outstanding(u)' <=> Outstanding(u)
      BY <1>3 DEF SlotsQuiet
    <2> QED
      BY <2>1, <2>2, <2>3 DEF SlotsInv, Slot
  <1> QED
    BY <1>1, <1>2, <1>3, SlotsCases

\* On an I/O queue the slots in use are exactly those of the outstanding
\* commands, for any number of threads on any number of processors, however
\* they race: the only condition is that the ring did not hand out a slot
\* that was in use.
THEOREM SlotsGivenBack == Spec => []SlotsReturned
  <1>1. Init => SlotsInv
    BY DEF Init, SlotsInv, Outstanding
  <1>2. SlotsInv => SlotsReturned
    BY DEF SlotsInv, SlotsReturned
  <1> QED
    BY <1>1, <1>2, SlotsInvNext, TypeCorrect, PTL DEF Spec

----------------------------------------------------------------------------
(* The head doorbell of the completion ring.                               *)

Retiring(t) == pc[t] \in {"flip", "cqdb"}

\* Without an overlap at most one thread is between taking an entry and the
\* doorbell, it took the last entry handed out, and the doorbell is exact
\* when there is no such thread.
DoorbellInv ==
    "overlap" \notin misuse =>
        /\ \A t, u \in Threads : Retiring(t) /\ Retiring(u) => t = u
        /\ \A t \in Threads : Retiring(t) => i[t] = (cmpAlloc - 1) % CmpLen
        /\ (\A t \in Threads : ~Retiring(t)) => cqHead = cmpAlloc % CmpLen

\* A step that neither takes an entry nor rings the doorbell.
DoorbellQuiet ==
    /\ UNCHANGED <<cmpAlloc, cqHead>>
    /\ "overlap" \in misuse' <=> "overlap" \in misuse
    /\ \A u \in Threads : Retiring(u)' <=> Retiring(u)
    /\ \A u \in Threads : Retiring(u) => i'[u] = i[u]

\* Every step takes an entry, rings its doorbell, or does neither.
LEMMA DoorbellCases ==
    ASSUME TypeOK, [Next]_vars
    PROVE  \/ \E t \in Threads : PollAdvance(t)
           \/ \E t \in Threads : PollRing(t)
           \/ DoorbellQuiet
  <1> USE DEF DoorbellQuiet, Retiring, TypeOK, Goto
  <1>0. ASSUME NEW t \in Threads, SubmitAlloc(t)
        PROVE  DoorbellQuiet
    BY <1>0 DEF SubmitAlloc, SubmitMisuse
  <1>1. ASSUME NEW t \in Threads, CallStep(t), ~PollAdvance(t), ~PollRing(t)
        PROVE  DoorbellQuiet
    <2>1. CASE SubmitWrite(t)
      BY <2>1 DEF SubmitWrite
    <2>2. CASE SubmitRing(t)
      BY <2>2 DEF SubmitRing
    <2>3. CASE PollRead(t)
      BY <2>3 DEF PollRead, driverVars
    <2>4. CASE PollMatch(t)
      BY <2>4 DEF PollMatch, driverVars
    <2>5. CASE PollRetry(t)
      BY <2>5 DEF PollRetry, driverVars
    <2>6. CASE PollCopy(t)
      BY <2>6 DEF PollCopy, driverVars
    <2>7. CASE PollFlip(t)
      BY <2>7 DEF PollFlip
    <2>8. CASE PollFlipAgain(t)
      BY <2>8 DEF PollFlipAgain
    <2>9. CASE PollFree(t)
      BY <2>9 DEF PollFree
    <2> QED
      BY <1>1, <2>1, <2>2, <2>3, <2>4, <2>5, <2>6, <2>7, <2>8, <2>9 DEF CallStep
  <1>2. CASE Fetch
    BY <1>2 DEF Fetch, driverVars, threadVars
  <1>3. ASSUME NEW n \in executing, Post(n)
        PROVE  DoorbellQuiet
    BY <1>3 DEF Post, driverVars, threadVars
  <1>4. CASE UNCHANGED vars
    BY <1>4 DEF vars, driverVars, threadVars
  <1> QED
    BY <1>0, <1>1, <1>2, <1>3, <1>4 DEF Next, Quiescent

\* The doorbell keeps up with the entries taken.
LEMMA DoorbellInvNext ==
    ASSUME TypeOK, DoorbellInv, [Next]_vars
    PROVE  DoorbellInv'
  <1> SUFFICES ASSUME "overlap" \notin misuse'
               PROVE  DoorbellInv'
    BY DEF DoorbellInv
  <1>1. ASSUME NEW t \in Threads, PollAdvance(t)
        PROVE  DoorbellInv'
    <2>1. \A u \in Threads \ {t} : ~Retiring(u)
      BY <1>1 DEF PollAdvance, Overlap, Retiring
    <2>2. \A u \in Threads : Retiring(u)' <=> u = t
      BY <1>1, <2>1 DEF PollAdvance, Goto, Retiring, TypeOK
    <2>3. i'[t] = cmpAlloc % CmpLen /\ cmpAlloc' - 1 = cmpAlloc
      BY <1>1 DEF PollAdvance, TypeOK
    <2> QED
      BY <2>2, <2>3 DEF DoorbellInv
  <1>2. ASSUME NEW t \in Threads, PollRing(t)
        PROVE  DoorbellInv'
    <2>1. Retiring(t) /\ "overlap" \notin misuse
      BY <1>2 DEF PollRing, Goto, Retiring
    <2>2. i[t] = (cmpAlloc - 1) % CmpLen /\ \A u \in Threads : Retiring(u) => u = t
      BY <2>1 DEF DoorbellInv
    <2>3. \A u \in Threads : ~Retiring(u)'
      BY <1>2, <2>2 DEF PollRing, Goto, Retiring, TypeOK
    <2>4. CmpLen \in Nat \ {0} /\ cmpAlloc - 1 \in Int
      BY QueueAssumption DEF TypeOK
    <2>5. (((cmpAlloc - 1) % CmpLen) + 1) % CmpLen = ((cmpAlloc - 1) + 1) % CmpLen
      BY <2>4, ModStep
    <2>6. (cmpAlloc - 1) + 1 = cmpAlloc
      BY DEF TypeOK
    <2>7. cqHead' = cmpAlloc % CmpLen /\ cmpAlloc' = cmpAlloc
      BY <1>2, <2>2, <2>5, <2>6 DEF PollRing
    <2> QED
      BY <2>3, <2>7 DEF DoorbellInv
  <1>3. CASE DoorbellQuiet
    <2>1. "overlap" \notin misuse
      BY <1>3 DEF DoorbellQuiet
    <2> QED
      BY <1>3, <2>1 DEF DoorbellQuiet, DoorbellInv
  <1> QED
    BY <1>1, <1>2, <1>3, DoorbellCases

\* When no call is in progress the head doorbell has told the controller of
\* every entry retired, on every lap of the ring and although the phase is
\* wrong from the second lap on, unless two calls overlapped.
THEOREM DoorbellExact == Spec => []HeadDoorbellExact
  <1>1. Init => DoorbellInv
    BY QueueAssumption, ModSmall DEF Init, DoorbellInv, Retiring
  <1>2. DoorbellInv => HeadDoorbellExact
    BY DEF DoorbellInv, HeadDoorbellExact, Retiring
  <1> QED
    BY <1>1, <1>2, DoorbellInvNext, TypeCorrect, PTL DEF Spec

----------------------------------------------------------------------------
(* The queue pair implements CommandService.                               *)

\* The result a thread holds is of an earlier command than the one it waits
\* for, so that taking a reply is visible to the caller.
RepliesOlder ==
    \A t \in Threads :
        /\ pc[t] = "idle" => result[t] < subAlloc
        /\ pc[t] \in {"write", "sqdb", "spin", "check", "copy"}
              => result[t] < cmd[t]

SInv == IInv /\ (SafeUse => RepliesOlder)

\* What SInv says in a state of safe use.
LEMMA SafeStateOf ==
    ASSUME SInv, SafeUse
    PROVE  SafeState /\ RepliesOlder
  BY DEF SInv, IInv, SafeState, SafeUse

\* A step that neither begins a call, copies an entry nor ends a call.
ReplyQuiet ==
    /\ UNCHANGED <<subAlloc, cmd, result>>
    /\ \A u \in Threads : pc'[u] = "idle" <=> pc[u] = "idle"
    /\ \A u \in Threads :
          pc'[u] \in {"write", "sqdb", "spin", "check", "copy"}
              => pc[u] \in {"write", "sqdb", "spin", "check", "copy"}

\* Every step begins a call, copies an entry, ends a call, or is none of the
\* caller's business.
LEMMA ReplyCases ==
    ASSUME TypeOK, [Next]_vars
    PROVE  \/ \E t \in Threads : SubmitAlloc(t) \/ PollCopy(t) \/ PollFree(t)
           \/ ReplyQuiet
  <1> USE DEF ReplyQuiet, TypeOK, Goto
  <1>1. ASSUME NEW t \in Threads, CallStep(t), ~PollCopy(t), ~PollFree(t)
        PROVE  ReplyQuiet
    <2>1. CASE SubmitWrite(t)
      BY <2>1 DEF SubmitWrite
    <2>2. CASE SubmitRing(t)
      BY <2>2 DEF SubmitRing
    <2>3. CASE PollRead(t)
      BY <2>3 DEF PollRead, driverVars
    <2>4. CASE PollMatch(t)
      BY <2>4 DEF PollMatch, driverVars
    <2>5. CASE PollRetry(t)
      BY <2>5 DEF PollRetry, driverVars
    <2>6. CASE PollAdvance(t)
      BY <2>6 DEF PollAdvance
    <2>7. CASE PollFlip(t)
      BY <2>7 DEF PollFlip
    <2>8. CASE PollRing(t)
      BY <2>8 DEF PollRing
    <2>9. CASE PollFlipAgain(t)
      BY <2>9 DEF PollFlipAgain
    <2> QED
      BY <1>1, <2>1, <2>2, <2>3, <2>4, <2>5, <2>6, <2>7, <2>8, <2>9 DEF CallStep
  <1>2. CASE Fetch
    BY <1>2 DEF Fetch, driverVars, threadVars
  <1>3. ASSUME NEW n \in executing, Post(n)
        PROVE  ReplyQuiet
    BY <1>3 DEF Post, driverVars, threadVars
  <1>4. CASE UNCHANGED vars
    BY <1>4 DEF vars, driverVars, threadVars
  <1> QED
    BY <1>1, <1>2, <1>3, <1>4 DEF Next, Quiescent

\* Within safe use a call begins with an older result and ends with its own.
LEMMA RepliesOlderNext ==
    ASSUME SafeState, RepliesOlder, [Next]_vars
    PROVE  RepliesOlder'
  <1>0. TypeOK /\ subAlloc \in Nat /\ \A t \in Threads : cmd[t] \in Int
    BY QueueAssumption DEF SafeState, TypeOK, NoCmd
  <1>1. ASSUME NEW t \in Threads, SubmitAlloc(t)
        PROVE  RepliesOlder'
    <2>1. /\ pc[t] = "idle" /\ pc'[t] = "write"
          /\ \A u \in Threads \ {t} : pc'[u] = pc[u] /\ cmd'[u] = cmd[u]
          /\ cmd'[t] = subAlloc /\ subAlloc' = subAlloc + 1 /\ result' = result
      BY <1>0, <1>1 DEF SubmitAlloc, Goto, TypeOK
    <2>2. \A u \in Threads : result[u] \in Int
      BY <1>0 DEF TypeOK, NoCmd
    <2> QED
      BY <1>0, <2>1, <2>2 DEF RepliesOlder
  <1>2. ASSUME NEW t \in Threads, PollCopy(t)
        PROVE  RepliesOlder'
    <2>1. /\ pc'[t] = "advance" /\ \A u \in Threads \ {t} : pc'[u] = pc[u]
          /\ \A u \in Threads \ {t} : result'[u] = result[u]
          /\ cmd' = cmd /\ subAlloc' = subAlloc
      BY <1>0, <1>2 DEF PollCopy, Goto, TypeOK, driverVars
    <2> QED
      BY <2>1 DEF RepliesOlder
  <1>3. ASSUME NEW t \in Threads, PollFree(t)
        PROVE  RepliesOlder'
    <2>1. /\ pc[t] = "free" /\ pc'[t] = "idle"
          /\ \A u \in Threads \ {t} : pc'[u] = pc[u]
          /\ result' = result /\ cmd' = cmd /\ subAlloc' = subAlloc
      BY <1>0, <1>3 DEF PollFree, Goto, TypeOK
    <2>2. result[t] = cmd[t]
      BY <2>1 DEF SafeState, Core, Polling, PollOK
    <2>3. cmd[t] < subAlloc
      BY <1>0, <2>1 DEF SafeState, Core, SlotsDistinct, Outstanding
    <2> QED
      BY <2>1, <2>2, <2>3 DEF RepliesOlder
  <1>4. CASE ReplyQuiet
    BY <1>4 DEF ReplyQuiet, RepliesOlder
  <1> QED
    BY <1>0, <1>1, <1>2, <1>3, <1>4, ReplyCases

\* The invariant the refinement rests on.
LEMMA ServiceInvariant == Spec => []SInv
  <1>1. Init => SInv
    <2>1. Init => RepliesOlder
      BY DEF Init, RepliesOlder, NoCmd
    <2> QED
      BY <2>1, IInvInit DEF SInv
  <1>2. SInv /\ [Next]_vars => SInv'
    <2> SUFFICES ASSUME SInv, [Next]_vars
                 PROVE  SInv'
      OBVIOUS
    <2>1. IInv'
      BY IInvNext DEF SInv
    <2>2. ASSUME SafeUse'
          PROVE  RepliesOlder'
      <3>1. SafeUse
        BY <2>2, SafeUseBack DEF SInv, IInv
      <3> QED
        BY <3>1, SafeStateOf, RepliesOlderNext
    <2> QED
      BY <2>1, <2>2 DEF SInv
  <1> QED
    BY <1>1, <1>2, PTL DEF Spec

----------------------------------------------------------------------------
(* The abstract state, and what each step does to it.                      *)

Pending   == [t \in Threads |-> IF Outstanding(t) THEN cmd[t] ELSE NoCmd]
Performed == (0 .. fetched - 1) \ executing

\* A step the callers cannot see.
Hidden == UNCHANGED <<subAlloc, Pending, Performed, result>>

\* The steps of a call between the slot and the return, but for the copy.
LEMMA CallHidden ==
    ASSUME TypeOK, NEW t \in Threads, CallStep(t), ~PollCopy(t), ~PollFree(t)
    PROVE  Hidden
  <1>1. /\ UNCHANGED <<subAlloc, cmd, result, fetched, executing>>
        /\ \A u \in Threads : Outstanding(u)' <=> Outstanding(u)
    <2> USE DEF TypeOK, Goto, Outstanding, ctrlVars, driverVars
    <2>1. CASE SubmitWrite(t)
      BY <2>1 DEF SubmitWrite
    <2>2. CASE SubmitRing(t)
      BY <2>2 DEF SubmitRing
    <2>3. CASE PollRead(t)
      BY <2>3 DEF PollRead
    <2>4. CASE PollMatch(t)
      BY <2>4 DEF PollMatch
    <2>5. CASE PollRetry(t)
      BY <2>5 DEF PollRetry
    <2>6. CASE PollAdvance(t)
      BY <2>6 DEF PollAdvance
    <2>7. CASE PollFlip(t)
      BY <2>7 DEF PollFlip
    <2>8. CASE PollRing(t)
      BY <2>8 DEF PollRing
    <2>9. CASE PollFlipAgain(t)
      BY <2>9 DEF PollFlipAgain
    <2> QED
      BY <2>1, <2>2, <2>3, <2>4, <2>5, <2>6, <2>7, <2>8, <2>9 DEF CallStep
  <1> QED
    BY <1>1 DEF Hidden, Pending, Performed

\* A command that is fetched is executing, hence not performed.
LEMMA FetchHidden ==
    ASSUME SafeState, Fetch
    PROVE  Hidden
  <1>1. /\ fetched \in Nat /\ Slot(fetched) # sqTail
        /\ fetched' = fetched + 1
        /\ executing' = executing \cup {subq[Slot(fetched)]}
        /\ UNCHANGED <<subAlloc, pc, cmd, result>>
    BY Counters DEF Fetch, driverVars, threadVars
  <1>2. fetched < Rung /\ Rung \in Int
    BY <1>1, Counters
  <1>3. subq[Slot(fetched)] = fetched
    BY <1>1, <1>2 DEF SafeState, Core, RingIntact
  <1>4. Performed' = Performed
    <2>1. executing' = executing \cup {fetched}
      BY <1>1, <1>3
    <2>2. (0 .. fetched' - 1) = (0 .. fetched - 1) \cup {fetched}
      BY <1>1
    <2>3. fetched \notin 0 .. fetched - 1
      BY <1>1
    <2> QED
      BY <2>1, <2>2, <2>3 DEF Performed
  <1>5. Pending' = Pending
    BY <1>1 DEF Pending, Outstanding
  <1> QED
    BY <1>1, <1>4, <1>5 DEF Hidden

\* Every step of safe use is an abstract step or hidden.
LEMMA StepServes ==
    ASSUME SInv, [Next]_vars, SafeUse'
    PROVE  Service!Next \/ UNCHANGED Service!vars
  <1>1. SafeUse /\ TypeOK
    BY SafeUseBack DEF SInv, IInv
  <1>2. SafeState /\ RepliesOlder
    BY <1>1, SafeStateOf
  <1>3. SafeUse' = SafeUse
    BY <1>1 DEF SafeUse
  <1>4. CASE Hidden
    BY <1>3, <1>4 DEF Hidden, Pending, Performed, Service!vars
  <1>5. ASSUME NEW t \in Threads, SubmitAlloc(t)
        PROVE  Service!Issue(t)
    <2>1. /\ ~Outstanding(t) /\ Outstanding(t)'
          /\ \A u \in Threads \ {t} : Outstanding(u)' <=> Outstanding(u)
          /\ cmd'[t] = subAlloc /\ \A u \in Threads \ {t} : cmd'[u] = cmd[u]
          /\ subAlloc' = subAlloc + 1
          /\ UNCHANGED <<fetched, executing, result>>
      BY <1>1, <1>5 DEF SubmitAlloc, Goto, Outstanding, TypeOK, ctrlVars
    <2>2. Pending' = [Pending EXCEPT ![t] = subAlloc] /\ Pending[t] = NoCmd
      BY <2>1 DEF Pending
    <2>3. Performed' = Performed
      BY <2>1 DEF Performed
    <2> QED
      BY <2>1, <2>2, <2>3 DEF Service!Issue, Pending, Performed
  <1>6. ASSUME NEW t \in Threads, PollCopy(t)
        PROVE  Service!Reply(t)
    <2>1. /\ pc[t] = "copy"
          /\ \A u \in Threads : Outstanding(u)' <=> Outstanding(u)
          /\ result' = [result EXCEPT ![t] = cmpq[i[t]].tok]
          /\ UNCHANGED <<subAlloc, cmd, fetched, executing>>
      BY <1>1, <1>6 DEF PollCopy, Goto, Outstanding, TypeOK, ctrlVars, driverVars
    <2>2. i[t] < posted /\ cmpq[i[t]].tok = cmd[t] /\ i[t] \in 0..CmpLen-1
      BY <1>1, <1>2, <2>1 DEF SafeState, Core, Polling, PollOK, TypeOK
    <2>3. cmd[t] \in Performed
      BY <1>2, <2>2 DEF SafeState, Core, Completions, Performed
    <2>4. result[t] # cmd[t]
      <3>1. result[t] < cmd[t] /\ result[t] \in Int /\ cmd[t] \in Int
        BY <1>1, <1>2, <2>1 DEF RepliesOlder, TypeOK, NoCmd
      <3> QED
        BY <3>1
    <2>5. Pending[t] = cmd[t] /\ Pending' = Pending
      BY <2>1 DEF Pending, Outstanding
    <2>6. Performed' = Performed
      BY <2>1 DEF Performed
    <2> QED
      BY <2>1, <2>2, <2>3, <2>4, <2>5, <2>6 DEF Service!Reply, Pending, Performed
  <1>7. ASSUME NEW t \in Threads, PollFree(t)
        PROVE  Service!Return(t)
    <2>1. /\ pc[t] = "free" /\ Outstanding(t) /\ ~Outstanding(t)'
          /\ \A u \in Threads \ {t} : Outstanding(u)' <=> Outstanding(u)
          /\ UNCHANGED <<subAlloc, cmd, result, fetched, executing>>
      BY <1>1, <1>7 DEF PollFree, Goto, Outstanding, TypeOK, ctrlVars
    <2>2. result[t] = cmd[t]
      BY <1>2, <2>1 DEF SafeState, Core, Polling, PollOK
    <2>3. cmd[t] # NoCmd
      BY <1>2, <2>1 DEF SafeState, Core, SlotsDistinct, NoCmd
    <2>4. Pending[t] = cmd[t] /\ Pending' = [Pending EXCEPT ![t] = NoCmd]
      BY <2>1 DEF Pending
    <2>5. Performed' = Performed
      BY <2>1 DEF Performed
    <2> QED
      BY <2>1, <2>2, <2>3, <2>4, <2>5 DEF Service!Return, Pending, Performed
  <1>8. ASSUME NEW n \in executing, Post(n)
        PROVE  n \in 0..subAlloc /\ Service!Perform(n)
    <2>1. /\ executing' = executing \ {n}
          /\ UNCHANGED <<subAlloc, pc, cmd, result, fetched>>
      BY <1>8 DEF Post, driverVars, threadVars
    <2>2. n \in 0..fetched-1 /\ fetched <= subAlloc /\ fetched \in Nat /\ subAlloc \in Nat
      BY <1>2, Counters DEF SafeState, Core, Completions
    <2>3. n \notin Performed /\ Performed' = Performed \cup {n}
      BY <2>1, <2>2 DEF Performed
    <2>4. Pending' = Pending
      BY <2>1 DEF Pending, Outstanding
    <2>5. n \in 0..subAlloc /\ n < subAlloc
      BY <2>2
    <2> QED
      BY <2>1, <2>3, <2>4, <2>5 DEF Service!Perform, Pending, Performed
  <1>9. CASE UNCHANGED vars
    <2>1. Hidden
      BY <1>9 DEF Hidden, Pending, Performed, Outstanding, vars, driverVars, ctrlVars,
         threadVars
    <2> QED
      BY <2>1, <1>4
  <1>10. ASSUME NEW t \in Threads, CallStep(t)
         PROVE  Hidden \/ Service!Reply(t) \/ Service!Return(t)
    BY <1>1, <1>6, <1>7, <1>10, CallHidden
  <1>11. Fetch => Hidden
    BY <1>2, FetchHidden
  <1>12. \/ Hidden
         \/ \E t \in Threads : Service!Issue(t) \/ Service!Reply(t) \/ Service!Return(t)
         \/ \E n \in 0..subAlloc : Service!Perform(n)
         \/ UNCHANGED vars
    BY <1>5, <1>8, <1>10, <1>11 DEF Next, Quiescent
  <1> QED
    BY <1>1, <1>4, <1>9, <1>12 DEF Service!Next

\* A queue pair serves its callers: for any number of threads, processors,
\* queue lengths and orders of completion, the steps of the two functions and
\* of the controller are steps of CommandService or cannot be seen by a
\* caller, as long as the rules of the queue are kept.
THEOREM QueueServesCommands == Spec => ServesCommands
  <1>1. Init => Service!Init
    <2> SUFFICES ASSUME Init
                 PROVE  Service!Init
      OBVIOUS
    <2>1. SafeUse = TRUE
      BY QueueAssumption DEF Init, SafeUse
    <2>2. \A t \in Threads : ~Outstanding(t)
      BY DEF Init, Outstanding
    <2>3. (0 .. fetched - 1) \ executing = {}
      BY DEF Init
    <2> QED
      BY <2>1, <2>2, <2>3 DEF Init, Service!Init
  <1>2. SInv /\ [Next]_vars => [Service!Next]_(Service!vars)
    <2> SUFFICES ASSUME SInv, [Next]_vars
                 PROVE  Service!Next \/ UNCHANGED Service!vars
      OBVIOUS
    <2>1. CASE SafeUse'
      BY <2>1, StepServes
    <2>2. CASE ~SafeUse'
      BY <2>2 DEF Service!Next
    <2> QED
      BY <2>1, <2>2
  <1>3. SInv /\ [Next]_vars => [SafeUse' => SafeUse]_(Service!vars)
    BY SafeUseBack DEF SInv, IInv
  <1> QED
    BY <1>1, <1>2, <1>3, ServiceInvariant, PTL DEF Spec, ServesCommands, Service!Spec

============================================================================
