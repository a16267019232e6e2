----------------------------- MODULE NvmeQueue -----------------------------
(***************************************************************************)
(* One NVMe queue pair as the PCI transport drives it: the functions       *)
(* nvme_pci_submit_command and nvme_pci_poll_completion of                 *)
(* sysdev/nvme/pci.c, called by any number of kernel threads, and the      *)
(* controller at the other end of the two rings.  Both functions carry the *)
(* comment "TODO: Atomic analysis"; this module is that analysis.          *)
(*                                                                         *)
(* A command is named by the order in which the submission ring handed out *)
(* its slot (0, 1, 2, ...), so a stale or foreign entry can be told from   *)
(* the right one.  The ring cursors are kept as the number of entries ever *)
(* handed out; the index the C code sees is that number modulo the length. *)
(*                                                                         *)
(* Every caller in the driver passes a transport and a command, so the     *)
(* NULL early returns of the two functions (lines 25-27 and 62-64) are     *)
(* not steps of the model.                                                 *)
(***************************************************************************)
EXTENDS Integers, FiniteSets

CONSTANTS
    Threads,      \* the kernel threads that use this queue pair
    CPUs,
    CpuOf,        \* [Threads -> CPUs]: where each thread runs
    QId,          \* qpair->id; 0 is the admin queue
    SubLen,       \* subq->objs
    CmpLen,       \* cmpq->objs
    IrqModes,     \* interrupt flags callers may arrive with, within BOOLEAN
    MaxCommands   \* bound: commands submitted in one behaviour

ASSUME QueueAssumption ==
    /\ CpuOf \in [Threads -> CPUs]
    /\ QId \in Nat
    /\ SubLen \in 2..256      \* the code's queues have 64 entries
    /\ CmpLen \in Nat \ {0, 1}
    /\ IrqModes \subseteq BOOLEAN
    /\ MaxCommands \in Nat

VARIABLES
    subAlloc,   \* entries ringbuffer_allocate handed out of subq
    subq,       \* submission ring in memory: slot -> command written there
    used,       \* slots of subq not given back with ringbuffer_free
    sqTail,     \* last value written to the SQ tail doorbell
    fetched,    \* controller: submission entries fetched
    executing,  \* controller: commands fetched and not yet completed
    posted,     \* controller: completion entries written
    cmpq,       \* completion ring in memory
    cqHead,     \* last value written to the CQ head doorbell
    cmpAlloc,   \* entries ringbuffer_allocate handed out of cmpq
    phase,      \* qpair->phase
    pc, cmd, i, irq, masked, result,  \* per thread, see TypeOK
    misuse      \* history: what callers have done to this queue, see below

driverVars == <<subAlloc, subq, used, sqTail, cmpAlloc, cqHead, phase>>
ctrlVars   == <<fetched, executing, posted, cmpq>>
threadVars == <<pc, cmd, i, irq, masked, result>>
vars       == <<driverVars, ctrlVars, threadVars, misuse>>

----------------------------------------------------------------------------
(* Commands, slots and command identifiers.                                *)

NoCmd == -1     \* a zeroed ring entry

Slot(n) == n % SubLen

\* cdw0.cid: the slot's low byte with bit 15 set on the admin queue, and
\* above the low six bits of the queue id on an I/O queue.
Cid(s) == IF QId = 0 THEN 32768 + (s % 256)
                     ELSE (QId % 64) + 64 * (s % 256)

\* Mutant: the identifier goes back to the ring without the shift.
MutFreedIdx(c) == c

\* The index poll_completion gives back to the submission ring.
FreedIdx(c) == IF QId = 0 THEN c ELSE (c \div 64) % 256

\* The phase bit the controller puts in its n-th completion: 1 on the
\* first lap of the ring, inverted on every further lap.
LapPhase(n) == 1 - ((n \div CmpLen) % 2)

ZeroEntry == [phase |-> 0, cid |-> 0, tok |-> NoCmd]

----------------------------------------------------------------------------
(* Scheduling.  A thread that has interrupts disabled cannot be preempted  *)
(* by another thread of its processor; threads of other processors run on. *)

CanRun(t) == \A u \in Threads \ {t} : CpuOf[u] = CpuOf[t] => ~masked[u]

Goto(t, from, to) ==
    /\ pc[t] = from
    /\ CanRun(t)
    /\ pc' = [pc EXCEPT ![t] = to]

Waiting(t)     == pc[t] \in {"spin", "check"}
InSubmit(t)    == pc[t] \in {"write", "sqdb"}
Outstanding(t) == pc[t] # "idle"

----------------------------------------------------------------------------
(* History of what the callers did, for the conditions of the properties.  *)
(* Nothing in the two functions looks at these conditions.                 *)

\* The ring hands out the slot of a command that is still outstanding.
SlotBusy  == \E u \in Threads : Outstanding(u) /\ Slot(cmd[u]) = Slot(subAlloc)
\* The entry would make the tail catch up with the controller's head.
QueueFull == subAlloc + 1 - fetched >= SubLen
\* Another thread is between its slot allocation and its doorbell.
Racing    == \E u \in Threads : InSubmit(u)
\* Another thread has taken a completion and not rung the doorbell for it.
Overlap(t) == \E u \in Threads \ {t} : pc[u] \in {"flip", "cqdb"}

SubmitMisuse ==
    (IF SlotBusy THEN {"busy"} ELSE {}) \cup
    (IF QueueFull THEN {"full"} ELSE {}) \cup
    (IF Racing THEN {"race"} ELSE {})

----------------------------------------------------------------------------
Init ==
    /\ subAlloc = 0
    /\ subq = [s \in 0..SubLen-1 |-> NoCmd]
    /\ used = {}
    /\ sqTail = 0
    /\ fetched = 0
    /\ executing = {}
    /\ posted = 0
    /\ cmpq = [s \in 0..CmpLen-1 |-> ZeroEntry]
    /\ cqHead = 0
    /\ cmpAlloc = 0
    /\ phase = 1
    /\ pc = [t \in Threads |-> "idle"]
    /\ cmd = [t \in Threads |-> NoCmd]
    /\ i = [t \in Threads |-> 0]
    /\ irq = [t \in Threads |-> TRUE]
    /\ masked = [t \in Threads |-> FALSE]
    /\ result = [t \in Threads |-> NoCmd]
    /\ misuse = {}

----------------------------------------------------------------------------
(* nvme_pci_submit_command.                                                *)

\* Mutant: interrupts stay as the caller had them.
MutSubmitAllocUnmasked(t) ==
    /\ Goto(t, "idle", "write")
    /\ subAlloc < MaxCommands
    /\ \E I \in IrqModes : /\ irq' = [irq EXCEPT ![t] = I]
                          /\ masked' = [masked EXCEPT ![t] = ~I]
    /\ cmd' = [cmd EXCEPT ![t] = subAlloc]
    /\ subAlloc' = subAlloc + 1
    /\ used' = used \cup {Slot(subAlloc)}
    /\ misuse' = misuse \cup SubmitMisuse
    /\ UNCHANGED <<subq, sqTail, cmpAlloc, cqHead, phase, ctrlVars, i, result>>

\* Interrupts off, a slot from the ring, the command identifier from the slot.
SubmitAlloc(t) ==
    /\ Goto(t, "idle", "write")
    /\ subAlloc < MaxCommands
    /\ \E I \in IrqModes : irq' = [irq EXCEPT ![t] = I]
    /\ masked' = [masked EXCEPT ![t] = TRUE]
    /\ cmd' = [cmd EXCEPT ![t] = subAlloc]
    /\ subAlloc' = subAlloc + 1
    /\ used' = used \cup {Slot(subAlloc)}
    /\ misuse' = misuse \cup SubmitMisuse
    /\ UNCHANGED <<subq, sqTail, cmpAlloc, cqHead, phase, ctrlVars, i, result>>

\* Mutant: the doorbell is rung before the entry is written.
MutSubmitWriteAfterBell(t) ==
    \/ /\ sqTail # (Slot(cmd[t]) + 1) % SubLen
       /\ pc[t] = "write" /\ CanRun(t)
       /\ sqTail' = (Slot(cmd[t]) + 1) % SubLen
       /\ UNCHANGED <<subAlloc, subq, used, cmpAlloc, cqHead, phase, ctrlVars,
                      threadVars, misuse>>
    \/ /\ sqTail = (Slot(cmd[t]) + 1) % SubLen
       /\ Goto(t, "write", "sqdb")
       /\ subq' = [subq EXCEPT ![Slot(cmd[t])] = cmd[t]]
       /\ UNCHANGED <<subAlloc, used, sqTail, cmpAlloc, cqHead, phase,
                      ctrlVars, cmd, i, irq, masked, result, misuse>>

\* ringbuffer_write of the command into its slot.
SubmitWrite(t) ==
    /\ Goto(t, "write", "sqdb")
    /\ subq' = [subq EXCEPT ![Slot(cmd[t])] = cmd[t]]
    /\ UNCHANGED <<subAlloc, used, sqTail, cmpAlloc, cqHead, phase, ctrlVars,
                   cmd, i, irq, masked, result, misuse>>

\* Mutant: the doorbell value is not reduced modulo the ring length.
MutSubmitRingNoWrap(t) ==
    /\ Goto(t, "sqdb", "spin")
    /\ sqTail' = Slot(cmd[t]) + 1
    /\ masked' = [masked EXCEPT ![t] = ~irq[t]]
    /\ UNCHANGED <<subAlloc, subq, used, cmpAlloc, cqHead, phase, ctrlVars,
                   cmd, i, irq, result, misuse>>

\* Mutant: the doorbell is given the entry itself, not the one after it.
MutSubmitRingShort(t) ==
    /\ Goto(t, "sqdb", "spin")
    /\ sqTail' = Slot(cmd[t])
    /\ masked' = [masked EXCEPT ![t] = ~irq[t]]
    /\ UNCHANGED <<subAlloc, subq, used, cmpAlloc, cqHead, phase, ctrlVars,
                   cmd, i, irq, result, misuse>>

\* The tail doorbell, then interrupts on again if the caller had them on.
SubmitRing(t) ==
    /\ Goto(t, "sqdb", "spin")
    /\ sqTail' = (Slot(cmd[t]) + 1) % SubLen
    /\ masked' = [masked EXCEPT ![t] = ~irq[t]]
    /\ UNCHANGED <<subAlloc, subq, used, cmpAlloc, cqHead, phase, ctrlVars,
                   cmd, i, irq, result, misuse>>

----------------------------------------------------------------------------
(* nvme_pci_poll_completion.                                               *)

\* i = qpair->cmpq->idx, at the head of every turn of the loop.
PollRead(t) ==
    /\ Goto(t, "spin", "check")
    /\ i' = [i EXCEPT ![t] = cmpAlloc % CmpLen]
    /\ UNCHANGED <<driverVars, ctrlVars, cmd, irq, masked, result, misuse>>

\* Mutant: the loop takes any fresh entry, whatever its identifier.
MutMatchesAnyCid(t) == cmpq[i[t]].phase = phase

Matches(t) ==
    /\ cmpq[i[t]].phase = phase
    /\ cmpq[i[t]].cid = Cid(Slot(cmd[t]))

PollMatch(t) ==
    /\ Matches(t)
    /\ Goto(t, "check", "copy")
    /\ UNCHANGED <<driverVars, ctrlVars, cmd, i, irq, masked, result, misuse>>

PollRetry(t) ==
    /\ ~Matches(t)
    /\ Goto(t, "check", "spin")
    /\ UNCHANGED <<driverVars, ctrlVars, cmd, i, irq, masked, result, misuse>>

\* The status and the entry are copied out of qc[i].
PollCopy(t) ==
    /\ Goto(t, "copy", "advance")
    /\ result' = [result EXCEPT ![t] = cmpq[i[t]].tok]
    /\ UNCHANGED <<driverVars, ctrlVars, cmd, i, irq, masked, misuse>>

\* idx = ringbuffer_allocate(cmpq, 1); the thread's i now holds idx.
PollAdvance(t) ==
    /\ Goto(t, "advance", "flip")
    /\ i' = [i EXCEPT ![t] = cmpAlloc % CmpLen]
    /\ cmpAlloc' = cmpAlloc + 1
    /\ misuse' = misuse \cup (IF Overlap(t) THEN {"overlap"} ELSE {})
    /\ UNCHANGED <<subAlloc, subq, used, sqTail, cqHead, phase, ctrlVars,
                   cmd, irq, masked, result>>

\* The first of the two places that invert the expected phase.
PollFlip(t) ==
    /\ Goto(t, "flip", "cqdb")
    /\ phase' = IF i[t] = CmpLen - 1 THEN 1 - phase ELSE phase
    /\ UNCHANGED <<subAlloc, subq, used, sqTail, cmpAlloc, cqHead, ctrlVars,
                   cmd, i, irq, masked, result, misuse>>

\* Mutant: the doorbell is given the entry taken, not the one after it.
MutPollRingSame(t) ==
    /\ Goto(t, "cqdb", "flip2")
    /\ cqHead' = i[t]
    /\ UNCHANGED <<subAlloc, subq, used, sqTail, cmpAlloc, phase, ctrlVars,
                   cmd, i, irq, masked, result, misuse>>

\* The head doorbell.
PollRing(t) ==
    /\ Goto(t, "cqdb", "flip2")
    /\ cqHead' = (i[t] + 1) % CmpLen
    /\ UNCHANGED <<subAlloc, subq, used, sqTail, cmpAlloc, phase, ctrlVars,
                   cmd, i, irq, masked, result, misuse>>

\* The second place that inverts the expected phase.
PollFlipAgain(t) ==
    /\ Goto(t, "flip2", "free")
    /\ phase' = IF i[t] + 1 >= CmpLen THEN 1 - phase ELSE phase
    /\ UNCHANGED <<subAlloc, subq, used, sqTail, cmpAlloc, cqHead, ctrlVars,
                   cmd, i, irq, masked, result, misuse>>

\* ringbuffer_free of the submission slot, and return.  A caller that came
\* with interrupts off turns them on again before it submits anew.
PollFree(t) ==
    /\ Goto(t, "free", "idle")
    /\ used' = used \ {FreedIdx(Cid(Slot(cmd[t])))}
    /\ masked' = [masked EXCEPT ![t] = FALSE]
    /\ UNCHANGED <<subAlloc, subq, sqTail, cmpAlloc, cqHead, phase, ctrlVars,
                   cmd, i, irq, result, misuse>>

----------------------------------------------------------------------------
(* The controller: what the driver relies on.  It fetches entries while    *)
(* its head differs from the tail doorbell, completes fetched commands in  *)
(* any order, and never fills the completion ring past the head doorbell.  *)

Fetch ==
    /\ Slot(fetched) # sqTail
    /\ fetched' = fetched + 1
    /\ executing' = executing \cup {subq[Slot(fetched)]}
    /\ UNCHANGED <<driverVars, posted, cmpq, threadVars, misuse>>

Post(n) ==
    /\ n \in executing
    /\ (posted + 1) % CmpLen # cqHead
    /\ executing' = executing \ {n}
    /\ cmpq' = [cmpq EXCEPT ![posted % CmpLen] =
                   [phase |-> LapPhase(posted),
                    cid   |-> Cid(Slot(n)),
                    tok   |-> n]]
    /\ posted' = posted + 1
    /\ UNCHANGED <<driverVars, fetched, threadVars, misuse>>

----------------------------------------------------------------------------
\* The steps of a call once it has begun; a caller may also never call.
CallStep(t) ==
    \/ SubmitWrite(t) \/ SubmitRing(t)
    \/ PollRead(t) \/ PollMatch(t) \/ PollRetry(t) \/ PollCopy(t)
    \/ PollAdvance(t) \/ PollFlip(t) \/ PollRing(t) \/ PollFlipAgain(t)
    \/ PollFree(t)

\* Every command of the bound has been submitted and polled.
Quiescent ==
    /\ subAlloc = MaxCommands
    /\ \A t \in Threads : pc[t] = "idle"
    /\ UNCHANGED vars

Next ==
    \/ \E t \in Threads : SubmitAlloc(t) \/ CallStep(t)
    \/ Fetch
    \/ \E n \in executing : Post(n)
    \/ Quiescent

Spec == Init /\ [][Next]_vars

(***************************************************************************)
(* Fairness.  The scheduler lets a call in progress go on, the loop reads  *)
(* cmpq->idx again on every turn, and the controller works through what it *)
(* was given.  No caller is obliged to submit.                             *)
(***************************************************************************)
Fairness ==
    /\ \A t \in Threads : WF_vars(CallStep(t))
    /\ WF_vars(Fetch)
    /\ \A n \in 0..MaxCommands-1 : WF_vars(Post(n))

FairSpec == Spec /\ Fairness

----------------------------------------------------------------------------
(* Properties.                                                             *)

\* Every variable stays within its type; the doorbell values stay within
\* their rings whatever the callers do.
TypeOK ==
    /\ subAlloc \in 0..MaxCommands
    /\ subq \in [0..SubLen-1 -> 0..MaxCommands-1 \cup {NoCmd}]
    /\ used \subseteq 0..SubLen-1
    /\ sqTail \in 0..SubLen-1
    /\ fetched \in Nat
    /\ executing \subseteq (0..MaxCommands-1 \cup {NoCmd})
    /\ posted \in Nat
    /\ cmpq \in [0..CmpLen-1 -> [phase : {0, 1}, cid : Nat,
                                 tok : 0..MaxCommands-1 \cup {NoCmd}]]
    /\ cqHead \in 0..CmpLen-1
    /\ cmpAlloc \in Nat
    /\ phase \in {0, 1}
    /\ pc \in [Threads -> {"idle", "write", "sqdb", "spin", "check", "copy",
                           "advance", "flip", "cqdb", "flip2", "free"}]
    /\ cmd \in [Threads -> 0..MaxCommands-1 \cup {NoCmd}]
    /\ i \in [Threads -> 0..CmpLen-1]
    /\ irq \in [Threads -> BOOLEAN]
    /\ masked \in [Threads -> BOOLEAN]
    /\ result \in [Threads -> 0..MaxCommands-1 \cup {NoCmd}]
    /\ misuse \subseteq {"busy", "full", "race", "overlap"}

\* The conditions under which the two functions do their job: no command
\* was submitted into a slot in use, into a full ring or while another was
\* being submitted, and the completion ring is still on its first lap.
SafeUse == misuse \cap {"busy", "full", "race"} = {} /\ subAlloc <= CmpLen

\* A call never returns the completion of another command or of an earlier
\* user of its slot: the entry nvme_pci_poll_completion copied out and
\* retired from the completion ring is the one of the command it submitted.
OwnCompletion ==
    SafeUse =>
        \A t \in Threads :
            pc[t] \in {"advance", "flip", "cqdb", "flip2", "free"} =>
                result[t] = cmd[t]

\* The controller never fetches a slot the driver has not filled for this
\* round: each command is fetched once, in the order of the slots, and what
\* is fetched is what ringbuffer_write put there.
FetchIntact ==
    SafeUse =>
        /\ fetched <= subAlloc
        /\ Slot(fetched) # sqTail => subq[Slot(fetched)] = fetched

\* A completion is retired at most once and only after it was posted: two
\* threads never leave the polling loop on the same entry.
OneConsumer ==
    SafeUse =>
        /\ cmpAlloc <= posted
        /\ \A t, u \in Threads :
              pc[t] \in {"copy", "advance"} /\ pc[u] \in {"copy", "advance"}
                  => t = u

\* Disabling interrupts in nvme_pci_submit_command serialises the callers
\* of one processor: no second submission begins before the doorbell of
\* the first.  (Callers on two processors are not kept apart.)
SerialisedSubmit ==
    (\A t, u \in Threads : CpuOf[t] = CpuOf[u]) => "race" \notin misuse

\* The tail doorbell of a queue used from one processor only moves forward,
\* one entry at a time: no doorbell takes back or skips an entry another
\* thread announced.
DoorbellInOrder ==
    [][(\A t, u \in Threads : CpuOf[t] = CpuOf[u]) /\ sqTail' # sqTail
          => sqTail' = (sqTail + 1) % SubLen]_vars

\* ringbuffer_free gives back the very slots that were allocated: on an I/O
\* queue the slots in use are those of the outstanding commands.
SlotsReturned ==
    QId # 0 /\ "busy" \notin misuse =>
        used = {Slot(cmd[t]) : t \in {u \in Threads : Outstanding(u)}}

\* When no call is in progress the head doorbell tells the controller that
\* everything retired is free, unless two calls overlapped between taking
\* an entry and ringing the doorbell: the later ring may then be undone by
\* the earlier one.
HeadDoorbellExact ==
    "overlap" \notin misuse /\ (\A t \in Threads : pc[t] = "idle")
        => cqHead = cmpAlloc % CmpLen

\* nvme.h:126 on qpair->phase: "The expected value of the phase bit for a
\* new entry".  The next entry to be taken is entry number cmpAlloc.
ExpectedPhase ==
    (\A t \in Threads : pc[t] \notin {"flip", "cqdb", "flip2"})
        => phase = LapPhase(cmpAlloc)

\* Under fairness every call to nvme_pci_poll_completion returns during the
\* first lap of the completion ring, unless some caller polls with interrupts
\* masked: then the thread whose entry is at the head may never run again.
PollReturns ==
    \A t \in Threads :
        pc[t] = "spin" ~> \/ pc[t] = "idle"
                         \/ ~SafeUse
                         \/ \E u \in Threads : Outstanding(u) /\ ~irq[u]

============================================================================
