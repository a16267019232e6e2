------------------------------ MODULE NvmeInit ------------------------------
(***************************************************************************)
(* Bringing up an NVMe controller: init_pci_resource and init_resource of  *)
(* resource.c, init_nvme_pci and reset_controller of sysdev/nvme/pci.c,    *)
(* init_nvme and what it calls in sysdev/nvme/nvme.c, and                  *)
(* init_nvme_namespace of sysdev/nvme/namespace.c.  The calls nest:        *)
(*    PCI resource -> NVMe resource -> one resource per namespace          *)
(* and each level frees what it allocated when the level below fails.      *)
(*                                                                         *)
(* One thread runs this; what varies is the memory allocator, which may    *)
(* refuse any allocation the code tests, the device, and values the code   *)
(* reads without having set them.  Allocations whose result the code does  *)
(* not test (pmm_fast_page_alloc for command data) are taken to succeed.   *)
(***************************************************************************)
EXTENDS Integers, FiniteSets, Sequences

CONSTANTS
    Processors,   \* Arc_ProcessorCounter
    Active,       \* command set -> active namespaces of the controller
    PageIds,      \* namespaces in one page of the list command; 1024
    W16,          \* values of a uint16_t; 65536
    Replies,      \* what the device may answer to the queue request
    Headers       \* PCI headers met: see PciState

ASSUME InitAssumption ==
    /\ Processors \in Nat \ {0}
    /\ 0 \in DOMAIN Active /\ DOMAIN Active \subseteq Nat
    /\ \A s \in DOMAIN Active :
          Active[s] \subseteq Nat \ {0} /\ IsFiniteSet(Active[s])
    /\ \A s, u \in DOMAIN Active : s # u => Active[s] \cap Active[u] = {}
    /\ PageIds \in Nat \ {0}
    /\ W16 \in Nat \ {0, 1}
    /\ Replies \subseteq 0..W16-1
    /\ Headers \subseteq {"memory", "ports", "bridge"}

VARIABLES
    pc,         \* where the bring-up is
    live,       \* allocated objects
    twice,      \* history: objects freed when they were not allocated
    enabled,    \* CC.EN
    ready,      \* CSTS.RDY, changed by the device
    adminq,     \* the addresses of the admin queues are written
    sizes,      \* CC.IOSQES and CC.IOCQES are written
    asked,      \* history: the command sets found
    sets,       \* command sets whose namespaces are still to be listed
    cursor,     \* _t: last namespace seen of the list in progress
    page,       \* namespaces of the page received and not yet walked
    full,       \* the page received had no terminating zero
    listed,     \* list of namespaces found, the last found first
    missed,     \* history: the list lost entries to a failure
    requested, granted, init,  \* state->qpairs
    created,    \* entries of state->qpairs.qs that are set up
    todo,       \* namespaces of listed still to be initialised
    share,      \* namespace -> [base, count] of its queue pairs
    registered, \* queue ids the controller was asked to create
    again       \* history: a queue id was asked for a second time

memory == <<live, twice>>
device == <<enabled, ready, adminq, sizes>>
listing == <<asked, sets, cursor, page, full, listed, missed>>
queues == <<requested, granted, init, created>>
spaces == <<todo, share, registered, again>>
vars == <<pc, memory, device, listing, queues, spaces>>

----------------------------------------------------------------------------
Alloc(o) == live' = live \cup {o} /\ UNCHANGED twice

\* free of each object of O, in any order.
Free(O) == live' = live \ O /\ twice' = twice \cup (O \ live)

\* The objects, named after what they are and numbered.
PciRes     == <<"pci_res", 0>>
PciMem     == <<"pci_state", 0>>
AdminMem   == <<"admin_queues", 0>>
AdminSub   == <<"admin_sub", 0>>
AdminCmp   == <<"admin_cmp", 0>>
NvmeRes    == <<"nvme_res", 0>>
NvmeMem    == <<"nvme_state", 0>>
IoQpairs   == <<"io_qpairs", 0>>
NsRes(n)   == <<"ns_res", n>>
NsState(n) == <<"ns_state", n>>
Base(k)    == <<"base", k>>

MinOf(x, y)   == IF x <= y THEN x ELSE y
LeastOf(S)    == CHOOSE x \in S : \A y \in S : x <= y
FirstOf(S, n) == {x \in S : Cardinality({y \in S : y < x}) < n}

Init ==
    /\ pc = "start"
    /\ live = {} /\ twice = {}
    /\ enabled \in BOOLEAN /\ ready = enabled    \* as the firmware left it
    /\ adminq = FALSE /\ sizes = FALSE
    /\ asked = {} /\ sets = {} /\ cursor = 0 /\ page = {} /\ full = FALSE
    /\ listed = <<>> /\ missed = FALSE
    /\ requested = 0 /\ granted = 0 /\ init = 0 /\ created = 0
    /\ todo = <<>>
    /\ share = [n \in {} |-> [base |-> 0, count |-> 0]]
    /\ registered = {} /\ again = FALSE

----------------------------------------------------------------------------
(* resource.c and pci.c                                                    *)

\* init_pci_resource finds the driver by its code, or calls init_resource
\* with index -1, which refuses it; init_resource allocates the resource.
PciResource ==
    /\ pc = "start"
    /\ \/ pc' = "failed" /\ UNCHANGED memory
       \/ pc' = "pci_state" /\ Alloc(PciRes)
    /\ UNCHANGED <<device, listing, queues, spaces>>

\* init_nvme_pci up to reset_controller.  With BAR2 in port space state->props
\* is left as alloc returned it, and the reset goes through that pointer.
PciState ==
    /\ pc = "pci_state"
    /\ \/ pc' = "failed" /\ Free({PciRes})              \* no state
       \/ /\ Headers \cap {"memory", "bridge"} # {}        \* not mapped, or
          /\ pc' = "failed" /\ Free({PciRes})           \* not a device
       \/ /\ "ports" \in Headers
          /\ pc' = "wild" /\ Alloc(PciMem)
       \/ /\ "memory" \in Headers
          /\ pc' = "disable" /\ Alloc(PciMem)
    /\ UNCHANGED <<device, listing, queues, spaces>>

\* reset_controller: CC.EN = 0 ...
Disable ==
    /\ pc = "disable"
    /\ pc' = "admin"
    /\ enabled' = FALSE
    /\ UNCHANGED <<memory, ready, adminq, sizes, listing, queues, spaces>>

\* ... wait for CSTS.RDY = 0, create_admin_qpair, CC.CSS, MPS, AMS, CC.EN = 1.
\* A failure frees the state and the resource, not the queues.
AdminQpair ==
    /\ pc = "admin"
    /\ ~ready
    /\ \/ /\ pc' = "ready"
          /\ live' = live \cup {AdminMem, AdminSub, AdminCmp}
          /\ enabled' = TRUE
          /\ adminq' = TRUE
          /\ UNCHANGED twice
       \/ /\ \E got \in {{}, {AdminMem}, {AdminMem, AdminSub}} :
                 live' = (live \ {PciMem, PciRes}) \cup got
          /\ pc' = "failed"
          /\ UNCHANGED <<twice, enabled, adminq>>
    /\ UNCHANGED <<ready, sizes, listing, queues, spaces>>

\* Mutant: the driver does not wait for the device to start.
MutWaitReady ==
    /\ pc = "ready"
    /\ pc' = "nvme_res"
    /\ sizes' = TRUE
    /\ UNCHANGED <<memory, enabled, ready, adminq, listing, queues, spaces>>

\* Wait for CSTS.RDY = 1; then the entry sizes of the I/O queues.
WaitReady ==
    /\ pc = "ready"
    /\ ready
    /\ pc' = "nvme_res"
    /\ sizes' = TRUE
    /\ UNCHANGED <<memory, enabled, ready, adminq, listing, queues, spaces>>

\* The device follows CC.EN.
DeviceReady ==
    /\ ready # enabled
    /\ ready' = enabled
    /\ UNCHANGED <<pc, memory, enabled, adminq, sizes, listing, queues, spaces>>

----------------------------------------------------------------------------
(* nvme.c                                                                  *)

\* Mutant: uninit_nvme_pci frees the queues of the running controller.
MutUnwound == {NvmeRes, PciRes, AdminMem}

\* What init_nvme_pci and init_resource free after init_nvme has failed:
\* the two resources.  uninit_nvme_pci does nothing.
Unwound == {NvmeRes, PciRes}

\* init_resource for the NVMe driver, then the state of init_nvme.  The PCI
\* transport has a control function and answers it, so the two exits of
\* init_nvme for a transport without one (lines 284-296) are not taken.
NvmeState ==
    /\ pc = "nvme_res"
    /\ \/ pc' = "failed" /\ Free({PciRes})    \* no resource, or no state
       \/ /\ pc' = "sets"
          /\ live' = live \cup {NvmeRes, NvmeMem}
          /\ UNCHANGED twice
    /\ UNCHANGED <<device, listing, queues, spaces>>

\* nvme_identify_controller and nvme_set_command_sets.  The properties are
\* read with file = NULL, which read_nvme_pci refuses, so cap and cc are
\* what the allocator left in the buffer: any of the branches may be taken.
\* Without a buffer the result is -1, which names every command set.
CommandSets ==
    /\ pc = "sets"
    /\ pc' = "list"
    /\ sets' \in {DOMAIN Active, {0}, {}}
    /\ asked' = sets'
    /\ UNCHANGED <<memory, device, cursor, page, full, listed, missed, queues,
                   spaces>>

\* nvme_list_namespaces asks for the namespaces of one set after cursor.
ListRequest ==
    /\ pc = "list"
    /\ sets # {}
    /\ LET s == LeastOf(sets)
           rest == {n \in Active[s] : n > cursor}
       IN \/ /\ pc' = "walk"
             /\ page' = FirstOf(rest, PageIds)
             /\ full' = (Cardinality(rest) >= PageIds)
             /\ UNCHANGED <<sets, cursor, missed>>
          \/ /\ sets' = sets \ {s}       \* the command failed
             /\ cursor' = 0
             /\ missed' = TRUE
             /\ UNCHANGED <<pc, page, full>>
    /\ UNCHANGED <<memory, device, asked, listed, queues, spaces>>

\* One turn of the walk over the page; without memory for the entry the walk
\* ends and the list is asked for again, after this namespace.
Walk ==
    /\ pc = "walk"
    /\ page # {}
    /\ cursor' = LeastOf(page)
    /\ \/ /\ page' = page \ {cursor'}
          /\ listed' = <<cursor'>> \o listed
          /\ UNCHANGED <<pc, missed>>
       \/ /\ page' = {}
          /\ missed' = TRUE
          /\ pc' = "list"
          /\ UNCHANGED listed
    /\ UNCHANGED <<memory, device, asked, sets, full, queues, spaces>>

\* Mutant: a full page is taken for the end of the list.
MutWalkEnd ==
    /\ pc = "walk"
    /\ page = {}
    /\ pc' = "list"
    /\ cursor' = 0
    /\ sets' = sets \ {LeastOf(sets)}
    /\ UNCHANGED <<memory, device, asked, page, full, listed, missed, queues,
                   spaces>>

\* Mutant: after a full page the list is asked for from the beginning.
MutWalkEndRestarts ==
    /\ pc = "walk"
    /\ page = {}
    /\ pc' = "list"
    /\ cursor' = 0
    /\ listed' = IF full THEN <<>> ELSE listed
    /\ sets' = IF full THEN sets ELSE sets \ {LeastOf(sets)}
    /\ UNCHANGED <<memory, device, asked, page, full, missed, queues, spaces>>

\* The walk met a zero, which ends the set, or the end of a full page.
WalkEnd ==
    /\ pc = "walk"
    /\ page = {}
    /\ pc' = "list"
    /\ IF full THEN UNCHANGED <<cursor, sets>>
       ELSE cursor' = 0 /\ sets' = sets \ {LeastOf(sets)}
    /\ UNCHANGED <<memory, device, asked, page, full, listed, missed, queues,
                   spaces>>

\* Mutant: the counts are kept in wider integers than the device's.
MutRequestNoWrap ==
    /\ pc = "list"
    /\ sets = {}
    /\ requested' = (Len(listed) * Processors) % W16
    /\ \E r \in Replies : granted' = r + 1
    /\ pc' = "qpairs"
    /\ UNCHANGED <<memory, device, listing, init, created, spaces>>

\* requested, and nvme_request_io_queues.
RequestQueues ==
    /\ pc = "list"
    /\ sets = {}
    /\ requested' = (Len(listed) * Processors) % W16
    /\ \E r \in Replies : granted' = (r + 1) % W16
    /\ IF granted' = 0
       THEN pc' = "failed" /\ Free(Unwound \cup {NvmeMem})
       ELSE pc' = "qpairs" /\ UNCHANGED memory
    /\ UNCHANGED <<device, listing, init, created, spaces>>

\* alloc of the qpair array.  On failure the state is freed here (nvme.c:77)
\* and again by init_nvme (nvme.c:320).
QpairArray ==
    /\ pc = "qpairs"
    /\ IoQpairs \notin live
    /\ \/ Alloc(IoQpairs) /\ UNCHANGED pc
       \/ /\ pc' = "failed"
          /\ live' = live \ (Unwound \cup {NvmeMem})
          /\ twice' = twice \cup {NvmeMem}
    /\ UNCHANGED <<device, listing, queues, spaces>>

\* One turn of the loop of nvme_create_io_qpairs.  When a turn fails, the
\* cleanup begins with the entry that was not filled in: it follows a pointer
\* the allocator left there, and if that does not fault frees the others;
\* memory the failed turn itself had got is lost.
Qpair ==
    /\ pc = "qpairs"
    /\ IoQpairs \in live
    /\ created < MinOf(requested, granted)
    /\ \/ /\ Alloc(Base(created))
          /\ created' = created + 1
          /\ UNCHANGED pc
       \/ /\ pc' = "failed"
          /\ \E lost \in SUBSET {Base(created)} :
                live' = lost \cup
                    (live \ (Unwound \cup {NvmeMem, IoQpairs}
                                     \cup {Base(k) : k \in 0..created-1}))
          /\ created' = 0
          /\ UNCHANGED twice
       \/ /\ pc' = "wild"
          /\ UNCHANGED <<memory, created>>
    /\ UNCHANGED <<device, listing, requested, granted, init, spaces>>

QpairsDone ==
    /\ pc = "qpairs"
    /\ IoQpairs \in live
    /\ created = MinOf(requested, granted)
    /\ pc' = "namespaces"
    /\ todo' = listed
    /\ UNCHANGED <<memory, device, listing, queues, share, registered, again>>

----------------------------------------------------------------------------
(* namespace.c                                                             *)

\* init_resource for one namespace that gets no resource or no state.
NamespaceNoMemory ==
    /\ pc = "namespaces"
    /\ todo # <<>>
    /\ todo' = Tail(todo)
    /\ UNCHANGED <<pc, memory, device, listing, queues, share, registered, again>>

ShareCount == MinOf(Processors, granted)

\* qpair->id of the queue pairs of the next share; an index at or above
\* created is past the end of the array and names no queue pair.
NewIds == {k + 1 : k \in {j \in init..init+ShareCount-1 : j < created}}

\* Mutant: the state is freed and the resource is not.
MutNamespaceNoInfo ==
    /\ pc = "namespaces"
    /\ todo # <<>>
    /\ todo' = Tail(todo)
    /\ init' = init + ShareCount
    /\ Alloc(NsRes(Head(todo)))
    /\ UNCHANGED <<pc, device, listing, requested, granted, created, share,
                   registered, again>>

\* namespace_get_info fails: the resource is freed and the state lost, but
\* the share of the queue pairs stays taken.
NamespaceNoInfo ==
    /\ pc = "namespaces"
    /\ todo # <<>>
    /\ todo' = Tail(todo)
    /\ init' = init + ShareCount
    /\ Alloc(NsState(Head(todo)))
    /\ UNCHANGED <<pc, device, listing, requested, granted, created, share,
                   registered, again>>

\* Mutant: the next namespace is given the same queue pairs.
MutNamespace ==
    /\ pc = "namespaces"
    /\ todo # <<>>
    /\ todo' = Tail(todo)
    /\ live' = live \cup {NsRes(Head(todo)), NsState(Head(todo))}
    /\ share' = [n \in DOMAIN share \cup {Head(todo)} |->
                    IF n = Head(todo) THEN [base |-> init, count |-> ShareCount]
                    ELSE share[n]]
    /\ registered' = registered \cup NewIds
    /\ again' = (again \/ NewIds \cap registered # {})
    /\ UNCHANGED <<pc, twice, device, listing, queues>>

\* A namespace takes its share and registers each queue pair of it with the
\* controller.  A registration that fails is only logged.
Namespace ==
    /\ pc = "namespaces"
    /\ todo # <<>>
    /\ todo' = Tail(todo)
    /\ live' = live \cup {NsRes(Head(todo)), NsState(Head(todo))}
    /\ init' = init + ShareCount
    /\ share' = [n \in DOMAIN share \cup {Head(todo)} |->
                    IF n = Head(todo) THEN [base |-> init, count |-> ShareCount]
                    ELSE share[n]]
    /\ registered' = registered \cup NewIds
    /\ again' = (again \/ NewIds \cap registered # {})
    /\ UNCHANGED <<pc, twice, device, listing, requested, granted, created>>

Done ==
    /\ pc = "namespaces"
    /\ todo = <<>>
    /\ pc' = "ok"
    /\ UNCHANGED <<memory, device, listing, queues, spaces>>

Finished == pc \in {"ok", "failed", "wild"} /\ UNCHANGED vars

Driver ==
    \/ PciResource \/ PciState \/ Disable \/ AdminQpair \/ WaitReady
    \/ NvmeState \/ CommandSets \/ ListRequest \/ Walk \/ WalkEnd
    \/ RequestQueues \/ QpairArray \/ Qpair \/ QpairsDone
    \/ NamespaceNoMemory \/ NamespaceNoInfo \/ Namespace \/ Done

Next == Driver \/ DeviceReady \/ Finished

Spec == Init /\ [][Next]_vars

\* The thread runs and the device follows CC.EN.
FairSpec == Spec /\ WF_vars(Driver) /\ WF_vars(DeviceReady)

----------------------------------------------------------------------------
(* Properties.                                                             *)

\* Every variable stays within its type.
TypeOK ==
    /\ pc \in {"start", "pci_state", "disable", "admin", "ready", "nvme_res",
              "sets", "list", "walk", "qpairs", "namespaces",
              "ok", "failed", "wild"}
    /\ {enabled, ready, adminq, sizes, full, missed, again} \subseteq BOOLEAN
    /\ asked \subseteq DOMAIN Active
    /\ sets \subseteq asked
    /\ cursor \in Nat
    /\ page \subseteq UNION {Active[s] : s \in sets}
    /\ listed \in Seq(UNION {Active[s] : s \in asked})
    /\ todo \in Seq(UNION {Active[s] : s \in asked})
    /\ {requested, granted} \subseteq 0..W16-1
    /\ {init, created} \subseteq Nat
    /\ \A n \in DOMAIN share : share[n] \in [base : Nat, count : Nat]
    /\ registered \subseteq Nat

\* The order reset_controller and its callers keep with the device: the admin
\* queue addresses are written only to a controller that is disabled and has
\* reported that it stopped, and every command is submitted to one that is
\* enabled and ready, has its admin queues and the entry sizes of its queues.
ResetOrder ==
    [][/\ adminq' # adminq => ~enabled /\ ~ready
       /\ pc \in {"sets", "list", "walk", "qpairs", "namespaces"} =>
             enabled /\ ready /\ adminq /\ sizes]_vars

\* No path frees anything twice or frees what it did not get, except one:
\* without memory for the array of queue pairs the state is freed by
\* nvme_create_io_qpairs and by its caller.  A resource that stays is backed
\* by a driver state that stays, at each of the three levels, and a failed
\* bring-up leaves no resource behind.
MemoryOwned ==
    /\ \/ twice = {}
       \/ twice = {NvmeMem} /\ pc = "failed" /\ granted > 0 /\ created = 0
    /\ \A n \in UNION {Active[s] : s \in asked} :
          NsRes(n) \in live => {NsState(n), NvmeMem} \subseteq live
    /\ pc = "ok" => {NvmeRes, NvmeMem, PciRes, PciMem} \subseteq live
    /\ pc = "failed" =>
          {PciRes, NvmeRes, NvmeMem, IoQpairs} \cap live = {}

\* The memory the controller was told to use for queues is never freed, even
\* when the bring-up fails after the controller was enabled.
DeviceMemoryLive ==
    /\ adminq => AdminMem \in live
    /\ \A q \in registered : Base(q - 1) \in live

\* Two namespaces never get the same queue pair and no queue is created twice
\* in the controller, even when a namespace before it could not be
\* initialised; and if the device grants what every namespace needs, each has
\* one queue pair for each processor and all of them exist.
SharesProper ==
    /\ ~again
    /\ \A n, m \in DOMAIN share :
          n # m => \/ share[n].base + share[n].count <= share[m].base
                   \/ share[m].base + share[m].count <= share[n].base
    /\ Len(listed) * Processors < W16 /\ granted >= Len(listed) * Processors =>
          \A n \in DOMAIN share :
              /\ share[n].count = Processors
              /\ share[n].base + share[n].count <= created

\* The list of namespaces names every active namespace of the sets found,
\* each once, over as many pages as it takes, unless a command or an
\* allocation failed; it never names one twice.
ListedOnce ==
    /\ Cardinality({listed[k] : k \in 1..Len(listed)}) = Len(listed)
    /\ pc \in {"qpairs", "namespaces", "ok"} /\ ~missed =>
          {listed[k] : k \in 1..Len(listed)} = UNION {Active[s] : s \in asked}

\* nvme.h:155 on qpairs.init: "Number of qpairs initialized".
QpairsInitialised == init <= created

\* The bring-up ends, one way or the other.
InitEnds == <>(pc \in {"ok", "failed", "wild"})

============================================================================
