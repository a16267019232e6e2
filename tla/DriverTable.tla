---------------------------- MODULE DriverTable ----------------------------
(***************************************************************************)
(* How a driver is found: tools/gen_dri_defs.py numbers the drivers it     *)
(* finds in the sources and writes the tables of drivers/dri_defs.h, and   *)
(* resource.c makes resources from (group, index) pairs or device codes.   *)
(* Groups that share indices (ARC_SHARE_DRIVER_INDICES) are numbered       *)
(* together, so that the virtual file system can open a file or directory  *)
(* of a mounted file system with the index of its super driver.            *)
(*                                                                         *)
(* The order of the source files is whatever rglob gives.                  *)
(***************************************************************************)
EXTENDS Integers, Sequences, SequencesExt, FiniteSetsExt

CONSTANTS
    Groups,        \* enum ARC_DRI_GROUP
    Cluster,       \* the groups that share indices, as listed in resource.h
    SourceSets,    \* what the sources may register: sets of drivers
    CodesOf,       \* driver -> its codes, {} for NULL
    InitResults,   \* driver -> what its init may return, within {"ok", "fail"}
    NoDriver,      \* NULL in a table
    MaxResources   \* bound: resources made in one behaviour

Driver == [group : Groups, name : STRING]

ASSUME TableAssumption ==
    /\ Cluster \in Seq(Groups)
    /\ Cluster # <<>>
    /\ \A s \in SourceSets : \A d \in s :
          /\ d \in Driver /\ d.name # NoDriver
          /\ InitResults[d] \subseteq {"ok", "fail"}
    /\ MaxResources \in Nat

VARIABLES
    stage,       \* "scan", "fill", "built", or "error": the script died
    unread,      \* drivers in source files not read yet
    definitions, \* group -> its drivers in the order they were found
    order,       \* the groups in definitions, by their first driver
    queue,       \* drivers fill_in_indices has not come to yet
    index,       \* driver -> its index, -1 before it has one
    indices,     \* group -> the next index of the group
    table,       \* group -> index -> driver name, or NoDriver
    current_id,  \* resources made so far; a resource is named by its id
    resources    \* id -> [group, index, name, code, super], or NoDriver

genVars   == <<unread, definitions, order, queue, index, indices>>
tableVars == <<stage, genVars, table, current_id, resources>>

----------------------------------------------------------------------------
(* gen_dri_defs.py                                                         *)

TInit ==
    /\ stage = "scan"
    /\ unread \in SourceSets
    /\ definitions = [g \in Groups |-> <<>>]
    /\ order = <<>>
    /\ queue = <<>>
    /\ index = << >>
    /\ indices = [g \in Groups |-> 0]
    /\ table = [g \in Groups |-> << >>]
    /\ current_id = 0
    /\ resources = [id \in 0..MaxResources-1 |-> NoDriver]

Found == UNION {ToSet(definitions[g]) : g \in Groups}

\* enumerate_source_files: one more file.
Scan(d) ==
    /\ stage = "scan"
    /\ d \in unread
    /\ unread' = unread \ {d}
    /\ definitions' = [definitions EXCEPT ![d.group] = Append(@, d)]
    /\ order' = IF definitions[d.group] = <<>> THEN Append(order, d.group) ELSE order
    /\ UNCHANGED <<stage, queue, index, indices, table, current_id, resources>>

\* The two loops of fill_in_indices, flattened into one.
StartFill ==
    /\ stage = "scan"
    /\ unread = {}
    /\ stage' = "fill"
    /\ queue' = FlattenSeq([k \in DOMAIN order |-> definitions[order[k]]])
    /\ index' = [d \in Found |-> -1]
    /\ UNCHANGED <<unread, definitions, order, indices, table, current_id, resources>>

\* The groups that are numbered with group g.
Together(g) == IF g \in ToSet(Cluster) THEN ToSet(Cluster) ELSE {g}

\* Mutant: the loop over the cluster ends after its first group.
MutIndexFor(d) == IF d.group \in ToSet(Cluster) THEN indices[Head(Cluster)]
                  ELSE indices[d.group]

\* The loop over the cluster leaves the index of the last group in idx.
IndexFor(d) == IF d.group \in ToSet(Cluster) THEN indices[Last(Cluster)]
               ELSE indices[d.group]

\* One turn of the inner loop of fill_in_indices.  A group of the cluster that
\* has no driver at all is not in the dictionary, and the script dies.
Fill ==
    LET d   == Head(queue)
        new == {e \in Found : /\ e.name = d.name /\ e.group \in Together(d.group)
                              /\ index[e] = -1}
        lost == \E g \in Together(d.group) : definitions[g] = <<>>
    IN  /\ stage = "fill"
        /\ queue # <<>>
        /\ queue' = Tail(queue)
        /\ stage' = IF lost THEN "error" ELSE stage
        /\ index' = [e \in Found |-> IF e \in new /\ ~lost THEN IndexFor(d)
                                     ELSE index[e]]
        /\ indices' = [g \in Groups |->
              IF ~lost /\ \E e \in new : e.group = g THEN IndexFor(d) + 1
              ELSE indices[g]]
        /\ UNCHANGED <<unread, definitions, order, table, current_id, resources>>

\* construct_dri_defs_source: of two drivers with one index the later stays.
TableOf(g) ==
    LET own   == definitions[g]
        size  == Max({index[d] : d \in ToSet(own)} \cup {-1}) + 1
        at(i) == {k \in DOMAIN own : index[own[k]] = i}
    IN  [i \in 0..size-1 |-> IF at(i) = {} THEN NoDriver ELSE own[Max(at(i))].name]

\* The tables are written; the order of the sources no longer matters.
Build ==
    /\ stage = "fill"
    /\ queue = <<>>
    /\ stage' = "built"
    /\ table' = [g \in Groups |-> TableOf(g)]
    /\ definitions' = [g \in Groups |-> <<>>]
    /\ order' = <<>>
    /\ indices' = [g \in Groups |-> 0]
    /\ UNCHANGED <<unread, queue, index, current_id, resources>>

----------------------------------------------------------------------------
(* resource.c                                                              *)

Valid(g, i) == i \in DOMAIN table[g] /\ table[g][i] # NoDriver

\* init_resource, asked for with a code or as a node of a super resource.  The
\* allocation may fail, and then the identifier is not used up.
InitResource(g, i, code, super) ==
    LET d == [group |-> g, name |-> table[g][i]]
    IN  /\ stage = "built"
        /\ Valid(g, i)
        /\ current_id < MaxResources
        /\ current_id' = current_id + 1
        /\ \E r \in InitResults[d] :
              resources' = [resources EXCEPT ![current_id] =
                  IF r = "ok" THEN [group |-> g, index |-> i, name |-> d.name,
                                    code |-> code, super |-> super]
                  ELSE NoDriver]
        /\ UNCHANGED <<stage, genVars, table>>

\* Mutant: the first driver that has codes is taken.
MutHasCode(g, i, code) ==
    Valid(g, i) /\ CodesOf[[group |-> g, name |-> table[g][i]]] # {}

HasCode(g, i, code) ==
    Valid(g, i) /\ code \in CodesOf[[group |-> g, name |-> table[g][i]]]

\* internal_find_code and init_pci_resource or init_acpi_resource.
DeviceResource(g, code) ==
    LET hits == {i \in DOMAIN table[g] : HasCode(g, i, code)}
    IN  hits # {} /\ InitResource(g, Min(hits), code, -1)

\* A super resource is made with the index the header defines for its name.
SuperResource(d) ==
    /\ stage = "built" /\ d \in DOMAIN index
    /\ d.group = Head(Cluster)
    /\ InitResource(d.group, index[d], NoDriver, -1)

Live(id) == id < current_id /\ resources[id] # NoDriver

\* The virtual file system opens a node of a mounted file system: the group
\* follows from the kind of node, the index from the super resource.
NodeResource(id, g) ==
    /\ Live(id) /\ resources[id].group = Head(Cluster)
    /\ g \in ToSet(Tail(Cluster))
    /\ InitResource(g, resources[id].index, NoDriver, id)

\* uninit_resource: the driver's uninit, and the resource is freed.
Uninit(id) ==
    /\ Live(id)
    /\ resources' = [resources EXCEPT ![id] = NoDriver]
    /\ UNCHANGED <<stage, genVars, table, current_id>>

GenStep == (\E d \in unread : Scan(d)) \/ StartFill \/ Fill \/ Build

ResourceStep ==
    \/ \E g \in Groups \ ToSet(Cluster) :
          \E code \in UNION {CodesOf[d] : d \in DOMAIN CodesOf} :
              DeviceResource(g, code)
    \/ \E d \in DOMAIN index : SuperResource(d)
    \/ \E id \in 0..current_id-1 : \E g \in Groups : NodeResource(id, g)

----------------------------------------------------------------------------
(* Properties.                                                             *)

\* The condition under which the numbering works: a driver of a group that
\* shares indices is also a driver of the last group of the cluster.  All file
\* systems of the repository have a file driver.
Covered ==
    \A d \in DOMAIN index : d.group \in ToSet(Cluster) =>
        [d EXCEPT !.group = Last(Cluster)] \in DOMAIN index

\* The groups whose drivers can be told apart by their indices: those with
\* indices of their own and the last of the cluster always, else if Covered.
Sound(g) == Covered \/ g \notin ToSet(Cluster) \/ g = Last(Cluster)

\* In whatever order the sources are read, every driver of a sound group has
\* the entry its macro names, and if Covered an index that is used in several
\* groups of the cluster belongs to one file system: the holes of the tables
\* are where they must be.
ExactTable ==
    stage = "built" =>
        /\ \A d \in DOMAIN index : Sound(d.group) =>
              Valid(d.group, index[d]) /\ table[d.group][index[d]] = d.name
        /\ Covered => \A d, e \in DOMAIN index :
              d.group \in ToSet(Cluster) /\ e.group \in ToSet(Cluster) =>
                  (index[d] = index[e] <=> d.name = e.name)

\* A resource is served by the driver it was asked for: one that has the code
\* of the device, or one of the same file system as its super resource.
RightDriver ==
    \A id \in 0..current_id-1 : Live(id) =>
        LET r == resources[id] IN
        /\ r.code # NoDriver =>
              r.code \in CodesOf[[group |-> r.group, name |-> r.name]]
        /\ Covered /\ r.super \in 0..id /\ Live(r.super) =>
              r.name = resources[r.super].name

============================================================================
