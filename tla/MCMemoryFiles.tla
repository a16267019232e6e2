--------------------------- MODULE MCMemoryFiles ---------------------------
(* Constants for the TLC run of MemoryFiles: the drivers of the repository *)
(* and two sets of sources that gen_dri_defs.py cannot number.             *)
EXTENDS MemoryFiles

Def(g, n) == [group |-> g, name |-> n]

AllGroups == {"FS_SUPER", "FS_DIR", "FS_FILE", "DEV_ACPI", "DEV_PCI"}
Shared == <<"FS_SUPER", "FS_DIR", "FS_FILE">>

Ext2 == {Def(g, "ext2") : g \in AllGroups \ {"DEV_ACPI", "DEV_PCI"}}
Initramfs == {Def("FS_SUPER", "initramfs"), Def("FS_FILE", "initramfs")}
Buffer == {Def("FS_FILE", "buffer")}
Devices == {Def("DEV_ACPI", n) : n \in {"uart", "rtc", "hpet"}}
              \cup {Def("DEV_PCI", "nvme")}

\* A file system without a file driver; no directory driver at all.
NoFiles == Ext2 \cup {Def("FS_SUPER", "procfs"), Def("FS_FILE", "other")}
NoDirectories == Initramfs \cup Buffer

Sources == {Ext2 \cup Initramfs \cup Buffer, Devices, NoFiles, NoDirectories}

\* Made-up codes; the file system drivers have none.
DriverCodes == [d \in UNION Sources |->
    IF d.group \in {"DEV_ACPI", "DEV_PCI"} THEN {d.name} ELSE {}]

\* init_hpet always fails, init_uart and the file drivers may.
DriverInits == [d \in UNION Sources |->
    CASE d.name = "hpet" -> {"fail"}
      [] d = Def("FS_SUPER", "initramfs") -> {"ok"}
      [] d.name \in {"rtc", "procfs", "other"} -> {"ok"}
      [] OTHER -> {"ok", "fail"}]

FileNames == {"", "bin", "bin2", "etc"}
NamesBegin == [n \in FileNames |->
    CASE n = "" -> {""} [] n = "bin2" -> {"", "bin", "bin2"} [] OTHER -> {"", n}]

Entry(n, k) == [name |-> n, size |-> k]
SmallArchives ==
    {<<Entry("bin", 3), Entry("etc", 2)>>, <<Entry("bin2", 1), Entry("bin", 3)>>}

\* Ranges within, across and past the end of files of up to three bytes, and
\* a product that wraps in size_t of four bits.
FileTransfers ==
    {[op |-> o, offset |-> x[1], size |-> x[2], count |-> x[3]] :
        o \in {"read", "write"},
        x \in {<<0, 2, 1>>, <<1, 4, 1>>, <<3, 1, 1>>, <<5, 1, 1>>, <<0, 4, 5>>}}
============================================================================
