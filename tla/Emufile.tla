-------------------------------- MODULE Emufile --------------------------------
(***************************************************************************)
(* EMUFILE (tools/C/emufile.c) making a data file: the table that tells    *)
(* the kernel where on the devices each disk image is.  The arguments are  *)
(* taken one by one; each name may match several files, and with -m each   *)
(* file may hold several images.  Any system call may fail and end it.     *)
(*                                                                         *)
(* An argument is [kind, value, name]: the letter of an option with its    *)
(* value, or "name" with a file name.  A byte of a file is only counted.   *)
(***************************************************************************)
EXTENDS Integers, Sequences, FiniteSets

CONSTANTS Commands,   \* the argument lists
          Directory,  \* by name: the files it matches, in the order of the search:
                      \* [drive, bytes, clusters]
          Drives,     \* by drive: [status, primary, first, device, lun, data, spc]
          MaxFilesToProcess, Sector

DefaultImageSizeInK == 1   \* scaled, as the sector size is
MaxImageSizeInK == 4
MaxFileSize == 2 * MaxImageSizeInK * Sector  \* 32 MB

VARIABLES argv,
          options,      \* what the options ask for
          outputFileName, \* "" until it is given
          names,        \* the arguments that are left
          matched,      \* files left of the name that is searched
          fileContents, \* the table: sequence of [device, lun, first, size]
          from,         \* history: for each entry its file and the number of the image in it
          file,         \* the data file on the disk, or NoFile
          at

vars == <<argv, options, outputFileName, names, matched, fileContents, from, file, at>>
args == <<argv, options, outputFileName, names>>
table == <<matched, fileContents, from>>

NoFile == [entries |-> <<>>, boot |-> 0, workArea |-> 0, flags |-> {}, complete |-> FALSE]
totalFilesProcessed == Len(fileContents)

Terminate(how) == at' = how
Failed == "error"
Done == "done"

---------------------------------------------------------------------------
(* Options. *)

ProcessBootIndexOption(value) == value \in 1..32

\* An address that leaves 16 bytes in page 3, in thousands.
ProcessWorkAreaAddressOption(value) == value = 0 \/ value \in 49..65

NoValue == -1
ConcatenatedSize(value) == IF value = NoValue THEN DefaultImageSizeInK ELSE value
ProcessConcatenatedImagesOption(value) == ConcatenatedSize(value) \in 1..MaxImageSizeInK

IsHzOption(kind) == kind \in {"5", "6"}
ProcessHzOption(kind) == options.hz \in {"none", kind}

\* The option is taken, or it ends the program.
ProcessOption(option) ==
    LET ok(field, value) == options' = [options EXCEPT ![field] = value] /\ UNCHANGED at
        checked(valid, field, value) ==
            IF valid THEN ok(field, value) ELSE Terminate(Failed) /\ UNCHANGED options
    IN \/ option.kind = "b" /\ checked(ProcessBootIndexOption(option.value), "boot", option.value)
       \/ option.kind = "a"
            /\ checked(ProcessWorkAreaAddressOption(option.value), "workArea", option.value)
       \/ IsHzOption(option.kind) /\ checked(ProcessHzOption(option.kind), "hz", option.kind)
       \/ option.kind = "m" /\ checked(ProcessConcatenatedImagesOption(option.value),
                                       "concatenated", 2 * ConcatenatedSize(option.value))
       \/ option.kind \in {"c", "s", "8", "f"}
            /\ ok("flags", options.flags \cup {option.kind})

EmuFlagsByte == (options.flags \cup {options.hz}) \ {"none"}

\* One argument: an option before the names, the output file, or a name to search.
ProcessCreateFileArguments ==
    /\ at = "args" /\ names # <<>>
    /\ names' = Tail(names)
    /\ IF Head(names).kind # "name"
       THEN /\ IF outputFileName = "" THEN ProcessOption(Head(names))
               ELSE Terminate(Failed) /\ UNCHANGED options
            /\ UNCHANGED <<outputFileName, matched>>
       ELSE IF outputFileName = ""
       THEN outputFileName' = Head(names).name /\ UNCHANGED <<options, matched, at>>
       ELSE /\ IF totalFilesProcessed < MaxFilesToProcess /\ Directory[Head(names).name] # <<>>
               THEN at' = "file" /\ matched' = Directory[Head(names).name]
               ELSE Terminate(Failed) /\ UNCHANGED matched
            /\ UNCHANGED <<options, outputFileName>>
    /\ UNCHANGED <<argv, fileContents, from, file>>

EndOfArguments ==
    /\ at = "args" /\ names = <<>>
    /\ at' = IF outputFileName = "" \/ totalFilesProcessed = 0 THEN Failed ELSE "device"
    /\ UNCHANGED <<args, table, file>>

---------------------------------------------------------------------------
(* Files. *)

CheckControllerForFileInFib(f) == Drives[f.drive].status = "device" /\ Drives[f.drive].primary

\* _GETCLUS refuses cluster 0, that of an empty file.
CheckConsecutiveClustersForFileInFib(f) ==
    /\ f.clusters # <<>>
    /\ \A i \in 1..Len(f.clusters) - 1 : f.clusters[i + 1] = f.clusters[i] + 1

GetFirstFileSectorForFileInFib(f) ==
    Drives[f.drive].data + (f.clusters[1] - 2) * Drives[f.drive].spc

Concatenated == options.concatenated # 0
TooSmall(f) == f.bytes < Sector
TooBig(f) == ~Concatenated /\ f.bytes >= MaxFileSize
ImageSize(f) == IF Concatenated THEN options.concatenated ELSE f.bytes \div Sector
ImagesCount(f) == IF Concatenated THEN f.bytes \div (Sector * ImageSize(f)) ELSE 1
Multiple(f) == Concatenated => f.bytes % (Sector * ImageSize(f)) = 0

AddImageToFilesTable(f, sector) ==
    [device |-> Drives[f.drive].device, lun |-> Drives[f.drive].lun,
     first |-> sector, size |-> ImageSize(f)]

Images(f) ==
    LET first == Drives[f.drive].first + GetFirstFileSectorForFileInFib(f)
    IN [i \in 1..ImagesCount(f) |-> AddImageToFilesTable(f, first + (i - 1) * ImageSize(f))]

\* The search goes on with the next file while there is room in the table.
NextFile(left, processed) ==
    IF left = <<>> THEN at' = "args"
    ELSE IF processed < MaxFilesToProcess THEN at' = "file"
    ELSE Terminate(Failed)

ProcessFileFound ==
    /\ at = "file"
    /\ matched' = Tail(matched)
    /\ LET f == Head(matched)
       IN IF ~CheckControllerForFileInFib(f) \/ ~CheckConsecutiveClustersForFileInFib(f)
          THEN Terminate(Failed) /\ UNCHANGED <<fileContents, from>>
          ELSE IF TooSmall(f) \/ TooBig(f)
          THEN NextFile(Tail(matched), totalFilesProcessed) /\ UNCHANGED <<fileContents, from>>
          ELSE IF ~Multiple(f) \/ ImagesCount(f) > MaxFilesToProcess - totalFilesProcessed
          THEN Terminate(Failed) /\ UNCHANGED <<fileContents, from>>
          ELSE /\ fileContents' = fileContents \o Images(f)
               /\ from' = from \o [i \in 1..ImagesCount(f) |-> [f |-> f, image |-> i]]
               /\ NextFile(Tail(matched), totalFilesProcessed + ImagesCount(f))
    /\ UNCHANGED <<args, file>>

\* Mutant: only the device is compared, not the logical unit.
SetDeviceIndexes_NoLun ==
    /\ at = "device"
    /\ LET its == Drives[Directory[outputFileName][1].drive]
       IN fileContents' =
            IF \A i \in DOMAIN fileContents : fileContents[i].device = its.device
            THEN [i \in DOMAIN fileContents |->
                    [fileContents[i] EXCEPT !.device = 0, !.lun = 0]]
            ELSE fileContents
    /\ at' = "create"
    /\ UNCHANGED <<args, matched, from, file>>

\* Device 0 stands for the one of the data file, which is none of the image files.
SetDeviceIndexesOfFilesTableToZeroIfAllInSameDeviceAsDataFile ==
    /\ at = "device"
    /\ LET its == Drives[Directory[outputFileName][1].drive]
       IN fileContents' =
            IF \A i \in DOMAIN fileContents :
                 fileContents[i].device = its.device /\ fileContents[i].lun = its.lun
            THEN [i \in DOMAIN fileContents |->
                    [fileContents[i] EXCEPT !.device = 0, !.lun = 0]]
            ELSE fileContents
    /\ at' = "create"
    /\ UNCHANGED <<args, matched, from, file>>

---------------------------------------------------------------------------
(* The data file: created, then the header with the table, the texts. *)

BootFileIndex == IF options.boot > totalFilesProcessed THEN totalFilesProcessed ELSE options.boot

Create ==
    /\ at = "create" /\ at' = "header"
    /\ file' = NoFile
    /\ UNCHANGED <<args, table>>

GenerateFile ==
    /\ at = "header" /\ at' = "texts"
    /\ file' = [entries |-> fileContents, boot |-> BootFileIndex,
                workArea |-> options.workArea, flags |-> EmuFlagsByte, complete |-> FALSE]
    /\ UNCHANGED <<args, table>>

WriteTexts ==
    /\ at = "texts" /\ Terminate(Done)
    /\ file' = [file EXCEPT !.complete = TRUE]
    /\ UNCHANGED <<args, table>>

\* DoDosCall: an error of any system call ends the program, as CTRL-STOP does.
TerminateWithDosError ==
    /\ at \notin {Failed, Done} /\ Terminate(Failed)
    /\ UNCHANGED <<args, table, file>>

Ended == at \in {Failed, Done} /\ UNCHANGED vars

Init ==
    /\ argv \in Commands /\ names = argv
    /\ options = [boot |-> 1, workArea |-> 0, hz |-> "none", concatenated |-> 0, flags |-> {}]
    /\ outputFileName = "" /\ matched = <<>>
    /\ fileContents = <<>> /\ from = <<>> /\ file = NoFile
    /\ at = "args"

Next ==
    \/ ProcessCreateFileArguments
    \/ EndOfArguments
    \/ ProcessFileFound
    \/ SetDeviceIndexesOfFilesTableToZeroIfAllInSameDeviceAsDataFile
    \/ Create
    \/ GenerateFile
    \/ WriteTexts
    \/ TerminateWithDosError
    \/ Ended

Spec == Init /\ [][Next]_vars

---------------------------------------------------------------------------
(* What EMUFILE may be given. *)

Arguments == UNION {{c[i] : i \in DOMAIN c} : c \in Commands}
Files == UNION {{Directory[n][i] : i \in DOMAIN Directory[n]} : n \in DOMAIN Directory}

\* A file has the clusters for its bytes, on a drive that there is.
IsFile(f) ==
    /\ f.drive \in DOMAIN Drives /\ f.bytes \in Nat /\ f.clusters \in Seq(Nat)
    /\ f.bytes <= Len(f.clusters) * Drives[f.drive].spc * Sector

\* Arguments name files that are searched; device numbers begin with 1.
EmufileAssumption ==
    /\ Sector \in Nat \ {0} /\ MaxFilesToProcess \in Nat
    /\ Commands \subseteq Seq(Arguments)
    /\ \A a \in Arguments : IF a.kind = "name" THEN a.name \in DOMAIN Directory ELSE a.value \in Int
    /\ \A n \in DOMAIN Directory : Directory[n] \in Seq(Files)
    /\ \A f \in Files : IsFile(f)
    /\ \A d \in DOMAIN Drives :
         /\ {Drives[d].first, Drives[d].data} \subseteq Nat
         /\ {Drives[d].spc, Drives[d].device} \subseteq Nat \ {0}

---------------------------------------------------------------------------
(* Properties. *)

TypeOK ==
    /\ argv \in Commands
    /\ Len(fileContents) <= MaxFilesToProcess /\ Len(from) = Len(fileContents)
    /\ at \in {"args", "file", "device", "create", "header", "texts", Failed, Done}

\* What the kernel reads of a finished data file: sector s of the image an entry was
\* made for is where the cluster chain of its file says, on the device it names or,
\* for device 0, on that of the data file; the images of a file with several follow
\* each other and leave nothing of it out, and the image of a file with one is as
\* large as the file; the one to mount is in the table; and only one frequency is
\* forced (emufile.c 752-1002).
TableExact ==
    LET its == Drives[Directory[outputFileName][1].drive]
        Place(e) == IF e.device = 0 THEN <<its.device, its.lun>> ELSE <<e.device, e.lun>>
        On(drive) == <<Drives[drive].device, Drives[drive].lun>>
        Chain(f, n) == LET d == Drives[f.drive]
                       IN d.first + d.data + (f.clusters[n \div d.spc + 1] - 2) * d.spc + (n % d.spc)
    IN file.complete =>
         /\ \A i \in DOMAIN file.entries :
              LET e == file.entries[i]
                  f == from[i].f
                  offset == (from[i].image - 1) * e.size
              IN /\ Place(e) = On(f.drive)
                 /\ e.size = IF Concatenated THEN options.concatenated ELSE f.bytes \div Sector
                 /\ offset + e.size <= f.bytes \div Sector
                 /\ \A s \in 0..e.size - 1 : e.first + s = Chain(f, offset + s)
                 /\ Concatenated /\ offset + e.size < f.bytes \div Sector =>
                      from[i + 1] = [f |-> f, image |-> from[i].image + 1]
         /\ file.boot \in DOMAIN file.entries
         /\ ~({"5", "6"} \subseteq file.flags)

=============================================================================
