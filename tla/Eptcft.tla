--------------------------------- MODULE Eptcft ---------------------------------
(***************************************************************************)
(* EPTCFT (tools/C/eptcft.c): the type code of the extended partition in   *)
(* each table of the chain is changed, from CHS to LBA or back.  The       *)
(* kernel is asked where the next table is; then the driver reads and      *)
(* writes the sector.  The program sees only the errors of the system      *)
(* call: when the driver itself fails, the buffer or the sector stays as   *)
(* it was and the program goes on.                                         *)
(***************************************************************************)
EXTENDS Integers, Sequences, FiniteSets

CONSTANTS Disks,     \* the chains: sequences of [type, rest], the first is the MBR
          Targets,   \* [byDrive, status, device]: what the command line names
          MaxErrors  \* bound: sectors that the driver fails to read or write

PTYPE_EXTENDED_CHS == 5
PTYPE_EXTENDED_LBA == 15
Extended == {PTYPE_EXTENDED_CHS, PTYPE_EXTENDED_LBA}

VARIABLES disk,
          target, op,          \* the command line: op is "fix", "unfix" or "scan"
          mbrBuffer,
          extendedPartition,   \* tables done
          chsPartitionsCount, lbaPartitionsCount,
          at,
          original,            \* history: the disk at first
          errors,              \* history: failures of the driver
          blind                \* history: was the first sector not read?

vars == <<disk, target, op, mbrBuffer, extendedPartition, chsPartitionsCount,
          lbaPartitionsCount, at, original, errors, blind>>
command == <<target, op, original>>
counts == <<chsPartitionsCount, lbaPartitionsCount>>

\* The device of a drive must be one of a Nextor driver.
ProcessParameters ==
    /\ at = "parameters"
    /\ at' = IF target.byDrive /\ (target.status # 1 \/ target.device = 0) THEN "end" ELSE "scan"
    /\ UNCHANGED <<disk, command, mbrBuffer, extendedPartition, counts, errors, blind>>

\* _GPART finds the table that the chain leads to, or there is none; an error of the
\* kernel's own reads (partit.mac 131-208) ends the program as well, without a change.
F_GPART(n) == n < Len(disk) /\ \A i \in 1..n : disk[i].type \in Extended

ReadTable ==
    /\ at = "scan"
    /\ IF ~F_GPART(extendedPartition)
       THEN at' = "end" /\ UNCHANGED <<mbrBuffer, errors, blind>>
       ELSE /\ at' = "table"
            /\ \/ mbrBuffer' = disk[extendedPartition + 1] /\ UNCHANGED <<errors, blind>>
               \/ /\ errors < MaxErrors /\ errors' = errors + 1
                  /\ blind' = (blind \/ extendedPartition = 0)
                  /\ UNCHANGED mbrBuffer
    /\ UNCHANGED <<disk, command, extendedPartition, counts>>

\* The sector of the table in turn is written from the buffer, or the driver fails.
WriteTable(buffer) ==
    \/ disk' = [disk EXCEPT ![extendedPartition + 1] = buffer] /\ UNCHANGED errors
    \/ errors < MaxErrors /\ errors' = errors + 1 /\ UNCHANGED disk

\* A type code that the operation is for is changed in the buffer first.
ScanAndFix(code, asked, becomes) ==
    /\ at = "table" /\ mbrBuffer.type = code
    /\ IF op = asked
       THEN mbrBuffer' = [mbrBuffer EXCEPT !.type = becomes] /\ WriteTable(mbrBuffer')
       ELSE UNCHANGED <<disk, mbrBuffer, errors>>
    /\ extendedPartition' = extendedPartition + 1
    /\ at' = "scan"
    /\ UNCHANGED <<command, blind>>

FixTable ==
    /\ ScanAndFix(PTYPE_EXTENDED_CHS, "fix", PTYPE_EXTENDED_LBA)
    /\ chsPartitionsCount' = chsPartitionsCount + 1 /\ UNCHANGED lbaPartitionsCount

UnfixTable ==
    /\ ScanAndFix(PTYPE_EXTENDED_LBA, "unfix", PTYPE_EXTENDED_CHS)
    /\ lbaPartitionsCount' = lbaPartitionsCount + 1 /\ UNCHANGED chsPartitionsCount

LastTable ==
    /\ at = "table" /\ mbrBuffer.type \notin Extended
    /\ at' = "end"
    /\ UNCHANGED <<disk, command, mbrBuffer, extendedPartition, counts, errors, blind>>

Ended == at = "end" /\ UNCHANGED vars

\* At first the buffer has the name of the device, or what was there before it.
Init ==
    /\ disk \in Disks /\ original = disk
    /\ target \in Targets /\ op \in {"fix", "unfix", "scan"}
    /\ mbrBuffer \in [type : Extended \cup {0}, rest : {"memory"}]
    /\ extendedPartition = 0 /\ chsPartitionsCount = 0 /\ lbaPartitionsCount = 0
    /\ at = "parameters" /\ errors = 0 /\ blind = FALSE

Next ==
    \/ ProcessParameters
    \/ ReadTable
    \/ FixTable \/ UnfixTable \/ LastTable
    \/ Ended

Spec == Init /\ [][Next]_vars

---------------------------------------------------------------------------
(* Properties. *)

TypeOK ==
    /\ Len(disk) = Len(original) /\ errors \in 0..MaxErrors
    /\ extendedPartition \in 0..Len(disk)

\* No table loses anything but a type code, the chain stays whole and a scan changes
\* nothing, even with errors of the driver that the program does not see: the stale
\* buffer that a failed read leaves has the code that is not converted, so it is not
\* written over another table.  (That needs the first read to succeed; else the
\* buffer is whatever was in memory.)  Without errors every code of the chain is the
\* wanted one, and as many as were changed are counted (eptcft.c 299-398).
OnlyTypesFixed ==
    /\ ~blind =>
         \A i \in DOMAIN disk :
           /\ disk[i].rest = original[i].rest
           /\ disk[i].type # original[i].type =>
                {disk[i].type, original[i].type} = Extended /\ op # "scan"
    /\ at = "end" /\ errors = 0 /\ extendedPartition > 0 =>
         LET wrong == IF op = "fix" THEN PTYPE_EXTENDED_CHS ELSE PTYPE_EXTENDED_LBA
             chain == {i \in DOMAIN disk : \A j \in 1..i : original[j].type \in Extended}
         IN /\ op # "scan" => \A i \in chain : disk[i].type # wrong
            /\ chsPartitionsCount + lbaPartitionsCount = Cardinality(chain)

=============================================================================
