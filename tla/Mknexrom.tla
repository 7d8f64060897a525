-------------------------------- MODULE Mknexrom --------------------------------
(***************************************************************************)
(* MKNEXROM (buildtools/sources/mknexrom.c): a ROM file is made of a base  *)
(* file, the kernel banks, and a driver; or a finished ROM file is         *)
(* changed, in place or into a new file.  Each part that was asked for is  *)
(* written in a loop over the banks that runs until a character past the   *)
(* end of the file is read.                                                *)
(*                                                                         *)
(* A file is a function from positions to cells <<what, number>>, where a  *)
(* cell stands for each part of a bank with a meaning of its own.          *)
(***************************************************************************)
EXTENDS Integers, FiniteSets, FiniteSetsExt

CONSTANTS Bases,    \* base files and finished ROM files
          Drivers,  \* driver files, NoFile among them for none given
          Mappers,  \* mapper code files: [size, header, low, high, code], size 0: none
                    \* given; with an empty one MKNEXROM ends (mknexrom.c 294-297)
          Extras,   \* extra code files: [size, code], size 0: none
          Addresses, \* values of /8, 0: none
          BootKeys  \* values of /k, -1: none

\* Positions in a bank, in cells.
_8K_INIT_PATCH_ADDRESS == 1
BASE_BANK_COUNT_OFFSET == 2
BANK_NUMBER == 3                 \* the last one of page 0
PAGE0_SIZE == 4
BOOT_KEYS_INVERTER_OFFSET == 4
MAPPER_INIT_CODE_ADDRESS == 5
EXTRA_ADDRESS == 7
MAPPER_CODE == 8
BANK_SIZE == 9
DRIVER_MIN_SIZE == 6
DOS2_EXTRA_BANK == 0
DOS1_EXTRA_BANK == 3
MAPPER_CODE_SIZE == 48           \* of the mapper code files, in bytes
MAPPER_CODE_HEADER_SIZE == 3
EXTRA_CODE_SIZE == 256

VARIABLES request,  \* [base, driver, mapper, extra, address, keys, modify]
          newFile,  \* the ROM file
          First8KMappingAddress, mapperCode,
          at

vars == <<request, newFile, First8KMappingAddress, mapperCode, at>>

NoFile == [p \in {} |-> <<"", 0>>]
Zero == <<"zero", 0>>
Size(file) == Cardinality(DOMAIN file)
Position(bank, offset) == BANK_SIZE * bank + offset
baseBankCount == request.base[BASE_BANK_COUNT_OFFSET][2]

\* fwrite: past the end of the file the space between is filled with zeros.
Write(file, cells) ==
    [p \in DOMAIN file \cup 0..Max(DOMAIN cells) |->
        IF p \in DOMAIN cells THEN cells[p] ELSE IF p \in DOMAIN file THEN file[p] ELSE Zero]

\* The banks that a loop writes to, from one on: it goes on while the last character
\* it skips to get to the same place of the next bank is in the file.
Banks(file, from, before) ==
    {from} \cup {b \in from..(Size(file) \div BANK_SIZE) + 1 : Position(b, before) < Size(file)}

---------------------------------------------------------------------------
(* Before the ROM file is made: the files are read and checked. *)

HasDriver == Size(request.base) >= Position(baseBankCount + 1, 0)

BaseFileSize == HasDriver \/ Size(request.base) = Position(baseBankCount, 0)

\* A driver is needed exactly when the base file has none.
DriverGiven == request.driver # NoFile
DriverPresence ==
    /\ DriverGiven # HasDriver
    /\ request.modify => HasDriver

MapperGiven == request.mapper.size > 0
MapperFileSize == request.mapper.size <= MAPPER_CODE_SIZE + MAPPER_CODE_HEADER_SIZE

\* The characters of the address are signed.
Signed(byte) == IF byte >= 128 THEN byte - 256 ELSE byte
HeaderAddress == Signed(request.mapper.low) + Signed(request.mapper.high) * 256
AddressGiven == request.address = 0 \/ (request.address >= 16384 /\ request.address < 32768)

\* A file that is too short leaves the end of the code as the stack was.
MapperCode ==
    IF ~MapperGiven THEN request.base[MAPPER_CODE]
    ELSE IF request.mapper.size < MAPPER_CODE_SIZE
              + (IF request.mapper.header THEN MAPPER_CODE_HEADER_SIZE ELSE 0)
    THEN <<"undefined", 0>> ELSE <<"mapper", request.mapper.code>>

ExtraGiven == request.extra.size > 0
ExtraAreaEmpty ==
    /\ request.extra.size <= EXTRA_CODE_SIZE
    /\ ~HasDriver => \A b \in {DOS2_EXTRA_BANK, DOS1_EXTRA_BANK} :
           request.base[Position(b, EXTRA_ADDRESS)] = Zero

DriverSignature ==
    Size(request.driver) >= DRIVER_MIN_SIZE /\ request.driver[PAGE0_SIZE][1] = "NEXTORv3_DRIVER"

Check ==
    /\ at = "check"
    /\ IF /\ AddressGiven /\ BaseFileSize /\ DriverPresence /\ MapperFileSize
          /\ ExtraGiven => ExtraAreaEmpty
          /\ DriverGiven => DriverSignature
       THEN /\ mapperCode' = MapperCode
            /\ First8KMappingAddress' =
                 IF MapperGiven /\ request.mapper.header /\ request.address = 0
                 THEN HeaderAddress ELSE request.address
            /\ at' = "create"
       ELSE at' = "exit" /\ UNCHANGED <<mapperCode, First8KMappingAddress>>
    /\ UNCHANGED <<request, newFile>>

---------------------------------------------------------------------------
(* The ROM file. *)

Step(from, to, asked, file) ==
    /\ at = from /\ at' = to
    /\ newFile' = IF asked THEN file ELSE newFile
    /\ UNCHANGED <<request, First8KMappingAddress, mapperCode>>

\* A copy of the base file, or the file itself; then the driver behind it.
CreateRom == Step("create", "driver", TRUE, request.base)

AppendDriver ==
    Step("driver", "page0", DriverGiven,
         Write(newFile, [p \in {Size(newFile) + d : d \in DOMAIN request.driver} |->
                           request.driver[p - Size(newFile)]]))

\* Mutant: the banks do not get their own number.
CopyPage0_Number ==
    LET banks == Banks(newFile, baseBankCount, -1)
    IN Step("page0", "mapper", DriverGiven,
            Write(newFile, [p \in {Position(b, c) : b \in banks, c \in 0..PAGE0_SIZE - 1} |->
                              newFile[p % BANK_SIZE]]))

\* Page 0 of the first bank into those of the driver, each with its number.
CopyPage0 ==
    LET banks == Banks(newFile, baseBankCount, -1)
    IN Step("page0", "mapper", DriverGiven,
            Write(newFile, [p \in {Position(b, c) : b \in banks, c \in 0..PAGE0_SIZE - 1} |->
                              IF p % BANK_SIZE = BANK_NUMBER
                              THEN <<"bank", p \div BANK_SIZE>> ELSE newFile[p % BANK_SIZE]]))

\* Into all banks, or with the code of the base file into those of the driver.
SetMapperCode ==
    LET banks == Banks(newFile, IF MapperGiven THEN 0 ELSE baseBankCount, 0)
    IN Step("mapper", "patch", MapperGiven \/ DriverGiven,
            Write(newFile, [p \in {Position(b, MAPPER_CODE) : b \in banks} |-> mapperCode]))

PatchFor8KMapper ==
    LET banks == Banks(newFile, 0, _8K_INIT_PATCH_ADDRESS - 1)
    IN Step("patch", "init", First8KMappingAddress # 0,
            Write(newFile, [p \in {Position(b, _8K_INIT_PATCH_ADDRESS) : b \in banks} |->
                              <<"ld", First8KMappingAddress % 65536>>]))

SetInitMapperCode ==
    Step("init", "extra", MapperGiven,
         Write(newFile, [p \in {MAPPER_INIT_CODE_ADDRESS} |-> mapperCode]))

AppendExtra ==
    Step("extra", "keys", ExtraGiven,
         Write(newFile, [p \in {Position(b, EXTRA_ADDRESS) : b \in {DOS2_EXTRA_BANK, DOS1_EXTRA_BANK}} |->
                           <<"extra", request.extra.code>>]))

SetBootKeys ==
    Step("keys", "done", request.keys # -1,
         Write(newFile, [p \in {BOOT_KEYS_INVERTER_OFFSET} |-> <<"keys", request.keys>>]))

\* A write that fails ends the program with what is written so far.
DoExit ==
    /\ at \notin {"done", "exit"} /\ at' = "exit"
    /\ UNCHANGED <<request, newFile, First8KMappingAddress, mapperCode>>

Ended == at \in {"done", "exit"} /\ UNCHANGED vars

Init ==
    /\ request \in [base : Bases, driver : Drivers, mapper : Mappers, extra : Extras,
                    address : Addresses, keys : BootKeys, modify : BOOLEAN]
    /\ newFile = IF request.modify THEN request.base ELSE NoFile
    /\ First8KMappingAddress = 0 /\ mapperCode = Zero
    /\ at = "check"

---------------------------------------------------------------------------
(* What MKNEXROM may be given. *)

\* The numbers of its cells from 0 on.
IsFile(file) == IsFiniteSet(DOMAIN file) /\ DOMAIN file = 0..Size(file) - 1

\* The kernel: it says how many banks it has, and each has page 0 with its number, and the
\* code that switches banks; a ROM file, with a driver behind it, has that in all its banks.
IsKernel(base) ==
    /\ IsFile(base) /\ Size(base) >= BANK_SIZE
    /\ base[BASE_BANK_COUNT_OFFSET][2] \in Nat /\ base[BASE_BANK_COUNT_OFFSET][2] > DOS1_EXTRA_BANK
    /\ Size(base) > Position(base[BASE_BANK_COUNT_OFFSET][2] + 1, 0) => Size(base) % BANK_SIZE = 0
    /\ \A p \in DOMAIN base :
         /\ p % BANK_SIZE < PAGE0_SIZE =>
              base[p] = IF p % BANK_SIZE = BANK_NUMBER THEN <<"bank", p \div BANK_SIZE>>
                                                      ELSE base[p % BANK_SIZE]
         /\ p % BANK_SIZE = MAPPER_CODE => base[p] = base[MAPPER_CODE]
         /\ base[p][1] = "extra" => p % BANK_SIZE \notin 0..PAGE0_SIZE - 1 \cup {MAPPER_CODE}

\* Drivers are files without the extra code of the kernel; the header of a mapper code file
\* has an address of two bytes.
MknexromAssumption ==
    /\ \A base \in Bases : IsKernel(base)
    /\ \A driver \in Drivers :
         IsFile(driver) /\ \A p \in DOMAIN driver : driver[p][1] # "extra"
    /\ \A m \in Mappers : m.size \in Nat /\ {m.low, m.high} \subseteq 0..255
    /\ Addresses \subseteq Nat

---------------------------------------------------------------------------
Next ==
    \/ Check \/ CreateRom \/ AppendDriver \/ CopyPage0 \/ SetMapperCode
    \/ PatchFor8KMapper \/ SetInitMapperCode \/ AppendExtra \/ SetBootKeys
    \/ DoExit
    \/ Ended

Spec == Init /\ [][Next]_vars

---------------------------------------------------------------------------
(* Properties. *)

TypeOK ==
    /\ Size(newFile) = 0 \/ DOMAIN newFile = 0..Size(newFile) - 1
    /\ First8KMappingAddress \in Int
    /\ -65536 < First8KMappingAddress /\ First8KMappingAddress < 65536

\* A finished ROM file is whole banks, one more for the driver than it fills: the
\* kernel finds page 0 in every bank, each with its number; the mapper code it
\* switches banks with at the end of every bank, of the same kind in all of them;
\* the patch, when there is one, in every bank; the extra code in the two banks of
\* the kernel and nowhere else; and the rest is that of the base file and of the
\* driver.  Not stated: the address of a header whose low byte is above 7Fh, which
\* is wrong by 100h, and the code of a mapper file that is too short (mknexrom.c
\* 378-549).
RomComplete ==
    LET kernel == Size(request.base)
        banks == Size(newFile) \div BANK_SIZE
        Written == {_8K_INIT_PATCH_ADDRESS, BANK_NUMBER, MAPPER_CODE}
        address == IF request.address # 0 THEN request.address
                   ELSE IF MapperGiven /\ request.mapper.header
                   THEN request.mapper.low + 256 * request.mapper.high ELSE 0
        code == IF MapperGiven THEN <<"mapper", request.mapper.code>> ELSE request.base[MAPPER_CODE]
        Patched(c) == \/ c = MAPPER_INIT_CODE_ADDRESS /\ MapperGiven
                      \/ c = BOOT_KEYS_INVERTER_OFFSET /\ request.keys # -1
    IN at = "done" =>
       /\ Size(newFile) % BANK_SIZE = 0
       /\ banks = kernel \div BANK_SIZE
                    + (IF DriverGiven THEN Size(request.driver) \div BANK_SIZE + 1 ELSE 0)
       /\ \A b \in 0..banks - 1, c \in 0..PAGE0_SIZE - 1 :
            newFile[Position(b, c)] = IF c = BANK_NUMBER THEN <<"bank", b>> ELSE newFile[c]
       /\ mapperCode[1] # "undefined" =>
            \A b \in 0..banks - 1 : newFile[Position(b, MAPPER_CODE)] = code
       /\ address # 0 /\ address % 256 < 128 =>
            \A b \in 0..banks - 1 : newFile[Position(b, _8K_INIT_PATCH_ADDRESS)] = <<"ld", address>>
       /\ \A p \in DOMAIN newFile : newFile[p][1] = "extra" =>
            \/ p \in DOMAIN request.base /\ newFile[p] = request.base[p]
            \/ p \in {Position(b, EXTRA_ADDRESS) : b \in {DOS2_EXTRA_BANK, DOS1_EXTRA_BANK}}
                 /\ newFile[p] = <<"extra", request.extra.code>>
       /\ \A p \in DOMAIN newFile : p % BANK_SIZE \notin Written =>
            \/ p \in DOMAIN request.base /\ newFile[p] = request.base[p]
            \/ p < BANK_SIZE /\ Patched(p)
            \/ ExtraGiven /\ newFile[p][1] = "extra"
            \/ p >= kernel /\ p % BANK_SIZE < PAGE0_SIZE
            \/ /\ p >= kernel
               /\ newFile[p] = IF p - kernel \in DOMAIN request.driver
                               THEN request.driver[p - kernel] ELSE Zero

=============================================================================
