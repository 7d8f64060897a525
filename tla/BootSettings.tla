------------------------------ MODULE BootSettings ------------------------------
(***************************************************************************)
(* The settings of the next boots and the two programs that make them:     *)
(* EMUFILE (tools/C/emufile.c) with "set" and "k", and NEXBOOT             *)
(* (tools/C/nexboot.c).  Both keep their part of the same block in the     *)
(* persistent storage; each loads the block, changes its part and saves    *)
(* it.  What is for the next boot only goes to RAM.                        *)
(***************************************************************************)
EXTENDS PersistentStorage, Sequences

CONSTANTS Storages,   \* [exists, size, bytes]: what the storage can be at first:
                      \* 0 sectors without one; exists: is there a file?
          Requests,   \* the command lines: [op, name, flags, x, keys, slots]
          DataFiles,  \* by name: [found, primary, bytes, read, signature, flags,
                      \* device, sector]
          Inside,     \* by directory name: the data file in it
          MaxRequests \* bound: commands given

EMU_FLAG_50HZ == 2
EMU_FLAG_60HZ == 4
HzFlags == {EMU_FLAG_50HZ, EMU_FLAG_60HZ}

VARIABLES storage,  \* [exists, sectorSize, sectorCount, bytes]
          request,  \* the command line
          fileFlags, \* flags of the data file, as a set of bits
          psBuffer,
          ram,      \* [emu, keys]: the blocks for one boot
          at, count,
          initial,  \* history: what the storage was
          stored    \* history: settings written: [keys, emu]

vars == <<storage, request, fileFlags, psBuffer, ram, at, count, initial, stored>>
history == <<initial, stored>>

Byte(bits) == FoldFunctionOnSet(+, 0, [b \in bits |-> b], bits)

\* The four bytes of a sector number, the lowest first.
Bytes4(n) == [i \in 0..3 |-> (n \div 256 ^ i) % 256]

NotIn == <<>>
NoBuffer == [i \in 0..PSD_MAX_SIZE - 1 |-> 0]
Finished == at' = "idle" /\ UNCHANGED <<storage, request, fileFlags, psBuffer, ram, count, history>>

---------------------------------------------------------------------------
(* EMUFILE. *)

\* ProcessHzOption and ParseArguments: a request that asks for both is refused.
ProcessSetupFileArguments(r) == ~(HzFlags \subseteq r.flags)

ConvertDirectoryToFilename(name) == IF name \in DOMAIN Inside THEN Inside[name] ELSE name

DataFile == DataFiles[ConvertDirectoryToFilename(request.name)]

EffectiveHzFlags ==
    IF request.flags \cap HzFlags # {} THEN request.flags \cap HzFlags
    ELSE IF request.x THEN {} ELSE fileFlags \cap HzFlags

EffectiveOthers ==
    (request.flags \cup (IF request.x THEN {} ELSE fileFlags \cap {8, 16, 32, 64})) \ HzFlags

PointerFlagsByte == Byte(EffectiveHzFlags \cup EffectiveOthers)

\* The file must be on a device of the primary controller and have the signature;
\* the flags are in the header if it is long enough.
VerifyDataFileSignature ==
    /\ at = "setup"
    /\ IF DataFile.found /\ DataFile.primary /\ DataFile.bytes > 0
            /\ DataFile.read >= 16 /\ DataFile.signature
       THEN /\ fileFlags' = IF DataFile.read >= 21 THEN DataFile.flags ELSE {}
            /\ at' = IF request.op = "set p" THEN "load" ELSE "ram"
       ELSE at' = "idle" /\ UNCHANGED fileFlags
    /\ UNCHANGED <<storage, request, psBuffer, ram, count, history>>

SetInBuffer(buffer) ==
    LET sector == Bytes4(DataFile.sector)
    IN [i \in DOMAIN buffer |->
          IF i = PSD_EMU_DEVICE THEN DataFile.device
          ELSE IF i \in PSD_EMU_SECTOR..PSD_EMU_SECTOR + 3 THEN sector[i - PSD_EMU_SECTOR]
          ELSE IF i = PSD_EMU_FLAGS THEN PointerFlagsByte ELSE buffer[i]]

\* Without a persistent emulation there is nothing to remove.
PersistentEmulation(buffer) == buffer[PSD_EMU_DEVICE] \notin {0, 255}

KillInBuffer(buffer) ==
    [i \in DOMAIN buffer |-> IF i \in PSD_EMU_DEVICE..PSD_EMU_FLAGS THEN 0 ELSE buffer[i]]

\* SetupFile without "p": the pointer for the next boot, and the computer is reset.
SetupRAMAddress ==
    /\ at = "ram"
    /\ ram' = [ram EXCEPT !.emu = <<DataFile.device, PointerFlagsByte, Bytes4(DataFile.sector)>>]
    /\ at' = "reset"
    /\ UNCHANGED <<storage, request, fileFlags, psBuffer, count, history>>

---------------------------------------------------------------------------
(* NEXBOOT.  The key flags are a set of <<byte, bit>>. *)

GetNumericBits(key) ==
    CASE key \in 1..7 -> <<0, 2 ^ key>>
      [] key \in 8..9 -> <<1, 2 ^ (key - 8)>>
      [] key = 10     -> <<4, 16>>   \* SHIFT
      [] key = 11     -> <<4, 32>>   \* CTRL

\* The keys that disable the kernel in a slot, by main slot and subslot.
keysBySlot ==
    << << <<3, 64>>, <<3, 4>>, <<1, 4>>, <<4, 8>> >>,
       << <<2, 4>>, <<4, 1>>, <<3, 16>>, <<4, 2>> >>,
       << <<3, 1>>, <<1, 64>>, <<1, 32>>, <<1, 16>> >>,
       << <<3, 2>>, <<3, 8>>, <<1, 128>>, <<3, 128>> >> >>

AllKernels == -1
GetSlotDisableKeys(slot) ==
    IF slot = AllKernels THEN <<2, 128>> ELSE keysBySlot[(slot \div 4) + 1][(slot % 4) + 1]

keyFlags ==
    {GetNumericBits(k) : k \in request.keys} \cup {GetSlotDisableKeys(s) : s \in request.slots}
FlagByte(i) == Byte({pair[2] : pair \in {p \in keyFlags : p[1] = i}})

\* Only the keys 1 to 7, SHIFT and CTRL can be inverted.
GetPersistentBits(r) == r.keys \cap 8..9 = {}

SetKeysInRam ==
    /\ at = "keys"
    /\ ram' = [ram EXCEPT !.keys = [i \in 0..4 |-> FlagByte(i)]]
    /\ at' = "reset"
    /\ UNCHANGED <<storage, request, fileFlags, psBuffer, count, history>>

SetPersistentKeys(buffer) ==
    [buffer EXCEPT ![PSD_KEYS] = FlagByte(0), ![PSD_KEYS + 1] = FlagByte(4)]

NoKeys(buffer) == buffer[PSD_KEYS] = 255 /\ buffer[PSD_KEYS + 1] = 255

RemovePersistentKeys(buffer) == [buffer EXCEPT ![PSD_KEYS] = 255, ![PSD_KEYS + 1] = 255]

---------------------------------------------------------------------------
(* Both programs: the command line, then load, change and save. *)

ProcessOption(r) ==
    CASE r.op \in {"set p", "set o"} -> IF ProcessSetupFileArguments(r) THEN "setup" ELSE "idle"
      [] r.op = "keys" -> "keys"
      [] r.op = "/p"   -> IF GetPersistentBits(r) THEN "load" ELSE "idle"
      [] OTHER         -> "load"

Start(r) ==
    /\ at = "idle" /\ count < MaxRequests
    /\ count' = count + 1
    /\ request' = r /\ at' = ProcessOption(r)
    /\ fileFlags' = {} /\ psBuffer' = NoBuffer
    /\ UNCHANGED <<storage, ram, history>>

\* PsLoadData: no storage or a disk error ends the program, a missing file does not.
\* What is past the sectors read is as the buffer was.
PsLoad ==
    /\ at = "load"
    /\ LET used == PsSectorsThatFit(storage) * storage.sectorSize
           read == [i \in DOMAIN psBuffer |->
                      IF i < used /\ storage.exists THEN storage.bytes[i] ELSE psBuffer[i]]
       IN \/ storage.sectorCount > 0
             /\ psBuffer' = PsLoadData(storage.exists, read, used) /\ at' = "save"
          \/ at' = "idle" /\ UNCHANGED psBuffer
    /\ UNCHANGED <<storage, request, fileFlags, ram, count, history>>

NothingToDo ==
    \/ request.op = "k" /\ ~PersistentEmulation(psBuffer)
    \/ request.op = "/k" /\ NoKeys(psBuffer)
    \/ request.op = "/i"

Changed ==
    CASE request.op = "set p" -> SetInBuffer(psBuffer)
      [] request.op = "k"     -> KillInBuffer(psBuffer)
      [] request.op = "/p"    -> SetPersistentKeys(psBuffer)
      [] request.op = "/k"    -> RemovePersistentKeys(psBuffer)

Settings ==
    CASE request.op = "set p" ->
             [stored EXCEPT !.emu = <<DataFile.device, PointerFlagsByte, Bytes4(DataFile.sector)>>]
      [] request.op = "k"     -> [stored EXCEPT !.emu = NotIn]
      [] request.op = "/p"    -> [stored EXCEPT !.keys = <<FlagByte(0), FlagByte(4)>>]
      [] request.op = "/k"    -> [stored EXCEPT !.keys = NotIn]

\* PsSaveData writes the sectors read, all or none of them; whether it reports an
\* error or not, EMUFILE resets the computer or the program ends.
PsSave ==
    /\ at = "save" /\ ~NothingToDo
    /\ LET buffer == PsSetChecksum(Changed)
           used == PsSectorsThatFit(storage) * storage.sectorSize
       IN storage' = [storage EXCEPT !.exists = TRUE,
                        !.bytes = [i \in DOMAIN @ |-> IF i < used THEN buffer[i] ELSE @[i]]]
    /\ stored' = Settings
    /\ \/ at' = IF request.op = "set p" THEN "reset" ELSE "idle"
       \/ at' = "idle"
    /\ UNCHANGED <<request, fileFlags, psBuffer, ram, count, initial>>

SaveNothing == at = "save" /\ NothingToDo /\ Finished

\* A disk error, or CTRL-STOP, before anything is written.
Terminate == at \in {"setup", "ram", "save"} /\ Finished

\* ResetComputer: the kernel takes the blocks in RAM and they are gone.
Boot ==
    /\ at = "reset"
    /\ ram' = [emu |-> <<>>, keys |-> <<>>] /\ at' = "idle"
    /\ UNCHANGED <<storage, request, fileFlags, psBuffer, count, history>>

Ended == at = "idle" /\ count = MaxRequests /\ UNCHANGED vars

Valid(s) == s.exists /\ PsDataIsValid(s.bytes, PsSectorsThatFit(s) * s.sectorSize)

SettingsIn(bytes) ==
    [keys |-> IF NoKeys(bytes) THEN NotIn ELSE <<bytes[PSD_KEYS], bytes[PSD_KEYS + 1]>>,
     emu |-> IF ~PersistentEmulation(bytes) THEN NotIn
             ELSE <<bytes[PSD_EMU_DEVICE], bytes[PSD_EMU_FLAGS],
                    [i \in 0..3 |-> bytes[PSD_EMU_SECTOR + i]]>>]

Init ==
    /\ storage \in Storages /\ initial = storage
    /\ stored = SettingsIn(IF Valid(storage) THEN storage.bytes ELSE PsInitData)
    /\ request = CHOOSE r \in Requests : TRUE
    /\ fileFlags = {} /\ psBuffer = NoBuffer
    /\ ram = [emu |-> <<>>, keys |-> <<>>]
    /\ at = "idle" /\ count = 0

Next ==
    \/ \E r \in Requests : Start(r)
    \/ VerifyDataFileSignature \/ SetupRAMAddress
    \/ SetKeysInRam
    \/ PsLoad \/ PsSave \/ SaveNothing
    \/ Terminate
    \/ Boot
    \/ Ended

Spec == Init /\ [][Next]_vars

---------------------------------------------------------------------------
(* Properties. *)

TypeOK ==
    /\ storage.exists \in BOOLEAN /\ \A i \in DOMAIN storage.bytes : storage.bytes[i] \in 0..255
    /\ request \in Requests /\ count \in 0..MaxRequests
    /\ \A i \in DOMAIN psBuffer : psBuffer[i] \in 0..255

\* Whatever the two programs do, in any order and wherever they fail, a storage that
\* was written is valid for the next program, so none starts from fresh data; the
\* keys in it are the last ones NEXBOOT wrote and the pointer the last one EMUFILE
\* wrote, or those found if they wrote none, each untouched by the other; and all
\* that neither of them knows of is as it was, for a block longer than theirs too.
\* A storage that is not written is never changed (persistent_storage.c 36-155,
\* emufile.c 1027-1095, nexboot.c 294-336).
SettingsKept ==
    LET own == PSD_KEYS..PSD_EMU_FLAGS
        found == IF Valid(initial) THEN initial.bytes
                 ELSE [i \in DOMAIN initial.bytes |->
                         IF i < PsSectorsThatFit(initial) * initial.sectorSize
                         THEN PsInitData[i] ELSE initial.bytes[i]]
    IN \/ storage = initial
       \/ /\ Valid(storage)
          /\ SettingsIn(storage.bytes) = stored
          /\ \A i \in DOMAIN storage.bytes \ own :
                 i = Size(found) - 1 \/ storage.bytes[i] = found[i]

=============================================================================
