--------------------------- MODULE PersistentStorage ---------------------------
(***************************************************************************)
(* The block of data at the start of the persistent storage and the        *)
(* routines of the SDK that programs load and save it with                 *)
(* (sdk/C/code/persistent_storage.c and its header).  A buffer is a        *)
(* function from offsets to bytes.                                         *)
(***************************************************************************)
EXTENDS Integers, FiniteSets, Functions

CONSTANT PSD_MAX_SIZE \* size of the programs' buffer, at least PSD_MIN_SIZE

PSD_SIZE == 7
PSD_VERSION == 9
PSD_KEYS == 10
PSD_EMU_DEVICE == 12
PSD_EMU_SECTOR == 13
PSD_EMU_FLAGS == 17
PSD_MIN_SIZE == 25

\* "NEXTOR" and a zero.
PSD_SIGNATURE == <<78, 69, 88, 84, 79, 82, 0>>

PSD_FRESH_DATA ==
    [i \in 0..PSD_MIN_SIZE - 1 |->
        IF i < 7 THEN PSD_SIGNATURE[i + 1]
        ELSE IF i = PSD_SIZE THEN PSD_MIN_SIZE
        ELSE IF i = PSD_VERSION THEN 1
        ELSE IF i \in PSD_KEYS..PSD_KEYS + 1 THEN 255
        ELSE IF i = PSD_MIN_SIZE - 1 THEN 8 ELSE 0]

\* Sectors that a buffer can take, 255 at most, and the bytes they hold.
PsSectorsThatFit(info) ==
    CHOOSE n \in 0..info.sectorCount :
        /\ n * info.sectorSize <= PSD_MAX_SIZE /\ n <= 255
        /\ \A more \in n + 1..info.sectorCount :
               more * info.sectorSize > PSD_MAX_SIZE \/ more > 255

Size(buffer) == buffer[PSD_SIZE] + 256 * buffer[PSD_SIZE + 1]

\* The sum of the bytes before an offset, a byte itself.
SumOf(buffer, end) ==
    FoldFunctionOnSet(LAMBDA x, y : (x + y) % 256, 0, buffer, 0..end - 1)

PsDataIsValid(buffer, availableBytes) ==
    /\ \A i \in 0..6 : buffer[i] = PSD_FRESH_DATA[i]
    /\ Size(buffer) \in PSD_MIN_SIZE..availableBytes
    /\ SumOf(buffer, Size(buffer)) = 0

PsInitData ==
    [i \in 0..PSD_MAX_SIZE - 1 |-> IF i < PSD_MIN_SIZE THEN PSD_FRESH_DATA[i] ELSE 0]

\* Mutant: the checksum at the end of the fields known, not of the block.
PsSetChecksum_Known(buffer) ==
    [buffer EXCEPT ![PSD_MIN_SIZE - 1] = (256 - SumOf(buffer, PSD_MIN_SIZE - 1)) % 256]

PsSetChecksum(buffer) ==
    LET last == Size(buffer) - 1
    IN [buffer EXCEPT ![last] = (256 - SumOf(buffer, last)) % 256]

\* What is read is used if it could be read and is valid; a buffer longer than what
\* is read is not looked at past its end.
PsLoadData(could, read, availableBytes) ==
    IF could /\ PsDataIsValid(read, availableBytes) THEN read ELSE PsInitData

=============================================================================
