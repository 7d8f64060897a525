--------------------------- MODULE ProgramsProofs ---------------------------
(***************************************************************************)
(* Theorems about the programs around the kernel.  For each tool: an       *)
(* invariant, which its initial states have, which each of its actions     *)
(* keeps, and from which the tool's property follows; then, of all the     *)
(* programs side by side, that the properties hold in every state.  The    *)
(* proofs of XCOPY are in XcopyProofs, those of FDISK in FdiskProofs.      *)
(***************************************************************************)
EXTENDS Programs, FdiskProofs

\* The counts of the tools are those of the library.
LEMMA SameCardinality ==
    /\ \A S : D!Cardinality(S) = Cardinality(S)
    /\ \A S : C!Cardinality(S) = Cardinality(S)
    /\ \A S : M!Cardinality(S) = Cardinality(S) /\ M!IsFiniteSet(S) = IsFiniteSet(S)
BY DEF D!Cardinality, C!Cardinality, M!Cardinality, Cardinality, M!IsFiniteSet, IsFiniteSet

----------------------------------------------------------------------------
\* Where the program owns a segment, and where it is about to map its drive.
Owning == dr_at \in {"open", "read", "switch", "copy", "restore", "init", "free"}
\* A driver is in its segment and its drive is about to be mapped.
Installed == dr_at \in {"devices", "map"}
\* The steps of an installation.
Installing ==
    dr_at \in {"allocate", "open", "read", "switch", "copy", "restore", "init", "devices", "map"}

\* What is in segment s of what was loaded from file f.
Holds(s, f) ==
    /\ dr_content[s].file = f /\ dr_content[s].bytes \in 1..MAX_FILE_SIZE
    /\ Len(dr_content[s].data) <= MAX_INIT_DATA

\* A segment is free, has a driver, was lost, or is the one at work, and nothing twice.
DrSegmentsInv ==
    /\ dr_free \subseteq DrSegments /\ DOMAIN dr_drivers \subseteq DrSegments /\ dr_lost \subseteq DrSegments
    /\ dr_free \cap DOMAIN dr_drivers = {} /\ dr_free \cap dr_lost = {} /\ dr_lost \cap DOMAIN dr_drivers = {}
    /\ Owning => dr_alloc \in DrSegments \ (dr_free \cup DOMAIN dr_drivers \cup dr_lost)
    /\ \A s \in DrSegments : s \in dr_free \cup DOMAIN dr_drivers \cup dr_lost \/ (Owning /\ s = dr_alloc)
    /\ Installed => dr_alloc \in DOMAIN dr_drivers /\ dr_drivers[dr_alloc] = dr_request.file
    /\ dr_alloc \in DrSegments \cup {R!NoSegment}

\* What is in the segments, and in page 1 while the driver is copied.
DrPageInv ==
    /\ DOMAIN dr_content = DrSegments \cup {DrHomePage1} /\ dr_content[DrHomePage1] = R!Blank
    /\ IF dr_at \in {"copy", "restore"} THEN dr_page1 = dr_alloc /\ dr_savedP1Segment = DrHomePage1
                                        ELSE dr_page1 = DrHomePage1

\* What was read from the file is what comes into the segment, and stays there.
DrLoadedInv ==
    /\ dr_at \in {"switch", "copy"} =>
         dr_loaded.file = dr_request.file /\ dr_loaded.bytes \in 1..MAX_FILE_SIZE
    /\ dr_at \in {"restore", "init"} => Holds(dr_alloc, dr_request.file)
    /\ \A s \in DOMAIN dr_drivers : Holds(s, dr_drivers[s])

\* A drive that is mapped is on a block device of a driver that is there.
DrDrivesInv ==
    /\ dr_at = "map" => dr_foundDevice \in R!Suitable
    /\ \A l \in DOMAIN dr_drives :
         dr_drives[l] # R!NoDrive =>
            /\ dr_drives[l].at \in DOMAIN dr_drivers
            /\ DrFiles[dr_drivers[dr_drives[l].at]].devices[dr_drives[l].device].block

\* The invariant of DRVROP.
DrInv ==
    /\ dr_at \in {"idle", "shutdown"} \/ Owning \/ Installing
    /\ Installing => dr_request \in DrRequests /\ dr_request.op = "i"
    /\ dr_count \in 0..DrMaxRequests
    /\ DrSegmentsInv /\ DrPageInv /\ DrLoadedInv /\ DrDrivesInv

----------------------------------------------------------------------------
\* What fits of a string of bytes.
Cut(both) ==
    SubSeq(both, 1, IF Len(both) <= MAX_INIT_DATA THEN Len(both) ELSE MAX_INIT_DATA)

\* The strings that n values come to, one by one.
Parsing(data, n, v) ==
    /\ v[0] = <<>>
    /\ \A i \in 1..n : v[i] = Cut(v[i - 1] \o R!BytesOf(data[i]))

\* What is cut is no longer than what was allocated for it.
LEMMA CutFits ==
    ASSUME NEW both \in Seq(Int)
    PROVE  Cut(both) \in Seq(Int) /\ Len(Cut(both)) <= MAX_INIT_DATA
<1> DEFINE m == IF Len(both) <= MAX_INIT_DATA THEN Len(both) ELSE MAX_INIT_DATA
<1>1. m \in 0..Len(both) /\ m <= MAX_INIT_DATA /\ m \in Nat
  BY DrvropAssumption
<1> HIDE DEF m
<1>2. SubSeq(both, 1, m) \in Seq(Int) /\ Len(SubSeq(both, 1, m)) = m
  BY <1>1
<1> QED
  BY <1>1, <1>2 DEF m, Cut

\* A value is one byte or two.
LEMMA BytesAreBytes ==
    ASSUME NEW b \in Seq(Int), NEW value \in Int
    PROVE  b \o R!BytesOf(value) \in Seq(Int)
<1>1. value % 256 \in Int /\ (value \div 256) % 256 \in Int
  OBVIOUS
<1>2. <<value % 256>> \in Seq(Int) /\ <<value % 256, (value \div 256) % 256>> \in Seq(Int)
  BY <1>1
<1>3. R!BytesOf(value) \in Seq(Int)
  BY <1>2 DEF R!BytesOf
<1> QED
  BY <1>3

\* There are such strings for any values.
LEMMA ParsingExists ==
    ASSUME NEW n \in Nat, NEW data \in [1..n -> Int]
    PROVE  \E v \in [0..n -> Seq(Int)] : Parsing(data, n, v)
<1> DEFINE T == {m \in 0..n : ~ \E v \in [0..m -> Seq(Int)] : Parsing(data, m, v)}
<1> SUFFICES ASSUME T # {} PROVE FALSE
  OBVIOUS
<1>1. PICK k \in T : \A i \in T : k <= i
  <2>1. T \in SUBSET Nat
    OBVIOUS
  <2> HIDE DEF T
  <2> QED
    BY <2>1, LeastNatural
<1>2. k # 0
  <2> SUFFICES ASSUME k = 0 PROVE FALSE
    OBVIOUS
  <2> DEFINE v == [i \in 0..0 |-> <<>>]
  <2>1. v \in [0..0 -> Seq(Int)] /\ Parsing(data, 0, v)
    BY DEF Parsing
  <2> QED
    BY <1>1, <2>1
<1>3. k \in 1..n /\ k - 1 \in 0..n /\ k - 1 \notin T
  BY <1>1, <1>2
<1>4. PICK v \in [0..k - 1 -> Seq(Int)] : Parsing(data, k - 1, v)
  BY <1>3
<1> DEFINE last == Cut(v[k - 1] \o R!BytesOf(data[k]))
           w == [i \in 0..k |-> IF i = k THEN last ELSE v[i]]
<1>5. last \in Seq(Int)
  <2>1. v[k - 1] \in Seq(Int) /\ data[k] \in Int
    BY <1>3
  <2> QED
    BY <2>1, BytesAreBytes, CutFits
<1>6. last = Cut(v[k - 1] \o R!BytesOf(data[k]))
  OBVIOUS
<1> HIDE DEF last
<1>7. w \in [0..k -> Seq(Int)]
  BY <1>3, <1>5
<1>8. \A i \in 0..k - 1 : w[i] = v[i]
  BY <1>3
<1>9. w[k] = last
  BY <1>3
<1> HIDE DEF w
<1>10. Parsing(data, k, w)
  <2>1. w[0] = <<>>
    <3>1. 0 \in 0..k - 1
      BY <1>3
    <3> QED
      BY <1>4, <1>8, <3>1 DEF Parsing
  <2>2. ASSUME NEW i \in 1..k PROVE w[i] = Cut(w[i - 1] \o R!BytesOf(data[i]))
    <3>1. w[i - 1] = v[i - 1]
      BY <1>3, <1>8
    <3>2. CASE i = k
      BY <1>6, <1>9, <3>1, <3>2
    <3>3. CASE i # k
      <4>1. i \in 1..k - 1 /\ i \in 0..k - 1
        BY <1>3, <3>3
      <4> QED
        BY <1>4, <1>8, <3>1, <4>1 DEF Parsing
    <3> QED
      BY <3>2, <3>3
  <2> QED
    BY <2>1, <2>2 DEF Parsing
<1> QED
  BY <1>1, <1>3, <1>7, <1>10

\* What ParseInitData makes of a command line fits the buffer.
LEMMA InitDataFits ==
    ASSUME dr_request.data \in Seq(Int)
    PROVE  Len(R!ParseInitData) <= MAX_INIT_DATA
<1> DEFINE n == Len(dr_request.data)
           data == dr_request.data
<1>1. n \in Nat /\ data \in [1..n -> Int]
  OBVIOUS
<1>2. R!InitDataAt = CHOOSE f : f = [i \in 0..n |-> IF i = 0 THEN <<>> ELSE Cut(f[i - 1] \o R!BytesOf(data[i]))]
  BY DEF R!InitDataAt, Cut
<1> HIDE DEF n, data
<1>3. PICK v \in [0..n -> Seq(Int)] : Parsing(data, n, v)
  BY <1>1, ParsingExists
<1>4. v = [i \in 0..n |-> IF i = 0 THEN <<>> ELSE Cut(v[i - 1] \o R!BytesOf(data[i]))]
  <2>1. ASSUME NEW i \in 0..n
        PROVE  v[i] = IF i = 0 THEN <<>> ELSE Cut(v[i - 1] \o R!BytesOf(data[i]))
    BY <1>1, <1>3 DEF Parsing
  <2> QED
    BY <2>1
<1>5. R!InitDataAt = [i \in 0..n |-> IF i = 0 THEN <<>>
                                     ELSE Cut(R!InitDataAt[i - 1] \o R!BytesOf(data[i]))]
  BY <1>2, <1>4
<1>6. /\ R!InitDataAt[0] = <<>>
      /\ \A i \in 1..n : R!InitDataAt[i] = Cut(R!InitDataAt[i - 1] \o R!BytesOf(data[i]))
  BY <1>1, <1>5
<1>7. \A i \in 0..n : R!InitDataAt[i] \in Seq(Int)
  <2> DEFINE T == {i \in 0..n : R!InitDataAt[i] \notin Seq(Int)}
  <2> SUFFICES ASSUME T # {} PROVE FALSE
    OBVIOUS
  <2>1. PICK k \in T : \A i \in T : k <= i
    <3>1. T \in SUBSET Nat
      OBVIOUS
    <3> HIDE DEF T
    <3> QED
      BY <3>1, LeastNatural
  <2>2. <<>> \in Seq(Int)
    OBVIOUS
  <2>3. k # 0
    BY <1>6, <2>1, <2>2
  <2>4. k \in 1..n /\ k - 1 \in 0..n /\ R!InitDataAt[k - 1] \in Seq(Int) /\ data[k] \in Int
    BY <1>1, <2>1, <2>3
  <2>5. R!InitDataAt[k] \in Seq(Int)
    BY <1>6, <2>4, BytesAreBytes, CutFits
  <2> QED
    BY <2>1, <2>5
<1>8. CASE n = 0
  <2>1. Len(<<>>) = 0 /\ 0 <= MAX_INIT_DATA
    BY DrvropAssumption
  <2> QED
    BY <1>6, <1>8, <2>1 DEF R!ParseInitData, n
<1>9. CASE n # 0
  <2>1. n \in 1..n /\ n \in 0..n /\ n - 1 \in 0..n /\ data[n] \in Int
    BY <1>1, <1>9
  <2>2. Len(R!InitDataAt[n]) <= MAX_INIT_DATA
    BY <1>6, <1>7, <2>1, BytesAreBytes, CutFits
  <2> QED
    BY <2>2 DEF R!ParseInitData, n
<1> QED
  BY <1>8, <1>9

----------------------------------------------------------------------------
\* At first the segments that are not free are drivers' or lost.
LEMMA DrvropInit == R!Init => DrInv
<1> USE DEF R!Init, Owning, Installing, Installed, R!NoDrive, R!NoSegment
<1>1. ASSUME R!Init PROVE DrSegmentsInv
  BY <1>1 DEF DrSegmentsInv
<1>2. ASSUME R!Init PROVE DrPageInv
  BY <1>2 DEF DrPageInv
<1>3. ASSUME R!Init PROVE DrLoadedInv
  BY <1>3 DEF DrLoadedInv
<1>4. ASSUME R!Init PROVE DrDrivesInv
  BY <1>4 DEF DrDrivesInv
<1> QED
  BY <1>1, <1>2, <1>3, <1>4, DrvropAssumption DEF DrInv

\* The segments stay those of the free ones, of the drivers, of programs that were
\* aborted, and the one the program owns.
LEMMA DrvropSegments ==
    ASSUME DrInv, R!Next PROVE DrSegmentsInv'
<1> USE DEF DrInv, DrSegmentsInv, Owning, Installed, Installing, R!FreeAllocatedSegment,
            R!system, R!program
<1>1. ASSUME NEW r \in DrRequests, R!Start(r) PROVE DrSegmentsInv'
  BY <1>1 DEF R!Start
<1>2. ASSUME NEW s \in DrSegments, R!Allocate(s) PROVE DrSegmentsInv'
  BY <1>2 DEF R!Allocate
<1>3. CASE R!OpenFile
  BY <1>3 DEF R!OpenFile
<1>4. CASE R!ReadFile
  BY <1>4 DEF R!ReadFile
<1>5. CASE R!SwitchPage1
  BY <1>5 DEF R!SwitchPage1
<1>6. CASE R!CopyDriver
  BY <1>6 DEF R!CopyDriver
<1>7. CASE R!RestorePage1
  BY <1>7 DEF R!RestorePage1
<1>8. CASE R!InitDriver
  BY <1>8 DEF R!InitDriver, DrLoadedInv, Holds
<1>9. CASE R!FindDevice
  BY <1>9 DEF R!FindDevice
<1>10. CASE R!MapDrive
  BY <1>10 DEF R!MapDrive
<1>11. CASE R!ShutdownDriver
  BY <1>11 DEF R!ShutdownDriver
<1>12. CASE R!FreeSegment
  BY <1>12 DEF R!FreeSegment
<1>13. CASE R!Abort
  BY <1>13 DEF R!Abort
<1>14. CASE R!Ended
  BY <1>14 DEF R!Ended, R!vars
<1> QED
  BY <1>1, <1>2, <1>3, <1>4, <1>5, <1>6, <1>7, <1>8, <1>9, <1>10, <1>11, <1>12, <1>13, <1>14
     DEF R!Next

\* The program is in page 1 but while it fills the segment, and is never written to.
LEMMA DrvropPage ==
    ASSUME DrInv, R!Next PROVE DrPageInv'
<1> USE DEF DrInv, DrPageInv, Owning, Installed, Installing, R!system, R!program
<1>1. CASE R!SwitchPage1
  BY <1>1 DEF R!SwitchPage1
<1>2. CASE R!CopyDriver
  BY <1>2, DrvropAssumption DEF R!CopyDriver, DrSegmentsInv
<1>3. CASE R!RestorePage1
  BY <1>3, DrvropAssumption DEF R!RestorePage1
<1>4. CASE R!OpenFile \/ R!ReadFile \/ R!InitDriver
  BY <1>4 DEF R!OpenFile, R!ReadFile, R!InitDriver
<1>5. CASE R!FindDevice \/ R!MapDrive \/ R!ShutdownDriver \/ R!FreeSegment
  BY <1>5 DEF R!FindDevice, R!MapDrive, R!ShutdownDriver, R!FreeSegment
<1>6. CASE R!Abort \/ R!Ended
  BY <1>6 DEF R!Abort, R!Ended, R!vars
<1>7. ASSUME NEW r \in DrRequests, R!Start(r) PROVE DrPageInv'
  BY <1>7 DEF R!Start
<1>8. ASSUME NEW s \in DrSegments, R!Allocate(s) PROVE DrPageInv'
  BY <1>8 DEF R!Allocate
<1> QED
  BY <1>1, <1>2, <1>3, <1>4, <1>5, <1>6, <1>7, <1>8 DEF R!Next

\* Each registered driver is in its segment.
LEMMA DrvropLoaded ==
    ASSUME DrInv, R!Next PROVE DrLoadedInv'
<1> USE DEF DrInv, DrLoadedInv, Owning, Installed, Installing, R!system, R!program, Holds
<1>1. CASE R!OpenFile
  BY <1>1 DEF R!OpenFile
<1>2. CASE R!ReadFile
  <2>1. dr_request \in DrRequests /\ dr_request.op = "i" /\ dr_at = "read"
    BY <1>2 DEF R!ReadFile
  <2>2. R!TheFile.bytes \in Nat /\ MAX_FILE_SIZE \in Nat \ {0}
    BY <2>1, DrvropAssumption DEF R!TheFile
  <2>3. CASE dr_at' = "idle"
    BY <1>2, <2>3 DEF R!ReadFile
  <2>4. CASE dr_at' # "idle"
    <3>1. /\ R!TheFile.bytes > 0 /\ dr_at' = "switch"
          /\ dr_loaded' = [file |-> dr_request.file,
                           bytes |-> IF R!TheFile.bytes > MAX_FILE_SIZE THEN MAX_FILE_SIZE
                                                                        ELSE R!TheFile.bytes]
          /\ UNCHANGED <<dr_drivers, dr_content, dr_request>>
      BY <1>2, <2>4 DEF R!ReadFile
    <3>2. dr_loaded'.file = dr_request'.file /\ dr_loaded'.bytes \in 1..MAX_FILE_SIZE
      BY <2>2, <3>1
    <3> QED
      BY <3>1, <3>2
  <2> QED
    BY <2>3, <2>4
<1>3. CASE R!SwitchPage1
  BY <1>3 DEF R!SwitchPage1
<1>4. CASE R!CopyDriver
  <2>1. /\ dr_at = "copy" /\ dr_page1 = dr_alloc /\ dr_alloc \in DrSegments /\ dr_alloc \notin DOMAIN dr_drivers
        /\ dr_alloc \in DOMAIN dr_content /\ dr_request \in DrRequests /\ dr_request.op = "i"
    BY <1>4 DEF R!CopyDriver, DrPageInv, DrSegmentsInv
  <2>2. Len(R!ParseInitData) <= MAX_INIT_DATA
    BY <2>1, InitDataFits, DrvropAssumption
  <2>3. dr_content' = [dr_content EXCEPT ![dr_alloc] = [data |-> R!ParseInitData, file |-> dr_loaded.file,
                                                        bytes |-> dr_loaded.bytes]]
    BY <1>4, <2>1 DEF R!CopyDriver
  <2>4. Holds(dr_alloc, dr_request.file)'
    BY <1>4, <2>1, <2>2, <2>3 DEF R!CopyDriver
  <2>5. \A s \in DOMAIN dr_drivers : s # dr_alloc /\ dr_content'[s] = dr_content[s]
    BY <2>1, <2>3 DEF DrPageInv, DrSegmentsInv
  <2> QED
    BY <1>4, <2>4, <2>5 DEF R!CopyDriver
<1>5. CASE R!RestorePage1
  BY <1>5 DEF R!RestorePage1
<1>6. CASE R!InitDriver
  BY <1>6 DEF R!InitDriver, DrSegmentsInv
<1>7. CASE R!FindDevice \/ R!MapDrive \/ R!FreeSegment
  BY <1>7 DEF R!FindDevice, R!MapDrive, R!FreeSegment
<1>8. CASE R!ShutdownDriver
  BY <1>8 DEF R!ShutdownDriver
<1>9. CASE R!Abort \/ R!Ended
  BY <1>9 DEF R!Abort, R!Ended, R!vars
<1>10. ASSUME NEW r \in DrRequests, R!Start(r) PROVE DrLoadedInv'
  BY <1>10 DEF R!Start
<1>11. ASSUME NEW s \in DrSegments, R!Allocate(s) PROVE DrLoadedInv'
  BY <1>11 DEF R!Allocate
<1> QED
  BY <1>1, <1>2, <1>3, <1>4, <1>5, <1>6, <1>7, <1>8, <1>9, <1>10, <1>11 DEF R!Next

\* Each drive leads to a registered driver, to a block device of it.
LEMMA DrvropDrives ==
    ASSUME DrInv, R!Next PROVE DrDrivesInv'
<1> USE DEF DrInv, DrDrivesInv, Owning, Installed, Installing, R!system, R!program
<1>1. CASE R!OpenFile \/ R!ReadFile \/ R!SwitchPage1 \/ R!CopyDriver \/ R!RestorePage1
  BY <1>1 DEF R!OpenFile, R!ReadFile, R!SwitchPage1, R!CopyDriver, R!RestorePage1
<1>2. CASE R!InitDriver
  <2>1. dr_alloc \notin DOMAIN dr_drivers
    BY <1>2 DEF R!InitDriver, DrSegmentsInv
  <2> QED
    BY <1>2, <2>1 DEF R!InitDriver
<1>3. CASE R!FindDevice
  <2>1. R!Suitable # {} => R!Min(R!Suitable) \in R!Suitable
    <3>1. dr_request \in DrRequests /\ dr_request.op = "i"
      BY <1>3 DEF R!FindDevice
    <3>2. R!Suitable \in SUBSET Nat
      BY <3>1, DrvropAssumption DEF R!Suitable, R!TheFile
    <3>3. R!Suitable # {} => \E m \in R!Suitable : \A k \in R!Suitable : m <= k
      BY <3>2, LeastNatural
    <3> QED
      BY <3>3 DEF R!Min
  <2>2. UNCHANGED <<dr_drives, dr_drivers, dr_request>>
    BY <1>3 DEF R!FindDevice
  <2>3. R!Suitable' = R!Suitable
    BY <2>2 DEF R!Suitable, R!TheFile, R!MaxDevice
  <2>4. dr_at' = "map" => dr_foundDevice' \in R!Suitable'
    BY <1>3, <2>1, <2>3 DEF R!FindDevice
  <2> QED
    BY <2>2, <2>4
<1>4. CASE R!MapDrive
  <2>1. /\ dr_alloc \in DOMAIN dr_drivers /\ dr_drivers[dr_alloc] = dr_request.file
        /\ R!TheFile.devices[dr_foundDevice].block
    BY <1>4 DEF R!MapDrive, DrSegmentsInv, R!Suitable
  <2>2. ASSUME NEW l \in DOMAIN dr_drives', dr_drives'[l] # R!NoDrive
        PROVE  /\ dr_drives'[l].at \in DOMAIN dr_drivers
               /\ DrFiles[dr_drivers[dr_drives'[l].at]].devices[dr_drives'[l].device].block
    <3>1. \/ dr_drives'[l] = dr_drives[l] /\ l \in DOMAIN dr_drives
          \/ dr_drives'[l] = [at |-> dr_alloc, device |-> dr_foundDevice]
      BY <1>4 DEF R!MapDrive
    <3> QED
      BY <2>1, <2>2, <3>1 DEF R!TheFile
  <2> QED
    BY <1>4, <2>2 DEF R!MapDrive
<1>5. CASE R!ShutdownDriver
  BY <1>5 DEF R!ShutdownDriver
<1>6. CASE R!FreeSegment \/ R!Abort \/ R!Ended
  BY <1>6 DEF R!FreeSegment, R!Abort, R!Ended, R!vars
<1>7. ASSUME NEW r \in DrRequests, R!Start(r) PROVE DrDrivesInv'
  BY <1>7 DEF R!Start
<1>8. ASSUME NEW s \in DrSegments, R!Allocate(s) PROVE DrDrivesInv'
  BY <1>8 DEF R!Allocate
<1> QED
  BY <1>1, <1>2, <1>3, <1>4, <1>5, <1>6, <1>7, <1>8 DEF R!Next

\* The program is somewhere, with its command line.
LEMMA DrvropAt ==
    ASSUME DrInv, R!Next
    PROVE  (/\ dr_at \in {"idle", "shutdown"} \/ Owning \/ Installing
            /\ Installing => dr_request \in DrRequests /\ dr_request.op = "i"
            /\ dr_count \in 0..DrMaxRequests)'
<1> USE DEF DrInv, Owning, Installed, Installing, R!system, R!program
<1>1. CASE R!OpenFile \/ R!ReadFile \/ R!SwitchPage1 \/ R!CopyDriver \/ R!RestorePage1 \/ R!InitDriver
  BY <1>1 DEF R!OpenFile, R!ReadFile, R!SwitchPage1, R!CopyDriver, R!RestorePage1, R!InitDriver
<1>2. CASE R!FindDevice \/ R!MapDrive \/ R!ShutdownDriver \/ R!FreeSegment \/ R!Abort \/ R!Ended
  BY <1>2 DEF R!FindDevice, R!MapDrive, R!ShutdownDriver, R!FreeSegment, R!Abort, R!Ended, R!vars
<1>3. ASSUME NEW r \in DrRequests, R!Start(r)
      PROVE  (/\ dr_at \in {"idle", "shutdown"} \/ Owning \/ Installing
              /\ Installing => dr_request \in DrRequests /\ dr_request.op = "i"
              /\ dr_count \in 0..DrMaxRequests)'
  BY <1>3, DrvropAssumption DEF R!Start
<1>4. ASSUME NEW s \in DrSegments, R!Allocate(s)
      PROVE  (/\ dr_at \in {"idle", "shutdown"} \/ Owning \/ Installing
              /\ Installing => dr_request \in DrRequests /\ dr_request.op = "i"
              /\ dr_count \in 0..DrMaxRequests)'
  BY <1>4 DEF R!Allocate
<1> QED
  BY <1>1, <1>2, <1>3, <1>4 DEF R!Next

\* Every step of DRVROP keeps its invariant, as do the steps of the other programs.
LEMMA DrvropStep == DrInv /\ [R!Next]_(R!vars) => DrInv'
<1>1. ASSUME DrInv, R!Next PROVE DrInv'
  BY <1>1, DrvropSegments, DrvropPage, DrvropLoaded, DrvropDrives, DrvropAt DEF DrInv
<1>2. ASSUME DrInv, UNCHANGED R!vars PROVE DrInv'
  BY <1>2 DEF R!vars, DrInv, DrSegmentsInv, DrPageInv, DrLoadedInv, DrDrivesInv, Owning, Installed,
     Installing, Holds, R!Suitable, R!TheFile, R!MaxDevice
<1> QED
  BY <1>1, <1>2

\* The invariant of DRVROP is enough.
LEMMA DrvropSafe == DrInv => R!SegmentsOwned /\ R!TypeOK
<1> SUFFICES ASSUME DrInv PROVE R!SegmentsOwned /\ R!TypeOK
  OBVIOUS
<1> USE DEF DrInv, Owning, Installed, Installing
<1>1. R!TypeOK
  BY DEF R!TypeOK, DrSegmentsInv, DrPageInv
<1>2. R!SegmentsOwned
  BY DEF R!SegmentsOwned, DrSegmentsInv, DrPageInv, DrLoadedInv, DrDrivesInv, Holds
<1> QED
  BY <1>1, <1>2

----------------------------------------------------------------------------
(* DISKCOPY.  Each sector that is wrong, on the target or in a buffer that   *)
(* will be written there, is one of the errors that were counted.            *)

\* Where sectors are read or written.
DcCopying == dc_at \in {"boot", "read", "swap", "targetboot", "writeboot", "write", "swapback"}
\* The disks were not asked for yet.
NotYet == dc_at \in {"start", "dskchk"}

\* The variables have their types, and no batch begins past the end of the disk.
DcTypeInv ==
    /\ NotYet \/ DcCopying \/ dc_at \in {"copy", "finished", "error", "end"}
    /\ dc_request \in DcCases /\ dc_inserted \in D!Disks /\ dc_obeyed \in BOOLEAN
    /\ DOMAIN dc_sectors = D!Disks
    /\ \A d \in D!Disks : DOMAIN dc_sectors[d] = 0..DcNumSects - 1
    /\ DOMAIN dc_batch \subseteq D!Sectors
    /\ dc_sect \in 1..DcNumSects + DcNumBuffers /\ dc_e_count \in 0..DcMaxErrors
    /\ DcCopying => dc_sect = 1 \/ dc_sect < DcNumSects

\* Disk checking is off and its flag is kept from set_chk on, to the end.
DcSystemInv ==
    /\ dc_error_routine \in BOOLEAN
    /\ DcCopying => dc_error_routine
    /\ NotYet \/ dc_at \in {"copy", "finished", "end"} => ~dc_error_routine
    /\ IF NotYet THEN dc_dskchk = dc_request.dskchk /\ dc_o_chk = D!NotRead
       ELSE IF dc_at = "end"
       THEN dc_dskchk = dc_request.dskchk /\ dc_o_chk \in {D!NotRead, dc_request.dskchk}
       ELSE dc_dskchk = 255 /\ dc_o_chk = dc_request.dskchk

\* The disk that the user was told to insert.
DcDisksInv ==
    /\ dc_copied = D!Fresh
    /\ NotYet \/ dc_at = "copy" => dc_sectors = D!Fresh
    /\ DcCopying /\ D!single_mode /\ dc_obeyed =>
         dc_inserted = IF dc_at \in {"targetboot", "writeboot", "write", "swapback"} THEN D!Target ELSE D!Source
    /\ dc_at \in {"swap", "targetboot", "swapback"} => D!single_mode
    /\ dc_obeyed => dc_sectors[D!Source] = D!Fresh[D!Source]

\* The boot sector as it is read, and as it is to be written.
BootRead == IF D!cpboot_flag THEN D!Boot(D!Source) ELSE D!Boot(D!Target)
\* The boot sector that the target is to have.
BootAsked == D!patch_boot(BootRead)

\* It was read and is to be written.
BootPending ==
    \/ dc_at = "writeboot"
    \/ dc_at \in {"read", "swap", "targetboot"} /\ dc_sect = 1 /\ (D!cpboot_flag \/ ~D!single_mode)
\* It was written.
BootWritten ==
    dc_at \in {"write", "swapback", "finished"} \/ (dc_at \in {"read", "swap"} /\ dc_sect > 1)
\* The sectors in the buffers are to be written.
BatchPending == dc_at \in {"swap", "targetboot", "writeboot", "write"}

\* The sectors that are not, or will not be, what they should be on the target.
WrongSectors ==
    {s \in 0..DcNumSects - 1 :
        IF s = 0 THEN \/ BootPending /\ dc_boot_sector # BootRead
                      \/ BootWritten /\ dc_sectors[D!Target][0] # BootAsked
        ELSE \/ s < dc_sect /\ dc_sectors[D!Target][s] # <<D!Source, s>>
             \/ BatchPending /\ s \in DOMAIN dc_batch /\ dc_batch[s] # <<D!Source, s>>}

\* As long as the right disks are inserted each wrong sector is an error that was counted.
DcCopyInv ==
    dc_obeyed /\ (DcCopying \/ dc_at = "finished") =>
        /\ Cardinality(WrongSectors) <= dc_e_count
        /\ ~BootWritten => dc_sectors[D!Target][0] = D!Boot(D!Target) /\ dc_sect = 1
        /\ BatchPending => DOMAIN dc_batch = D!Batch(dc_sect)
        /\ dc_at = "swapback" => dc_sect > 1
        /\ dc_at = "finished" => dc_sect >= DcNumSects

\* The invariant of DISKCOPY.
DcInv == DcTypeInv /\ DcSystemInv /\ DcDisksInv /\ DcCopyInv

\* At first nothing was copied and nothing is wrong.
LEMMA DiskcopyInit == D!Init => DcInv
<1> SUFFICES ASSUME D!Init PROVE DcInv
  OBVIOUS
<1> USE DEF D!Init, DcCopying, NotYet
<1>1. DcTypeInv
  <2>1. /\ DOMAIN dc_sectors = D!Disks /\ \A d \in D!Disks : DOMAIN dc_sectors[d] = 0..DcNumSects - 1
    BY DEF D!Fresh, D!Content
  <2>2. DOMAIN dc_batch = {}
    BY DEF D!Nothing
  <2> QED
    BY <2>1, <2>2, DiskcopyAssumption DEF DcTypeInv, D!Disks
<1>2. DcSystemInv
  BY DEF DcSystemInv
<1>3. DcDisksInv
  BY DEF DcDisksInv
<1>4. DcCopyInv
  BY DEF DcCopyInv
<1> QED
  BY <1>1, <1>2, <1>3, <1>4 DEF DcInv

\* What a transfer changes on a disk.
LEMMA WrittenSectors ==
    ASSUME DcTypeInv, NEW side \in D!Disks, NEW content, NEW bad,
           dc_sectors' = D!Written(side, content, bad)
    PROVE  /\ DOMAIN dc_sectors' = D!Disks
           /\ \A d \in D!Disks : DOMAIN dc_sectors'[d] = 0..DcNumSects - 1
           /\ \A d \in D!Disks \ {side} : dc_sectors'[d] = dc_sectors[d]
           /\ \A s \in 0..DcNumSects - 1 :
                dc_sectors'[side][s] = IF s \in DOMAIN content \ bad THEN content[s]
                                       ELSE dc_sectors[side][s]
  BY DEF DcTypeInv, D!Written

\* The number of errors that were counted has its bound.
LEMMA ErrorsCount ==
    ASSUME dc_e_count \in 0..DcMaxErrors, NEW bad \in SUBSET (0..DcNumSects - 1), D!Errors(bad)
    PROVE  dc_e_count' \in 0..DcMaxErrors /\ IsFiniteSet(bad) /\ dc_e_count' = dc_e_count + Cardinality(bad)
<1>1. IsFiniteSet(0..DcNumSects - 1)
  BY FS_Interval, DiskcopyAssumption
<1>2. IsFiniteSet(bad) /\ Cardinality(bad) \in Nat
  BY <1>1, FS_Subset, FS_CardinalityType
<1> QED
  BY <1>2, SameCardinality, DiskcopyAssumption DEF D!Errors

\* Errors account for the sectors that become wrong.
LEMMA WrongCounted ==
    ASSUME NEW N \in Nat, NEW W \in SUBSET (0..N), NEW Y \in SUBSET (0..N),
           NEW bad \in SUBSET (0..N), Y \subseteq W \cup bad,
           NEW e \in Nat, Cardinality(W) <= e
    PROVE  Cardinality(Y) <= e + Cardinality(bad)
<1>1. IsFiniteSet(0..N)
  BY FS_Interval
<1>2. IsFiniteSet(W) /\ IsFiniteSet(Y) /\ IsFiniteSet(bad) /\ IsFiniteSet(W \cup bad)
      /\ IsFiniteSet(W \cap bad)
  <2>1. W \cup bad \subseteq 0..N /\ W \cap bad \subseteq 0..N
    OBVIOUS
  <2> QED
    BY <1>1, <2>1, FS_Subset
<1>3. Cardinality(Y) <= Cardinality(W \cup bad)
  BY <1>2, FS_Subset
<1>4. Cardinality(W \cup bad) = Cardinality(W) + Cardinality(bad) - Cardinality(W \cap bad)
  BY <1>2, FS_Union
<1>5. /\ Cardinality(W) \in Nat /\ Cardinality(bad) \in Nat /\ Cardinality(W \cap bad) \in Nat
      /\ Cardinality(Y) \in Nat /\ Cardinality(W \cup bad) \in Nat
  BY <1>2, FS_CardinalityType
<1> QED
  BY <1>3, <1>4, <1>5

\* The types are kept.
LEMMA DiskcopyTypes ==
    ASSUME DcInv, D!Next PROVE DcTypeInv'
<1> USE DEF DcInv, DcTypeInv, NotYet, DcCopying, D!user, D!system, D!buffers
<1>1. CASE D!get_drives
  BY <1>1 DEF D!get_drives
<1>2. CASE D!set_chk
  BY <1>2 DEF D!set_chk
<1>3. ASSUME NEW side \in D!Disks, D!Begin(side) PROVE DcTypeInv'
  <2>1. DOMAIN D!Nothing = {}
    BY DEF D!Nothing
  <2> QED
    BY <1>3, <2>1, DiskcopyAssumption DEF D!Begin
<1>4. ASSUME NEW side \in D!Disks, D!SwapToTarget(side) PROVE DcTypeInv'
  BY <1>4 DEF D!SwapToTarget
<1>5. ASSUME NEW side \in D!Disks, D!SwapToSource(side) PROVE DcTypeInv'
  BY <1>5 DEF D!SwapToSource
<1>6. ASSUME NEW bad \in SUBSET (0..DcNumSects - 1), D!ReadBoot(bad) PROVE DcTypeInv'
  <2>1. dc_e_count' \in 0..DcMaxErrors
    BY <1>6, ErrorsCount DEF D!ReadBoot
  <2> QED
    BY <1>6, <2>1 DEF D!ReadBoot
<1>7. ASSUME NEW bad \in SUBSET (0..DcNumSects - 1), D!ReadSource(bad) PROVE DcTypeInv'
  <2>1. dc_e_count' \in 0..DcMaxErrors
    BY <1>7, ErrorsCount DEF D!ReadSource, D!ReadBatch
  <2>2. DOMAIN dc_batch' \subseteq D!Sectors
    BY <1>7 DEF D!ReadSource, D!ReadBatch, D!Batch
  <2> QED
    BY <1>7, <2>1, <2>2 DEF D!ReadSource
<1>8. ASSUME NEW bad \in SUBSET (0..DcNumSects - 1), D!ReadTargetBoot(bad) PROVE DcTypeInv'
  <2>1. dc_e_count' \in 0..DcMaxErrors
    BY <1>8, ErrorsCount DEF D!ReadTargetBoot
  <2> QED
    BY <1>8, <2>1 DEF D!ReadTargetBoot
<1>9. ASSUME NEW bad \in SUBSET (0..DcNumSects - 1), D!WriteBoot(bad) PROVE DcTypeInv'
  <2>1. dc_e_count' \in 0..DcMaxErrors
    BY <1>9, ErrorsCount DEF D!WriteBoot
  <2>2. D!In(D!Target) \in D!Disks
    BY DEF D!In, D!Disks
  <2>3. DOMAIN dc_sectors' = D!Disks /\ \A d \in D!Disks : DOMAIN dc_sectors'[d] = 0..DcNumSects - 1
    BY <1>9, <2>2, WrittenSectors DEF D!WriteBoot
  <2> QED
    BY <1>9, <2>1, <2>3 DEF D!WriteBoot
<1>10. ASSUME NEW bad \in SUBSET (0..DcNumSects - 1), D!WriteTarget(bad) PROVE DcTypeInv'
  <2>1. dc_e_count' \in 0..DcMaxErrors
    BY <1>10, ErrorsCount DEF D!WriteTarget
  <2>2. D!In(D!Target) \in D!Disks
    BY DEF D!In, D!Disks
  <2>3. DOMAIN dc_sectors' = D!Disks /\ \A d \in D!Disks : DOMAIN dc_sectors'[d] = 0..DcNumSects - 1
    BY <1>10, <2>2, WrittenSectors DEF D!WriteTarget
  <2>4. dc_sect' = dc_sect + DcNumBuffers /\ dc_sect' \in 1..DcNumSects + DcNumBuffers
        /\ (dc_sect' < DcNumSects \/ dc_at' = "finished")
    BY <1>10, DiskcopyAssumption DEF D!WriteTarget
  <2>5. UNCHANGED <<dc_request, dc_inserted, dc_obeyed, dc_batch>> /\ dc_at' \in {"finished", "swapback", "read"}
    BY <1>10 DEF D!WriteTarget
  <2> QED
    BY <2>1, <2>3, <2>4, <2>5
<1>11. CASE D!More
  BY <1>11 DEF D!More, D!Fresh, D!Content
<1>12. CASE D!Finish \/ D!Abort
  BY <1>12 DEF D!Finish, D!Abort, D!Terminate
<1>13. CASE D!Ended
  BY <1>13 DEF D!Ended, D!vars
<1> QED
  BY <1>1, <1>2, <1>3, <1>4, <1>5, <1>6, <1>7, <1>8, <1>9, <1>10, <1>11, <1>12, <1>13 DEF D!Next

\* Disk checking and the error routine, wherever the program is or ends.
LEMMA DiskcopySystem ==
    ASSUME DcInv, D!Next PROVE DcSystemInv'
<1> USE DEF DcInv, DcSystemInv, NotYet, DcCopying, D!user, D!system, D!buffers, D!NotRead
<1>0. dc_request.dskchk \in 0..255
  BY DiskcopyAssumption DEF DcTypeInv
<1>1. CASE D!get_drives
  BY <1>1 DEF D!get_drives
<1>2. CASE D!set_chk
  BY <1>2 DEF D!set_chk
<1>3. ASSUME NEW side \in D!Disks, D!Begin(side) PROVE DcSystemInv'
  <2>1. D!single_mode \in BOOLEAN
    BY DEF D!single_mode
  <2>2. (dc_at' = "error" /\ dc_error_routine' = D!single_mode) \/ (dc_at' = "boot" /\ dc_error_routine' = TRUE)
    BY <1>3 DEF D!Begin
  <2>3. dc_at = "copy" /\ UNCHANGED <<dc_request, dc_dskchk, dc_o_chk>>
    BY <1>3 DEF D!Begin
  <2> QED
    BY <2>1, <2>2, <2>3
<1>4. ASSUME NEW side \in D!Disks, D!SwapToTarget(side) \/ D!SwapToSource(side) PROVE DcSystemInv'
  BY <1>4 DEF D!SwapToTarget, D!SwapToSource
<1>5. ASSUME NEW bad \in SUBSET (0..DcNumSects - 1),
             D!ReadBoot(bad) \/ D!ReadSource(bad) \/ D!ReadTargetBoot(bad) \/ D!WriteBoot(bad)
      PROVE  DcSystemInv'
  BY <1>5 DEF D!ReadBoot, D!ReadSource, D!ReadTargetBoot, D!WriteBoot
<1>6. ASSUME NEW bad \in SUBSET (0..DcNumSects - 1), D!WriteTarget(bad) PROVE DcSystemInv'
  BY <1>6 DEF D!WriteTarget
<1>7. CASE D!More
  BY <1>7 DEF D!More
<1>8. CASE D!Finish \/ D!Abort
  <2>1. /\ dc_at \notin {"start", "end"} /\ dc_at' = "end" /\ dc_error_routine' = FALSE
        /\ dc_dskchk' = IF dc_o_chk = -1 THEN dc_dskchk ELSE dc_o_chk
        /\ dc_request' = dc_request /\ dc_o_chk' = dc_o_chk
    BY <1>8 DEF D!Finish, D!Abort, D!Terminate
  <2>2. CASE dc_at = "dskchk"
    BY <2>1, <2>2
  <2>3. CASE dc_at # "dskchk"
    <3>1. dc_o_chk = dc_request.dskchk
      BY <2>1, <2>3
    <3>2. dc_dskchk' = dc_request.dskchk
      BY <1>0, <2>1, <3>1
    <3> QED
      BY <2>1, <3>1, <3>2
  <2> QED
    BY <2>2, <2>3
<1>9. CASE D!Ended
  BY <1>9 DEF D!Ended, D!vars
<1> QED
  BY <1>1, <1>2, <1>3, <1>4, <1>5, <1>6, <1>7, <1>8, <1>9 DEF D!Next

\* The source is never written to when the disks are swapped as told.
LEMMA DiskcopyDisks ==
    ASSUME DcInv, D!Next PROVE DcDisksInv'
<1> USE DEF DcInv, DcDisksInv, NotYet, DcCopying, D!user, D!system, D!buffers
<1>0. dc_request' = dc_request => D!single_mode' = D!single_mode
  BY DEF D!single_mode, D!source_drive, D!target_drive, D!TargetGiven, D!line
<1>1. CASE D!get_drives
  BY <1>1 DEF D!get_drives
<1>2. CASE D!set_chk
  BY <1>2 DEF D!set_chk
<1>3. ASSUME NEW side \in D!Disks, D!Begin(side) PROVE DcDisksInv'
  BY <1>0, <1>3 DEF D!Begin
<1>4. ASSUME NEW side \in D!Disks, D!SwapToTarget(side) PROVE DcDisksInv'
  BY <1>0, <1>4 DEF D!SwapToTarget
<1>5. ASSUME NEW side \in D!Disks, D!SwapToSource(side) PROVE DcDisksInv'
  BY <1>0, <1>5 DEF D!SwapToSource
<1>6. ASSUME NEW bad \in SUBSET (0..DcNumSects - 1),
             D!ReadBoot(bad) \/ D!ReadSource(bad) \/ D!ReadTargetBoot(bad)
      PROVE  DcDisksInv'
  BY <1>0, <1>6 DEF D!ReadBoot, D!ReadSource, D!ReadTargetBoot
<1>7. ASSUME NEW bad \in SUBSET (0..DcNumSects - 1), D!WriteBoot(bad) \/ D!WriteTarget(bad)
      PROVE  DcDisksInv'
  <2>1. dc_obeyed => D!In(D!Target) = D!Target
    BY <1>7 DEF D!In, D!WriteBoot, D!WriteTarget
  <2>2. D!In(D!Target) \in D!Disks /\ D!Source \in D!Disks /\ D!Source # D!Target
    BY DEF D!In, D!Disks, D!Source, D!Target, DcTypeInv
  <2>3. dc_obeyed => dc_sectors'[D!Source] = dc_sectors[D!Source]
    <3>1. CASE D!WriteBoot(bad)
      BY <2>1, <2>2, <3>1, WrittenSectors DEF D!WriteBoot
    <3>2. CASE D!WriteTarget(bad)
      BY <2>1, <2>2, <3>2, WrittenSectors DEF D!WriteTarget
    <3> QED
      BY <1>7, <3>1, <3>2
  <2>4. UNCHANGED <<dc_request, dc_inserted, dc_obeyed, dc_copied>>
    BY <1>7 DEF D!WriteBoot, D!WriteTarget
  <2>5. dc_at \in {"writeboot", "write"}
        /\ (dc_at' \in {"write", "finished"} \/ (dc_at' = "swapback" /\ D!single_mode)
             \/ (dc_at' = "read" /\ ~D!single_mode))
    BY <1>7 DEF D!WriteBoot, D!WriteTarget
  <2> QED
    BY <1>0, <2>3, <2>4, <2>5
<1>8. CASE D!More
  BY <1>8 DEF D!More
<1>9. CASE D!Finish \/ D!Abort
  BY <1>0, <1>9 DEF D!Finish, D!Abort, D!Terminate
<1>10. CASE D!Ended
  BY <1>0, <1>10 DEF D!Ended, D!vars
<1> QED
  BY <1>1, <1>2, <1>3, <1>4, <1>5, <1>6, <1>7, <1>8, <1>9, <1>10 DEF D!Next

\* What a sector of a disk holds, and what is read from it.
LEMMA DiskContents ==
    ASSUME NEW side \in D!Disks
    PROVE  /\ D!Fresh[side] = D!Content(side)
           /\ DcNumSects > 0 /\ 0 \in 0..DcNumSects - 1
           /\ D!Content(side)[0] = D!Boot(side)
           /\ \A s \in D!Sectors : s \in 0..DcNumSects - 1 /\ s # 0 /\ D!Content(side)[s] = <<side, s>>
  BY DiskcopyAssumption DEF D!Fresh, D!Content, D!Sectors

\* Each step adds no wrong sectors but those in which it met an error.
LEMMA DiskcopyCopies ==
    ASSUME DcInv, dc_obeyed, DcCopying, UNCHANGED <<dc_request, dc_copied>>,
           NEW bad \in SUBSET (0..DcNumSects - 1), dc_e_count' = dc_e_count + Cardinality(bad),
           WrongSectors' \subseteq WrongSectors \cup bad
    PROVE  Cardinality(WrongSectors') <= dc_e_count'
<1>1. Cardinality(WrongSectors) <= dc_e_count /\ dc_e_count \in Nat
  BY DiskcopyAssumption DEF DcInv, DcCopyInv, DcTypeInv
<1>2. WrongSectors \subseteq 0..DcNumSects - 1 /\ WrongSectors' \subseteq 0..DcNumSects - 1
  BY DEF WrongSectors
<1>3. DcNumSects - 1 \in Nat
  BY DiskcopyAssumption
<1> QED
  BY <1>1, <1>2, <1>3, WrongCounted

\* The sectors that are wrong are the errors that were counted, in every step.
LEMMA DiskcopyCopy ==
    ASSUME DcInv, D!Next PROVE DcCopyInv'
<1> USE DEF NotYet, DcCopying, BootWritten, BatchPending
<1>0. dc_request' = dc_request => /\ D!single_mode' = D!single_mode /\ D!cpboot_flag' = D!cpboot_flag
                                  /\ BootRead' = BootRead /\ BootAsked' = BootAsked
  BY DEF D!single_mode, D!source_drive, D!target_drive, D!TargetGiven, D!line, D!cpboot_flag, D!Flags,
         BootRead, BootAsked, D!patch_boot
<1>a. /\ dc_copied = D!Fresh /\ dc_request \in DcCases /\ dc_obeyed \in BOOLEAN
      /\ dc_obeyed => dc_sectors[D!Source] = D!Content(D!Source)
      /\ dc_sect \in Nat /\ dc_e_count \in Nat
      /\ D!Source \in D!Disks /\ D!Target \in D!Disks /\ D!Source # D!Target
  BY DiskContents, DiskcopyAssumption
     DEF DcInv, DcTypeInv, DcDisksInv, D!Disks, D!Source, D!Target
<1>1. CASE D!get_drives \/ D!set_chk
  BY <1>1 DEF D!get_drives, D!set_chk, DcCopyInv
<1>2. ASSUME NEW side \in D!Disks, D!Begin(side) PROVE DcCopyInv'
  <2>1. dc_sectors' = D!Fresh /\ dc_sect' = 1 /\ dc_e_count' = 0 /\ dc_at' \in {"error", "boot"}
    BY <1>2 DEF D!Begin, DcInv, DcDisksInv
  <2>2. dc_at' = "boot" => WrongSectors' = {}
    BY <2>1 DEF WrongSectors, BootPending
  <2>3. Cardinality({}) = 0
    BY FS_EmptySet
  <2>4. dc_sectors'[D!Target][0] = D!Boot(D!Target)
    BY <1>a, <2>1, DiskContents
  <2> QED
    BY <2>1, <2>2, <2>3, <2>4 DEF DcCopyInv
<1>3. ASSUME NEW side \in D!Disks, D!SwapToTarget(side) \/ D!SwapToSource(side), dc_obeyed',
             DcCopying'
      PROVE  DcCopyInv'
  <2>1. /\ dc_at \in {"swap", "swapback"} /\ UNCHANGED <<dc_request, dc_sectors, D!buffers, dc_e_count, dc_copied>>
        /\ dc_obeyed
    BY <1>3 DEF D!SwapToTarget, D!SwapToSource
  <2>2. \/ dc_at = "swap" /\ dc_sect > 1 /\ dc_at' = "write"
        \/ dc_at = "swap" /\ dc_sect = 1 /\ dc_at' = "targetboot"
        \/ dc_at = "swapback" /\ dc_sect > 1 /\ dc_at' = "read"
    BY <1>3, <2>1 DEF D!SwapToTarget, D!SwapToSource, DcInv, DcCopyInv, DcTypeInv
  <2>3. WrongSectors' \subseteq WrongSectors
    BY <1>0, <2>1, <2>2 DEF WrongSectors, BootPending, D!buffers
  <2>4. IsFiniteSet({}) /\ Cardinality({}) = 0
    BY FS_EmptySet
  <2>5. Cardinality(WrongSectors') <= dc_e_count'
    BY <1>a, <2>1, <2>3, <2>4, DiskcopyCopies
  <2> QED
    BY <2>1, <2>2, <2>5 DEF DcInv, DcCopyInv, D!Batch, D!buffers
<1>4. ASSUME NEW bad \in SUBSET (0..DcNumSects - 1), D!ReadBoot(bad), dc_obeyed PROVE DcCopyInv'
  <2>1. /\ dc_at = "boot" /\ dc_at' = "read" /\ UNCHANGED <<dc_request, dc_obeyed, dc_sectors, dc_batch, dc_sect, dc_copied>>
    BY <1>4 DEF D!ReadBoot, D!user
  <2>2. dc_sect = 1 /\ dc_sectors[D!Target][0] = D!Boot(D!Target)
    BY <1>4, <2>1 DEF DcInv, DcCopyInv
  <2>3. dc_e_count' = dc_e_count + Cardinality(bad)
    BY <1>4, SameCardinality DEF D!ReadBoot, D!Errors
  <2>4. D!single_mode => dc_inserted = D!Source
    BY <1>4, <2>1 DEF DcInv, DcDisksInv
  <2>5. D!In(D!Source) = D!Source
    BY <2>4 DEF D!In
  <2>6. D!cpboot_flag \/ ~D!single_mode => dc_boot_sector' = BootRead \/ 0 \in bad
    BY <1>4, <1>a, <2>2, <2>5, DiskContents DEF D!ReadBoot, D!Readable, BootRead
  <2>7. WrongSectors' \subseteq WrongSectors \cup bad
    BY <1>0, <2>1, <2>2, <2>6 DEF WrongSectors, BootPending
  <2>8. Cardinality(WrongSectors') <= dc_e_count'
    BY <1>4, <2>1, <2>3, <2>7, DiskcopyCopies
  <2> QED
    BY <2>1, <2>2, <2>8 DEF DcInv, DcCopyInv
<1>5. ASSUME NEW bad \in SUBSET (0..DcNumSects - 1), D!ReadSource(bad), dc_obeyed PROVE DcCopyInv'
  <2>1. /\ dc_at = "read" /\ UNCHANGED <<dc_request, dc_obeyed, dc_sectors, dc_boot_sector, dc_sect, dc_copied>>
        /\ \/ D!single_mode /\ dc_at' = "swap"
           \/ ~D!single_mode /\ dc_sect = 1 /\ dc_at' = "writeboot"
           \/ ~D!single_mode /\ dc_sect # 1 /\ dc_at' = "write"
    BY <1>5 DEF D!ReadSource, D!user
  <2>2. dc_sect >= 1
    BY <1>5, <2>1 DEF DcInv, DcTypeInv
  <2>3. dc_e_count' = dc_e_count + Cardinality(bad)
    BY <1>5, SameCardinality DEF D!ReadSource, D!ReadBatch, D!Errors
  <2>4. D!single_mode => dc_inserted = D!Source
    BY <1>5, <2>1 DEF DcInv, DcDisksInv
  <2>5. D!In(D!Source) = D!Source
    BY <2>4 DEF D!In
  <2>6. /\ DOMAIN dc_batch' = D!Batch(dc_sect)
        /\ \A s \in D!Batch(dc_sect) : dc_batch'[s] = D!Readable(D!Source, s, bad)
    BY <1>5, <2>5 DEF D!ReadSource, D!ReadBatch
  <2>7. \A s \in D!Batch(dc_sect) : dc_batch'[s] = <<D!Source, s>> \/ s \in bad
    <3>1. dc_sectors[D!Source] = D!Content(D!Source)
      BY <1>5, <1>a
    <3>2. ASSUME NEW s \in D!Batch(dc_sect), s \notin bad PROVE dc_batch'[s] = <<D!Source, s>>
      <4>1. s \in D!Sectors
        BY DEF D!Batch
      <4>2. D!Content(D!Source)[s] = <<D!Source, s>>
        BY <1>a, <4>1, DiskContents
      <4>3. dc_batch'[s] = dc_sectors[D!Source][s]
        BY <2>6, <3>2 DEF D!Readable
      <4> QED
        BY <3>1, <4>2, <4>3
    <3> QED
      BY <3>2
  <2>8. ASSUME NEW s \in WrongSectors', s \notin bad PROVE s \in WrongSectors
    <3>1. s \in 0..DcNumSects - 1
      BY <2>8 DEF WrongSectors
    <3>2. CASE s = 0
      <4>1. /\ BootPending' => BootPending
            /\ BootWritten' => BootWritten
        BY <1>0, <1>a, <2>1, <2>2 DEF BootPending
      <4>2. /\ dc_boot_sector' = dc_boot_sector /\ BootRead' = BootRead
            /\ dc_sectors' = dc_sectors /\ BootAsked' = BootAsked
        BY <1>0, <2>1
      <4> QED
        BY <2>8, <3>1, <3>2, <4>1, <4>2 DEF WrongSectors
    <3>3. CASE s # 0
      BY <2>8, <2>1, <2>6, <2>7, <3>1, <3>3 DEF WrongSectors
    <3> QED
      BY <3>2, <3>3
  <2>9. Cardinality(WrongSectors') <= dc_e_count'
    BY <1>5, <2>1, <2>3, <2>8, DiskcopyCopies
  <2>10. ~BootWritten' => ~BootWritten
    BY <2>1, <2>2
  <2>11. D!Batch(dc_sect)' = D!Batch(dc_sect)
    BY <2>1 DEF D!Batch
  <2> QED
    BY <1>5, <2>1, <2>6, <2>9, <2>10, <2>11 DEF DcInv, DcCopyInv
<1>6. ASSUME NEW bad \in SUBSET (0..DcNumSects - 1), D!ReadTargetBoot(bad), dc_obeyed PROVE DcCopyInv'
  <2>1. /\ dc_at = "targetboot" /\ dc_at' = "writeboot"
        /\ UNCHANGED <<dc_request, dc_obeyed, dc_sectors, dc_batch, dc_sect, dc_copied>>
    BY <1>6 DEF D!ReadTargetBoot, D!user
  <2>2. dc_sect = 1 /\ dc_sectors[D!Target][0] = D!Boot(D!Target) /\ DOMAIN dc_batch = D!Batch(dc_sect)
    BY <1>6, <2>1 DEF DcInv, DcCopyInv
  <2>3. dc_e_count' = dc_e_count + Cardinality(bad)
    BY <1>6, SameCardinality DEF D!ReadTargetBoot, D!Errors
  <2>4. dc_inserted = D!Target
    BY <1>6, <2>1 DEF DcInv, DcDisksInv
  <2>5. IF D!cpboot_flag THEN dc_boot_sector' = dc_boot_sector ELSE dc_boot_sector' = BootRead \/ 0 \in bad
    BY <1>6, <1>a, <2>2, <2>4, DiskContents DEF D!ReadTargetBoot, D!Readable, BootRead
  <2>6. WrongSectors' \subseteq WrongSectors \cup bad
    BY <1>0, <1>a, <2>1, <2>2, <2>5, DiskContents DEF WrongSectors, BootPending
  <2>7. Cardinality(WrongSectors') <= dc_e_count'
    BY <1>6, <2>1, <2>3, <2>6, DiskcopyCopies
  <2> QED
    BY <2>1, <2>2, <2>7 DEF DcCopyInv, D!Batch
<1>7. ASSUME NEW bad \in SUBSET (0..DcNumSects - 1), D!WriteBoot(bad), dc_obeyed PROVE DcCopyInv'
  <2>1. /\ dc_at = "writeboot" /\ dc_at' = "write"
        /\ UNCHANGED <<dc_request, dc_obeyed, D!buffers, dc_copied>>
    BY <1>7 DEF D!WriteBoot, D!user
  <2>2. DOMAIN dc_batch = D!Batch(dc_sect)
    BY <1>7, <2>1 DEF DcInv, DcCopyInv
  <2>3. dc_e_count' = dc_e_count + Cardinality(bad)
    BY <1>7, SameCardinality DEF D!WriteBoot, D!Errors
  <2>4. D!In(D!Target) = D!Target
    BY <1>7, <2>1 DEF DcInv, DcDisksInv, D!In
  <2>5. DcTypeInv
    BY DEF DcInv
  <2>6. \A s \in 0..DcNumSects - 1 :
          dc_sectors'[D!Target][s] = IF s \in {0} \ bad THEN [t \in {0} |-> D!patch_boot(dc_boot_sector)][s]
                                     ELSE dc_sectors[D!Target][s]
    <3>1. dc_sectors' = D!Written(D!Target, [s \in {0} |-> D!patch_boot(dc_boot_sector)], bad)
      BY <1>7, <2>4 DEF D!WriteBoot
    <3> QED
      BY <1>a, <2>5, <3>1, WrittenSectors
  <2>7. dc_sectors'[D!Target][0] = D!patch_boot(dc_boot_sector) \/ 0 \in bad
    BY <1>a, <2>6, DiskContents
  <2>8. dc_boot_sector = BootRead => D!patch_boot(dc_boot_sector) = BootAsked
    BY DEF BootAsked
  <2>9. WrongSectors' \subseteq WrongSectors \cup bad
    BY <1>0, <2>1, <2>6, <2>7, <2>8 DEF WrongSectors, BootPending, D!buffers
  <2>10. Cardinality(WrongSectors') <= dc_e_count'
    BY <1>7, <2>1, <2>3, <2>9, DiskcopyCopies
  <2> QED
    BY <2>1, <2>2, <2>10 DEF DcCopyInv, D!Batch, D!buffers
<1>8. ASSUME NEW bad \in SUBSET (0..DcNumSects - 1), D!WriteTarget(bad), dc_obeyed PROVE DcCopyInv'
  <2>1. /\ dc_at = "write" /\ UNCHANGED <<dc_request, dc_obeyed, dc_boot_sector, dc_batch, dc_copied>>
        /\ dc_sect' = dc_sect + DcNumBuffers
        /\ \/ dc_sect' >= DcNumSects /\ dc_at' = "finished"
           \/ dc_at' \in {"swapback", "read"}
    BY <1>8 DEF D!WriteTarget, D!user
  <2>2. DOMAIN dc_batch = D!Batch(dc_sect) /\ dc_sect >= 1 /\ dc_sect' > 1
    BY <1>8, <2>1, DiskcopyAssumption DEF DcInv, DcCopyInv, DcTypeInv
  <2>3. dc_e_count' = dc_e_count + Cardinality(bad)
    BY <1>8, SameCardinality DEF D!WriteTarget, D!Errors
  <2>4. D!In(D!Target) = D!Target
    BY <1>8, <2>1 DEF DcInv, DcDisksInv, D!In
  <2>5. DcTypeInv
    BY DEF DcInv
  <2>6. \A s \in 0..DcNumSects - 1 :
          dc_sectors'[D!Target][s] = IF s \in D!Batch(dc_sect) \ bad THEN dc_batch[s] ELSE dc_sectors[D!Target][s]
    <3>1. dc_sectors' = D!Written(D!Target, dc_batch, bad)
      BY <1>8, <2>4 DEF D!WriteTarget
    <3> QED
      BY <1>a, <2>2, <2>5, <3>1, WrittenSectors
  <2>7. 0 \notin D!Batch(dc_sect)
    BY DEF D!Batch, D!Sectors
  <2>8. \A s \in 0..DcNumSects - 1 : s # 0 /\ s < dc_sect' => s < dc_sect \/ s \in D!Batch(dc_sect)
    BY <1>a, <2>1, DiskcopyAssumption DEF D!Batch, D!Sectors
  <2>9. \A s \in D!Batch(dc_sect) : s \in 0..DcNumSects - 1 /\ ~(s < dc_sect)
    BY <1>a, DiskcopyAssumption DEF D!Batch, D!Sectors
  <2>10. ASSUME NEW s \in WrongSectors', s \notin bad PROVE s \in WrongSectors
    <3>1. s \in 0..DcNumSects - 1
      BY <2>10 DEF WrongSectors
    <3>2. CASE s = 0
      BY <1>0, <2>10, <2>1, <2>2, <2>6, <2>7, <3>1, <3>2 DEF WrongSectors, BootPending
    <3>3. CASE s # 0
      <4>1. s < dc_sect' /\ dc_sectors'[D!Target][s] # <<D!Source, s>>
        BY <2>10, <2>1, <3>1, <3>3 DEF WrongSectors
      <4>2. CASE s \in D!Batch(dc_sect)
        BY <2>10, <2>1, <2>2, <2>6, <3>1, <3>3, <4>1, <4>2 DEF WrongSectors
      <4>3. CASE s \notin D!Batch(dc_sect)
        BY <2>1, <2>6, <2>8, <3>1, <3>3, <4>1, <4>3 DEF WrongSectors
      <4> QED
        BY <4>2, <4>3
    <3> QED
      BY <3>2, <3>3
  <2>11. Cardinality(WrongSectors') <= dc_e_count'
    BY <1>8, <2>1, <2>3, <2>10, DiskcopyCopies
  <2> QED
    BY <2>1, <2>2, <2>11 DEF DcCopyInv
<1>9. CASE D!More
  BY <1>9 DEF D!More, DcCopyInv
<1>10. CASE D!Finish \/ D!Abort
  BY <1>10 DEF D!Finish, D!Abort, D!Terminate, DcCopyInv
<1>11. CASE D!Ended
  <2>1. WrongSectors' = WrongSectors
    BY <1>0, <1>11 DEF D!Ended, D!vars, WrongSectors, BootPending
  <2> QED
    BY <1>11, <2>1 DEF D!Ended, D!vars, DcInv, DcCopyInv
<1>12. ~dc_obeyed' \/ ~(DcCopying' \/ dc_at' = "finished") => DcCopyInv'
  BY DEF DcCopyInv
<1> QED
  <2>1. ASSUME NEW bad \in SUBSET (0..DcNumSects - 1),
               \/ D!ReadBoot(bad) \/ D!ReadSource(bad) \/ D!ReadTargetBoot(bad)
               \/ D!WriteBoot(bad) \/ D!WriteTarget(bad)
        PROVE  DcCopyInv'
    <3>1. dc_obeyed' = dc_obeyed
      BY <2>1 DEF D!ReadBoot, D!ReadSource, D!ReadTargetBoot, D!WriteBoot, D!WriteTarget, D!user
    <3> QED
      BY <1>4, <1>5, <1>6, <1>7, <1>8, <1>12, <2>1, <3>1
  <2>2. ASSUME NEW side \in D!Disks, D!SwapToTarget(side) \/ D!SwapToSource(side) PROVE DcCopyInv'
    <3>1. dc_at' # "finished"
      BY <2>2 DEF D!SwapToTarget, D!SwapToSource
    <3> QED
      BY <1>3, <1>12, <2>2, <3>1
  <2> QED
    BY <1>1, <1>2, <1>9, <1>10, <1>11, <2>1, <2>2 DEF D!Next

\* The invariant of DISKCOPY is inductive.
LEMMA DiskcopyStep == DcInv /\ [D!Next]_(D!vars) => DcInv'
<1>1. ASSUME DcInv, D!Next PROVE DcInv'
  <2>1. DcTypeInv'
    BY <1>1, DiskcopyTypes
  <2>2. DcSystemInv'
    BY <1>1, DiskcopySystem
  <2>3. DcDisksInv'
    BY <1>1, DiskcopyDisks
  <2>4. DcCopyInv'
    BY <1>1, DiskcopyCopy
  <2> QED
    BY <2>1, <2>2, <2>3, <2>4 DEF DcInv
<1>2. ASSUME DcInv, UNCHANGED D!vars PROVE DcInv'
  <2>1. /\ D!single_mode' = D!single_mode /\ D!cpboot_flag' = D!cpboot_flag
        /\ BootRead' = BootRead /\ BootAsked' = BootAsked
    BY <1>2 DEF D!vars, D!single_mode, D!source_drive, D!target_drive, D!TargetGiven, D!line, D!cpboot_flag,
                D!Flags, BootRead, BootAsked, D!patch_boot
  <2>2. WrongSectors' = WrongSectors
    BY <1>2, <2>1 DEF D!vars, WrongSectors, BootPending, BootWritten, BatchPending
  <2> QED
    BY <1>2, <2>1, <2>2 DEF DcInv, DcTypeInv, DcSystemInv, DcDisksInv, DcCopyInv,
                            D!vars, DcCopying, NotYet, BootWritten, BatchPending
<1> QED
  BY <1>1, <1>2

\* It implies what the copy promises, and that the system is as it was found.
LEMMA DiskcopySafe == DcInv => D!CopyExact /\ D!SystemRestored /\ D!TypeOK
<1> SUFFICES ASSUME DcInv PROVE D!CopyExact /\ D!SystemRestored /\ D!TypeOK
  OBVIOUS
<1>1. D!CopyExact
  <2> DEFINE boot == IF D!cpboot_flag THEN D!Boot(D!Source) ELSE D!Boot(D!Target)
             patched == IF ~dc_request.params.sourceId THEN boot
                        ELSE IF D!cpboot_flag THEN [boot EXCEPT !.id = D!Target]
                        ELSE [boot EXCEPT !.dirty = D!Source]
             wrong == {s \in D!Sectors : dc_sectors[D!Target][s] # dc_copied[D!Source][s]}
                        \cup (IF dc_sectors[D!Target][0] # patched THEN {0} ELSE {})
  <2>1. BootAsked = patched
    BY DEF BootAsked, BootRead, D!patch_boot, D!Boot, D!Source, D!Target, D!Unread
  <2>2. dc_obeyed => dc_sectors[D!Source] = dc_copied[D!Source] /\ dc_copied[D!Source] = D!Content(D!Source)
    BY DiskContents DEF DcInv, DcDisksInv, D!Disks
  <2>3. ASSUME dc_obeyed, dc_at = "finished" PROVE Cardinality(wrong) <= dc_e_count
    <3>1. Cardinality(WrongSectors) <= dc_e_count /\ dc_sect >= DcNumSects /\ dc_e_count \in Nat
          /\ dc_sect \in Nat
      BY <2>3, DiskcopyAssumption DEF DcInv, DcCopyInv, DcTypeInv
    <3>2. D!Source \in D!Disks
      BY DEF D!Disks
    <3>3. \A s \in D!Sectors : s \in 0..DcNumSects - 1 /\ s # 0 /\ s < dc_sect
                             /\ dc_copied[D!Source][s] = <<D!Source, s>>
      BY <2>2, <2>3, <3>1, <3>2, DiskContents, DiskcopyAssumption DEF D!Sectors
    <3>4. wrong \subseteq WrongSectors
      BY <2>1, <2>3, <3>2, <3>3, DiskContents DEF WrongSectors, BootWritten
    <3>5. WrongSectors \in SUBSET (0..DcNumSects - 1) /\ IsFiniteSet(0..DcNumSects - 1)
      BY FS_Interval, DiskcopyAssumption DEF WrongSectors
    <3>6. IsFiniteSet(WrongSectors) /\ Cardinality(wrong) <= Cardinality(WrongSectors)
      BY <3>4, <3>5, FS_Subset
    <3>7. Cardinality(wrong) \in Nat /\ Cardinality(WrongSectors) \in Nat
      BY <3>4, <3>6, FS_Subset, FS_CardinalityType
    <3> QED
      BY <3>1, <3>6, <3>7
  <2> QED
    BY <2>2, <2>3, SameCardinality DEF D!CopyExact
<1>2. D!SystemRestored
  <2>1. dc_at = "end" => dc_dskchk = dc_request.dskchk
    BY DEF DcInv, DcSystemInv, NotYet
  <2>2. DcCopying => ~NotYet /\ dc_at # "end" /\ dc_error_routine
    BY DEF DcInv, DcSystemInv, DcCopying, NotYet
  <2>3. DcCopying => dc_dskchk = 255
    BY <2>2 DEF DcInv, DcSystemInv
  <2>4. dc_at \in {"copy", "finished", "end"} => ~dc_error_routine
    BY DEF DcInv, DcSystemInv
  <2> QED
    BY <2>1, <2>2, <2>3, <2>4 DEF D!SystemRestored, DcCopying
<1>3. D!TypeOK
  <2>0. dc_request.dskchk \in 0..255
    BY DiskcopyAssumption DEF DcInv, DcTypeInv
  <2>1. dc_dskchk \in 0..255 /\ dc_o_chk \in -1..255
    <3>1. dc_dskchk \in {dc_request.dskchk, 255} /\ dc_o_chk \in {-1, dc_request.dskchk}
      BY DEF DcInv, DcSystemInv, D!NotRead
    <3> QED
      BY <2>0, <3>1
  <2> QED
    BY <2>1, DiskcopyAssumption DEF DcInv, DcTypeInv, DcSystemInv, D!TypeOK, D!Disks
<1> QED
  BY <1>1, <1>2, <1>3

\* The limit that VSFT takes for the volume, and what it is to become.
VsLimit == IF vs_isNextor /\ vs_before.fat16 THEN VsMaxFat16Clusters ELSE VsMaxFat12Clusters
\* The sectors of the clusters that are too many.
VsExcess == (V!Clusters(vs_before) - VsLimit) * vs_before.spc
\* A boot sector whose size was fixed.
VsFixed(boot) ==
    /\ vs_doFix /\ V!Clusters(vs_before) > VsLimit
    /\ boot.data = vs_before.data /\ boot.spc = vs_before.spc
    /\ boot = [vs_before EXCEPT !.small = boot.small, !.big = boot.big]
    /\ V!Sectors(boot) = V!Sectors(vs_before) - VsExcess

\* The invariant of VSFT: what was calculated is of the boot sector on the volume.
VsInv ==
    /\ vs_before \in VsVolumes /\ {vs_isNextor, vs_doFix, vs_isFat16} \subseteq BOOLEAN
    /\ vs_at \in {"info", "calculate", "read", "fix", "write", "end"}
    /\ vs_volume = vs_before \/ (vs_at = "end" /\ VsFixed(vs_volume))
    /\ vs_totalSectors \in 0..V!Sectors(vs_before)
    /\ vs_sectorsToDecreaseForFix \in 0..V!Sectors(vs_before)
    /\ vs_at \in {"calculate", "read", "fix"} =>
         vs_isFat16 = (vs_isNextor /\ vs_before.fat16) /\ vs_totalClusters = V!Clusters(vs_before)
    /\ vs_at \in {"read", "fix"} =>
         vs_doFix /\ V!Clusters(vs_before) > VsLimit /\ vs_sectorsToDecreaseForFix = VsExcess
    /\ vs_at = "fix" => vs_Buffer = vs_before
    /\ vs_at = "write" => VsFixed(vs_Buffer)

\* A number is told by its quotient and its remainder.
LEMMA QuotientIs ==
    ASSUME NEW d \in Nat \ {0}, NEW q \in Int, NEW r \in 0..d - 1
    PROVE  (q * d + r) \div d = q /\ (q * d + r) % d = r
  OBVIOUS

\* A product of a difference.
LEMMA DifferenceTimes ==
    ASSUME NEW k \in Int, NEW q \in Int, NEW d \in Int
    PROVE  (k - q) * d = k * d - q * d /\ k * d \in Int /\ q * d \in Int
  OBVIOUS

\* A number is its quotient and its remainder.
LEMMA QuotientOf ==
    ASSUME NEW a \in Int, NEW d \in Int, d > 0
    PROVE  a \div d \in Int /\ a % d \in 0..d - 1 /\ a = d * (a \div d) + (a % d)
<1>1. a \div d \in Int
  OBVIOUS
<1>2. a % d \in 0..d - 1
  OBVIOUS
<1>3. a = d * (a \div d) + (a % d)
  OBVIOUS
<1> QED
  BY <1>1, <1>2, <1>3

\* Taking a difference away leaves the smaller of the two.
LEMMA DifferenceAway ==
    ASSUME NEW x \in Int, NEW y \in Int, NEW r \in Int, NEW a, NEW b, a = x + r, b = a - (x - y)
    PROVE  b = y + r
  OBVIOUS

\* Whole clusters taken from the end leave fewer clusters and the same rest.
LEMMA ClustersTaken ==
    ASSUME NEW a \in Int, NEW d \in Int, d > 0, NEW q \in Int, NEW b,
           b = a - ((a \div d) - q) * d
    PROVE  b \div d = q /\ b % d = a % d
<1>1. PICK k \in Int, r \in 0..d - 1 : a \div d = k /\ a % d = r /\ a = d * k + r
  BY QuotientOf
<1>2. /\ d * k = k * d /\ k * d \in Int /\ q * d \in Int /\ (k - q) * d = k * d - q * d
      /\ r \in Int
  BY <1>1, DifferenceTimes
<1>3. a = k * d + r /\ b = a - (k * d - q * d)
  BY <1>1, <1>2
<1>4. b = q * d + r
  BY <1>2, <1>3, DifferenceAway
<1>5. d \in Nat \ {0}
  OBVIOUS
<1>6. b \div d = q /\ b % d = r
  BY <1>1, <1>4, <1>5, QuotientIs
<1> QED
  BY <1>1, <1>6

\* What is known of a boot sector.
LEMMA VolumeTypes ==
    ASSUME NEW v \in VsVolumes
    PROVE  /\ v.small \in Nat /\ v.big \in Nat /\ v.data \in Nat \ {0} /\ v.spc \in Nat \ {0}
           /\ v.fat16 \in BOOLEAN
           /\ V!Sectors(v) \in Nat /\ V!Clusters(v) \in Int
           /\ v = [small |-> v.small, big |-> v.big, data |-> v.data, spc |-> v.spc,
                   fat16 |-> v.fat16]
<1>1. v \in [small : Nat, big : Nat, data : Nat \ {0}, spc : Nat \ {0}, fat16 : BOOLEAN]
  BY VsftAssumption
<1>2. v.small \in Nat /\ v.big \in Nat /\ v.data \in Nat \ {0} /\ v.spc \in Nat \ {0}
      /\ v.fat16 \in BOOLEAN
  BY <1>1
<1>3. V!Sectors(v) \in Nat
  BY <1>2 DEF V!Sectors
<1>4. V!Sectors(v) - v.data \in Int
  BY <1>2, <1>3
<1>5. V!Clusters(v) \in Int
  BY <1>2, <1>4 DEF V!Clusters
<1> QED
  BY <1>1, <1>2, <1>3, <1>5

\* What is taken from a size, in clusters of some sectors, is less than the size.
LEMMA ExcessOf ==
    ASSUME NEW S \in Nat, NEW data \in Nat, data > 0, NEW d \in Int, d > 0, NEW limit \in Nat,
           NEW c \in Int, c = (S - data) \div d, c > limit
    PROVE  (c - limit) * d \in 1..S /\ S - (c - limit) * d \in Nat \ {0}
<1>1. PICK r \in 0..d - 1 : S - data = d * c + r
  <2>1. S - data \in Int
    OBVIOUS
  <2> QED
    BY <2>1, QuotientOf
<1>2. (c - limit) * d >= 1 /\ limit * d >= 0 /\ (c - limit) * d \in Int /\ limit * d \in Int
  OBVIOUS
<1>3. (c - limit) * d = d * c - limit * d /\ d * c \in Int
  OBVIOUS
<1> DEFINE excess == (c - limit) * d
           kept == limit * d
           whole == d * c
<1>4. /\ excess \in Int /\ kept \in Int /\ whole \in Int /\ r \in Nat
      /\ excess >= 1 /\ kept >= 0 /\ excess = whole - kept /\ S - data = whole + r
  BY <1>1, <1>2, <1>3
<1> HIDE DEF excess, kept, whole
<1>5. excess \in 1..S /\ S - excess \in Nat \ {0}
  BY <1>4
<1> QED
  BY <1>5 DEF excess

\* A volume beyond its limit has the sectors that are to be taken, and more.
LEMMA ExcessFits ==
    ASSUME NEW v \in VsVolumes, NEW limit \in Nat, V!Clusters(v) > limit
    PROVE  /\ (V!Clusters(v) - limit) * v.spc \in 1..V!Sectors(v)
           /\ V!Sectors(v) - (V!Clusters(v) - limit) * v.spc \in Nat \ {0}
<1>1. /\ v.data \in Nat /\ v.data > 0 /\ v.spc \in Int /\ v.spc > 0 /\ V!Sectors(v) \in Nat
      /\ V!Clusters(v) \in Int /\ V!Clusters(v) = (V!Sectors(v) - v.data) \div v.spc
  BY VolumeTypes DEF V!Clusters
<1> QED
  BY <1>1, ExcessOf

\* At first nothing was calculated.
LEMMA VsftInit == V!Init => VsInv
<1> SUFFICES ASSUME V!Init PROVE VsInv
  OBVIOUS
<1>1. vs_before \in VsVolumes /\ V!Sectors(vs_before) \in Nat
  BY VolumeTypes DEF V!Init
<1>2. /\ vs_volume = vs_before /\ vs_totalSectors = 0 /\ vs_sectorsToDecreaseForFix = 0 /\ vs_at = "info"
      /\ vs_isNextor \in BOOLEAN /\ vs_doFix = FALSE /\ vs_isFat16 = FALSE
  BY DEF V!Init
<1>3. 0 \in 0..V!Sectors(vs_before)
  BY <1>1
<1> QED
  BY <1>1, <1>2, <1>3 DEF VsInv

\* Every step of VSFT keeps its invariant.
LEMMA VsftStep == VsInv /\ [V!Next]_(V!vars) => VsInv'
<1> SUFFICES ASSUME VsInv, [V!Next]_(V!vars) PROVE VsInv'
  OBVIOUS
<1> USE DEF V!command, V!reported
<1>1. /\ vs_before \in VsVolumes /\ V!Sectors(vs_before) \in Nat /\ vs_before.small \in Nat
      /\ vs_before.fat16 \in BOOLEAN /\ VsLimit \in Nat /\ V!Clusters(vs_before) \in Int
  BY VolumeTypes, VsftAssumption DEF VsInv, VsLimit
<1>2. UNCHANGED <<vs_isNextor, vs_before>> => VsLimit' = VsLimit /\ VsExcess' = VsExcess
  BY DEF VsLimit, VsExcess
<1>3. CASE V!GetDriveInfo
  <2>1. vs_volume = vs_before /\ UNCHANGED <<vs_isNextor, vs_before, vs_doFix, vs_volume, vs_sectorsToDecreaseForFix>>
        /\ vs_at' \in {"end", "calculate"} /\ (vs_at' = "calculate" => vs_totalClusters' = V!Clusters(vs_before))
    BY <1>3 DEF V!GetDriveInfo, VsInv
  <2>2. vs_totalSectors' \in 0..V!Sectors(vs_before)
    BY <1>1, <1>3, <2>1 DEF V!GetDriveInfo, V!Sectors
  <2>3. vs_isFat16' = (vs_isNextor /\ vs_before.fat16)
    BY <1>3, <2>1 DEF V!GetDriveInfo
  <2> QED
    BY <1>1, <1>2, <2>1, <2>2, <2>3 DEF VsInv
<1>4. CASE V!CalculateSectorsToDecreaseForFix
  <2>1. /\ vs_volume = vs_before /\ UNCHANGED <<vs_isNextor, vs_before, vs_doFix, vs_volume, vs_totalSectors,
                                               vs_totalClusters, vs_isFat16, vs_Buffer>>
        /\ vs_at' \in {"end", "read"} /\ V!MaxClusters = VsLimit /\ vs_totalClusters = V!Clusters(vs_before)
        /\ vs_isFat16 = (vs_isNextor /\ vs_before.fat16)
    BY <1>4 DEF V!CalculateSectorsToDecreaseForFix, VsInv, V!MaxClusters, VsLimit
  <2>2. vs_sectorsToDecreaseForFix' = IF V!Clusters(vs_before) > VsLimit THEN VsExcess ELSE 0
    BY <1>4, <2>1 DEF V!CalculateSectorsToDecreaseForFix, VsExcess
  <2>3. vs_sectorsToDecreaseForFix' \in 0..V!Sectors(vs_before)
    BY <1>1, <2>2, ExcessFits DEF VsExcess
  <2>4. vs_at' = "read" => vs_sectorsToDecreaseForFix' # 0 /\ vs_doFix
    BY <1>4 DEF V!CalculateSectorsToDecreaseForFix
  <2> QED
    BY <1>1, <1>2, <2>1, <2>2, <2>3, <2>4 DEF VsInv
<1>5. CASE V!ReadBootSector
  BY <1>2, <1>5 DEF V!ReadBootSector, VsInv, VsFixed
<1>6. CASE V!FixVolumeSize
  <2>1. /\ vs_Buffer = vs_before /\ vs_doFix /\ V!Clusters(vs_before) > VsLimit
        /\ vs_sectorsToDecreaseForFix = VsExcess /\ vs_volume = vs_before
        /\ UNCHANGED <<vs_isNextor, vs_before, vs_doFix, vs_volume, vs_totalSectors, vs_totalClusters, vs_isFat16,
                       vs_sectorsToDecreaseForFix>>
    BY <1>6 DEF V!FixVolumeSize, VsInv
  <2> DEFINE fixed == V!Sectors(vs_before) - VsExcess
  <2>2. fixed \in Nat \ {0}
    BY <1>1, <2>1, ExcessFits DEF VsExcess
  <2>3. vs_Buffer' = IF fixed <= VsSmallLimit THEN [vs_before EXCEPT !.small = fixed]
                     ELSE [vs_before EXCEPT !.small = 0, !.big = fixed]
    BY <1>6, <2>1 DEF V!FixVolumeSize
  <2> HIDE DEF fixed
  <2>4. vs_before = [small |-> vs_before.small, big |-> vs_before.big, data |-> vs_before.data,
                     spc |-> vs_before.spc, fat16 |-> vs_before.fat16]
    BY <1>1, VolumeTypes
  <2>5. vs_Buffer'.data = vs_before.data /\ vs_Buffer'.spc = vs_before.spc
        /\ (IF vs_Buffer'.small = 0 THEN vs_Buffer'.big ELSE vs_Buffer'.small) = fixed
        /\ vs_Buffer' = [vs_before EXCEPT !.small = vs_Buffer'.small, !.big = vs_Buffer'.big]
    BY <2>2, <2>3, <2>4
  <2>6. VsFixed(vs_Buffer)'
    BY <1>2, <2>1, <2>5 DEF VsFixed, V!Sectors, fixed
  <2> QED
    BY <1>1, <1>2, <1>6, <2>1, <2>6 DEF VsInv, V!FixVolumeSize
<1>7. CASE V!WritebootSector
  <2>1. vs_at = "write" /\ vs_at' = "end" /\ vs_volume' \in {vs_volume, vs_Buffer} /\ VsFixed(vs_Buffer)
        /\ vs_volume = vs_before
        /\ UNCHANGED <<vs_isNextor, vs_before, vs_doFix, vs_totalSectors, vs_totalClusters, vs_isFat16,
                       vs_sectorsToDecreaseForFix, vs_Buffer>>
    BY <1>7 DEF V!WritebootSector, VsInv
  <2>2. VsFixed(vs_Buffer)'
    BY <1>2, <2>1 DEF VsFixed
  <2>3. vs_volume' = vs_before' \/ VsFixed(vs_volume)'
    BY <2>1, <2>2 DEF VsFixed
  <2> QED
    BY <1>1, <2>1, <2>3 DEF VsInv
<1>8. CASE V!Again
  BY <1>1, <1>2, <1>8 DEF V!Again, VsInv, VsFixed
<1>9. CASE V!Ended
  BY <1>1, <1>2, <1>9 DEF V!Ended, V!vars, VsInv, VsFixed
<1>10. CASE UNCHANGED V!vars
  BY <1>1, <1>2, <1>10 DEF V!vars, VsInv, VsFixed
<1> QED
  BY <1>3, <1>4, <1>5, <1>6, <1>7, <1>8, <1>9, <1>10 DEF V!Next

\* The invariant of VSFT is enough.
LEMMA VsftSafe == VsInv => V!SizeFixed /\ V!TypeOK
<1> SUFFICES ASSUME VsInv PROVE V!SizeFixed /\ V!TypeOK
  OBVIOUS
<1>1. V!TypeOK
  BY DEF VsInv, V!TypeOK
<1>2. V!SizeFixed
  <2> DEFINE limit == IF vs_before.fat16 THEN VsMaxFat16Clusters ELSE VsMaxFat12Clusters
  <2> SUFFICES ASSUME vs_volume # vs_before, vs_isNextor \/ ~vs_before.fat16
               PROVE  /\ vs_doFix /\ V!Clusters(vs_before) > limit /\ V!Clusters(vs_volume) = limit
                      /\ vs_volume = [vs_before EXCEPT !.small = vs_volume.small, !.big = vs_volume.big]
                      /\ (V!Sectors(vs_volume) - vs_volume.data) % vs_volume.spc
                           = (V!Sectors(vs_before) - vs_before.data) % vs_before.spc
    BY DEF V!SizeFixed
  <2>1. vs_before \in VsVolumes /\ VsFixed(vs_volume)
    BY DEF VsInv
  <2>2. limit = VsLimit
    BY <2>1 DEF VsLimit
  <2>3. limit \in Nat
    BY VsftAssumption
  <2> HIDE DEF limit
  <2>4. /\ V!Sectors(vs_before) \in Nat /\ vs_before.data \in Nat /\ vs_before.spc \in Nat \ {0}
        /\ V!Sectors(vs_before) - vs_before.data \in Int
    BY <2>1, VolumeTypes
  <2>5. V!Sectors(vs_volume) - vs_volume.data
          = (V!Sectors(vs_before) - vs_before.data)
              - (((V!Sectors(vs_before) - vs_before.data) \div vs_before.spc) - limit) * vs_before.spc
    <3>1. VsExcess = (((V!Sectors(vs_before) - vs_before.data) \div vs_before.spc) - limit) * vs_before.spc
      BY <2>2 DEF VsExcess, V!Clusters
    <3>2. V!Clusters(vs_before) \in Int /\ VsExcess \in Int
      BY <2>1, <2>2, <2>3, <2>4, VolumeTypes DEF VsExcess
    <3>3. V!Sectors(vs_volume) = V!Sectors(vs_before) - VsExcess /\ vs_volume.data = vs_before.data
      BY <2>1 DEF VsFixed
    <3>4. V!Sectors(vs_volume) - vs_volume.data = (V!Sectors(vs_before) - vs_before.data) - VsExcess
      BY <2>4, <3>2, <3>3
    <3> QED
      BY <3>1, <3>4
  <2>6. /\ (V!Sectors(vs_volume) - vs_volume.data) \div vs_before.spc = limit
        /\ (V!Sectors(vs_volume) - vs_volume.data) % vs_before.spc
             = (V!Sectors(vs_before) - vs_before.data) % vs_before.spc
    <3> DEFINE a == V!Sectors(vs_before) - vs_before.data
               b == V!Sectors(vs_volume) - vs_volume.data
               d == vs_before.spc
    <3>1. a \in Int /\ d \in Int /\ d > 0 /\ limit \in Int /\ b = a - ((a \div d) - limit) * d
      BY <2>3, <2>4, <2>5
    <3> HIDE DEF a, b, d
    <3>2. b \div d = limit /\ b % d = a % d
      BY <3>1, ClustersTaken
    <3> QED
      BY <3>2 DEF a, b, d
  <2> QED
    BY <2>1, <2>2, <2>6 DEF VsFixed, V!Clusters
<1> QED
  BY <1>1, <1>2

\* The code that is not converted.
EpWanted == IF ep_op = "fix" THEN C!PTYPE_EXTENDED_LBA ELSE C!PTYPE_EXTENDED_CHS

\* The variables have their types; the tables done are counted.
EpTypeInv ==
    /\ ep_disk \in Seq(EpTable) /\ ep_original \in Seq(EpTable) /\ ep_mbrBuffer \in EpTable
    /\ Len(ep_disk) = Len(ep_original)
    /\ ep_op \in {"fix", "unfix", "scan"} /\ ep_blind \in BOOLEAN /\ ep_errors \in 0..EpMaxErrors
    /\ ep_at \in {"parameters", "scan", "table", "end"}
    /\ ep_extendedPartition \in 0..Len(ep_disk)
    /\ ep_at = "parameters" => ep_extendedPartition = 0
    /\ ep_at = "table" => ep_extendedPartition < Len(ep_disk)
    /\ ep_chsPartitionsCount \in Nat /\ ep_lbaPartitionsCount \in Nat
    /\ ep_chsPartitionsCount + ep_lbaPartitionsCount = ep_extendedPartition
    /\ ep_errors = 0 => ~ep_blind

\* The buffer is the table in turn, or a stale one that will not be written.
EpBufferInv ==
    /\ \A i \in ep_extendedPartition + 1..Len(ep_disk) : ep_disk[i] = ep_original[i]
    /\ ~ep_blind /\ ep_op # "scan" =>
         /\ ep_at = "scan" /\ ep_extendedPartition > 0 => ep_mbrBuffer.type = EpWanted
         /\ ep_at = "table" => \/ ep_mbrBuffer = ep_disk[ep_extendedPartition + 1]
                               \/ ep_mbrBuffer.type = EpWanted
    /\ ep_errors = 0 /\ ep_at = "table" => ep_mbrBuffer = ep_disk[ep_extendedPartition + 1]

\* Table i has what it had, but for the type code of an extended partition.
EpKept(i) ==
    /\ ep_disk[i].rest = ep_original[i].rest
    /\ ep_disk[i].type # ep_original[i].type =>
         {ep_disk[i].type, ep_original[i].type} = C!Extended /\ ep_op # "scan"

\* The tables that were done.
EpDoneInv ==
    /\ ~ep_blind => \A i \in 1..ep_extendedPartition : EpKept(i)
    /\ ep_errors = 0 =>
         /\ \A i \in 1..ep_extendedPartition :
              /\ ep_original[i].type \in C!Extended /\ ep_disk[i].type \in C!Extended
              /\ ep_op # "scan" => ep_disk[i].type = EpWanted
         /\ ep_at = "end" /\ ep_extendedPartition > 0 =>
              \/ ep_extendedPartition = Len(ep_disk)
              \/ ep_original[ep_extendedPartition + 1].type \notin C!Extended

\* The invariant of EPTCFT.
EpInv == EpTypeInv /\ EpBufferInv /\ EpDoneInv

\* The tables are numbered from 1, and those that are done are some of them.
LEMMA EpTables ==
    ASSUME EpTypeInv
    PROVE  /\ Len(ep_disk) \in Nat /\ ep_extendedPartition \in Nat /\ ep_extendedPartition <= Len(ep_disk)
           /\ DOMAIN ep_disk = 1..Len(ep_disk)
<1>1. Len(ep_disk) \in Nat /\ DOMAIN ep_disk = 1..Len(ep_disk)
  BY DEF EpTypeInv
<1>2. ep_extendedPartition \in 0..Len(ep_disk)
  BY DEF EpTypeInv
<1> QED
  BY <1>1, <1>2

\* At first no table was done.
LEMMA EptcftInit == C!Init => EpInv
<1> SUFFICES ASSUME C!Init PROVE EpInv
  OBVIOUS
<1>1. ep_disk \in Seq(EpTable) /\ Len(ep_disk) \in Nat
  BY EptcftAssumption DEF C!Init
<1>2. ep_mbrBuffer \in EpTable
  <2>1. "memory" \in EpRests
    BY DEF EpRests
  <2>2. ep_mbrBuffer \in [type : {0, 5, 15}, rest : {"memory"}]
    BY DEF C!Init, C!Extended, C!PTYPE_EXTENDED_CHS, C!PTYPE_EXTENDED_LBA
  <2>3. {0, 5, 15} \subseteq 0..255
    OBVIOUS
  <2> QED
    BY <2>1, <2>2, <2>3 DEF EpTable
<1>3. EpTypeInv
  <2>1. 0 \in 0..EpMaxErrors /\ 0 \in 0..Len(ep_disk) /\ 0 + 0 = 0
    BY <1>1, EptcftAssumption
  <2>2. /\ ep_original = ep_disk /\ ep_op \in {"fix", "unfix", "scan"} /\ ep_extendedPartition = 0
        /\ ep_chsPartitionsCount = 0 /\ ep_lbaPartitionsCount = 0 /\ ep_at = "parameters"
        /\ ep_errors = 0 /\ ep_blind = FALSE
    BY DEF C!Init
  <2> QED
    BY <1>1, <1>2, <2>1, <2>2 DEF EpTypeInv
<1>4. EpBufferInv
  BY DEF C!Init, EpBufferInv
<1>5. EpDoneInv
  BY DEF C!Init, EpDoneInv
<1> QED
  BY <1>3, <1>4, <1>5 DEF EpInv

\* A table that is done: what it was, what the buffer was and what becomes of it.
LEMMA TableDone ==
    ASSUME EpInv, ep_at = "table", NEW n, n = ep_extendedPartition,
           NEW code, NEW asked, NEW becomes,
           \/ code = C!PTYPE_EXTENDED_CHS /\ asked = "fix" /\ becomes = C!PTYPE_EXTENDED_LBA
           \/ code = C!PTYPE_EXTENDED_LBA /\ asked = "unfix" /\ becomes = C!PTYPE_EXTENDED_CHS,
           C!ScanAndFix(code, asked, becomes),
           ep_chsPartitionsCount' \in Nat, ep_lbaPartitionsCount' \in Nat,
           ep_chsPartitionsCount' + ep_lbaPartitionsCount' = ep_chsPartitionsCount + ep_lbaPartitionsCount + 1
    PROVE  EpInv'
<1> USE DEF C!PTYPE_EXTENDED_CHS, C!PTYPE_EXTENDED_LBA
<1>1. /\ UNCHANGED <<ep_op, ep_original, ep_blind>> /\ ep_at' = "scan" /\ ep_extendedPartition' = n + 1
      /\ n \in Nat /\ n < Len(ep_disk) /\ n + 1 \in 1..Len(ep_disk) /\ Len(ep_disk) \in Nat
      /\ ep_disk \in Seq(EpTable) /\ ep_original \in Seq(EpTable) /\ Len(ep_disk) = Len(ep_original)
      /\ ep_mbrBuffer \in EpTable /\ ep_mbrBuffer.type = code
  BY DEF C!ScanAndFix, C!command, EpInv, EpTypeInv
<1>2. /\ ep_op = asked => ep_mbrBuffer' = [ep_mbrBuffer EXCEPT !.type = becomes]
      /\ ep_op # asked => ep_mbrBuffer' = ep_mbrBuffer
  BY DEF C!ScanAndFix
<1>3. ep_mbrBuffer' \in EpTable /\ ep_mbrBuffer'.rest = ep_mbrBuffer.rest
      /\ ep_mbrBuffer'.type = IF ep_op = asked THEN becomes ELSE code
  BY <1>1, <1>2 DEF EpTable
<1>4. \/ ep_op = asked /\ ep_disk' = [ep_disk EXCEPT ![n + 1] = ep_mbrBuffer'] /\ ep_errors' = ep_errors
      \/ ep_op = asked /\ ep_disk' = ep_disk /\ ep_errors' = ep_errors + 1 /\ ep_errors < EpMaxErrors
      \/ ep_op # asked /\ ep_disk' = ep_disk /\ ep_errors' = ep_errors
  BY DEF C!ScanAndFix, C!WriteTable
<1>a. [ep_disk EXCEPT ![n + 1] = ep_mbrBuffer'] \in Seq(EpTable)
  BY <1>1, <1>3
<1>5. /\ ep_disk' \in Seq(EpTable) /\ Len(ep_disk') = Len(ep_disk)
      /\ \A i \in 1..Len(ep_disk) : i # n + 1 => ep_disk'[i] = ep_disk[i]
      /\ ep_disk' # ep_disk => ep_disk'[n + 1] = ep_mbrBuffer'
      /\ ep_op = asked /\ ep_errors' = ep_errors => ep_disk'[n + 1] = ep_mbrBuffer'
  <2>1. CASE ep_op = asked /\ ep_disk' = [ep_disk EXCEPT ![n + 1] = ep_mbrBuffer']
    BY <1>1, <1>a, <2>1
  <2>2. CASE ep_disk' = ep_disk /\ (ep_op = asked => ep_errors' = ep_errors + 1)
    BY <1>1, <2>2 DEF EpInv, EpTypeInv
  <2> QED
    BY <1>4, <2>1, <2>2
<1>6. EpTypeInv'
  <2>1. ep_errors' \in 0..EpMaxErrors /\ (ep_errors' = 0 => ep_errors = 0)
    BY <1>4, EptcftAssumption DEF EpInv, EpTypeInv
  <2>2. ep_blind' \in BOOLEAN /\ (ep_errors' = 0 => ~ep_blind')
    BY <1>1, <2>1 DEF EpInv, EpTypeInv
  <2>3. /\ ep_extendedPartition' \in 0..Len(ep_disk') /\ Len(ep_disk') = Len(ep_original')
        /\ ep_chsPartitionsCount' + ep_lbaPartitionsCount' = ep_extendedPartition'
    <3>1. n + 1 \in 0..Len(ep_disk) /\ ep_chsPartitionsCount + ep_lbaPartitionsCount = n
      BY <1>1 DEF EpInv, EpTypeInv
    <3> QED
      BY <1>1, <1>5, <3>1
  <2>4. ep_op' \in {"fix", "unfix", "scan"} /\ ep_original' \in Seq(EpTable)
    BY <1>1 DEF EpInv, EpTypeInv
  <2> QED
    BY <1>1, <1>3, <1>5, <2>1, <2>2, <2>3, <2>4 DEF EpTypeInv
<1>7. EpWanted' = EpWanted /\ (ep_op # "scan" => (ep_op = asked /\ becomes = EpWanted) \/ (ep_op # asked /\ code = EpWanted))
  BY <1>1 DEF EpWanted, EpInv, EpTypeInv
<1>8. ep_errors' = 0 => ep_errors = 0
  BY <1>4 DEF EpInv, EpTypeInv
<1>9. EpBufferInv'
  <2>1. \A i \in n + 2..Len(ep_disk') : ep_disk'[i] = ep_original'[i]
    BY <1>1, <1>5 DEF EpInv, EpBufferInv
  <2>2. ep_op # "scan" => ep_mbrBuffer'.type = EpWanted
    BY <1>3, <1>7
  <2> QED
    BY <1>1, <1>7, <2>1, <2>2 DEF EpBufferInv
<1>10. ep_disk[n + 1] = ep_original[n + 1] /\ ep_original[n + 1] \in EpTable
  BY <1>1 DEF EpInv, EpBufferInv
<1>11. ~ep_blind => \A i \in 1..n + 1 : EpKept(i)'
  <2>1. ASSUME ~ep_blind, NEW i \in 1..n PROVE EpKept(i)'
    <3>1. i \in 1..Len(ep_disk) /\ i # n + 1
      BY <1>1
    <3>2. ep_disk'[i] = ep_disk[i] /\ ep_original' = ep_original /\ ep_op' = ep_op
      BY <1>1, <1>5, <3>1
    <3>3. EpKept(i)
      BY <2>1 DEF EpInv, EpDoneInv
    <3> QED
      BY <3>2, <3>3 DEF EpKept
  <2>2. ASSUME ~ep_blind PROVE EpKept(n + 1)'
    <3>1. CASE ep_disk' = ep_disk
      BY <1>1, <1>10, <3>1 DEF EpKept
    <3>2. CASE ep_disk' # ep_disk
      <4>1. ep_op = asked /\ ep_disk'[n + 1] = ep_mbrBuffer' /\ ep_op # "scan" /\ code # EpWanted
        BY <1>4, <1>5, <3>2 DEF EpWanted
      <4>2. ep_mbrBuffer = ep_disk[n + 1]
        BY <1>1, <2>2, <4>1 DEF EpInv, EpBufferInv
      <4>3. /\ ep_disk'[n + 1].rest = ep_original'[n + 1].rest
            /\ ep_disk'[n + 1].type = becomes /\ ep_original'[n + 1].type = code
        BY <1>1, <1>3, <1>10, <4>1, <4>2
      <4>4. {becomes, code} = C!Extended
        BY DEF C!Extended
      <4> QED
        BY <1>1, <4>1, <4>3, <4>4 DEF EpKept
    <3> QED
      BY <3>1, <3>2
  <2> QED
    BY <1>1, <2>1, <2>2
<1>12. ep_errors' = 0 =>
         \A i \in 1..n + 1 :
            /\ ep_original'[i].type \in C!Extended /\ ep_disk'[i].type \in C!Extended
            /\ ep_op' # "scan" => ep_disk'[i].type = EpWanted'
  <2>1. ASSUME ep_errors' = 0, NEW i \in 1..n
        PROVE  /\ ep_original'[i].type \in C!Extended /\ ep_disk'[i].type \in C!Extended
               /\ ep_op' # "scan" => ep_disk'[i].type = EpWanted'
    BY <1>1, <1>5, <1>7, <1>8, <2>1 DEF EpInv, EpDoneInv
  <2>2. ASSUME ep_errors' = 0
        PROVE  /\ ep_original'[n + 1].type \in C!Extended /\ ep_disk'[n + 1].type \in C!Extended
               /\ ep_op' # "scan" => ep_disk'[n + 1].type = EpWanted'
    <3>1. ep_mbrBuffer = ep_disk[n + 1] /\ ep_errors = 0
      BY <1>8, <2>2 DEF EpInv, EpBufferInv
    <3>2. ep_original'[n + 1].type = code
      BY <1>1, <1>10, <3>1
    <3>3. code \in C!Extended /\ becomes \in C!Extended
      BY DEF C!Extended
    <3>4. ep_disk'[n + 1].type = IF ep_op = asked THEN becomes ELSE code
      <4>1. CASE ep_op = asked
        BY <1>3, <1>4, <1>5, <2>2, <3>1, <4>1
      <4>2. CASE ep_op # asked
        BY <1>1, <1>4, <3>1, <4>2
      <4> QED
        BY <4>1, <4>2
    <3> QED
      BY <1>1, <1>7, <3>2, <3>3, <3>4
  <2> QED
    BY <1>1, <2>1, <2>2
<1>13. EpDoneInv'
  <2>1. ep_extendedPartition' = n + 1 /\ ep_at' # "end" /\ ep_blind' = ep_blind
    BY <1>1
  <2>2. ~ep_blind' => \A i \in 1..ep_extendedPartition' : EpKept(i)'
    BY <1>11, <2>1
  <2>3. ep_errors' = 0 =>
          \A i \in 1..ep_extendedPartition' :
              /\ ep_original'[i].type \in C!Extended /\ ep_disk'[i].type \in C!Extended
              /\ ep_op' # "scan" => ep_disk'[i].type = EpWanted'
    BY <1>12, <2>1
  <2>4. EpDoneInv' <=>
         /\ ~ep_blind' => \A i \in 1..ep_extendedPartition' : EpKept(i)'
         /\ ep_errors' = 0 =>
              /\ \A i \in 1..ep_extendedPartition' :
                   /\ ep_original'[i].type \in C!Extended /\ ep_disk'[i].type \in C!Extended
                   /\ ep_op' # "scan" => ep_disk'[i].type = EpWanted'
              /\ ep_at' = "end" /\ ep_extendedPartition' > 0 =>
                   \/ ep_extendedPartition' = Len(ep_disk')
                   \/ ep_original'[ep_extendedPartition' + 1].type \notin C!Extended
    BY DEF EpDoneInv, EpKept
  <2> QED
    BY <2>1, <2>2, <2>3, <2>4
<1> QED
  BY <1>6, <1>9, <1>13 DEF EpInv

\* Every step of EPTCFT keeps its invariant.
LEMMA EptcftStep == EpInv /\ [C!Next]_(C!vars) => EpInv'
<1> SUFFICES ASSUME EpInv, [C!Next]_(C!vars) PROVE EpInv'
  OBVIOUS
<1> USE DEF C!command, C!counts
<1>1. CASE C!ProcessParameters
  BY <1>1 DEF C!ProcessParameters, EpInv, EpTypeInv, EpBufferInv, EpDoneInv, EpKept, EpWanted
<1>2. CASE C!ReadTable
  <2>1. /\ ep_at = "scan" /\ UNCHANGED <<ep_disk, ep_op, ep_original, ep_extendedPartition, ep_chsPartitionsCount,
                                        ep_lbaPartitionsCount>>
        /\ EpWanted' = EpWanted
    BY <1>2 DEF C!ReadTable, EpWanted
  <2>2. CASE ~C!F_GPART(ep_extendedPartition)
    <3>1. ep_at' = "end" /\ UNCHANGED <<ep_mbrBuffer, ep_errors, ep_blind>>
      BY <1>2, <2>2 DEF C!ReadTable
    <3>2. ep_errors = 0 => ep_extendedPartition = Len(ep_disk)
      BY <2>2 DEF C!F_GPART, EpInv, EpTypeInv, EpDoneInv
    <3>3. EpTypeInv'
      BY <2>1, <3>1 DEF EpInv, EpTypeInv
    <3>4. EpBufferInv'
      BY <2>1, <3>1 DEF EpInv, EpBufferInv
    <3>5. EpDoneInv'
      BY <2>1, <3>1, <3>2 DEF EpInv, EpDoneInv, EpKept
    <3> QED
      BY <3>3, <3>4, <3>5 DEF EpInv
  <2>3. CASE C!F_GPART(ep_extendedPartition)
    <3>1. ep_at' = "table" /\ ep_extendedPartition < Len(ep_disk)
      BY <1>2, <2>3 DEF C!ReadTable, C!F_GPART
    <3>2. CASE ep_mbrBuffer' = ep_disk[ep_extendedPartition + 1] /\ UNCHANGED <<ep_errors, ep_blind>>
      <4>1. ep_mbrBuffer' \in EpTable
        BY <3>1, <3>2 DEF EpInv, EpTypeInv
      <4>2. EpTypeInv'
        BY <2>1, <3>1, <3>2, <4>1 DEF EpInv, EpTypeInv
      <4>3. EpBufferInv'
        BY <2>1, <3>1, <3>2 DEF EpInv, EpBufferInv
      <4>4. EpDoneInv'
        BY <2>1, <3>1, <3>2 DEF EpInv, EpDoneInv, EpKept
      <4> QED
        BY <4>2, <4>3, <4>4 DEF EpInv
    <3>3. CASE /\ ep_errors < EpMaxErrors /\ ep_errors' = ep_errors + 1
               /\ ep_blind' = (ep_blind \/ ep_extendedPartition = 0)
               /\ UNCHANGED ep_mbrBuffer
      <4>a. ep_errors' \in 0..EpMaxErrors /\ ep_errors' # 0
        BY <3>3, EptcftAssumption DEF EpInv, EpTypeInv
      <4>b. ep_blind' \in BOOLEAN
        BY <3>3
      <4>1. EpTypeInv'
        <5>1. ep_errors' = 0 => ~ep_blind'
          BY <4>a
        <5>2. UNCHANGED ep_mbrBuffer /\ ep_at' = "table" /\ ep_extendedPartition' < Len(ep_disk')
          BY <2>1, <3>1, <3>3
        <5> QED
          BY <2>1, <4>a, <4>b, <5>1, <5>2 DEF EpInv, EpTypeInv
      <4>2. ep_errors' # 0 /\ (~ep_blind' => ~ep_blind /\ ep_extendedPartition > 0)
        <5>1. ~ep_blind' => ~ep_blind /\ ep_extendedPartition # 0
          BY <3>3
        <5>2. ep_extendedPartition \in Nat
          BY EpTables DEF EpInv
        <5> QED
          BY <4>a, <5>1, <5>2
      <4>3. EpBufferInv'
        BY <2>1, <3>1, <3>3, <4>2 DEF EpInv, EpBufferInv
      <4>4. EpDoneInv'
        BY <2>1, <3>1, <3>3, <4>2 DEF EpInv, EpDoneInv, EpKept
      <4> QED
        BY <4>1, <4>3, <4>4 DEF EpInv
    <3> QED
      BY <1>2, <2>3, <3>2, <3>3 DEF C!ReadTable
  <2> QED
    BY <2>2, <2>3
<1>3. CASE C!FixTable
  <2>1. ep_at = "table" /\ C!ScanAndFix(C!PTYPE_EXTENDED_CHS, "fix", C!PTYPE_EXTENDED_LBA)
    BY <1>3 DEF C!FixTable, C!ScanAndFix
  <2>2. /\ ep_chsPartitionsCount' \in Nat /\ ep_lbaPartitionsCount' \in Nat
        /\ ep_chsPartitionsCount' + ep_lbaPartitionsCount' = ep_chsPartitionsCount + ep_lbaPartitionsCount + 1
    BY <1>3 DEF C!FixTable, EpInv, EpTypeInv
  <2> QED
    BY <2>1, <2>2, TableDone
<1>4. CASE C!UnfixTable
  <2>1. ep_at = "table" /\ C!ScanAndFix(C!PTYPE_EXTENDED_LBA, "unfix", C!PTYPE_EXTENDED_CHS)
    BY <1>4 DEF C!UnfixTable, C!ScanAndFix
  <2>2. /\ ep_chsPartitionsCount' \in Nat /\ ep_lbaPartitionsCount' \in Nat
        /\ ep_chsPartitionsCount' + ep_lbaPartitionsCount' = ep_chsPartitionsCount + ep_lbaPartitionsCount + 1
    BY <1>4 DEF C!UnfixTable, EpInv, EpTypeInv
  <2> QED
    BY <2>1, <2>2, TableDone
<1>5. CASE C!LastTable
  <2>1. /\ ep_at = "table" /\ ep_at' = "end" /\ ep_mbrBuffer.type \notin C!Extended
        /\ UNCHANGED <<ep_disk, ep_op, ep_original, ep_mbrBuffer, ep_extendedPartition, ep_chsPartitionsCount,
                       ep_lbaPartitionsCount, ep_errors, ep_blind>>
        /\ EpWanted' = EpWanted
    BY <1>5 DEF C!LastTable, EpWanted
  <2>2. ep_errors = 0 => ep_original[ep_extendedPartition + 1].type \notin C!Extended
    BY <2>1 DEF EpInv, EpTypeInv, EpBufferInv
  <2>3. EpTypeInv'
    BY <2>1 DEF EpInv, EpTypeInv
  <2>4. EpBufferInv'
    BY <2>1 DEF EpInv, EpBufferInv
  <2>5. EpDoneInv'
    BY <2>1, <2>2 DEF EpInv, EpDoneInv, EpKept
  <2> QED
    BY <2>3, <2>4, <2>5 DEF EpInv
<1>6. CASE C!Ended \/ UNCHANGED C!vars
  <2>1. /\ UNCHANGED <<ep_disk, ep_original, ep_mbrBuffer, ep_op, ep_at, ep_extendedPartition,
                       ep_chsPartitionsCount, ep_lbaPartitionsCount, ep_errors, ep_blind>>
        /\ EpWanted' = EpWanted
    BY <1>6 DEF C!Ended, C!vars, C!command, C!counts, EpWanted
  <2>2. EpTypeInv'
    BY <2>1 DEF EpInv, EpTypeInv
  <2>3. EpBufferInv'
    BY <2>1 DEF EpInv, EpBufferInv
  <2>4. EpDoneInv'
    BY <2>1 DEF EpInv, EpDoneInv, EpKept
  <2> QED
    BY <2>2, <2>3, <2>4 DEF EpInv
<1> QED
  BY <1>1, <1>2, <1>3, <1>4, <1>5, <1>6 DEF C!Next

\* The numbers up to the first that is not in a set.
LEMMA ChainOf ==
    ASSUME NEW L \in Nat, NEW n \in 0..L, NEW T, 1..n \subseteq T, n = L \/ n + 1 \notin T
    PROVE  {i \in 1..L : \A j \in 1..i : j \in T} = 1..n
<1>1. ASSUME NEW i \in 1..L, \A j \in 1..i : j \in T PROVE i \in 1..n
  <2>1. n + 1 \in 1..i \/ i \in 1..n
    OBVIOUS
  <2>2. n + 1 \in T => n = L
    OBVIOUS
  <2> QED
    BY <1>1, <2>1, <2>2
<1>2. ASSUME NEW i \in 1..n, NEW j \in 1..i PROVE i \in 1..L /\ j \in T
  BY <1>2
<1> QED
  BY <1>1, <1>2

\* The invariant of EPTCFT is enough.
LEMMA EptcftSafe == EpInv => C!OnlyTypesFixed /\ C!TypeOK
<1> SUFFICES ASSUME EpInv PROVE C!OnlyTypesFixed /\ C!TypeOK
  OBVIOUS
<1>1. C!TypeOK
  BY DEF EpInv, EpTypeInv, C!TypeOK
<1>2. ASSUME ~ep_blind, NEW i \in DOMAIN ep_disk PROVE EpKept(i)
  <2>1. i \in 1..ep_extendedPartition \/ i \in ep_extendedPartition + 1..Len(ep_disk)
    BY DEF EpInv, EpTypeInv
  <2> QED
    BY <1>2, <2>1 DEF EpInv, EpBufferInv, EpDoneInv, EpKept
<1>3. ASSUME ep_at = "end", ep_errors = 0, ep_extendedPartition > 0
      PROVE  LET wrong == IF ep_op = "fix" THEN C!PTYPE_EXTENDED_CHS ELSE C!PTYPE_EXTENDED_LBA
                 chain == {i \in DOMAIN ep_disk : \A j \in 1..i : ep_original[j].type \in C!Extended}
             IN /\ ep_op # "scan" => \A i \in chain : ep_disk[i].type # wrong
                /\ ep_chsPartitionsCount + ep_lbaPartitionsCount = C!Cardinality(chain)
  <2> DEFINE wrong == IF ep_op = "fix" THEN C!PTYPE_EXTENDED_CHS ELSE C!PTYPE_EXTENDED_LBA
             chain == {i \in DOMAIN ep_disk : \A j \in 1..i : ep_original[j].type \in C!Extended}
  <2>1. PICK n \in Nat, L \in Nat :
          n = ep_extendedPartition /\ L = Len(ep_disk) /\ n <= L /\ DOMAIN ep_disk = 1..L
    BY EpTables DEF EpInv
  <2>2. /\ \A i \in 1..n : ep_original[i].type \in C!Extended
        /\ n = L \/ ep_original[n + 1].type \notin C!Extended
    BY <1>3, <2>1 DEF EpInv, EpDoneInv
  <2>3. chain = 1..n
    <3> DEFINE T == {j \in 1..L : ep_original[j].type \in C!Extended}
    <3>1. n \in 0..L /\ 1..n \subseteq T /\ (n = L \/ n + 1 \notin T)
      <4>1. n \in 0..L /\ 1..n \subseteq 1..L
        BY <2>1
      <4> QED
        BY <2>2, <4>1
    <3>2. chain = {i \in 1..L : \A j \in 1..i : j \in T}
      <4>1. \A i \in 1..L : \A j \in 1..i : j \in 1..L
        OBVIOUS
      <4> QED
        BY <2>1, <4>1
    <3> HIDE DEF T, chain
    <3> QED
      BY <3>1, <3>2, ChainOf
  <2>a. Cardinality(1..n) = n
    BY FS_Interval
  <2>4. ep_op # "scan" => \A i \in 1..ep_extendedPartition : ep_disk[i].type # wrong
    BY <1>3 DEF EpInv, EpDoneInv, EpWanted, C!PTYPE_EXTENDED_CHS, C!PTYPE_EXTENDED_LBA
  <2>5. ep_chsPartitionsCount + ep_lbaPartitionsCount = ep_extendedPartition
    BY DEF EpInv, EpTypeInv
  <2> QED
    BY <2>1, <2>3, <2>a, <2>4, <2>5, SameCardinality
<1> QED
  BY <1>1, <1>2, <1>3 DEF C!OnlyTypesFixed, EpKept

----------------------------------------------------------------------------
(* The first screens of FDISK. *)

\* The drivers that are offered are some of the system's, by induction over the loop.
LEMMA DriversOffered ==
    ASSUME NEW S, fs_system \in Seq(S)
    PROVE  F!GetDriversInformation \in Seq(S)
<1> DEFINE n == IF Len(fs_system) < MAX_MANAGED_DRIVERS THEN Len(fs_system) ELSE MAX_MANAGED_DRIVERS
           Up(f, k) == IF k = 0 THEN <<>>
                       ELSE IF fs_system[k].nextor THEN Append(f[k - 1], fs_system[k]) ELSE f[k - 1]
           Built(f, m) == f = [k \in 0..m |-> Up(f, k)]
           Bad == {m \in Nat : ~\E f : Built(f, m)}
           found == CHOOSE f : Built(f, n)
           Wrong == {m \in 0..n : found[m] \notin Seq(S)}
<1>1. n \in Nat /\ n <= Len(fs_system)
  BY FdevAssumption DEF F!DevicesAssumption
<1> HIDE DEF n
<1>2. Bad = {}
  <2> SUFFICES ASSUME Bad # {} PROVE FALSE
    OBVIOUS
  <2>1. PICK m \in Bad : \A k \in Bad : m <= k
    BY LeastNatural
  <2>2. m \in Nat /\ ~\E f : Built(f, m)
    <3> HIDE DEF Built
    <3> QED
      OBVIOUS
  <2>3. CASE m = 0
    <3>1. Built([k \in 0..0 |-> <<>>], 0)
      OBVIOUS
    <3> QED
      BY <2>2, <2>3, <3>1
  <2>4. CASE m # 0
    <3>1. m - 1 \in Nat /\ m - 1 \notin Bad
      <4> HIDE DEF Bad
      <4> QED
        BY <2>1, <2>2, <2>4
    <3>2. PICK f : Built(f, m - 1)
      BY <3>1
    <3> DEFINE g == [k \in 0..m |-> IF k = m THEN Up(f, m) ELSE f[k]]
    <3>3. \A k \in 0..m : g[k] = Up(g, k)
      <4> SUFFICES ASSUME NEW k \in 0..m PROVE g[k] = Up(g, k)
        OBVIOUS
      <4>1. k # 0 => k - 1 \in 0..m /\ g[k - 1] = f[k - 1]
        BY <2>2, <3>1
      <4>2. CASE k = m
        BY <2>2, <3>1, <4>1, <4>2
      <4>3. CASE k # m
        <5>1. k \in 0..m - 1 /\ f[k] = Up(f, k)
          <6>1. k \in 0..m - 1
            BY <2>2, <3>1, <4>3
          <6>2. f = [j \in 0..m - 1 |-> Up(f, j)]
            BY <3>2
          <6> HIDE DEF Up
          <6> QED
            BY <6>1, <6>2
        <5> QED
          BY <3>1, <4>1, <4>3, <5>1
      <4> QED
        BY <4>2, <4>3
    <3>4. Built(g, m)
      BY <3>1, <3>3
    <3> QED
      BY <2>2, <3>4
  <2> QED
    BY <2>3, <2>4
<1>3. Built(found, n)
  BY <1>1, <1>2
<1>4. Wrong = {}
  <2> SUFFICES ASSUME Wrong # {} PROVE FALSE
    OBVIOUS
  <2>1. PICK m \in Wrong : \A k \in Wrong : m <= k
    <3>1. Wrong \in SUBSET Nat
      BY <1>1
    <3> HIDE DEF Wrong
    <3> QED
      BY <3>1, LeastNatural
  <2> HIDE DEF found
  <2>2. found[m] = Up(found, m) /\ m \in 0..n
    <3> HIDE DEF Up
    <3> QED
      BY <1>3
  <2>3. found[m] \notin Seq(S)
    OBVIOUS
  <2>4. CASE m = 0
    <3>1. found[m] = <<>>
      BY <2>2, <2>4
    <3> QED
      BY <3>1, <2>3
  <2>5. CASE m # 0
    <3>1. m - 1 \in 0..n /\ m - 1 \notin Wrong
      <4> HIDE DEF Wrong
      <4> QED
        BY <1>1, <2>1, <2>2, <2>5
    <3>2. found[m - 1] \in Seq(S) /\ fs_system[m] \in S
      BY <1>1, <3>1, <2>2, <2>5
    <3> QED
      BY <2>2, <2>3, <2>5, <3>2
  <2> QED
    BY <2>4, <2>5
<1>5. found[n] \in Seq(S)
  <2> HIDE DEF found
  <2> QED
    BY <1>1, <1>4
<1>6. F!GetDriversInformation = found[n]
  BY DEF F!GetDriversInformation, n
<1> QED
  BY <1>5, <1>6

\* The devices of the selected driver that have a name.
FdThere == {n \in DOMAIN F!driver.devices :
              n <= F!maxDeviceNumber /\ F!driver.devices[n].name # "invalid"}

\* A device of the array, and what the driver must say for it to be selectable.
FdDevice == [deviceNumber : FsNumbers, isValid : BOOLEAN, isOnline : BOOLEAN,
             canCreatePartitions : BOOLEAN, params : SUBSET F!Faults]
\* The array says that the device may be partitioned.
FdSelectable(d) == d.isValid /\ d.isOnline /\ d.params = {}
\* The driver says so.
FdGood(n) == F!Usable(F!Answers(n))

\* The variables have their types, and a driver is selected from the scan on.
FdTypeInv ==
    /\ fs_system \in FsSystems /\ fs_drivers \in Seq(F!Range(fs_system))
    /\ fs_selectedDriver \in 0..Len(fs_drivers)
    /\ fs_screen \in {"start", "drivers", "scan", "devices", "menu", "end"}
    /\ fs_screen = "start" => fs_selectedDriver = 0
    /\ fs_screen \in {"scan", "devices", "menu"} => fs_selectedDriver # 0
    /\ fs_devices \in [F!Indexes -> FdDevice]
    /\ fs_availableDevicesCount \in 0..MAX_DEVICES_PER_DRIVER
    /\ fs_deviceNumber \in FsNumbers /\ fs_wrapped \in BOOLEAN
    /\ fs_currentDevicesPage \in F!Indexes /\ fs_selectedDevice \in F!Indexes

\* The devices listed are those below the next number, in order.
FdListInv ==
    fs_screen \in {"scan", "devices", "menu"} /\ ~fs_wrapped =>
        /\ \A i \in 0..fs_availableDevicesCount - 1 :
             fs_devices[i].deviceNumber \in FdThere /\ fs_devices[i].deviceNumber < fs_deviceNumber
        /\ \A i, j \in 0..fs_availableDevicesCount - 1 :
             i < j => fs_devices[i].deviceNumber < fs_devices[j].deviceNumber
        /\ \A m \in FdThere : m < fs_deviceNumber =>
             \E j \in 0..fs_availableDevicesCount - 1 : fs_devices[j].deviceNumber = m
        /\ fs_screen # "scan" =>
             fs_availableDevicesCount = MAX_DEVICES_PER_DRIVER \/ fs_deviceNumber > F!maxDeviceNumber

\* A device that was listed is taken for one until it is asked.
FdFoundInv ==
    fs_screen = "scan" => \A i \in 0..fs_availableDevicesCount - 1 : fs_devices[i].isValid

\* The array says what the driver answers, a page shows as selectable what is, and the
\* selected one is on the page.
FdShownInv ==
    fs_screen \in {"devices", "menu"} =>
        /\ \A i \in 0..fs_availableDevicesCount - 1 : F!AsAnswered(fs_devices[i])
        /\ \A i \in 0..fs_availableDevicesCount - 1 :
             i \div DEVICES_PER_PAGE = fs_currentDevicesPage =>
             fs_devices[i].canCreatePartitions = FdSelectable(fs_devices[i])
        /\ fs_screen = "menu" =>
             /\ fs_selectedDevice \in 0..fs_availableDevicesCount - 1
             /\ fs_selectedDevice \div DEVICES_PER_PAGE = fs_currentDevicesPage
             /\ fs_devices[fs_selectedDevice].canCreatePartitions

\* The invariant of the choice of a device.
FdevInv == FdTypeInv /\ FdListInv /\ FdFoundInv /\ FdShownInv

\* What the array says is enough to tell which device is usable.
LEMMA FdUsable ==
    ASSUME NEW d \in FdDevice, F!IsDriver(F!driver), F!AsAnswered(d)
    PROVE  FdSelectable(d) = FdGood(d.deviceNumber)
<1> DEFINE a == F!Answers(d.deviceNumber)
<1>1. a.params \in (SUBSET F!Faults) \cup {{"none"}, {"error"}}
  BY DEF F!Answers, F!NotThere, F!IsDriver
<1>2. /\ d.isOnline <=> a.availability # "offline"
      /\ d.isValid <=> a.availability # "error" /\ (a.availability # "offline" => a.params # {"error"})
      /\ d.isValid /\ d.isOnline =>
           d.params = IF a.params = {"none"} THEN {"no size"} ELSE a.params
      /\ d.isValid \in BOOLEAN /\ d.isOnline \in BOOLEAN
  BY DEF F!AsAnswered, FdDevice
<1>3. {"error"} # {} /\ {"none"} # {} /\ {"no size"} # {}
  OBVIOUS
<1> HIDE DEF a
<1>4. FdSelectable(d) <=> (a.params = {} /\ a.availability \notin {"offline", "error"})
  BY <1>2, <1>3 DEF FdSelectable
<1>5. FdSelectable(d) \in BOOLEAN
  BY <1>2 DEF FdSelectable
<1> QED
  BY <1>4, <1>5 DEF FdGood, F!Usable, a

\* An element of the array says the same when it has the same answers.
LEMMA FdSame ==
    ASSUME NEW d, NEW e, e.deviceNumber = d.deviceNumber, e.isValid = d.isValid,
           e.isOnline = d.isOnline, e.params = d.params
    PROVE  /\ F!AsAnswered(e) = F!AsAnswered(d)
           /\ FdSelectable(e) = FdSelectable(d)
  BY DEF F!AsAnswered, FdSelectable

\* The selected driver is one of the system's.
LEMMA FdDriver ==
    ASSUME FdTypeInv, fs_selectedDriver # 0
    PROVE  F!IsDriver(F!driver) /\ F!maxDeviceNumber \in Nat
<1>1. fs_drivers[fs_selectedDriver] \in F!Range(fs_system)
  BY DEF FdTypeInv
<1>2. F!IsDriver(F!driver)
  BY <1>1, FdevAssumption DEF F!DevicesAssumption, FdTypeInv, F!driver
<1>3. DEFAULT_MAX_DEVICE_NUMBER \in Nat
  BY FdevAssumption DEF F!DevicesAssumption
<1> QED
  BY <1>2, <1>3 DEF F!IsDriver, F!maxDeviceNumber

\* What is shown of a page is the devices as they were, some of them marked.
LEMMA FdShownPage ==
    ASSUME NEW ds \in [F!Indexes -> FdDevice], NEW page
    PROVE  /\ F!Shown(ds, page) \in [F!Indexes -> FdDevice]
           /\ \A i \in F!Indexes :
                /\ F!Shown(ds, page)[i].deviceNumber = ds[i].deviceNumber
                /\ F!AsAnswered(F!Shown(ds, page)[i]) = F!AsAnswered(ds[i])
                /\ FdSelectable(F!Shown(ds, page)[i]) = FdSelectable(ds[i])
                /\ i \div DEVICES_PER_PAGE = page /\ i < fs_availableDevicesCount =>
                     F!Shown(ds, page)[i].canCreatePartitions = FdSelectable(ds[i])
<1> DEFINE mark(i) == ds[i].isValid /\ ds[i].isOnline /\ ds[i].params = {}
           on(i) == i \div DEVICES_PER_PAGE = page /\ i < fs_availableDevicesCount
<1>1. ASSUME NEW i \in F!Indexes
      PROVE  /\ [ds[i] EXCEPT !.canCreatePartitions = mark(i)] \in FdDevice
             /\ [ds[i] EXCEPT !.canCreatePartitions = mark(i)].deviceNumber = ds[i].deviceNumber
             /\ [ds[i] EXCEPT !.canCreatePartitions = mark(i)].isValid = ds[i].isValid
             /\ [ds[i] EXCEPT !.canCreatePartitions = mark(i)].isOnline = ds[i].isOnline
             /\ [ds[i] EXCEPT !.canCreatePartitions = mark(i)].params = ds[i].params
             /\ [ds[i] EXCEPT !.canCreatePartitions = mark(i)].canCreatePartitions = mark(i)
  <2>1. ds[i] \in FdDevice /\ mark(i) \in BOOLEAN
    BY DEF FdDevice
  <2> HIDE DEF mark
  <2> QED
    BY <2>1 DEF FdDevice
<1>2. F!Shown(ds, page) =
        [i \in F!Indexes |-> IF on(i) THEN [ds[i] EXCEPT !.canCreatePartitions = mark(i)] ELSE ds[i]]
  BY DEF F!Shown
<1>3. \A i \in F!Indexes : F!Shown(ds, page)[i] =
        IF on(i) THEN [ds[i] EXCEPT !.canCreatePartitions = mark(i)] ELSE ds[i]
  <2> HIDE DEF on, mark
  <2> QED
    BY <1>2
<1>4. F!Shown(ds, page) \in [F!Indexes -> FdDevice]
  <2>1. \A i \in F!Indexes : (IF on(i) THEN [ds[i] EXCEPT !.canCreatePartitions = mark(i)] ELSE ds[i]) \in FdDevice
    <3> HIDE DEF on, mark
    <3> QED
      BY <1>1
  <2> HIDE DEF on, mark
  <2> QED
    BY <1>2, <2>1
<1>5. ASSUME NEW i \in F!Indexes
      PROVE  /\ F!Shown(ds, page)[i].deviceNumber = ds[i].deviceNumber
             /\ F!AsAnswered(F!Shown(ds, page)[i]) = F!AsAnswered(ds[i])
             /\ FdSelectable(F!Shown(ds, page)[i]) = FdSelectable(ds[i])
             /\ on(i) => F!Shown(ds, page)[i].canCreatePartitions = FdSelectable(ds[i])
  <2>1. mark(i) = FdSelectable(ds[i])
    BY DEF FdSelectable
  <2>2. CASE on(i)
    <3> DEFINE e == F!Shown(ds, page)[i]
    <3>1. e = [ds[i] EXCEPT !.canCreatePartitions = mark(i)]
      <4> HIDE DEF on, mark
      <4> QED
        BY <1>3, <2>2, Zenon
    <3>2. /\ e.deviceNumber = ds[i].deviceNumber /\ e.isValid = ds[i].isValid
          /\ e.isOnline = ds[i].isOnline /\ e.params = ds[i].params
          /\ e.canCreatePartitions = mark(i)
      <4> HIDE DEF e, mark
      <4> QED
        BY <1>1, <3>1, Zenon
    <3> HIDE DEF e, on, mark
    <3>3. F!AsAnswered(e) = F!AsAnswered(ds[i]) /\ FdSelectable(e) = FdSelectable(ds[i])
      BY <3>2, FdSame, Zenon
    <3> QED
      BY <2>1, <3>2, <3>3, Zenon DEF e
  <2>3. CASE ~on(i)
    <3> HIDE DEF on, mark
    <3> QED
      BY <1>3, <2>3
  <2> QED
    BY <2>2, <2>3
<1> QED
  BY <1>4, <1>5

\* At first nothing is shown.
LEMMA FdevInit == F!Init => FdevInv
<1> SUFFICES ASSUME F!Init PROVE FdevInv
  OBVIOUS
<1>1. {0, 1} \subseteq FsNumbers /\ 0 \in F!Indexes /\ MAX_DEVICES_PER_DRIVER \in Nat
  BY FdevAssumption DEF F!DevicesAssumption, F!Indexes
<1>2. fs_devices \in [F!Indexes -> FdDevice]
  <2>1. PICK set \in BOOLEAN :
          fs_devices = [i \in F!Indexes |-> [deviceNumber |-> 0, isValid |-> set, isOnline |-> set,
                                             canCreatePartitions |-> set, params |-> {}]]
    BY DEF F!Init
  <2> DEFINE blank == [deviceNumber |-> 0, isValid |-> set, isOnline |-> set,
                       canCreatePartitions |-> set, params |-> {}]
  <2>2. blank \in FdDevice
    BY <1>1 DEF FdDevice
  <2>3. fs_devices = [i \in F!Indexes |-> blank]
    BY <2>1
  <2> HIDE DEF blank
  <2> QED
    BY <2>2, <2>3
<1>3. /\ fs_system \in FsSystems /\ fs_drivers = <<>> /\ fs_selectedDriver = 0 /\ fs_screen = "start"
      /\ fs_availableDevicesCount = 0 /\ fs_deviceNumber = 0 /\ fs_wrapped = FALSE
      /\ fs_currentDevicesPage = 0 /\ fs_selectedDevice = 0
  BY DEF F!Init
<1>4. FdTypeInv
  BY <1>1, <1>2, <1>3 DEF FdTypeInv
<1> QED
  BY <1>3, <1>4 DEF FdevInv, FdListInv, FdFoundInv, FdShownInv

\* The selection of a driver starts its scan.
LEMMA FdevSelects ==
    ASSUME FdevInv,
           F!ShowDriverSelectionScreen \/ \E k \in 1..MAX_MANAGED_DRIVERS : F!GoDeviceSelectionScreen(k)
    PROVE  FdevInv'
<1> USE DEF FdevInv
<1>1. CASE F!ShowDriverSelectionScreen
  <2>1. fs_drivers' \in Seq(F!Range(fs_system)) /\ fs_selectedDriver = 0
    BY <1>1, DriversOffered, FdevAssumption
    DEF F!ShowDriverSelectionScreen, FdTypeInv, F!DevicesAssumption
  <2>2. FdTypeInv'
    BY <1>1, <2>1 DEF F!ShowDriverSelectionScreen, FdTypeInv, F!list
  <2> QED
    BY <1>1, <2>2 DEF F!ShowDriverSelectionScreen, FdListInv, FdFoundInv, FdShownInv
<1>2. ASSUME NEW k \in 1..MAX_MANAGED_DRIVERS, F!GoDeviceSelectionScreen(k) PROVE FdevInv'
  <2>1. {0, 1} \subseteq FsNumbers /\ MAX_DEVICES_PER_DRIVER \in Nat /\ MAX_MANAGED_DRIVERS \in Nat
    BY FdevAssumption DEF F!DevicesAssumption
  <2>2. k \in 1..Len(fs_drivers) /\ k # 0
    BY <1>2, <2>1 DEF F!GoDeviceSelectionScreen
  <2>3. FdTypeInv'
    <3>1. /\ fs_selectedDriver' = k /\ fs_screen' = "scan" /\ fs_availableDevicesCount' = 0
          /\ fs_deviceNumber' = 1 /\ fs_wrapped' = FALSE
          /\ UNCHANGED <<fs_system, fs_drivers, fs_devices, fs_currentDevicesPage, fs_selectedDevice>>
      BY <1>2 DEF F!GoDeviceSelectionScreen
    <3>2. k \in 0..Len(fs_drivers) /\ 0 \in 0..MAX_DEVICES_PER_DRIVER
      BY <2>1, <2>2 DEF FdTypeInv
    <3> QED
      BY <2>1, <2>2, <3>1, <3>2 DEF FdTypeInv
  <2>4. fs_selectedDriver' = k /\ k # 0 /\ FdTypeInv' /\ fs_availableDevicesCount' = 0 /\ fs_deviceNumber' = 1
        /\ fs_screen' = "scan"
    BY <1>2, <2>2, <2>3 DEF F!GoDeviceSelectionScreen
  <2>5. F!IsDriver(F!driver')
    BY <2>4, FdDriver, FdevAssumption, <1>2 DEF FdTypeInv, F!GoDeviceSelectionScreen, F!driver, F!DevicesAssumption
  <2>6. \A m \in FdThere' : m \in Nat /\ m # 0
    BY <2>5 DEF FdThere, F!IsDriver
  <2>7. FdListInv'
    <3>1. \A m \in FdThere' : ~(m < fs_deviceNumber')
      BY <2>4, <2>6
    <3>2. 0..fs_availableDevicesCount' - 1 = {}
      BY <2>4
    <3> QED
      BY <2>4, <3>1, <3>2 DEF FdListInv
  <2>8. FdFoundInv'
    <3>1. 0..fs_availableDevicesCount' - 1 = {}
      BY <2>4
    <3> QED
      BY <3>1 DEF FdFoundInv
  <2> QED
    BY <2>3, <2>4, <2>7, <2>8 DEF FdShownInv
<1> QED
  BY <1>1, <1>2

\* The next number is listed when a device answers to it.
LEMMA FdevLists == ASSUME FdevInv, F!ListDevice PROVE FdevInv'
<1> DEFINE c == fs_availableDevicesCount
           dn == fs_deviceNumber
           named == F!Answers(fs_deviceNumber).name # "invalid"
<1>1. /\ fs_screen = "scan" /\ fs_screen' = "scan" /\ c < MAX_DEVICES_PER_DRIVER /\ dn <= F!maxDeviceNumber
      /\ UNCHANGED <<fs_system, fs_drivers, fs_selectedDriver, fs_currentDevicesPage, fs_selectedDevice>>
      /\ fs_availableDevicesCount' = c + (IF named THEN 1 ELSE 0)
      /\ fs_deviceNumber' = IF dn + 1 \in FsNumbers THEN dn + 1 ELSE 0
      /\ fs_wrapped' = (fs_wrapped \/ fs_deviceNumber' = 0)
  BY DEF F!ListDevice, F!Scanning
<1>2. /\ c \in Nat /\ c \in F!Indexes /\ dn \in Nat /\ dn \in FsNumbers /\ 0 \in FsNumbers
      /\ MAX_DEVICES_PER_DRIVER \in Nat /\ F!IsDriver(F!driver) /\ F!maxDeviceNumber \in Nat
      /\ fs_wrapped \in BOOLEAN /\ fs_devices \in [F!Indexes -> FdDevice]
  BY <1>1, FdDriver, FdevAssumption DEF FdevInv, FdTypeInv, F!DevicesAssumption, F!Indexes
<1>3. /\ fs_devices' \in [F!Indexes -> FdDevice] /\ fs_devices'[c].deviceNumber = dn
      /\ named => fs_devices'[c].isValid
      /\ \A i \in F!Indexes : i # c => fs_devices'[i] = fs_devices[i]
  <2> DEFINE numbered == [fs_devices EXCEPT ![c].deviceNumber = dn]
             valid == fs_devices[c].isValid \/ named
  <2>1. numbered \in [F!Indexes -> FdDevice] /\ numbered[c].deviceNumber = dn
        /\ numbered[c].isValid = fs_devices[c].isValid
        /\ \A i \in F!Indexes : i # c => numbered[i] = fs_devices[i]
    BY <1>2 DEF FdDevice
  <2>2. valid \in BOOLEAN
    BY <1>2 DEF FdDevice
  <2>3. fs_devices' = [numbered EXCEPT ![c].isValid = valid]
    BY <1>2, <2>1 DEF F!ListDevice
  <2>4. named => valid
    OBVIOUS
  <2> HIDE DEF numbered, valid, named
  <2> QED
    BY <1>2, <2>1, <2>2, <2>3, <2>4 DEF FdDevice
<1>4. FdTypeInv'
  <2>1. fs_availableDevicesCount' \in 0..MAX_DEVICES_PER_DRIVER
    BY <1>1, <1>2
  <2>2. fs_deviceNumber' \in FsNumbers /\ fs_wrapped' \in BOOLEAN
    BY <1>1, <1>2
  <2> QED
    BY <1>1, <1>3, <2>1, <2>2 DEF FdevInv, FdTypeInv
<1>5. FdThere' = FdThere
  BY <1>1 DEF FdThere, F!driver, F!maxDeviceNumber
<1>6. named <=> dn \in FdThere
  BY <1>1 DEF FdThere, F!Answers, F!NotThere
<1>7. ASSUME ~fs_wrapped' PROVE
        /\ \A i \in 0..fs_availableDevicesCount' - 1 :
             fs_devices'[i].deviceNumber \in FdThere /\ fs_devices'[i].deviceNumber < fs_deviceNumber'
        /\ \A i, j \in 0..fs_availableDevicesCount' - 1 :
             i < j => fs_devices'[i].deviceNumber < fs_devices'[j].deviceNumber
        /\ \A m \in FdThere : m < fs_deviceNumber' =>
             \E j \in 0..fs_availableDevicesCount' - 1 : fs_devices'[j].deviceNumber = m
  <2>1. ~fs_wrapped /\ fs_deviceNumber' = dn + 1
    BY <1>1, <1>2, <1>7
  <2>2. /\ \A i \in 0..c - 1 : fs_devices[i].deviceNumber \in FdThere /\ fs_devices[i].deviceNumber < dn
        /\ \A i, j \in 0..c - 1 : i < j => fs_devices[i].deviceNumber < fs_devices[j].deviceNumber
        /\ \A m \in FdThere : m < dn => \E j \in 0..c - 1 : fs_devices[j].deviceNumber = m
    BY <1>1, <2>1 DEF FdevInv, FdListInv
  <2>3. \A i \in 0..c - 1 : i \in F!Indexes /\ i # c /\ fs_devices'[i] = fs_devices[i]
    BY <1>2, <1>3 DEF F!Indexes
  <2>4. \A m \in FdThere : m \in Nat
    BY <1>2 DEF FdThere, F!IsDriver
  <2>5. CASE named
    <3>1. fs_availableDevicesCount' = c + 1 /\ dn \in FdThere
      BY <1>1, <1>6, <2>5
    <3>2. \A i \in 0..c : i = c \/ i \in 0..c - 1
      BY <1>2
    <3>3. ASSUME NEW i \in 0..c
          PROVE  fs_devices'[i].deviceNumber \in FdThere /\ fs_devices'[i].deviceNumber < dn + 1
      <4>1. CASE i = c
        BY <1>2, <1>3, <3>1, <4>1
      <4>2. CASE i # c
        <5>1. i \in 0..c - 1 /\ fs_devices'[i] = fs_devices[i]
          BY <1>2, <2>3, <3>2, <4>2
        <5>2. fs_devices[i].deviceNumber \in FdThere /\ fs_devices[i].deviceNumber < dn
              /\ fs_devices[i].deviceNumber \in Nat
          BY <2>2, <2>4, <5>1
        <5> QED
          BY <1>2, <5>1, <5>2
      <4> QED
        BY <4>1, <4>2
    <3>4. ASSUME NEW i \in 0..c, NEW j \in 0..c, i < j
          PROVE  fs_devices'[i].deviceNumber < fs_devices'[j].deviceNumber
      <4>1. i \in 0..c - 1
        BY <1>2, <3>4
      <4> QED
        BY <1>3, <2>2, <2>3, <3>2, <3>4, <4>1
    <3>5. ASSUME NEW m \in FdThere, m < dn + 1
          PROVE  \E j \in 0..c : fs_devices'[j].deviceNumber = m
      <4>1. CASE m = dn
        BY <1>2, <1>3, <4>1
      <4>2. CASE m < dn
        <5>1. PICK j \in 0..c - 1 : fs_devices[j].deviceNumber = m
          BY <2>2, <4>2
        <5>2. j \in 0..c /\ fs_devices'[j].deviceNumber = m
          BY <1>2, <2>3, <5>1
        <5> QED
          BY <5>2
      <4> QED
        BY <1>2, <2>4, <3>5, <4>1, <4>2
    <3>6. 0..fs_availableDevicesCount' - 1 = 0..c
      BY <1>2, <3>1
    <3> QED
      BY <2>1, <3>3, <3>4, <3>5, <3>6
  <2>6. CASE ~named
    <3>1. fs_availableDevicesCount' = c /\ dn \notin FdThere
      BY <1>1, <1>2, <1>6, <2>6
    <3>2. \A m \in FdThere : m < dn + 1 => m < dn
      BY <1>2, <2>4, <3>1
    <3>3. \A i \in 0..c - 1 : fs_devices'[i].deviceNumber \in Nat /\ fs_devices'[i].deviceNumber < dn + 1
      BY <1>2, <2>2, <2>3, <2>4
    <3> QED
      BY <2>1, <2>2, <2>3, <3>1, <3>2, <3>3
  <2> QED
    BY <2>5, <2>6
<1>8. FdListInv'
  BY <1>1, <1>5, <1>7 DEF FdListInv
<1>9. FdShownInv'
  BY <1>1 DEF FdShownInv
<1>10. FdFoundInv'
  <2> SUFFICES ASSUME NEW i \in 0..fs_availableDevicesCount' - 1 PROVE fs_devices'[i].isValid
    BY <1>1 DEF FdFoundInv
  <2>1. CASE i = c
    <3>1. named
      BY <1>1, <1>2, <2>1
    <3> QED
      BY <1>3, <2>1, <3>1
  <2>2. CASE i # c
    <3>1. i \in 0..c - 1 /\ i \in F!Indexes
      BY <1>1, <1>2, <2>2 DEF F!Indexes
    <3> QED
      BY <1>1, <1>3, <2>2, <3>1 DEF FdevInv, FdFoundInv
  <2> QED
    BY <2>1, <2>2
<1> QED
  BY <1>4, <1>8, <1>9, <1>10 DEF FdevInv

\* What Asked makes of the answers to it.
LEMMA FdAsked ==
    ASSUME NEW d \in FdDevice, F!IsDriver(F!driver)
    PROVE  /\ F!Asked(d) \in FdDevice /\ F!Asked(d).deviceNumber = d.deviceNumber
           /\ d.isValid => F!AsAnswered(F!Asked(d))
<1> DEFINE a == F!Answers(d.deviceNumber)
           valid == d.isValid /\ a.availability # "error"
           online == a.availability # "offline"
           ask == valid /\ online
           known == valid /\ (ask => a.params # {"error"})
           ps == IF ~ask \/ a.params = {"error"} THEN d.params
                 ELSE IF a.params = {"none"} THEN {"no size"} ELSE a.params
<1>1. F!Asked(d) = [d EXCEPT !.isOnline = online, !.isValid = known, !.params = ps]
  BY DEF F!Asked, FdDevice
<1>2. a.params \in (SUBSET F!Faults) \cup {{"none"}, {"error"}}
  BY DEF F!Answers, F!NotThere, F!IsDriver
<1>3. ps \in SUBSET F!Faults
  BY <1>2 DEF FdDevice, F!Faults
<1>4. online \in BOOLEAN /\ known \in BOOLEAN
  BY DEF FdDevice
<1>5. /\ online <=> a.availability # "offline"
      /\ d.isValid => (known <=> /\ a.availability # "error"
                                 /\ a.availability # "offline" => a.params # {"error"})
      /\ known /\ online => ps = IF a.params = {"none"} THEN {"no size"} ELSE a.params
  OBVIOUS
<1> HIDE DEF online, known, ps
<1>6. /\ F!Asked(d) \in FdDevice /\ F!Asked(d).deviceNumber = d.deviceNumber
      /\ F!Asked(d).isOnline = online /\ F!Asked(d).isValid = known /\ F!Asked(d).params = ps
  BY <1>1, <1>3, <1>4 DEF FdDevice
<1> QED
  BY <1>5, <1>6 DEF F!AsAnswered

\* The invariant when a page is shown of an array with the numbers of the list.
LEMMA FdevShows ==
    ASSUME FdevInv, NEW ds \in [F!Indexes -> FdDevice], NEW page \in F!Indexes,
           fs_screen \in {"scan", "devices", "menu"},
           fs_devices' = F!Shown(ds, page), fs_currentDevicesPage' = page,
           fs_screen' \in {"drivers", "devices"},
           UNCHANGED <<fs_system, fs_drivers, fs_selectedDriver, fs_availableDevicesCount, fs_deviceNumber,
                       fs_wrapped, fs_selectedDevice>>,
           \A i \in F!Indexes : ds[i].deviceNumber = fs_devices[i].deviceNumber,
           \A i \in 0..fs_availableDevicesCount - 1 : F!AsAnswered(ds[i]),
           fs_screen = "scan" =>
               fs_availableDevicesCount >= MAX_DEVICES_PER_DRIVER \/ fs_deviceNumber > F!maxDeviceNumber
    PROVE  FdevInv'
<1>1. /\ fs_devices' \in [F!Indexes -> FdDevice]
      /\ \A i \in F!Indexes :
           /\ fs_devices'[i].deviceNumber = fs_devices[i].deviceNumber
           /\ F!AsAnswered(fs_devices'[i]) = F!AsAnswered(ds[i])
           /\ FdSelectable(fs_devices'[i]) = FdSelectable(ds[i])
           /\ i \div DEVICES_PER_PAGE = page /\ i < fs_availableDevicesCount =>
                fs_devices'[i].canCreatePartitions = FdSelectable(ds[i])
  BY FdShownPage
<1>2. /\ MAX_DEVICES_PER_DRIVER \in Nat /\ fs_availableDevicesCount \in 0..MAX_DEVICES_PER_DRIVER
      /\ \A i \in 0..fs_availableDevicesCount - 1 : i \in F!Indexes /\ i < fs_availableDevicesCount
  BY FdevAssumption DEF FdevInv, FdTypeInv, F!DevicesAssumption, F!Indexes
<1>3. FdTypeInv'
  BY <1>1 DEF FdevInv, FdTypeInv
<1>4. FdListInv'
  <2>1. FdThere' = FdThere /\ F!maxDeviceNumber' = F!maxDeviceNumber
    BY DEF FdThere, F!driver, F!maxDeviceNumber
  <2>2. CASE fs_wrapped'
    BY <2>2 DEF FdListInv
  <2>3. CASE ~fs_wrapped'
    <3>1. /\ \A i \in 0..fs_availableDevicesCount - 1 :
               fs_devices[i].deviceNumber \in FdThere /\ fs_devices[i].deviceNumber < fs_deviceNumber
          /\ \A i, j \in 0..fs_availableDevicesCount - 1 :
               i < j => fs_devices[i].deviceNumber < fs_devices[j].deviceNumber
          /\ \A m \in FdThere : m < fs_deviceNumber =>
               \E j \in 0..fs_availableDevicesCount - 1 : fs_devices[j].deviceNumber = m
          /\ fs_screen # "scan" =>
               fs_availableDevicesCount = MAX_DEVICES_PER_DRIVER \/ fs_deviceNumber > F!maxDeviceNumber
      BY <2>3 DEF FdevInv, FdListInv
    <3>2. fs_availableDevicesCount = MAX_DEVICES_PER_DRIVER \/ fs_deviceNumber > F!maxDeviceNumber
      BY <1>2, <3>1
    <3>3. \A i \in 0..fs_availableDevicesCount - 1 : fs_devices'[i].deviceNumber = fs_devices[i].deviceNumber
      BY <1>1, <1>2
    <3>4. fs_availableDevicesCount' = fs_availableDevicesCount /\ fs_deviceNumber' = fs_deviceNumber
      OBVIOUS
    <3> QED
      BY <2>1, <3>1, <3>2, <3>3, <3>4 DEF FdListInv
  <2> QED
    BY <2>2, <2>3
<1>5. FdShownInv'
  <2>1. ASSUME NEW i \in 0..fs_availableDevicesCount - 1 PROVE F!AsAnswered(fs_devices[i])'
    <3>1. F!AsAnswered(fs_devices'[i])
      BY <1>1, <1>2
    <3> QED
      BY <3>1 DEF F!AsAnswered, F!Answers, F!driver
  <2>2. ASSUME NEW i \in 0..fs_availableDevicesCount - 1, i \div DEVICES_PER_PAGE = page
        PROVE  fs_devices'[i].canCreatePartitions = FdSelectable(fs_devices[i])'
    BY <1>1, <1>2, <2>2 DEF FdSelectable
  <2>3. fs_screen' # "menu" /\ fs_availableDevicesCount' = fs_availableDevicesCount
    OBVIOUS
  <2> QED
    BY <2>1, <2>2, <2>3 DEF FdShownInv
<1>6. FdFoundInv'
  BY DEF FdFoundInv
<1> QED
  BY <1>3, <1>4, <1>5, <1>6 DEF FdevInv

\* The scan ends, a page is turned or shown again.
LEMMA FdevPages ==
    ASSUME FdevInv, F!GetDevicesInformation \/ (\E page \in F!Indexes : F!TurnPage(page)) \/ F!LeaveMenu
    PROVE  FdevInv'
<1>1. /\ fs_devices \in [F!Indexes -> FdDevice] /\ fs_currentDevicesPage \in F!Indexes /\ 0 \in F!Indexes
      /\ MAX_DEVICES_PER_DRIVER \in Nat /\ fs_availableDevicesCount \in 0..MAX_DEVICES_PER_DRIVER
      /\ fs_deviceNumber \in Nat
      /\ \A i \in 0..fs_availableDevicesCount - 1 : i \in F!Indexes /\ i < fs_availableDevicesCount
  BY FdevAssumption DEF FdevInv, FdTypeInv, F!DevicesAssumption, F!Indexes
<1>2. CASE F!GetDevicesInformation
  <2> DEFINE ds == [i \in F!Indexes |-> IF i < fs_availableDevicesCount THEN F!Asked(fs_devices[i])
                                        ELSE fs_devices[i]]
  <2>1. fs_screen = "scan" /\ F!IsDriver(F!driver) /\ F!maxDeviceNumber \in Nat
    BY <1>2, FdDriver DEF F!GetDevicesInformation, FdevInv, FdTypeInv
  <2>2. \A i \in F!Indexes : /\ F!Asked(fs_devices[i]) \in FdDevice
                             /\ F!Asked(fs_devices[i]).deviceNumber = fs_devices[i].deviceNumber
                             /\ fs_devices[i].isValid => F!AsAnswered(F!Asked(fs_devices[i]))
    <3> SUFFICES ASSUME NEW i \in F!Indexes
                 PROVE  /\ F!Asked(fs_devices[i]) \in FdDevice
                        /\ F!Asked(fs_devices[i]).deviceNumber = fs_devices[i].deviceNumber
                        /\ fs_devices[i].isValid => F!AsAnswered(F!Asked(fs_devices[i]))
      OBVIOUS
    <3>1. fs_devices[i] \in FdDevice
      BY <1>1
    <3> QED
      BY <2>1, <3>1, FdAsked
  <2>3. ds \in [F!Indexes -> FdDevice] /\ \A i \in F!Indexes : ds[i].deviceNumber = fs_devices[i].deviceNumber
    <3>1. \A i \in F!Indexes : fs_devices[i] \in FdDevice
      BY <1>1
    <3> HIDE DEF ds
    <3>2. \A i \in F!Indexes : ds[i] = F!Asked(fs_devices[i]) \/ ds[i] = fs_devices[i]
      BY DEF ds
    <3>3. ds = [i \in F!Indexes |-> ds[i]]
      BY DEF ds
    <3> QED
      BY <2>2, <3>1, <3>2, <3>3
  <2>4. \A i \in 0..fs_availableDevicesCount - 1 : F!AsAnswered(ds[i])
    <3>1. \A i \in 0..fs_availableDevicesCount - 1 :
            i \in F!Indexes /\ ds[i] = F!Asked(fs_devices[i]) /\ fs_devices[i].isValid
      BY <1>1, <2>1 DEF FdevInv, FdFoundInv
    <3> QED
      BY <2>2, <3>1
  <2>5. /\ fs_devices' = F!Shown(ds, 0) /\ fs_currentDevicesPage' = 0 /\ fs_screen' \in {"drivers", "devices"}
        /\ UNCHANGED <<fs_system, fs_drivers, fs_selectedDriver, fs_availableDevicesCount, fs_deviceNumber,
                       fs_wrapped, fs_selectedDevice>>
        /\ fs_availableDevicesCount >= MAX_DEVICES_PER_DRIVER \/ fs_deviceNumber > F!maxDeviceNumber
    BY <1>1, <1>2, <2>1 DEF F!GetDevicesInformation, F!Scanning
  <2> HIDE DEF ds
  <2> QED
    BY <1>1, <2>1, <2>3, <2>4, <2>5, FdevShows
<1>3. ASSUME NEW page \in F!Indexes, F!TurnPage(page) \/ (F!LeaveMenu /\ page = fs_currentDevicesPage)
      PROVE  FdevInv'
  <2>1. /\ fs_screen \in {"devices", "menu"} /\ fs_screen' = "devices"
        /\ fs_devices' = F!Shown(fs_devices, page) /\ fs_currentDevicesPage' = page
        /\ UNCHANGED <<fs_system, fs_drivers, fs_selectedDriver, fs_availableDevicesCount, fs_deviceNumber,
                       fs_wrapped, fs_selectedDevice>>
    BY <1>3 DEF F!TurnPage, F!LeaveMenu
  <2>2. \A i \in 0..fs_availableDevicesCount - 1 : F!AsAnswered(fs_devices[i])
    BY <2>1 DEF FdevInv, FdShownInv
  <2> QED
    BY <1>1, <2>1, <2>2, FdevShows
<1> QED
  BY <1>1, <1>2, <1>3

\* A number and a page have a product that gives the page back.
LEMMA PageOf ==
    ASSUME NEW p \in Nat, NEW Dv \in Nat \ {0}, NEW key \in 1..Dv
    PROVE  p * Dv + key - 1 \in Nat /\ (p * Dv + key - 1) \div Dv = p
<1> DEFINE r == key - 1
<1>1. r \in 0..Dv - 1 /\ p * Dv \in Nat /\ p * Dv + key - 1 = p * Dv + r
  OBVIOUS
<1>2. (p * Dv + r) \div Dv = p
  OBVIOUS
<1> QED
  BY <1>1, <1>2

\* A device is selected, or the screen is left.
LEMMA FdevLeaves ==
    ASSUME FdevInv, (\E key \in 1..DEVICES_PER_PAGE : F!SelectDevice(key)) \/ F!Escape \/ UNCHANGED F!vars
    PROVE  FdevInv'
<1>1. ASSUME NEW key \in 1..DEVICES_PER_PAGE, F!SelectDevice(key) PROVE FdevInv'
  <2> DEFINE index == fs_currentDevicesPage * DEVICES_PER_PAGE + key - 1
  <2>1. /\ fs_currentDevicesPage \in Nat /\ DEVICES_PER_PAGE \in Nat \ {0}
        /\ MAX_DEVICES_PER_DRIVER \in Nat /\ fs_availableDevicesCount \in 0..MAX_DEVICES_PER_DRIVER
    BY FdevAssumption DEF FdevInv, FdTypeInv, F!DevicesAssumption, F!Indexes
  <2>2. index \in Nat /\ index \div DEVICES_PER_PAGE = fs_currentDevicesPage
    BY <2>1, PageOf
  <2>3. /\ fs_screen = "devices" /\ fs_screen' = "menu" /\ index < fs_availableDevicesCount
        /\ fs_devices[index].canCreatePartitions /\ fs_selectedDevice' = index
        /\ UNCHANGED <<fs_system, fs_drivers, fs_selectedDriver, fs_devices, fs_availableDevicesCount,
                       fs_deviceNumber, fs_wrapped, fs_currentDevicesPage>>
    BY <1>1 DEF F!SelectDevice, F!list
  <2> HIDE DEF index
  <2>4. index \in 0..fs_availableDevicesCount - 1 /\ index \in F!Indexes
    BY <2>1, <2>2, <2>3 DEF F!Indexes
  <2>5. FdTypeInv'
    BY <2>3, <2>4 DEF FdevInv, FdTypeInv
  <2>6. FdListInv'
    BY <2>3 DEF FdevInv, FdListInv, FdThere, F!driver, F!maxDeviceNumber
  <2>7. FdShownInv'
    <3>1. /\ \A i \in 0..fs_availableDevicesCount - 1 : F!AsAnswered(fs_devices[i])
          /\ \A i \in 0..fs_availableDevicesCount - 1 :
               i \div DEVICES_PER_PAGE = fs_currentDevicesPage =>
               fs_devices[i].canCreatePartitions = FdSelectable(fs_devices[i])
      BY <2>3 DEF FdevInv, FdShownInv
    <3>2. /\ \A i : FdSelectable(fs_devices[i])' = FdSelectable(fs_devices[i])
          /\ \A i : F!AsAnswered(fs_devices[i])' = F!AsAnswered(fs_devices[i])
      BY <2>3 DEF FdSelectable, F!AsAnswered, F!Answers, F!driver
    <3> QED
      BY <2>2, <2>3, <2>4, <3>1, <3>2 DEF FdShownInv
  <2> QED
    BY <2>3, <2>5, <2>6, <2>7 DEF FdevInv, FdFoundInv
<1>2. CASE F!Escape
  <2>1. /\ fs_screen \in {"drivers", "devices"} /\ fs_screen' \in {"drivers", "end"}
        /\ UNCHANGED <<fs_system, fs_drivers, fs_selectedDriver, fs_devices, fs_availableDevicesCount,
                       fs_deviceNumber, fs_wrapped, fs_currentDevicesPage, fs_selectedDevice>>
    BY <1>2 DEF F!Escape, F!list
  <2>2. FdTypeInv'
    BY <2>1 DEF FdevInv, FdTypeInv
  <2> QED
    BY <2>1, <2>2 DEF FdevInv, FdListInv, FdFoundInv, FdShownInv
<1>3. CASE UNCHANGED F!vars
  <2>1. UNCHANGED <<fs_system, fs_drivers, fs_selectedDriver, fs_devices, fs_availableDevicesCount, fs_deviceNumber,
                    fs_wrapped, fs_currentDevicesPage, fs_selectedDevice, fs_screen>>
    BY <1>3 DEF F!vars, F!list
  <2>2. FdTypeInv'
    BY <2>1 DEF FdevInv, FdTypeInv
  <2>3. FdListInv'
    BY <2>1 DEF FdevInv, FdListInv, FdThere, F!driver, F!maxDeviceNumber
  <2>4. FdShownInv'
    BY <2>1 DEF FdevInv, FdShownInv, FdSelectable, F!AsAnswered, F!Answers, F!driver
  <2> QED
    BY <2>1, <2>2, <2>3, <2>4 DEF FdevInv, FdFoundInv
<1> QED
  BY <1>1, <1>2, <1>3

\* Every step keeps the invariant.
LEMMA FdevStep == FdevInv /\ [F!Next]_(F!vars) => FdevInv'
  BY FdevSelects, FdevLists, FdevPages, FdevLeaves DEF F!Next, F!Ended

\* And with it what the screens show is true, and the variables have their types.
LEMMA FdevSafe == FdevInv => F!DevicesTruthful /\ F!TypeOK
<1> SUFFICES ASSUME FdevInv PROVE F!DevicesTruthful /\ F!TypeOK
  OBVIOUS
<1>1. F!TypeOK
  BY DEF FdevInv, FdTypeInv, F!TypeOK, FdDevice
<1>2. ASSUME fs_screen \in {"devices", "menu"} PROVE F!IsDriver(F!driver) /\ \A i \in 0..fs_availableDevicesCount - 1 : fs_devices[i] \in FdDevice
  <2>1. MAX_DEVICES_PER_DRIVER \in Nat /\ fs_availableDevicesCount \in 0..MAX_DEVICES_PER_DRIVER
    BY FdevAssumption DEF FdevInv, FdTypeInv, F!DevicesAssumption
  <2> QED
    BY <1>2, <2>1, FdDriver DEF FdevInv, FdTypeInv, F!Indexes
<1>3. ASSUME fs_screen \in {"devices", "menu"}
      PROVE  \A i \in 0..fs_availableDevicesCount - 1 :
                /\ F!AsAnswered(fs_devices[i])
                /\ i \div DEVICES_PER_PAGE = fs_currentDevicesPage =>
                     (fs_devices[i].canCreatePartitions <=> F!Usable(F!Answers(fs_devices[i].deviceNumber)))
  <2> SUFFICES ASSUME NEW i \in 0..fs_availableDevicesCount - 1
               PROVE  /\ F!AsAnswered(fs_devices[i])
                      /\ i \div DEVICES_PER_PAGE = fs_currentDevicesPage =>
                           (fs_devices[i].canCreatePartitions <=> F!Usable(F!Answers(fs_devices[i].deviceNumber)))
    OBVIOUS
  <2>1. /\ F!AsAnswered(fs_devices[i])
        /\ i \div DEVICES_PER_PAGE = fs_currentDevicesPage =>
             fs_devices[i].canCreatePartitions = FdSelectable(fs_devices[i])
    BY <1>3 DEF FdevInv, FdShownInv
  <2>2. FdSelectable(fs_devices[i]) = FdGood(fs_devices[i].deviceNumber)
    BY <1>2, <1>3, <2>1, FdUsable
  <2> QED
    BY <2>1, <2>2 DEF FdGood
<1>4. ASSUME fs_screen = "menu"
      PROVE  /\ fs_selectedDevice \in 0..fs_availableDevicesCount - 1
             /\ fs_selectedDevice \div DEVICES_PER_PAGE = fs_currentDevicesPage
             /\ F!Usable(F!Answers(fs_devices[fs_selectedDevice].deviceNumber))
  <2>1. /\ fs_selectedDevice \in 0..fs_availableDevicesCount - 1
        /\ fs_selectedDevice \div DEVICES_PER_PAGE = fs_currentDevicesPage
        /\ fs_devices[fs_selectedDevice].canCreatePartitions
    BY <1>4 DEF FdevInv, FdShownInv
  <2> QED
    BY <1>3, <1>4, <2>1
<1>5. ASSUME fs_screen \in {"devices", "menu"}, ~fs_wrapped
      PROVE  LET Listed == [i \in 1..fs_availableDevicesCount |-> fs_devices[i - 1].deviceNumber]
                 Met == {n \in DOMAIN F!driver.devices :
                           n <= F!maxDeviceNumber /\ F!driver.devices[n].name # "invalid"}
             IN /\ F!Range(Listed) \subseteq Met
                /\ \A i \in DOMAIN Listed : \A m \in Met :
                     m < Listed[i] => \E j \in 1..i - 1 : Listed[j] = m
                /\ \A i, j \in DOMAIN Listed : i < j => Listed[i] < Listed[j]
                /\ fs_availableDevicesCount < MAX_DEVICES_PER_DRIVER => F!Range(Listed) = Met
  <2> DEFINE c == fs_availableDevicesCount
             Listed == [i \in 1..c |-> fs_devices[i - 1].deviceNumber]
  <2>1. /\ c \in Nat /\ MAX_DEVICES_PER_DRIVER \in Nat /\ fs_deviceNumber \in Nat
        /\ F!IsDriver(F!driver) /\ F!maxDeviceNumber \in Nat
    BY <1>5, FdDriver, FdevAssumption DEF FdevInv, FdTypeInv, F!DevicesAssumption
  <2>2. \A m \in FdThere : m \in Nat /\ m <= F!maxDeviceNumber
    BY <2>1 DEF FdThere, F!IsDriver
  <2>3. /\ \A i \in 0..c - 1 :
             fs_devices[i].deviceNumber \in FdThere /\ fs_devices[i].deviceNumber < fs_deviceNumber
        /\ \A i, j \in 0..c - 1 : i < j => fs_devices[i].deviceNumber < fs_devices[j].deviceNumber
        /\ \A m \in FdThere : m < fs_deviceNumber => \E j \in 0..c - 1 : fs_devices[j].deviceNumber = m
        /\ c = MAX_DEVICES_PER_DRIVER \/ fs_deviceNumber > F!maxDeviceNumber
    BY <1>5 DEF FdevInv, FdListInv
  <2>4. /\ \A i \in 1..c : i - 1 \in 0..c - 1
        /\ \A i \in 0..c - 1 : i + 1 \in 1..c /\ i + 1 - 1 = i
    BY <2>1
  <2>5. \A i \in 1..c : Listed[i] = fs_devices[i - 1].deviceNumber /\ Listed[i] \in FdThere
    BY <2>3, <2>4
  <2>6. F!Range(Listed) \subseteq FdThere
    BY <2>5 DEF F!Range
  <2>7. \A i, j \in 1..c : i < j => Listed[i] < Listed[j]
    <3> SUFFICES ASSUME NEW i \in 1..c, NEW j \in 1..c, i < j PROVE Listed[i] < Listed[j]
      OBVIOUS
    <3>1. i - 1 \in 0..c - 1 /\ j - 1 \in 0..c - 1 /\ i - 1 < j - 1
      BY <2>1
    <3> QED
      BY <2>3, <3>1
  <2>8. ASSUME NEW m \in FdThere, m < fs_deviceNumber PROVE \E j \in 1..c : Listed[j] = m
    <3>1. PICK j \in 0..c - 1 : fs_devices[j].deviceNumber = m
      BY <2>3, <2>8
    <3>2. j + 1 \in 1..c /\ Listed[j + 1] = m
      BY <2>1, <2>4, <3>1
    <3> QED
      BY <3>2
  <2>9. ASSUME NEW i \in 1..c, NEW m \in FdThere, m < Listed[i] PROVE \E j \in 1..i - 1 : Listed[j] = m
    <3>1. Listed[i] < fs_deviceNumber /\ Listed[i] \in Nat /\ m \in Nat
      BY <2>2, <2>3, <2>4, <2>5
    <3>2. PICK j \in 1..c : Listed[j] = m
      BY <2>1, <2>8, <2>9, <3>1
    <3>3. ~(i < j) /\ i # j
      BY <2>2, <2>5, <2>7, <2>9, <3>1, <3>2
    <3>4. j \in 1..i - 1
      BY <2>1, <3>3
    <3> QED
      BY <3>2, <3>4
  <2>10. ASSUME c < MAX_DEVICES_PER_DRIVER PROVE F!Range(Listed) = FdThere
    <3>1. \A m \in FdThere : m < fs_deviceNumber
      BY <2>1, <2>2, <2>3, <2>10
    <3>2. \A m \in FdThere : m \in F!Range(Listed)
      BY <2>8, <3>1 DEF F!Range
    <3> QED
      BY <2>6, <3>2
  <2> HIDE DEF Listed
  <2>12. DOMAIN Listed = 1..c
    BY DEF Listed
  <2> QED
    BY <2>6, <2>7, <2>9, <2>10, <2>12 DEF FdThere, Listed
<1>6. F!DevicesTruthful
  BY <1>3, <1>4, <1>5 DEF F!DevicesTruthful
<1> QED
  BY <1>1, <1>6

----------------------------------------------------------------------------
(* EMUFILE: arithmetic of sectors. *)

\* What is divided comes back.
LEMMA DividedBack == ASSUME NEW k \in Nat, NEW m \in Nat \ {0} PROVE (k * m) \div m = k
<1>1. 0 <= k * m
  OBVIOUS
<1> QED
  BY SMTT(30)

\* A quotient and the rest.
LEMMA DividedWith ==
    ASSUME NEW n \in Nat, NEW m \in Nat \ {0}
    PROVE  n \div m \in Nat /\ (n % m) \in 0..m - 1 /\ n = (n \div m) * m + (n % m)
<1>1. (n % m) \in 0..m - 1
  BY SMTT(30)
<1>2. n \div m \in Nat
  BY SMTT(30)
<1>3. n = m * (n \div m) + (n % m)
  BY SMTT(30)
<1>4. \A q \in Nat : m * q = q * m
  OBVIOUS
<1> QED
  BY <1>1, <1>2, <1>3, <1>4

\* Less than a product is divided to less than the factor.
LEMMA DividedLess ==
    ASSUME NEW n \in Nat, NEW k \in Nat, NEW m \in Nat \ {0}, n < k * m
    PROVE  n \div m < k
<1> DEFINE q == n \div m
<1>1. q \in Nat /\ n >= q * m
  <2>1. (n % m) >= 0 /\ n = q * m + (n % m) /\ (n % m) \in Nat /\ q \in Nat
    BY DividedWith
  <2>2. q * m \in Nat
    BY <2>1
  <2> QED
    BY <2>1, <2>2
<1> HIDE DEF q
<1>2. q >= k => q * m >= k * m
  <2> HAVE q >= k
  <2>1. PICK d \in Nat : q = k + d
    <3>1. q - k \in Nat /\ q = k + (q - k)
      BY <1>1
    <3> QED
      BY <3>1
  <2>2. q * m = k * m + d * m /\ d * m >= 0 /\ k * m \in Nat /\ d * m \in Nat
    BY <2>1
  <2> QED
    BY <2>2
<1>3. q * m \in Nat /\ k * m \in Nat
  BY <1>1
<1>4. q < k
  BY <1>1, <1>2, <1>3
<1> QED
  BY <1>4 DEF q

\* And not more than one to not more than it.
LEMMA DividedAtMost ==
    ASSUME NEW n \in Nat, NEW k \in Nat, NEW m \in Nat \ {0}, n <= k * m
    PROVE  n \div m <= k
<1>1. n < (k + 1) * m
  <2>1. (k + 1) * m = k * m + m /\ k * m \in Nat
    OBVIOUS
  <2> QED
    BY <2>1
<1>2. n \div m < k + 1
  <2>1. k + 1 \in Nat
    OBVIOUS
  <2> QED
    BY <1>1, <2>1, DividedLess
<1>3. n \div m \in Nat
  BY DividedWith
<1> QED
  BY <1>2, <1>3

\* Images that leave nothing of a file out take all its sectors.
LEMMA ImagesFill ==
    ASSUME NEW b \in Nat, NEW s \in Nat \ {0}, NEW z \in Nat \ {0}, b % (s * z) = 0
    PROVE  b \div s = (b \div (s * z)) * z /\ b \div (s * z) \in Nat
<1> DEFINE m == s * z
           c == b \div m
<1>1. m \in Nat \ {0}
  OBVIOUS
<1>2. c \in Nat /\ b = c * m
  <2> HIDE DEF m
  <2>1. b \div m \in Nat /\ b = (b \div m) * m + (b % m) /\ (b % m) = 0
    BY <1>1, DividedWith DEF m
  <2> HIDE DEF c
  <2>2. c \in Nat /\ b = c * m + 0
    BY <2>1 DEF c
  <2>3. c * m \in Nat
    BY <1>1, <2>2
  <2> QED
    BY <2>2, <2>3
<1> HIDE DEF c
<1>3. b = (c * z) * s /\ c * z \in Nat
  <2>1. c * (s * z) = (c * z) * s
    BY <1>2
  <2> QED
    BY <1>2, <2>1
<1>4. b \div s = c * z
  <2> DEFINE k == c * z
  <2>1. k \in Nat /\ b = k * s
    BY <1>3
  <2> HIDE DEF k
  <2>2. (k * s) \div s = k
    BY <2>1, DividedBack
  <2> QED
    BY <2>1, <2>2 DEF k
<1> QED
  BY <1>2, <1>4 DEF c

\* A sector of a chain of consecutive clusters.
LEMMA SectorOf ==
    ASSUME NEW a \in Int, NEW q \in Int, NEW r \in Int, NEW k \in Int
    PROVE  ((a + q) - 2) * k + r = (a - 2) * k + (q * k + r)
  OBVIOUS

\* A product of a sum.
LEMMA SumTimes ==
    ASSUME NEW n \in Nat, NEW e \in Nat, NEW z \in Nat
    PROVE  (n + e) * z = n * z + e * z /\ e * z \in Nat
  OBVIOUS

\* Images one after the other.
LEMMA NextImage ==
    ASSUME NEW i \in Int, NEW z \in Int
    PROVE  i * z = (i - 1) * z + z
  OBVIOUS

----------------------------------------------------------------------------
(* EMUFILE: the invariant. *)

\* The logical units of the drives, with 0 for those of the data file's device.
EmLuns == {0} \cup {EmDrives[d].lun : d \in DOMAIN EmDrives}
\* The entries of the table, and the image of which file each is.
EmEntry == [device : Nat, lun : EmLuns, first : Int, size : Nat]
EmSource == [f : E!Files, image : Nat \ {0}]
EmOptions == [boot : 1..32, workArea : {0} \cup 49..65, hz : {"none", "5", "6"},
              concatenated : {0, 2, 4, 6, 8}, flags : SUBSET {"c", "s", "8", "f"}]

\* The variables have their types; the files that are left of a name are searched for it.
EmTypeInv ==
    /\ em_argv \in EmCommands /\ em_options \in EmOptions
    /\ em_names \in Seq(E!Arguments) /\ em_matched \in Seq(E!Files)
    /\ em_fileContents \in Seq(EmEntry) /\ em_from \in Seq(EmSource)
    /\ Len(em_fileContents) <= MaxFilesToProcess /\ Len(em_from) = Len(em_fileContents)
    /\ em_at \in {"args", "file", "device", "create", "header", "texts", E!Failed, E!Done}

\* The options are given before the first name, a table that is written has entries.
EmOrderInv ==
    /\ em_at = "file" => em_matched # <<>> /\ em_outputFileName # ""
    /\ em_fileContents # <<>> => em_outputFileName # ""
    /\ em_at \in {"device", "create", "header", "texts", E!Done} => em_fileContents # <<>>

\* A file that may be in the table.
EmTaken(f) ==
    /\ f \in E!Files /\ E!CheckConsecutiveClustersForFileInFib(f)
    /\ f.bytes >= EmSector /\ E!Multiple(f)

\* The entry i of the table is an image of its file, and the next one follows it.
EmImage(i) ==
    LET f == em_from[i].f
        n == em_from[i].image
    IN /\ EmTaken(f) /\ n <= E!ImagesCount(f)
       /\ em_fileContents[i].size = E!ImageSize(f)
       /\ em_fileContents[i].first = EmDrives[f.drive].first + E!GetFirstFileSectorForFileInFib(f)
                                      + (n - 1) * E!ImageSize(f)
       /\ n < E!ImagesCount(f) => i < Len(em_from) /\ em_from[i + 1] = [f |-> f, image |-> n + 1]

\* It is on the device that it names, and 0 is the one of the data file in the end.
EmPlaced(i) ==
    LET e == em_fileContents[i]
        d == EmDrives[em_from[i].f.drive]
        its == EmDrives[EmDirectory[em_outputFileName][1].drive]
    IN IF em_at \in {"create", "header", "texts", E!Done}
       THEN (IF e.device = 0 THEN <<its.device, its.lun>> ELSE <<e.device, e.lun>>) = <<d.device, d.lun>>
       ELSE em_at # E!Failed => e.device = d.device /\ e.lun = d.lun

\* What is written is the table, with the file to mount and the flags.
EmWrittenInv ==
    /\ em_file.complete => em_at = E!Done
    /\ em_at \in {"texts", E!Done} =>
         em_file.entries = em_fileContents /\ em_file.boot = E!BootFileIndex /\ em_file.flags = E!EmuFlagsByte

\* The invariant of EMUFILE.
EmInv ==
    /\ EmTypeInv /\ EmOrderInv /\ EmWrittenInv
    /\ \A i \in 1..Len(em_from) : EmImage(i) /\ EmPlaced(i)

\* At first there is nothing.
LEMMA EmInit == E!Init => EmInv
<1> SUFFICES ASSUME E!Init PROVE EmInv
  OBVIOUS
<1>1. /\ em_argv \in EmCommands /\ em_names = em_argv /\ em_outputFileName = "" /\ em_matched = <<>>
      /\ em_options = [boot |-> 1, workArea |-> 0, hz |-> "none", concatenated |-> 0, flags |-> {}]
      /\ em_fileContents = <<>> /\ em_from = <<>> /\ em_file = E!NoFile /\ em_at = "args"
  BY DEF E!Init
<1>2. em_options \in EmOptions
  <2>1. [boot |-> 1, workArea |-> 0, hz |-> "none", concatenated |-> 0, flags |-> {}] \in EmOptions
    BY DEF EmOptions
  <2> QED
    BY <1>1, <2>1
<1>3. em_names \in Seq(E!Arguments) /\ MaxFilesToProcess \in Nat
  BY <1>1, EmAssumption DEF E!EmufileAssumption
<1>4. EmTypeInv
  <2>0. em_fileContents = <<>> /\ em_from = <<>> /\ em_matched = <<>> /\ em_at = "args" /\ em_argv \in EmCommands
    BY <1>1
  <2>1. em_fileContents \in Seq(EmEntry) /\ em_from \in Seq(EmSource) /\ em_matched \in Seq(E!Files)
    BY <2>0
  <2>2. Len(em_fileContents) = 0 /\ Len(em_from) = 0
    BY <2>0
  <2>3. Len(em_fileContents) <= MaxFilesToProcess /\ Len(em_from) = Len(em_fileContents)
    BY <1>3, <2>2
  <2> QED
    BY <1>2, <1>3, <2>0, <2>1, <2>3 DEF EmTypeInv
<1>5. EmOrderInv
  BY <1>1 DEF EmOrderInv, E!Done
<1>6. EmWrittenInv
  <2>1. ~em_file.complete
    BY <1>1 DEF E!NoFile
  <2> QED
    BY <1>1, <2>1 DEF EmWrittenInv, E!Done
<1>7. Len(em_from) = 0
  BY <1>1
<1> QED
  BY <1>4, <1>5, <1>6, <1>7 DEF EmInv

\* A step that leaves the table, and does not go on to another part of the program.
LEMMA EmKept ==
    ASSUME EmInv, UNCHANGED <<em_options, em_fileContents, em_from>>,
           em_outputFileName' = em_outputFileName \/ em_fileContents = <<>>,
           EmTypeInv', EmOrderInv', EmWrittenInv',
           \/ em_at' = E!Failed
           \/ em_at \in {"args", "file"} /\ em_at' \in {"args", "file", "device"}
           \/ em_at \in {"create", "header", "texts"} /\ em_at' \in {"header", "texts", E!Done}
    PROVE  EmInv'
<1>1. ASSUME NEW i \in 1..Len(em_from)' PROVE EmImage(i)' /\ EmPlaced(i)'
  <2>1. i \in 1..Len(em_from) /\ EmImage(i) /\ EmPlaced(i)
    BY <1>1 DEF EmInv
  <2>2. em_outputFileName' = em_outputFileName
    <3>1. Len(em_fileContents) # 0
      BY <2>1 DEF EmInv, EmTypeInv
    <3> QED
      BY <3>1
  <2>3. EmImage(i)'
    BY <2>1 DEF EmImage, EmTaken, E!ImagesCount, E!ImageSize, E!Multiple, E!Concatenated,
                E!CheckConsecutiveClustersForFileInFib, E!GetFirstFileSectorForFileInFib
  <2>4. EmPlaced(i)'
    BY <2>1, <2>2 DEF EmPlaced, E!Done, E!Failed
  <2> QED
    BY <2>3, <2>4
<1> QED
  BY <1>1 DEF EmInv

\* An option keeps the options what they may be.
LEMMA EmOption ==
    ASSUME NEW option, option.value \in Int, em_options \in EmOptions, E!ProcessOption(option)
    PROVE  em_options' \in EmOptions /\ (em_at' = em_at \/ em_at' = E!Failed)
<1>1. CASE em_options' = em_options /\ em_at' = E!Failed
  BY <1>1
<1>2. CASE option.value \in 1..32 /\ em_options' = [em_options EXCEPT !.boot = option.value] /\ em_at' = em_at
  BY <1>2 DEF EmOptions
<1>3. CASE option.value \in {0} \cup 49..65 /\ em_options' = [em_options EXCEPT !.workArea = option.value] /\ em_at' = em_at
  BY <1>3 DEF EmOptions
<1>4. CASE option.kind \in {"5", "6"} /\ em_options' = [em_options EXCEPT !.hz = option.kind] /\ em_at' = em_at
  BY <1>4 DEF EmOptions
<1>5. CASE /\ E!ConcatenatedSize(option.value) \in 1..4 /\ em_at' = em_at
           /\ em_options' = [em_options EXCEPT !.concatenated = 2 * E!ConcatenatedSize(option.value)]
  <2>1. 2 * E!ConcatenatedSize(option.value) \in {0, 2, 4, 6, 8}
    BY <1>5
  <2> QED
    BY <1>5, <2>1 DEF EmOptions
<1>6. CASE /\ option.kind \in {"c", "s", "8", "f"} /\ em_at' = em_at
           /\ em_options' = [em_options EXCEPT !.flags = em_options.flags \cup {option.kind}]
  <2>1. em_options.flags \cup {option.kind} \in SUBSET {"c", "s", "8", "f"}
    BY <1>6 DEF EmOptions
  <2> QED
    BY <1>6, <2>1 DEF EmOptions
<1> QED
  BY <1>1, <1>2, <1>3, <1>4, <1>5, <1>6
  DEF E!ProcessOption, E!ProcessBootIndexOption, E!ProcessWorkAreaAddressOption, E!IsHzOption,
      E!ProcessConcatenatedImagesOption, E!MaxImageSizeInK, E!Terminate

\* The arguments.
LEMMA EmArguments ==
    ASSUME EmInv, E!ProcessCreateFileArguments PROVE EmInv'
<1> DEFINE a == Head(em_names)
<1>1. /\ em_names # <<>> /\ em_names \in Seq(E!Arguments) /\ a \in E!Arguments /\ em_names' = Tail(em_names)
      /\ em_names' \in Seq(E!Arguments)
  <2>1. em_names # <<>> /\ em_names \in Seq(E!Arguments) /\ em_names' = Tail(em_names)
    BY DEF EmInv, EmTypeInv, E!ProcessCreateFileArguments
  <2> QED
    BY <2>1
<1>2. IF a.kind = "name" THEN a.name \in DOMAIN EmDirectory ELSE a.value \in Int
  BY <1>1, EmAssumption DEF E!EmufileAssumption
<1>3. em_at = "args" /\ UNCHANGED <<em_argv, em_fileContents, em_from, em_file>>
  BY DEF E!ProcessCreateFileArguments
<1>4. ~em_file.complete
  BY <1>3 DEF EmInv, EmWrittenInv, E!Done
<1>5. CASE a.kind # "name"
  <2>1. /\ UNCHANGED <<em_outputFileName, em_matched>>
        /\ \/ em_outputFileName = "" /\ E!ProcessOption(a)
           \/ em_at' = E!Failed /\ UNCHANGED em_options
    BY <1>5 DEF E!ProcessCreateFileArguments, E!Terminate
  <2>2. CASE UNCHANGED em_options /\ em_at' = E!Failed
    <3>1. EmTypeInv' /\ EmOrderInv' /\ EmWrittenInv'
      BY <1>1, <1>3, <1>4, <2>1, <2>2 DEF EmInv, EmTypeInv, EmOrderInv, EmWrittenInv, E!Failed, E!Done
    <3> QED
      BY <1>3, <2>1, <2>2, <3>1, EmKept
  <2>3. CASE em_outputFileName = "" /\ E!ProcessOption(a)
    <3>1. em_options' \in EmOptions /\ (em_at' = em_at \/ em_at' = E!Failed)
      BY <1>2, <1>5, <2>3, EmOption DEF EmInv, EmTypeInv
    <3>2. EmTypeInv' /\ EmOrderInv' /\ EmWrittenInv'
      BY <1>1, <1>3, <1>4, <2>1, <3>1 DEF EmInv, EmTypeInv, EmOrderInv, EmWrittenInv, E!Failed, E!Done
    <3>3. Len(em_from') = 0
      BY <1>3, <2>3 DEF EmInv, EmTypeInv, EmOrderInv
    <3> QED
      BY <3>2, <3>3 DEF EmInv
  <2> QED
    BY <2>1, <2>2, <2>3
<1>6. CASE a.kind = "name"
  <2>1. /\ UNCHANGED em_options
        /\ \/ em_outputFileName = "" /\ UNCHANGED <<em_matched, em_at>>
           \/ /\ UNCHANGED em_outputFileName /\ em_outputFileName # ""
              /\ \/ em_at' = "file" /\ em_matched' = EmDirectory[a.name] /\ em_matched' # <<>>
                 \/ em_at' = E!Failed /\ UNCHANGED em_matched
    BY <1>6 DEF E!ProcessCreateFileArguments, E!Terminate
  <2>2. EmDirectory[a.name] \in Seq(E!Files)
    BY <1>2, <1>6, EmAssumption DEF E!EmufileAssumption
  <2>3. em_outputFileName' = em_outputFileName \/ em_fileContents = <<>>
    BY <2>1 DEF EmInv, EmOrderInv
  <2>4. EmTypeInv'
    BY <1>1, <1>3, <2>1, <2>2 DEF EmInv, EmTypeInv, E!Failed
  <2>5. EmOrderInv' /\ EmWrittenInv'
    BY <1>3, <1>4, <2>1, <2>3 DEF EmInv, EmOrderInv, EmWrittenInv, E!Failed, E!Done
  <2> QED
    BY <1>3, <2>1, <2>3, <2>4, <2>5, EmKept
<1> QED
  BY <1>5, <1>6

\* Sequences that are joined.
LEMMA EmJoined ==
    ASSUME NEW S, NEW p \in Seq(S), NEW q \in Seq(S)
    PROVE  /\ p \o q \in Seq(S) /\ Len(p \o q) = Len(p) + Len(q)
           /\ \A i \in 1..Len(p) : (p \o q)[i] = p[i]
           /\ \A i \in Len(p) + 1..Len(p) + Len(q) : (p \o q)[i] = q[i - Len(p)]
  OBVIOUS

\* A file that is found: what is added to the table.
LEMMA EmAdded ==
    ASSUME NEW f \in E!Files, EmInv, EmTaken(f), em_at = "file",
           E!ImagesCount(f) \in Nat, Len(em_from) + E!ImagesCount(f) <= MaxFilesToProcess,
           em_fileContents' = em_fileContents \o E!Images(f),
           em_from' = em_from \o [i \in 1..E!ImagesCount(f) |-> [f |-> f, image |-> i]],
           UNCHANGED <<em_options, em_outputFileName, em_argv>>, em_at' \in {"args", "file", E!Failed}
    PROVE  /\ em_fileContents' \in Seq(EmEntry) /\ em_from' \in Seq(EmSource)
           /\ Len(em_fileContents') = Len(em_from) + E!ImagesCount(f) /\ Len(em_from') = Len(em_from) + E!ImagesCount(f)
           /\ \A i \in 1..Len(em_from') : EmImage(i)' /\ EmPlaced(i)'
<1> DEFINE n == E!ImagesCount(f)
           new == [i \in 1..n |-> [f |-> f, image |-> i]]
           d == EmDrives[f.drive]
<1>1. /\ E!IsFile(f) /\ EmSector \in Nat \ {0} /\ f.drive \in DOMAIN EmDrives
      /\ {d.first, d.data} \subseteq Nat /\ {d.spc, d.device} \subseteq Nat \ {0}
  BY EmAssumption DEF E!EmufileAssumption, E!IsFile
<1>2. f.bytes \in Nat /\ f.clusters \in Seq(Nat) /\ f.clusters # <<>>
  BY <1>1 DEF E!IsFile, EmTaken, E!CheckConsecutiveClustersForFileInFib
<1>3. E!ImageSize(f) \in Nat /\ E!GetFirstFileSectorForFileInFib(f) \in Int
  <2>1. f.bytes \div EmSector \in Nat
    BY <1>1, <1>2, DividedWith
  <2>2. em_options.concatenated \in Nat
    BY DEF EmInv, EmTypeInv, EmOptions
  <2>3. f.clusters[1] \in Nat
    <3>1. Len(f.clusters) \in Nat \ {0}
      BY <1>2
    <3>2. 1 \in 1..Len(f.clusters)
      BY <3>1
    <3> QED
      BY <1>2, <3>2
  <2>4. (f.clusters[1] - 2) * d.spc \in Int
    <3> DEFINE a == f.clusters[1]
               k == d.spc
    <3>1. a - 2 \in Int /\ k \in Int
      BY <1>1, <2>3
    <3> HIDE DEF a, k
    <3>2. (a - 2) * k \in Int
      BY <3>1
    <3> QED
      BY <3>2 DEF a, k
  <2> QED
    BY <1>1, <2>1, <2>2, <2>4, SMTT(20) DEF E!ImageSize, E!GetFirstFileSectorForFileInFib
<1> DEFINE first == d.first + E!GetFirstFileSectorForFileInFib(f)
           z == E!ImageSize(f)
<1>4. E!Images(f) = [i \in 1..n |-> [device |-> d.device, lun |-> d.lun, first |-> first + (i - 1) * z, size |-> z]]
  BY DEF E!Images, E!AddImageToFilesTable
<1>5. E!Images(f) \in Seq(EmEntry) /\ Len(E!Images(f)) = n
  <2>1. d.lun \in EmLuns /\ d.device \in Nat /\ first \in Int /\ z \in Nat
    BY <1>1, <1>3 DEF EmLuns
  <2> HIDE DEF first, z, n
  <2>2. ASSUME NEW i \in 1..n
        PROVE  [device |-> d.device, lun |-> d.lun, first |-> first + (i - 1) * z, size |-> z] \in EmEntry
    <3>1. (i - 1) * z \in Int
      BY <2>1
    <3>2. first + (i - 1) * z \in Int
      BY <2>1, <3>1
    <3> QED
      BY <2>1, <3>2 DEF EmEntry
  <2>3. n \in Nat
    BY DEF n
  <2>4. E!Images(f) \in [1..n -> EmEntry]
    BY <1>4, <2>2, <2>3
  <2> QED
    BY <2>3, <2>4
<1>6. new \in Seq(EmSource) /\ Len(new) = n
  <2>1. \A i \in 1..n : [f |-> f, image |-> i] \in EmSource
    BY DEF EmSource
  <2>2. n \in Nat
    OBVIOUS
  <2> HIDE DEF n
  <2>3. new \in [1..n -> EmSource]
    BY <2>1
  <2> HIDE DEF new
  <2> QED
    BY <2>2, <2>3
<1> DEFINE m == Len(em_from)
           more == E!Images(f)
<1>7. /\ m \in Nat /\ n \in Nat /\ Len(em_fileContents) = m /\ em_fileContents \in Seq(EmEntry) /\ em_from \in Seq(EmSource)
  BY DEF EmInv, EmTypeInv
<1>8. /\ em_fileContents' = em_fileContents \o more /\ em_from' = em_from \o new
      /\ \A i \in 1..n : /\ new[i].f = f /\ new[i].image = i /\ new[i] = [f |-> f, image |-> i]
                         /\ more[i].device = d.device /\ more[i].lun = d.lun
                         /\ more[i].first = first + (i - 1) * z /\ more[i].size = z
  BY <1>4
<1> HIDE DEF n, new, m, more, first, z
<1>9. /\ em_fileContents' \in Seq(EmEntry) /\ em_from' \in Seq(EmSource)
      /\ Len(em_fileContents') = m + n /\ Len(em_from') = m + n
      /\ \A i \in 1..m : em_fileContents'[i] = em_fileContents[i] /\ em_from'[i] = em_from[i]
      /\ \A i \in m + 1..m + n : em_fileContents'[i] = more[i - m] /\ em_from'[i] = new[i - m]
  <2>1. more \in Seq(EmEntry) /\ Len(more) = n
    BY <1>5 DEF more
  <2>2. /\ em_fileContents' \in Seq(EmEntry) /\ Len(em_fileContents') = m + n
        /\ \A i \in 1..m : em_fileContents'[i] = em_fileContents[i]
        /\ \A i \in m + 1..m + n : em_fileContents'[i] = more[i - m]
    <3>1. /\ em_fileContents \o more \in Seq(EmEntry) /\ Len(em_fileContents \o more) = m + n
          /\ \A i \in 1..m : (em_fileContents \o more)[i] = em_fileContents[i]
          /\ \A i \in m + 1..m + n : (em_fileContents \o more)[i] = more[i - m]
      BY <1>7, <2>1, EmJoined
    <3> QED
      BY <1>8, <3>1
  <2>3. /\ em_from' \in Seq(EmSource) /\ Len(em_from') = m + n
        /\ \A i \in 1..m : em_from'[i] = em_from[i]
        /\ \A i \in m + 1..m + n : em_from'[i] = new[i - m]
    <3>0. Len(em_from) = m
      BY DEF m
    <3>1. /\ em_from \o new \in Seq(EmSource) /\ Len(em_from \o new) = m + n
          /\ \A i \in 1..m : (em_from \o new)[i] = em_from[i]
          /\ \A i \in m + 1..m + n : (em_from \o new)[i] = new[i - m]
      <4>1. new \in Seq(EmSource) /\ Len(new) = n /\ em_from \in Seq(EmSource)
        BY <1>6, <1>7
      <4> QED
        BY <3>0, <4>1, EmJoined
    <3> QED
      BY <1>8, <3>1
  <2> QED
    BY <2>2, <2>3
<1>10. /\ \A g : E!ImageSize(g)' = E!ImageSize(g) /\ E!ImagesCount(g)' = E!ImagesCount(g)
       /\ \A g : EmTaken(g)' = EmTaken(g)
  BY DEF E!ImageSize, E!ImagesCount, EmTaken, E!Multiple, E!Concatenated, E!CheckConsecutiveClustersForFileInFib
<1>11. ASSUME NEW i \in 1..m PROVE EmImage(i)' /\ EmPlaced(i)'
  <2>1. EmImage(i) /\ EmPlaced(i)
    BY DEF EmInv, m
  <2>2. em_fileContents'[i] = em_fileContents[i] /\ em_from'[i] = em_from[i]
    BY <1>9
  <2>3. em_from[i].image < E!ImagesCount(em_from[i].f) => i < m /\ i + 1 \in 1..m /\ em_from'[i + 1] = em_from[i + 1]
    <3>1. em_from[i].image < E!ImagesCount(em_from[i].f) => i < m
      BY <2>1 DEF EmImage, m
    <3>2. i < m => i + 1 \in 1..m
      BY <1>7
    <3> QED
      BY <1>9, <3>1, <3>2
  <2>4. i < m => i < Len(em_from')
    BY <1>7, <1>9
  <2>5. EmImage(i)'
    BY <1>10, <2>1, <2>2, <2>3, <2>4 DEF EmImage, E!GetFirstFileSectorForFileInFib
  <2>6. EmPlaced(i)'
    BY <2>1, <2>2 DEF EmPlaced, E!Done, E!Failed
  <2> QED
    BY <2>5, <2>6
<1>12. ASSUME NEW i \in m + 1..m + n PROVE EmImage(i)' /\ EmPlaced(i)'
  <2> DEFINE k == i - m
  <2>1. k \in 1..n /\ k \in Nat /\ i = m + k
    BY <1>7
  <2> HIDE DEF k
  <2>2. /\ em_from'[i].f = f /\ em_from'[i].image = k
        /\ em_fileContents'[i].device = d.device /\ em_fileContents'[i].lun = d.lun
        /\ em_fileContents'[i].first = first + (k - 1) * z /\ em_fileContents'[i].size = z
    <3>1. em_from'[i] = new[k] /\ em_fileContents'[i] = more[k]
      BY <1>9 DEF k
    <3> QED
      BY <1>8, <2>1, <3>1
  <2>3. k < n => i < Len(em_from') /\ em_from'[i + 1] = [f |-> f, image |-> k + 1]
    <3> SUFFICES ASSUME k < n PROVE i < Len(em_from') /\ em_from'[i + 1] = [f |-> f, image |-> k + 1]
      OBVIOUS
    <3>1. i + 1 \in m + 1..m + n /\ i < m + n /\ (i + 1) - m = k + 1 /\ k + 1 \in 1..n
      BY <1>7, <2>1
    <3>2. em_from'[i + 1] = new[k + 1]
      BY <1>9, <3>1
    <3> QED
      BY <1>8, <1>9, <3>1, <3>2
  <2>4. /\ E!ImageSize(f) = z /\ E!ImagesCount(f) = n /\ EmTaken(f)
        /\ first = d.first + E!GetFirstFileSectorForFileInFib(f)
    BY DEF z, n, first
  <2>5. EmImage(i)'
    <3>1. /\ em_from[i].f' = f /\ em_from[i].image' = k
          /\ em_fileContents[i].first' = first + (k - 1) * z /\ em_fileContents[i].size' = z
      BY <2>2
    <3>2. EmTaken(em_from[i].f)'
      BY <2>4, <3>1 DEF EmTaken, E!Multiple, E!Concatenated, E!ImageSize
    <3>3. E!ImagesCount(em_from[i].f)' = n /\ E!ImageSize(em_from[i].f)' = z
      BY <2>4, <3>1 DEF E!ImagesCount, E!ImageSize, E!Concatenated
    <3>4. E!GetFirstFileSectorForFileInFib(em_from[i].f)' = E!GetFirstFileSectorForFileInFib(f)
      BY <3>1 DEF E!GetFirstFileSectorForFileInFib
    <3>5. k < n => (i < Len(em_from))' /\ em_from'[i + 1] = [f |-> f, image |-> k + 1]
      BY <2>3
    <3>6. (em_from[i].f)' = f /\ EmDrives[(em_from[i].f).drive]' = d
      BY <3>1
    <3> QED
      <4>1. (em_from[i].image <= E!ImagesCount(em_from[i].f))'
        <5>1. k <= n
          BY <1>7, <2>1
        <5> QED
          BY <3>1, <3>3, <5>1, Zenon
      <4>2. (em_fileContents[i].size = E!ImageSize(em_from[i].f))'
        BY <3>1, <3>3
      <4>3. (em_fileContents[i].first = EmDrives[em_from[i].f.drive].first
               + E!GetFirstFileSectorForFileInFib(em_from[i].f) + (em_from[i].image - 1) * E!ImageSize(em_from[i].f))'
        BY <2>4, <3>1, <3>3, <3>4, <3>6
      <4>4. (em_from[i].image < E!ImagesCount(em_from[i].f) =>
               i < Len(em_from) /\ em_from[i + 1] = [f |-> em_from[i].f, image |-> em_from[i].image + 1])'
        BY <3>1, <3>3, <3>5, <3>6
      <4> QED
        BY <3>2, <4>1, <4>2, <4>3, <4>4 DEF EmImage
  <2>6. EmPlaced(i)'
    BY <2>2 DEF EmPlaced, E!Done, E!Failed
  <2> QED
    BY <2>5, <2>6
<1>13. \A i \in 1..m + n : i \in 1..m \/ i \in m + 1..m + n
  BY <1>7
<1> QED
  BY <1>9, <1>11, <1>12, <1>13 DEF m, n

\* A file of the search.
LEMMA EmFound ==
    ASSUME EmInv, E!ProcessFileFound PROVE EmInv'
<1> DEFINE f == Head(em_matched)
<1>1. /\ em_at = "file" /\ em_matched' = Tail(em_matched) /\ em_matched \in Seq(E!Files) /\ em_matched # <<>>
      /\ em_outputFileName # "" /\ UNCHANGED <<em_argv, em_options, em_outputFileName, em_names, em_file>>
  BY DEF EmInv, EmTypeInv, EmOrderInv, E!ProcessFileFound, E!args
<1>2. f \in E!Files /\ em_matched' \in Seq(E!Files)
  <2>1. em_matched \in Seq(E!Files) /\ em_matched # <<>> /\ em_matched' = Tail(em_matched)
    BY <1>1
  <2>2. f \in E!Files
    BY <2>1
  <2> QED
    BY <2>1, <2>2
<1>3. ~em_file.complete
  BY <1>1 DEF EmInv, EmWrittenInv, E!Done
<1>4. ASSUME NEW processed, E!NextFile(Tail(em_matched), processed)
      PROVE  em_at' \in {"args", "file", E!Failed} /\ (em_at' = "file" => em_matched' # <<>>)
  BY <1>1, <1>4 DEF E!NextFile, E!Terminate, E!Failed
<1>5. CASE UNCHANGED <<em_fileContents, em_from>> /\ em_at' \in {"args", "file", E!Failed} /\ (em_at' = "file" => em_matched' # <<>>)
  <2>1. EmTypeInv'
    BY <1>1, <1>2, <1>5 DEF EmInv, EmTypeInv, E!Failed
  <2>2. EmOrderInv' /\ EmWrittenInv'
    BY <1>1, <1>3, <1>5 DEF EmInv, EmOrderInv, EmWrittenInv, E!Failed, E!Done
  <2> QED
    BY <1>1, <1>5, <2>1, <2>2, EmKept
<1>6. CASE /\ E!CheckConsecutiveClustersForFileInFib(f) /\ ~E!TooSmall(f) /\ E!Multiple(f)
           /\ ~(E!ImagesCount(f) > MaxFilesToProcess - E!totalFilesProcessed)
           /\ em_fileContents' = em_fileContents \o E!Images(f)
           /\ em_from' = em_from \o [i \in 1..E!ImagesCount(f) |-> [f |-> f, image |-> i]]
           /\ E!NextFile(Tail(em_matched), E!totalFilesProcessed + E!ImagesCount(f))
  <2>1. em_at' \in {"args", "file", E!Failed} /\ (em_at' = "file" => em_matched' # <<>>)
    BY <1>4, <1>6
  <2>2. EmSector \in Nat \ {0} /\ MaxFilesToProcess \in Nat /\ f.bytes \in Nat
    BY <1>2, EmAssumption DEF E!EmufileAssumption, E!IsFile
  <2>3. EmTaken(f)
    BY <1>2, <1>6, <2>2 DEF EmTaken, E!TooSmall
  <2>4. E!ImagesCount(f) \in Nat
    <3>1. CASE E!Concatenated
      <4>1. em_options.concatenated \in Nat \ {0}
        BY <3>1 DEF EmInv, EmTypeInv, EmOptions, E!Concatenated
      <4>2. EmSector * em_options.concatenated \in Nat \ {0}
        BY <2>2, <4>1
      <4> QED
        BY <2>2, <3>1, <4>2, DividedWith DEF E!ImagesCount, E!ImageSize
    <3>2. CASE ~E!Concatenated
      BY <3>2 DEF E!ImagesCount
    <3> QED
      BY <3>1, <3>2
  <2>5. Len(em_from) + E!ImagesCount(f) <= MaxFilesToProcess
    BY <1>6, <2>2, <2>4 DEF EmInv, EmTypeInv, E!totalFilesProcessed
  <2> HIDE DEF f
  <2>6. /\ em_fileContents' \in Seq(EmEntry) /\ em_from' \in Seq(EmSource)
        /\ Len(em_fileContents') = Len(em_from) + E!ImagesCount(f) /\ Len(em_from') = Len(em_from) + E!ImagesCount(f)
        /\ \A i \in 1..Len(em_from') : EmImage(i)' /\ EmPlaced(i)'
    BY <1>1, <1>2, <1>6, <2>1, <2>3, <2>4, <2>5, EmAdded
  <2>7. EmTypeInv'
    BY <1>1, <1>2, <2>1, <2>5, <2>6 DEF EmInv, EmTypeInv, E!Failed
  <2>8. EmOrderInv' /\ EmWrittenInv'
    BY <1>1, <1>3, <2>1 DEF EmInv, EmOrderInv, EmWrittenInv, E!Failed, E!Done
  <2> QED
    BY <2>6, <2>7, <2>8 DEF EmInv
<1>7. \/ UNCHANGED <<em_fileContents, em_from>> /\ em_at' = E!Failed
      \/ UNCHANGED <<em_fileContents, em_from>> /\ E!NextFile(Tail(em_matched), E!totalFilesProcessed)
      \/ /\ E!CheckConsecutiveClustersForFileInFib(f) /\ ~E!TooSmall(f) /\ E!Multiple(f)
         /\ ~(E!ImagesCount(f) > MaxFilesToProcess - E!totalFilesProcessed)
         /\ em_fileContents' = em_fileContents \o E!Images(f)
         /\ em_from' = em_from \o [i \in 1..E!ImagesCount(f) |-> [f |-> f, image |-> i]]
         /\ E!NextFile(Tail(em_matched), E!totalFilesProcessed + E!ImagesCount(f))
  BY DEF E!ProcessFileFound, E!Terminate
<1>8. CASE UNCHANGED <<em_fileContents, em_from>> /\ em_at' = E!Failed
  BY <1>5, <1>8 DEF E!Failed
<1>9. CASE UNCHANGED <<em_fileContents, em_from>> /\ E!NextFile(Tail(em_matched), E!totalFilesProcessed)
  BY <1>4, <1>5, <1>9
<1> QED
  BY <1>6, <1>7, <1>8, <1>9

\* The devices of the table become 0 if all are the one of the data file.
LEMMA EmDevices ==
    ASSUME EmInv, E!SetDeviceIndexesOfFilesTableToZeroIfAllInSameDeviceAsDataFile PROVE EmInv'
<1> DEFINE its == EmDrives[EmDirectory[em_outputFileName][1].drive]
           same == \A i \in DOMAIN em_fileContents :
                     em_fileContents[i].device = its.device /\ em_fileContents[i].lun = its.lun
           zero == [i \in DOMAIN em_fileContents |-> [em_fileContents[i] EXCEPT !.device = 0, !.lun = 0]]
<1>1. /\ em_at = "device" /\ em_at' = "create" /\ UNCHANGED <<em_argv, em_options, em_outputFileName, em_names, em_matched, em_from, em_file>>
      /\ em_fileContents' = IF same THEN zero ELSE em_fileContents
  BY DEF E!SetDeviceIndexesOfFilesTableToZeroIfAllInSameDeviceAsDataFile, E!args
<1>2. /\ em_fileContents \in Seq(EmEntry) /\ em_from \in Seq(EmSource) /\ Len(em_from) = Len(em_fileContents)
      /\ DOMAIN em_fileContents = 1..Len(em_from) /\ Len(em_from) \in Nat /\ em_fileContents # <<>>
  <2>1. em_fileContents \in Seq(EmEntry) /\ em_from \in Seq(EmSource) /\ Len(em_from) = Len(em_fileContents)
    BY DEF EmInv, EmTypeInv
  <2>2. em_fileContents # <<>>
    BY <1>1 DEF EmInv, EmOrderInv
  <2> QED
    BY <2>1, <2>2
<1>3. /\ zero \in Seq(EmEntry) /\ Len(zero) = Len(em_from)
      /\ \A i \in 1..Len(em_from) : /\ zero[i].device = 0 /\ zero[i].lun = 0
                                    /\ zero[i].first = em_fileContents[i].first /\ zero[i].size = em_fileContents[i].size
  <2>1. ASSUME NEW i \in 1..Len(em_from)
        PROVE  /\ [em_fileContents[i] EXCEPT !.device = 0, !.lun = 0] \in EmEntry
               /\ zero[i] = [em_fileContents[i] EXCEPT !.device = 0, !.lun = 0]
               /\ zero[i].device = 0 /\ zero[i].lun = 0
               /\ zero[i].first = em_fileContents[i].first /\ zero[i].size = em_fileContents[i].size
    <3>1. em_fileContents[i] \in EmEntry
      BY <1>2
    <3> QED
      BY <1>2, <3>1 DEF EmEntry, EmLuns
  <2>2. zero = [i \in 1..Len(em_from) |-> zero[i]]
    BY <1>2
  <2> HIDE DEF zero
  <2>3. zero \in [1..Len(em_from) -> EmEntry]
    BY <2>1, <2>2
  <2>4. zero \in Seq(EmEntry) /\ Len(zero) = Len(em_from)
    <3> DEFINE n == Len(em_from)
    <3>1. n \in Nat
      BY <1>2
    <3> HIDE DEF n
    <3>2. zero \in [1..n -> EmEntry]
      BY <2>3 DEF n
    <3>3. zero \in Seq(EmEntry) /\ Len(zero) = n
      BY <3>1, <3>2
    <3> QED
      BY <3>3 DEF n
  <2> QED
    BY <2>1, <2>4
<1> HIDE DEF zero
<1>4. /\ em_fileContents' \in Seq(EmEntry) /\ Len(em_fileContents') = Len(em_from)
      /\ \A i \in 1..Len(em_from) : em_fileContents'[i].first = em_fileContents[i].first /\ em_fileContents'[i].size = em_fileContents[i].size
  BY <1>1, <1>2, <1>3
<1>5. EmTypeInv'
  BY <1>1, <1>4 DEF EmInv, EmTypeInv
<1>6. em_fileContents' # <<>>
  BY <1>2, <1>4
<1>7. em_outputFileName # "" /\ ~em_file.complete
  BY <1>1, <1>2 DEF EmInv, EmOrderInv, EmWrittenInv, E!Done
<1>8. EmOrderInv' /\ EmWrittenInv'
  BY <1>1, <1>6, <1>7 DEF EmOrderInv, EmWrittenInv, E!Done
<1>9. ASSUME NEW i \in 1..Len(em_from)' PROVE EmImage(i)' /\ EmPlaced(i)'
  <2>1. i \in 1..Len(em_from) /\ EmImage(i) /\ EmPlaced(i) /\ i \in DOMAIN em_fileContents
    BY <1>1, <1>2, <1>9 DEF EmInv
  <2>2. EmImage(i)'
    BY <1>1, <1>4, <2>1 DEF EmImage, EmTaken, E!ImagesCount, E!ImageSize, E!Multiple, E!Concatenated,
                E!CheckConsecutiveClustersForFileInFib, E!GetFirstFileSectorForFileInFib
  <2>3. /\ em_fileContents[i].device = EmDrives[em_from[i].f.drive].device
        /\ em_fileContents[i].lun = EmDrives[em_from[i].f.drive].lun
    BY <1>1, <2>1 DEF EmPlaced, E!Done, E!Failed
  <2>4. EmDrives[em_from[i].f.drive].device # 0
    <3>1. em_from[i].f \in E!Files
      BY <2>1 DEF EmImage, EmTaken
    <3> QED
      BY <3>1, EmAssumption DEF E!EmufileAssumption, E!IsFile
  <2>5. CASE same
    <3>1. em_fileContents'[i].device = 0
      BY <1>1, <1>3, <2>1, <2>5
    <3>2. its.device = EmDrives[em_from[i].f.drive].device /\ its.lun = EmDrives[em_from[i].f.drive].lun
      BY <2>1, <2>3, <2>5
    <3>3. EmPlaced(i)'
      BY <1>1, <3>1, <3>2 DEF EmPlaced
    <3> QED
      BY <2>2, <3>3
  <2>6. CASE ~same
    <3>1. em_fileContents' = em_fileContents
      BY <1>1, <2>6
    <3>2. EmPlaced(i)'
      BY <1>1, <2>3, <2>4, <3>1 DEF EmPlaced
    <3> QED
      BY <2>2, <3>2
  <2> QED
    BY <2>5, <2>6
<1> QED
  BY <1>5, <1>8, <1>9 DEF EmInv

\* The other steps.
LEMMA EmOthers ==
    ASSUME EmInv, E!EndOfArguments \/ E!Create \/ E!GenerateFile \/ E!WriteTexts \/ E!TerminateWithDosError
    PROVE  EmInv'
<1>1. UNCHANGED <<em_argv, em_options, em_outputFileName, em_names, em_matched, em_fileContents, em_from>>
  BY DEF E!EndOfArguments, E!Create, E!GenerateFile, E!WriteTexts, E!TerminateWithDosError, E!args, E!table
<1>2. CASE E!EndOfArguments
  <2>1. em_at = "args" /\ em_file' = em_file /\ (em_at' = E!Failed \/ (em_at' = "device" /\ em_fileContents # <<>>))
    <3>1. Len(em_fileContents) # 0 => em_fileContents # <<>>
      OBVIOUS
    <3> QED
      BY <1>2, <3>1 DEF E!EndOfArguments, E!totalFilesProcessed
  <2>2. EmTypeInv'
    BY <1>1, <2>1 DEF EmInv, EmTypeInv, E!Failed
  <2>3. EmOrderInv' /\ EmWrittenInv'
    BY <1>1, <2>1 DEF EmInv, EmOrderInv, EmWrittenInv, E!Failed, E!Done
  <2> QED
    BY <1>1, <2>1, <2>2, <2>3, EmKept
<1>3. CASE E!Create
  <2>1. em_at = "create" /\ em_at' = "header" /\ ~em_file'.complete
    BY <1>3 DEF E!Create, E!NoFile
  <2>2. EmTypeInv'
    BY <1>1, <2>1 DEF EmInv, EmTypeInv
  <2>3. EmOrderInv' /\ EmWrittenInv'
    BY <1>1, <2>1 DEF EmInv, EmOrderInv, EmWrittenInv, E!Done
  <2> QED
    BY <1>1, <2>1, <2>2, <2>3, EmKept
<1>4. CASE E!GenerateFile
  <2>1. /\ em_at = "header" /\ em_at' = "texts" /\ ~em_file'.complete /\ em_file'.entries = em_fileContents
        /\ em_file'.boot = E!BootFileIndex /\ em_file'.flags = E!EmuFlagsByte
    BY <1>4 DEF E!GenerateFile
  <2>2. EmTypeInv'
    BY <1>1, <2>1 DEF EmInv, EmTypeInv
  <2>3. E!BootFileIndex' = E!BootFileIndex /\ E!EmuFlagsByte' = E!EmuFlagsByte
    BY <1>1 DEF E!BootFileIndex, E!EmuFlagsByte, E!totalFilesProcessed
  <2>4. EmOrderInv' /\ EmWrittenInv'
    BY <1>1, <2>1, <2>3 DEF EmInv, EmOrderInv, EmWrittenInv, E!Done
  <2> QED
    BY <1>1, <2>1, <2>2, <2>4, EmKept
<1>5. CASE E!WriteTexts
  <2>1. em_at = "texts" /\ em_at' = E!Done /\ em_file' = [em_file EXCEPT !.complete = TRUE]
    BY <1>5 DEF E!WriteTexts, E!Terminate
  <2>2. em_file'.entries = em_file.entries /\ em_file'.boot = em_file.boot /\ em_file'.flags = em_file.flags
    BY <2>1
  <2>3. EmTypeInv'
    BY <1>1, <2>1 DEF EmInv, EmTypeInv
  <2>4. E!BootFileIndex' = E!BootFileIndex /\ E!EmuFlagsByte' = E!EmuFlagsByte
    BY <1>1 DEF E!BootFileIndex, E!EmuFlagsByte, E!totalFilesProcessed
  <2>5. EmOrderInv' /\ EmWrittenInv'
    BY <1>1, <2>1, <2>2, <2>4 DEF EmInv, EmOrderInv, EmWrittenInv, E!Done
  <2> QED
    BY <1>1, <2>1, <2>3, <2>5, EmKept
<1>6. CASE E!TerminateWithDosError
  <2>1. em_at \notin {E!Failed, E!Done} /\ em_at' = E!Failed /\ em_file' = em_file
    BY <1>6 DEF E!TerminateWithDosError, E!Terminate
  <2>2. EmTypeInv'
    BY <1>1, <2>1 DEF EmInv, EmTypeInv
  <2>3. EmOrderInv' /\ EmWrittenInv'
    BY <1>1, <2>1 DEF EmInv, EmOrderInv, EmWrittenInv, E!Failed, E!Done
  <2> QED
    BY <1>1, <2>1, <2>2, <2>3, EmKept
<1> QED
  BY <1>2, <1>3, <1>4, <1>5, <1>6

\* Nothing changes.
LEMMA EmStill == EmInv /\ UNCHANGED E!vars => EmInv'
<1> SUFFICES ASSUME EmInv, UNCHANGED E!vars PROVE EmInv'
  OBVIOUS
<1>1. UNCHANGED <<em_argv, em_options, em_outputFileName, em_names, em_matched, em_fileContents, em_from, em_file, em_at>>
  BY DEF E!vars
<1>2. EmTypeInv' /\ EmOrderInv'
  BY <1>1 DEF EmInv, EmTypeInv, EmOrderInv
<1>3. EmWrittenInv'
  BY <1>1 DEF EmInv, EmWrittenInv, E!BootFileIndex, E!EmuFlagsByte, E!totalFilesProcessed
<1>4. ASSUME NEW i \in 1..Len(em_from)' PROVE EmImage(i)' /\ EmPlaced(i)'
  <2>1. i \in 1..Len(em_from) /\ EmImage(i) /\ EmPlaced(i)
    BY <1>1, <1>4 DEF EmInv
  <2>2. EmImage(i)'
    BY <1>1, <2>1 DEF EmImage, EmTaken, E!ImagesCount, E!ImageSize, E!Multiple, E!Concatenated,
                E!CheckConsecutiveClustersForFileInFib, E!GetFirstFileSectorForFileInFib
  <2>3. EmPlaced(i)'
    BY <1>1, <2>1 DEF EmPlaced
  <2> QED
    BY <2>2, <2>3
<1> QED
  BY <1>2, <1>3, <1>4 DEF EmInv

\* And each step of the program keeps it.
LEMMA EmStep == EmInv /\ [E!Next]_(E!vars) => EmInv'
  BY EmArguments, EmFound, EmDevices, EmOthers, EmStill DEF E!Next, E!Ended

----------------------------------------------------------------------------
(* EMUFILE: what the table says. *)

\* Clusters that follow one another are counted from the first.
LEMMA EmConsecutive ==
    ASSUME NEW f, f.clusters \in Seq(Nat), E!CheckConsecutiveClustersForFileInFib(f)
    PROVE  \A k \in 1..Len(f.clusters) : f.clusters[k] = f.clusters[1] + (k - 1)
<1> DEFINE c == f.clusters
           n == Len(c)
           Bad == {k \in 1..n : c[k] # c[1] + (k - 1)}
<1>1. c \in Seq(Nat) /\ n \in Nat /\ \A i \in 1..n - 1 : c[i + 1] = c[i] + 1
  BY DEF E!CheckConsecutiveClustersForFileInFib
<1>2. \A k \in 1..n : c[k] \in Nat
  BY <1>1
<1> HIDE DEF c, n
<1>3. Bad = {}
  <2> SUFFICES ASSUME Bad # {} PROVE FALSE
    OBVIOUS
  <2>0. Bad \in SUBSET Nat
    BY <1>1
  <2>1. PICK k \in Bad : \A j \in Bad : k <= j
    <3> HIDE DEF Bad
    <3> QED
      BY <2>0, LeastNatural
  <2>2. k \in 1..n /\ c[k] # c[1] + (k - 1)
    BY <2>1
  <2>3. k # 1
    BY <1>1, <1>2, <2>2
  <2>4. k - 1 \in 1..n - 1 /\ k - 1 \in 1..n /\ (k - 1) + 1 = k /\ ~(k <= k - 1)
    BY <1>1, <2>2, <2>3
  <2>5. c[k - 1] = c[1] + ((k - 1) - 1)
    BY <2>1, <2>4
  <2>6. c[k] = c[k - 1] + 1
    BY <1>1, <2>4
  <2>7. c[1] \in Nat /\ k \in Nat
    BY <1>1, <1>2, <2>2
  <2>8. c[k] = c[1] + (k - 1)
    BY <2>5, <2>6, <2>7
  <2> QED
    BY <2>2, <2>8
<1> QED
  BY <1>3 DEF c, n

\* A sector of a file is where the chain of its clusters says.
LEMMA EmSectorOfFile ==
    ASSUME NEW f \in E!Files, E!CheckConsecutiveClustersForFileInFib(f), NEW N \in Nat, N < f.bytes \div EmSector
    PROVE  /\ f.clusters[N \div EmDrives[f.drive].spc + 1] \in Nat
           /\ (f.clusters[N \div EmDrives[f.drive].spc + 1] - 2) * EmDrives[f.drive].spc + (N % EmDrives[f.drive].spc)
                = (f.clusters[1] - 2) * EmDrives[f.drive].spc + N
<1> DEFINE k == EmDrives[f.drive].spc
           c == f.clusters
           q == N \div k
           r == N % k
<1>1. k \in Nat \ {0} /\ c \in Seq(Nat) /\ EmSector \in Nat \ {0} /\ f.bytes \in Nat
      /\ f.bytes <= Len(c) * k * EmSector
  BY EmAssumption DEF E!EmufileAssumption, E!IsFile
<1>2. Len(c) \in Nat /\ Len(c) * k \in Nat
  BY <1>1
<1>3. f.bytes \div EmSector <= Len(c) * k /\ f.bytes \div EmSector \in Nat
  <2> DEFINE p == Len(c) * k
  <2>1. p \in Nat /\ f.bytes <= p * EmSector
    BY <1>1, <1>2
  <2> HIDE DEF p
  <2>2. f.bytes \div EmSector <= p
    BY <1>1, <2>1, DividedAtMost
  <2> QED
    BY <1>1, <2>2, DividedWith DEF p
<1>4. N < Len(c) * k
  BY <1>2, <1>3
<1> HIDE DEF k, c, q, r
<1>5. q < Len(c)
  BY <1>1, <1>2, <1>4, DividedLess DEF q
<1>6. q \in Nat /\ r \in Nat /\ N = q * k + r
  <2>1. N \div k \in Nat /\ (N % k) \in 0..k - 1 /\ N = (N \div k) * k + (N % k)
    BY <1>1, DividedWith
  <2> QED
    BY <1>1, <2>1 DEF q, r
<1>7. q + 1 \in 1..Len(c) /\ 1 \in 1..Len(c)
  BY <1>2, <1>5, <1>6
<1>8. c[q + 1] = c[1] + q /\ c[1] \in Nat
  <2>1. c[q + 1] = c[1] + ((q + 1) - 1)
    BY <1>1, <1>7, EmConsecutive DEF c
  <2>2. c[1] \in Nat
    BY <1>1, <1>7
  <2> QED
    BY <1>6, <2>1, <2>2
<1>9. (c[q + 1] - 2) * k + r = (c[1] - 2) * k + (q * k + r)
  <2> DEFINE a == c[1]
  <2>1. a \in Int /\ q \in Int /\ r \in Int /\ k \in Int
    BY <1>1, <1>6, <1>8
  <2> HIDE DEF a
  <2>2. ((a + q) - 2) * k + r = (a - 2) * k + (q * k + r)
    BY <2>1, SectorOf
  <2> QED
    BY <1>8, <2>2, Zenon DEF a
<1>10. (c[q + 1] - 2) * k + r = (c[1] - 2) * k + N
  BY <1>6, <1>9, Zenon
<1>11. c[q + 1] \in Nat
  BY <1>1, <1>7
<1> QED
  BY <1>10, <1>11 DEF k, c, q, r

\* The images of a file take the sectors of it.
LEMMA EmImagesTake ==
    ASSUME EmInv, NEW f, EmTaken(f)
    PROVE  /\ E!ImagesCount(f) \in Nat /\ E!ImageSize(f) \in Nat \ {0}
           /\ f.bytes \div EmSector = E!ImagesCount(f) * E!ImageSize(f)
<1>1. EmSector \in Nat \ {0} /\ f.bytes \in Nat /\ f.bytes >= EmSector
  BY EmAssumption DEF EmTaken, E!EmufileAssumption, E!IsFile
<1>2. CASE E!Concatenated
  <2> DEFINE z == em_options.concatenated
  <2>1. z \in Nat \ {0}
    BY <1>2 DEF EmInv, EmTypeInv, EmOptions, E!Concatenated
  <2>2. E!ImageSize(f) = z /\ E!ImagesCount(f) = f.bytes \div (EmSector * z) /\ f.bytes % (EmSector * z) = 0
    BY <1>2 DEF E!ImageSize, E!ImagesCount, EmTaken, E!Multiple
  <2> DEFINE b == f.bytes
  <2> HIDE DEF z, b
  <2>b. b \in Nat /\ b % (EmSector * z) = 0
    BY <1>1, <2>2 DEF b
  <2>3. b \div EmSector = (b \div (EmSector * z)) * z /\ b \div (EmSector * z) \in Nat
    BY <1>1, <2>1, <2>b, ImagesFill
  <2> DEFINE all == b \div EmSector
             count == b \div (EmSector * z)
  <2>4. all = count * z /\ count \in Nat /\ E!ImagesCount(f) = count
    BY <2>2, <2>3 DEF b
  <2> HIDE DEF all, count
  <2>5. all = E!ImagesCount(f) * E!ImageSize(f) /\ E!ImagesCount(f) \in Nat /\ E!ImageSize(f) \in Nat \ {0}
    BY <2>1, <2>2, <2>4
  <2> QED
    BY <2>5 DEF all, b
<1>3. CASE ~E!Concatenated
  <2> DEFINE b == f.bytes
             q == b \div EmSector
  <2>1. q \in Nat /\ (b % EmSector) \in 0..EmSector - 1 /\ b = q * EmSector + (b % EmSector)
    BY <1>1, DividedWith
  <2> HIDE DEF q
  <2>2. q # 0
    BY <1>1, <2>1
  <2>3. E!ImageSize(f) = q /\ E!ImagesCount(f) = 1
    BY <1>3 DEF E!ImageSize, E!ImagesCount, q
  <2>4. q = 1 * q
    BY <2>1
  <2> QED
    BY <2>1, <2>2, <2>3, <2>4 DEF q
<1> QED
  BY <1>2, <1>3

\* The first sector of a file on its device, and the one that the chain of the file has
\* for its sector N.
EmStart(f) == EmDrives[f.drive].first + E!GetFirstFileSectorForFileInFib(f)
EmAt(f, N) ==
    EmDrives[f.drive].first + EmDrives[f.drive].data
      + (f.clusters[N \div EmDrives[f.drive].spc + 1] - 2) * EmDrives[f.drive].spc
      + (N % EmDrives[f.drive].spc)

\* The sectors of the file that an image takes are there.
EmFits(f, offset, z) == f.bytes \div EmSector \in Nat /\ offset + z <= f.bytes \div EmSector

\* A sector of an image is where the chain of the file says.
LEMMA EmSectorExact ==
    ASSUME NEW f \in E!Files, E!CheckConsecutiveClustersForFileInFib(f), NEW offset \in Nat, NEW s \in Nat,
           offset + s < f.bytes \div EmSector
    PROVE  EmStart(f) + offset + s = EmAt(f, offset + s)
<1> DEFINE k == EmDrives[f.drive].spc
           h == EmDrives[f.drive].first
           g == EmDrives[f.drive].data
           N == offset + s
           a == f.clusters[N \div k + 1]
           b == f.clusters[1]
           p == (a - 2) * k
           q == (b - 2) * k
           r == N % k
           start == EmStart(f) + offset
<1>1. E!IsFile(f) /\ f.clusters # <<>>
  BY EmAssumption DEF E!EmufileAssumption, E!CheckConsecutiveClustersForFileInFib
<1>2. f.clusters \in Seq(Nat) /\ f.drive \in DOMAIN EmDrives /\ b \in Nat
  BY <1>1 DEF E!IsFile
<1>3. h \in Nat /\ g \in Nat /\ k \in Nat \ {0} /\ N \in Nat
  BY <1>2, EmAssumption DEF E!EmufileAssumption
<1>4. a \in Nat /\ p + r = q + N
  BY <1>3, EmSectorOfFile
<1>5. start = h + (g + q) + offset /\ N = offset + s
  BY DEF E!GetFirstFileSectorForFileInFib, EmStart
<1> HIDE DEF N, h, g, k, a, b, start
<1>6. r \in Nat
  <2>1. r \in 0..k - 1
    BY <1>3, DividedWith
  <2> QED
    BY <1>3, <2>1
<1>7. p \in Int /\ q \in Int
  <2>1. a - 2 \in Int /\ b - 2 \in Int
    BY <1>2, <1>4
  <2> QED
    BY <1>3, <2>1
<1> HIDE DEF p, q, r
<1>8. start + s = h + g + p + r
  BY <1>3, <1>4, <1>5, <1>6, <1>7
<1>9. start + s = EmAt(f, N)
  BY <1>8 DEF EmAt, N, h, g, k, a, p, r
<1> QED
  BY <1>9 DEF start, N

\* And so are all sectors of an image that lies in its file.
LEMMA EmSectorsExact ==
    ASSUME NEW f \in E!Files, E!CheckConsecutiveClustersForFileInFib(f), NEW offset \in Nat, NEW z \in Nat,
           EmFits(f, offset, z)
    PROVE  \A s \in 0..z - 1 : EmStart(f) + offset + s = EmAt(f, offset + s)
<1> SUFFICES ASSUME NEW s \in 0..z - 1 PROVE EmStart(f) + offset + s = EmAt(f, offset + s)
  OBVIOUS
<1>1. s \in Nat
  OBVIOUS
<1>2. offset + s < f.bytes \div EmSector
  <2> DEFINE bytes == f.bytes \div EmSector
  <2>1. bytes \in Nat /\ offset + z <= bytes
    BY DEF EmFits
  <2> HIDE DEF bytes
  <2>2. offset + s < bytes
    BY <2>1
  <2> QED
    BY <2>2 DEF bytes
<1> QED
  BY <1>1, <1>2, EmSectorExact

\* The image before one ends where it begins, and it ends in the file.
LEMMA ImageFits ==
    ASSUME NEW n \in Nat \ {0}, NEW count \in Nat, NEW z \in Nat \ {0}, n <= count
    PROVE  /\ (n - 1) * z \in Nat /\ (n - 1) * z + z = n * z /\ n * z \in Nat
           /\ n * z <= count * z /\ count * z \in Nat
           /\ n * z < count * z => n < count
<1>1. (n - 1) * z \in Nat /\ n * z \in Nat
  OBVIOUS
<1>2. n * z = (n - 1) * z + z
  BY NextImage
<1>3. count - n \in Nat /\ count = n + (count - n)
  OBVIOUS
<1>4. (n + (count - n)) * z = n * z + (count - n) * z /\ (count - n) * z \in Nat
  BY <1>3, SumTimes
<1>5. count * z = n * z + (count - n) * z
  BY <1>3, <1>4
<1>6. n * z < count * z => n # count
  OBVIOUS
<1> DEFINE a == n * z
           b == (count - n) * z
           c == count * z
<1>7. a \in Nat /\ b \in Nat /\ c = a + b
  BY <1>1, <1>4, <1>5
<1> HIDE DEF a, b, c
<1>8. a <= c /\ c \in Nat
  BY <1>7
<1> QED
  BY <1>1, <1>2, <1>6, <1>8 DEF a, c

\* Where an image begins in its file.
EmOffset(f, n) == (n - 1) * E!ImageSize(f)

\* An image of a file is where the chain of the file says.
LEMMA EmImageExact ==
    ASSUME EmInv, NEW f, EmTaken(f), NEW n \in Nat \ {0}, n <= E!ImagesCount(f)
    PROVE  /\ EmOffset(f, n) \in Nat /\ EmFits(f, EmOffset(f, n), E!ImageSize(f))
           /\ EmOffset(f, n) + E!ImageSize(f) < f.bytes \div EmSector => n < E!ImagesCount(f)
           /\ \A s \in 0..E!ImageSize(f) - 1 :
                EmStart(f) + EmOffset(f, n) + s = EmAt(f, EmOffset(f, n) + s)
<1> DEFINE z == E!ImageSize(f)
           o == EmOffset(f, n)
           count == E!ImagesCount(f)
<1>1. /\ count \in Nat /\ z \in Nat \ {0} /\ f.bytes \div EmSector = count * z /\ n <= count
  BY EmImagesTake
<1>2. f \in E!Files /\ E!CheckConsecutiveClustersForFileInFib(f)
  BY DEF EmTaken
<1>3. o = (n - 1) * z
  BY DEF EmOffset
<1> HIDE DEF z, o, count
<1>4. /\ (n - 1) * z \in Nat /\ (n - 1) * z + z = n * z /\ n * z \in Nat
      /\ n * z <= count * z /\ count * z \in Nat
      /\ n * z < count * z => n < count
  BY <1>1, ImageFits
<1>5. o \in Nat /\ o + z = n * z
  BY <1>3, <1>4
<1>6. EmFits(f, o, z)
  BY <1>1, <1>4, <1>5 DEF EmFits
<1>7. o + z < f.bytes \div EmSector => n < count
  BY <1>1, <1>4, <1>5
<1>8. \A s \in 0..z - 1 : EmStart(f) + o + s = EmAt(f, o + s)
  BY <1>1, <1>2, <1>5, <1>6, EmSectorsExact
<1> QED
  BY <1>5, <1>6, <1>7, <1>8 DEF z, o, count

\* An entry of the table is exact.
LEMMA EmEntryExact ==
    ASSUME EmInv, NEW i \in 1..Len(em_from)
    PROVE  LET f == em_from[i].f
               n == em_from[i].image
               z == em_fileContents[i].size
               o == EmOffset(f, n)
           IN /\ o = (n - 1) * z /\ EmFits(f, o, z)
              /\ \A s \in 0..z - 1 : em_fileContents[i].first + s = EmAt(f, o + s)
              /\ o + z < f.bytes \div EmSector => em_from[i + 1] = [f |-> f, image |-> n + 1]
<1> DEFINE f == em_from[i].f
           n == em_from[i].image
           z == em_fileContents[i].size
           o == EmOffset(f, n)
           first == em_fileContents[i].first
<1>1. /\ EmTaken(f) /\ n <= E!ImagesCount(f) /\ z = E!ImageSize(f)
      /\ first = EmStart(f) + (n - 1) * E!ImageSize(f)
      /\ n < E!ImagesCount(f) => em_from[i + 1] = [f |-> f, image |-> n + 1]
  <2>1. EmImage(i)
    BY DEF EmInv
  <2> QED
    BY <2>1 DEF EmImage, EmStart
<1>2. n \in Nat \ {0}
  <2>1. em_from \in Seq(EmSource)
    BY DEF EmInv, EmTypeInv
  <2>2. em_from[i] \in EmSource
    BY <2>1
  <2> QED
    BY <2>2 DEF EmSource
<1> HIDE DEF f, n, z, first
<1>3. /\ o \in Nat /\ EmFits(f, o, E!ImageSize(f))
      /\ o + E!ImageSize(f) < f.bytes \div EmSector => n < E!ImagesCount(f)
      /\ \A s \in 0..E!ImageSize(f) - 1 : EmStart(f) + o + s = EmAt(f, o + s)
  BY <1>1, <1>2, EmImageExact
<1>4. first = EmStart(f) + o /\ o = (n - 1) * z
  BY <1>1 DEF EmOffset
<1> HIDE DEF o
<1>5. \A s \in 0..z - 1 : first + s = EmAt(f, o + s)
  BY <1>1, <1>3, <1>4, Zenon
<1>6. o + z < f.bytes \div EmSector => em_from[i + 1] = [f |-> f, image |-> n + 1]
  BY <1>1, <1>3, Zenon
<1>7. EmFits(f, o, z)
  BY <1>1, <1>3, Zenon
<1> QED
  BY <1>4, <1>5, <1>6, <1>7, Zenon DEF f, n, z, o, first

\* The table of a finished file is exact.
LEMMA EmSafe == EmInv => E!TableExact /\ E!TypeOK
<1> SUFFICES ASSUME EmInv PROVE E!TableExact /\ E!TypeOK
  OBVIOUS
<1>1. E!TypeOK
  BY DEF EmInv, EmTypeInv, E!TypeOK
<1> DEFINE its == EmDrives[EmDirectory[em_outputFileName][1].drive]
           Placed(e) == IF e.device = 0 THEN <<its.device, its.lun>> ELSE <<e.device, e.lun>>
<1>2. ASSUME em_file.complete
      PROVE  /\ em_at = E!Done /\ em_file.entries = em_fileContents /\ em_file.boot = E!BootFileIndex
             /\ em_file.flags = E!EmuFlagsByte /\ em_fileContents # <<>>
  BY <1>2 DEF EmInv, EmWrittenInv, EmOrderInv
<1>3. /\ Len(em_from) \in Nat /\ DOMAIN em_fileContents = 1..Len(em_from) /\ Len(em_fileContents) = Len(em_from)
  BY DEF EmInv, EmTypeInv
<1>4. ASSUME em_file.complete, NEW i \in DOMAIN em_file.entries
      PROVE  LET e == em_file.entries[i]
                 f == em_from[i].f
                 offset == (em_from[i].image - 1) * e.size
             IN /\ Placed(e) = <<EmDrives[f.drive].device, EmDrives[f.drive].lun>>
                /\ e.size = IF E!Concatenated THEN em_options.concatenated ELSE f.bytes \div EmSector
                /\ offset + e.size <= f.bytes \div EmSector
                /\ \A s \in 0..e.size - 1 :
                     e.first + s = EmDrives[f.drive].first + EmDrives[f.drive].data
                       + (f.clusters[(offset + s) \div EmDrives[f.drive].spc + 1] - 2) * EmDrives[f.drive].spc
                       + ((offset + s) % EmDrives[f.drive].spc)
                /\ E!Concatenated /\ offset + e.size < f.bytes \div EmSector =>
                     em_from[i + 1] = [f |-> f, image |-> em_from[i].image + 1]
  <2> DEFINE e == em_fileContents[i]
             f == em_from[i].f
             n == em_from[i].image
             z == e.size
             offset == (n - 1) * z
  <2>1. i \in 1..Len(em_from) /\ em_file.entries[i] = e /\ em_at = E!Done
    BY <1>2, <1>3, <1>4
  <2>2. EmPlaced(i)
    BY <2>1 DEF EmInv
  <2>3. Placed(e) = <<EmDrives[f.drive].device, EmDrives[f.drive].lun>>
    BY <2>1, <2>2 DEF EmPlaced
  <2>4. /\ offset + z <= f.bytes \div EmSector
        /\ \A s \in 0..z - 1 : e.first + s = EmAt(f, offset + s)
        /\ offset + z < f.bytes \div EmSector => em_from[i + 1] = [f |-> f, image |-> n + 1]
    <3> DEFINE o == EmOffset(f, n)
    <3>1. /\ o = offset /\ EmFits(f, o, z)
          /\ \A s \in 0..z - 1 : e.first + s = EmAt(f, o + s)
          /\ o + z < f.bytes \div EmSector => em_from[i + 1] = [f |-> f, image |-> n + 1]
      BY <2>1, EmEntryExact, Zenon
    <3> HIDE DEF o, f, n, e, offset
    <3> QED
      BY <3>1, Zenon DEF EmFits
  <2>5. z = IF E!Concatenated THEN em_options.concatenated ELSE f.bytes \div EmSector
    <3>1. EmImage(i)
      BY <2>1 DEF EmInv
    <3> QED
      BY <3>1 DEF EmImage, E!ImageSize
  <2> HIDE DEF Placed
  <2> QED
    BY <2>1, <2>3, <2>4, <2>5, Zenon DEF EmAt
<1>5. ASSUME em_file.complete PROVE em_file.boot \in DOMAIN em_file.entries
  <2>1. em_options.boot \in 1..32
    BY DEF EmInv, EmTypeInv, EmOptions
  <2>2. Len(em_fileContents) # 0
    <3>1. em_fileContents \in Seq(EmEntry) /\ em_fileContents # <<>>
      BY <1>2, <1>5 DEF EmInv, EmTypeInv
    <3> QED
      BY <3>1
  <2>3. E!BootFileIndex \in 1..Len(em_from)
    <3> DEFINE b == em_options.boot
               l == Len(em_fileContents)
    <3>1. E!BootFileIndex = IF b > l THEN l ELSE b
      BY <1>3, <2>1 DEF E!BootFileIndex, E!totalFilesProcessed
    <3>2. b \in 1..32
      BY <2>1
    <3>3. l \in Nat /\ l # 0 /\ Len(em_from) = l
      BY <1>3, <2>2
    <3> HIDE DEF b, l
    <3> QED
      BY <3>1, <3>2, <3>3
  <2> QED
    BY <1>2, <1>3, <1>5, <2>3
<1>6. ASSUME em_file.complete PROVE ~({"5", "6"} \subseteq em_file.flags)
  <2>1. em_options.flags \in SUBSET {"c", "s", "8", "f"} /\ em_options.hz \in {"none", "5", "6"}
    BY DEF EmInv, EmTypeInv, EmOptions
  <2>2. \A x \in E!EmuFlagsByte : x \in {"c", "s", "8", "f"} \/ x = em_options.hz
    BY <2>1 DEF E!EmuFlagsByte
  <2>3. "5" \notin {"c", "s", "8", "f"} /\ "6" \notin {"c", "s", "8", "f"} /\ "5" # "6"
    OBVIOUS
  <2>4. ~("5" \in E!EmuFlagsByte /\ "6" \in E!EmuFlagsByte)
    BY <2>2, <2>3, Zenon
  <2>5. em_file.flags = E!EmuFlagsByte
    BY <1>2, <1>6
  <2> QED
    BY <2>4, <2>5, Zenon
<1>7. E!TableExact
  BY <1>4, <1>5, <1>6 DEF E!TableExact
<1> QED
  BY <1>1, <1>7

----------------------------------------------------------------------------
(* MKNEXROM.  Each cell of the ROM file, after each step that writes it, in closed    *)
(* form: what the step has written there, or else what was there after the step before. *)

\* The cells of the kernel and of the driver, and of both.
MkKernel == M!Size(mk_request.base)
MkDriver == M!Size(mk_request.driver)
MkAppended == MkKernel + MkDriver

\* The length of the ROM file: the last bank of the driver is begun with page 0, and ended
\* with the code that switches banks.
MkLast == MkAppended \div M!BANK_SIZE
MkBegun ==
    IF M!DriverGiven /\ MkAppended < M!Position(MkLast, M!PAGE0_SIZE) THEN M!Position(MkLast, M!PAGE0_SIZE)
    ELSE MkAppended
MkWhole == IF M!DriverGiven THEN M!Position(MkLast + 1, 0) ELSE MkKernel
MkExtraPlaces == {M!Position(b, M!EXTRA_ADDRESS) : b \in {M!DOS2_EXTRA_BANK, M!DOS1_EXTRA_BANK}}

\* The ROM file, cell by cell, after each of the steps that write it.
MkCells0 ==
    [p \in Nat |-> IF p < MkKernel THEN mk_request.base[p]
                   ELSE IF p < MkAppended THEN mk_request.driver[p - MkKernel] ELSE M!Zero]
MkCells1 ==
    [p \in Nat |-> IF M!DriverGiven /\ p >= MkKernel /\ p % M!BANK_SIZE < M!PAGE0_SIZE
                   THEN IF p % M!BANK_SIZE = M!BANK_NUMBER THEN <<"bank", p \div M!BANK_SIZE>>
                        ELSE mk_request.base[p % M!BANK_SIZE]
                   ELSE MkCells0[p]]
MkCells2 ==
    [p \in Nat |-> IF p % M!BANK_SIZE = M!MAPPER_CODE /\ (M!MapperGiven \/ (M!DriverGiven /\ p >= MkKernel))
                   THEN mk_mapperCode ELSE MkCells1[p]]
MkCells3 ==
    [p \in Nat |-> IF mk_First8KMappingAddress # 0 /\ p % M!BANK_SIZE = M!_8K_INIT_PATCH_ADDRESS
                   THEN <<"ld", mk_First8KMappingAddress % 65536>> ELSE MkCells2[p]]
MkCells4 ==
    [p \in Nat |-> IF M!MapperGiven /\ p = M!MAPPER_INIT_CODE_ADDRESS THEN mk_mapperCode ELSE MkCells3[p]]
MkCells5 ==
    [p \in Nat |-> IF M!ExtraGiven /\ p \in MkExtraPlaces
                   THEN <<"extra", mk_request.extra.code>> ELSE MkCells4[p]]
MkCells6 ==
    [p \in Nat |-> IF mk_request.keys # -1 /\ p = M!BOOT_KEYS_INVERTER_OFFSET
                   THEN <<"keys", mk_request.keys>> ELSE MkCells5[p]]

\* A file has this length and these cells.
MkIs(file, length, cells) ==
    DOMAIN file = 0..length - 1 /\ \A p \in 0..length - 1 : file[p] = cells[p]
\* The ROM file has.
MkHas(length, cells) == MkIs(mk_newFile, length, cells)
\* The cells are those of c, but for some that were written behind or over them.
MkMerged(k, n, c, written, cells) ==
    \A p \in 0..k - 1 : cells[p] = IF p \in DOMAIN written THEN written[p]
                                    ELSE IF p < n THEN c[p] ELSE M!Zero

\* What has been checked.
MkAccepted ==
    /\ M!AddressGiven /\ M!BaseFileSize /\ M!DriverPresence
    /\ M!DriverGiven => MkDriver > 0
    /\ mk_mapperCode = M!MapperCode
    /\ mk_First8KMappingAddress = IF M!MapperGiven /\ mk_request.mapper.header /\ mk_request.address = 0
                                  THEN M!HeaderAddress ELSE mk_request.address

\* The ROM file at each step.
MkFileInv ==
    /\ mk_at = "driver" => mk_newFile = mk_request.base
    /\ mk_at = "page0" => MkHas(MkAppended, MkCells0)
    /\ mk_at = "mapper" => MkHas(MkBegun, MkCells1)
    /\ mk_at = "patch" => MkHas(MkWhole, MkCells2)
    /\ mk_at = "init" => MkHas(MkWhole, MkCells3)
    /\ mk_at = "extra" => MkHas(MkWhole, MkCells4)
    /\ mk_at = "keys" => MkHas(MkWhole, MkCells5)
    /\ mk_at = "done" => MkHas(MkWhole, MkCells6)

\* The files that were given.
MkGiven ==
    /\ mk_request.base \in MkBases /\ mk_request.driver \in MkDrivers /\ mk_request.mapper \in MkMappers
    /\ mk_request.address \in MkAddresses

\* The invariant of MKNEXROM.
MkInv ==
    /\ MkGiven
    /\ mk_at \in {"check", "create", "driver", "page0", "mapper", "patch", "init", "extra", "keys",
                  "done", "exit"}
    /\ M!IsFile(mk_newFile) /\ mk_First8KMappingAddress \in Int
    /\ -65536 < mk_First8KMappingAddress /\ mk_First8KMappingAddress < 65536
    /\ mk_at \notin {"check", "exit"} => MkAccepted
    /\ MkFileInv

\* How many cells a file has, and which.
LEMMA MkFileSize ==
    ASSUME NEW file, M!IsFile(file)
    PROVE  M!Size(file) \in Nat /\ DOMAIN file = 0..M!Size(file) - 1
  BY FS_CardinalityType, SameCardinality DEF M!IsFile, M!Size

\* A file with the positions below a number has so many cells.
LEMMA MkFileIs ==
    ASSUME NEW file, NEW n \in Nat, DOMAIN file = 0..n - 1
    PROVE  M!IsFile(file) /\ M!Size(file) = n
<1>1. IsFiniteSet(0..n - 1) /\ Cardinality(0..n - 1) = IF 0 > n - 1 THEN 0 ELSE (n - 1) - 0 + 1
  BY FS_Interval
<1> QED
  BY <1>1, SameCardinality DEF M!IsFile, M!Size

\* A loop that skips so many cells of a bank ends after the last bank.
MkEnds(n, last, before) ==
    M!BANK_SIZE * last + before < n /\ n <= M!BANK_SIZE * (last + 1) + before

\* The banks that a loop writes to, when it ends with the last one.
LEMMA MkBanksAre ==
    ASSUME NEW file, NEW n \in Nat, DOMAIN file = 0..n - 1, NEW from \in Nat, NEW last \in Nat,
           from <= last, NEW before \in Int, before + 1 \in 0..1, MkEnds(n, last, before)
    PROVE  M!Banks(file, from, before) = from..last
<1>1. M!Size(file) = n
  BY MkFileIs
<1>2. last <= (n \div 9) + 1
  BY DEF M!BANK_SIZE, MkEnds
<1>3. \A b \in Int : 9 * b + before < n <=> b <= last
  BY DEF M!BANK_SIZE, MkEnds
<1>4. \A b \in from..(n \div 9) + 1 : 9 * b + before < n <=> b \in from..last
  BY <1>3
<1>5. from..last \subseteq from..(n \div 9) + 1
  BY <1>2
<1>6. n \div 9 \in Int
  OBVIOUS
<1> HIDE DEF M!BANK_SIZE
<1>7. M!Banks(file, from, before) = {from} \cup {b \in from..(n \div 9) + 1 : 9 * b + before < n}
  BY <1>1 DEF M!Banks, M!Position, M!BANK_SIZE
<1>8. from \in from..last
  OBVIOUS
<1> QED
  BY <1>4, <1>5, <1>7, <1>8

\* The positions of a place of some banks.
LEMMA MkPositions ==
    ASSUME NEW from \in Nat, NEW last \in Nat, NEW p \in Nat, NEW c \in 0..8
    PROVE  p \in {M!Position(b, c) : b \in from..last} <=>
             (p % M!BANK_SIZE = c /\ p >= M!BANK_SIZE * from /\ p < M!BANK_SIZE * (last + 1))
<1>1. ASSUME NEW b \in from..last, p = 9 * b + c
      PROVE  p % 9 = c /\ p >= 9 * from /\ p < 9 * (last + 1)
  BY <1>1
<1>2. ASSUME p % 9 = c, p >= 9 * from, p < 9 * (last + 1)
      PROVE  p \div 9 \in from..last /\ p = 9 * (p \div 9) + c
  BY <1>2
<1> QED
  BY <1>1, <1>2 DEF M!Position, M!BANK_SIZE

\* The positions of page 0 of some banks.
LEMMA MkPages ==
    ASSUME NEW from \in Nat, NEW last \in Nat, NEW p \in Nat
    PROVE  p \in {M!Position(b, c) : b \in from..last, c \in 0..M!PAGE0_SIZE - 1} <=>
             (p % M!BANK_SIZE < M!PAGE0_SIZE /\ p >= M!BANK_SIZE * from /\ p < M!BANK_SIZE * (last + 1))
<1>1. ASSUME NEW b \in from..last, NEW c \in 0..3, p = 9 * b + c
      PROVE  p % 9 < 4 /\ p >= 9 * from /\ p < 9 * (last + 1)
  BY <1>1
<1>2. ASSUME p % 9 < 4, p >= 9 * from, p < 9 * (last + 1)
      PROVE  p \div 9 \in from..last /\ p % 9 \in 0..3 /\ p = 9 * (p \div 9) + (p % 9)
  BY <1>2
<1> QED
  BY <1>1, <1>2 DEF M!Position, M!BANK_SIZE, M!PAGE0_SIZE

\* The files that were given: the kernel has whole banks, four at least, and a driver is
\* given for just the banks that it says it has.
LEMMA MkFiles ==
    ASSUME MkInv, MkAccepted
    PROVE  /\ MkKernel \in Nat /\ MkDriver \in Nat /\ MkAppended \in Nat /\ MkLast \in Nat
           /\ MkBegun \in Nat /\ MkWhole \in Nat
           /\ DOMAIN mk_request.base = 0..MkKernel - 1 /\ DOMAIN mk_request.driver = 0..MkDriver - 1
           /\ MkKernel % 9 = 0 /\ MkKernel >= 36
           /\ M!DriverGiven => MkDriver > 0 /\ MkKernel = 9 * M!baseBankCount /\ M!baseBankCount \in Nat
           /\ ~M!DriverGiven => MkDriver = 0
           /\ MkAppended = MkKernel + MkDriver
           /\ MkLast = MkAppended \div 9
           /\ MkBegun = IF M!DriverGiven /\ MkAppended < 9 * MkLast + 4 THEN 9 * MkLast + 4 ELSE MkAppended
           /\ MkWhole = IF M!DriverGiven THEN 9 * (MkLast + 1) ELSE MkKernel
           /\ M!IsKernel(mk_request.base)
<1>0. mk_request.base \in MkBases /\ mk_request.driver \in MkDrivers
  BY DEF MkInv, MkGiven
<1>1. M!IsKernel(mk_request.base) /\ M!IsFile(mk_request.driver)
  BY <1>0, MkAssumption DEF M!MknexromAssumption
<1>2. /\ MkKernel \in Nat /\ MkDriver \in Nat
      /\ DOMAIN mk_request.base = 0..MkKernel - 1 /\ DOMAIN mk_request.driver = 0..MkDriver - 1
  BY <1>1, MkFileSize DEF M!IsKernel, MkKernel, MkDriver
<1>3. M!baseBankCount \in Nat /\ M!baseBankCount > 3
  BY <1>1 DEF M!IsKernel, M!baseBankCount, M!DOS1_EXTRA_BANK
<1>4. M!HasDriver <=> MkKernel >= 9 * (M!baseBankCount + 1)
  BY <1>2, <1>3 DEF M!HasDriver, MkKernel, M!Position, M!BANK_SIZE
<1>5. M!HasDriver \/ MkKernel = 9 * M!baseBankCount
  BY <1>2, <1>3 DEF MkAccepted, M!BaseFileSize, MkKernel, M!Position, M!BANK_SIZE
<1>6. MkKernel > 9 * (M!baseBankCount + 1) => MkKernel % 9 = 0
  BY <1>1 DEF M!IsKernel, M!baseBankCount, MkKernel, M!Position, M!BANK_SIZE
<1>7. M!DriverGiven <=> ~M!HasDriver
  BY DEF MkAccepted, M!DriverPresence, M!DriverGiven, M!HasDriver
<1>8. MkKernel % 9 = 0 /\ MkKernel >= 36
  BY <1>2, <1>3, <1>4, <1>5, <1>6
<1>9. ~M!DriverGiven => MkDriver = 0
  <2>1. DOMAIN M!NoFile = {}
    BY DEF M!NoFile
  <2>2. Cardinality({}) = 0
    BY FS_EmptySet
  <2> QED
    BY <2>1, <2>2, SameCardinality DEF M!DriverGiven, MkDriver, M!Size
<1>10. M!DriverGiven => MkDriver > 0 /\ MkKernel = 9 * M!baseBankCount
  BY <1>5, <1>7 DEF MkAccepted
<1>11. /\ MkAppended \in Nat /\ MkAppended = MkKernel + MkDriver /\ MkLast = MkAppended \div 9
       /\ MkLast \in Nat
  BY <1>2 DEF MkAppended, MkLast, M!BANK_SIZE
<1>12. /\ MkBegun = IF M!DriverGiven /\ MkAppended < 9 * MkLast + 4 THEN 9 * MkLast + 4 ELSE MkAppended
       /\ MkWhole = IF M!DriverGiven THEN 9 * (MkLast + 1) ELSE MkKernel
  BY <1>11 DEF MkBegun, MkWhole, M!Position, M!BANK_SIZE, M!PAGE0_SIZE
<1> QED
  BY <1>1, <1>2, <1>3, <1>8, <1>9, <1>10, <1>11, <1>12

\* The steps that write leave what was given and what was checked.
LEMMA MkFrame ==
    ASSUME UNCHANGED <<mk_request, mk_First8KMappingAddress, mk_mapperCode>>, MkAccepted
    PROVE  /\ MkAccepted'
           /\ MkAppended' = MkAppended /\ MkBegun' = MkBegun /\ MkWhole' = MkWhole
           /\ MkCells0' = MkCells0 /\ MkCells1' = MkCells1 /\ MkCells2' = MkCells2
           /\ MkCells3' = MkCells3 /\ MkCells4' = MkCells4 /\ MkCells5' = MkCells5
           /\ MkCells6' = MkCells6
<1>1. /\ MkKernel' = MkKernel /\ MkDriver' = MkDriver /\ M!DriverGiven' = M!DriverGiven
      /\ M!MapperGiven' = M!MapperGiven /\ M!ExtraGiven' = M!ExtraGiven
  BY DEF MkKernel, MkDriver, M!DriverGiven, M!MapperGiven, M!ExtraGiven
<1>2. MkAccepted'
  BY DEF MkAccepted, M!AddressGiven, M!BaseFileSize, M!DriverPresence, M!HasDriver, M!baseBankCount,
     M!DriverGiven, MkDriver, M!MapperCode, M!MapperGiven, M!HeaderAddress
<1>3. MkAppended' = MkAppended /\ MkLast' = MkLast
  BY <1>1 DEF MkAppended, MkLast
<1>4. MkBegun' = MkBegun /\ MkWhole' = MkWhole
  BY <1>1, <1>3 DEF MkBegun, MkWhole
<1>5. MkCells0' = MkCells0
  BY <1>1, <1>3 DEF MkCells0
<1>6. MkCells1' = MkCells1
  BY <1>1, <1>5 DEF MkCells1
<1>7. MkCells2' = MkCells2
  BY <1>1, <1>6 DEF MkCells2
<1>8. MkCells3' = MkCells3
  BY <1>1, <1>7 DEF MkCells3
<1>9. MkCells4' = MkCells4
  BY <1>1, <1>8 DEF MkCells4
<1>10. MkCells5' = MkCells5
  BY <1>1, <1>9 DEF MkCells5, MkExtraPlaces
<1>11. MkCells6' = MkCells6
  BY <1>1, <1>10 DEF MkCells6
<1> QED
  BY <1>2, <1>3, <1>4, <1>5, <1>6, <1>7, <1>8, <1>9, <1>10, <1>11

\* What a write leaves of a file.
LEMMA MkWriteHas ==
    ASSUME NEW file, NEW n \in Nat, NEW c, MkIs(file, n, c), NEW cells, NEW m \in Nat,
           DOMAIN cells \subseteq 0..m, m \in DOMAIN cells, NEW k \in Nat, NEW d,
           k = IF m < n THEN n ELSE m + 1, MkMerged(k, n, c, cells, d)
    PROVE  MkIs(M!Write(file, cells), k, d)
<1>1. DOMAIN file = 0..n - 1 /\ \A p \in 0..k - 1 : p < n => file[p] = c[p]
  BY DEF MkIs
<1>2. M!Max(DOMAIN cells) = m
  BY DEF M!Max
<1>3. DOMAIN file \cup 0..m = 0..k - 1 /\ \A p \in 0..k - 1 : p \in DOMAIN file <=> p < n
  BY <1>1
<1>4. /\ DOMAIN M!Write(file, cells) = 0..k - 1
      /\ \A p \in 0..k - 1 :
           M!Write(file, cells)[p] = IF p \in DOMAIN cells THEN cells[p]
                                     ELSE IF p < n THEN file[p] ELSE M!Zero
  BY <1>2, <1>3 DEF M!Write
<1> QED
  BY <1>1, <1>4 DEF MkIs, MkMerged

\* The same file, by cells that are the same.
LEMMA MkLeftHas ==
    ASSUME NEW file, NEW n \in Nat, NEW c, MkIs(file, n, c), NEW d, \A p \in 0..n - 1 : d[p] = c[p]
    PROVE  MkIs(file, n, d)
  BY DEF MkIs

\* The invariant after a step that has written a part.
LEMMA MkWritten ==
    ASSUME MkInv, UNCHANGED <<mk_request, mk_First8KMappingAddress, mk_mapperCode>>,
           mk_at \notin {"check", "exit"}, NEW k \in Nat, NEW d, MkIs(mk_newFile', k, d),
           mk_at' \in {"driver", "page0", "mapper", "patch", "init", "extra", "keys", "done"},
           MkFileInv'
    PROVE  MkInv'
<1>1. MkGiven'
  BY DEF MkInv, MkGiven
<1>2. M!IsFile(mk_newFile')
  BY MkFileIs DEF MkIs
<1>3. MkAccepted'
  BY MkFrame DEF MkInv
<1> QED
  BY <1>1, <1>2, <1>3 DEF MkInv

\* The driver is put behind the kernel.
LEMMA MkDriverStep == MkInv /\ M!AppendDriver => MkInv'
<1> SUFFICES ASSUME MkInv, M!AppendDriver PROVE MkInv'
  OBVIOUS
<1> DEFINE places == {M!Size(mk_newFile) + d : d \in DOMAIN mk_request.driver}
           cells == [p \in places |-> mk_request.driver[p - M!Size(mk_newFile)]]
<1>1. /\ mk_at = "driver" /\ mk_at' = "page0" /\ UNCHANGED <<mk_request, mk_First8KMappingAddress, mk_mapperCode>>
      /\ mk_newFile' = IF M!DriverGiven THEN M!Write(mk_newFile, cells) ELSE mk_newFile
  BY DEF M!AppendDriver, M!Step
<1>2. MkAccepted /\ mk_newFile = mk_request.base
  BY <1>1 DEF MkInv, MkFileInv
<1>3. /\ MkKernel \in Nat /\ MkDriver \in Nat /\ MkAppended \in Nat
      /\ MkAppended = MkKernel + MkDriver
      /\ DOMAIN mk_request.base = 0..MkKernel - 1 /\ DOMAIN mk_request.driver = 0..MkDriver - 1
      /\ M!DriverGiven => MkDriver > 0
      /\ ~M!DriverGiven => MkDriver = 0
  BY <1>2, MkFiles
<1>4. M!Size(mk_newFile) = MkKernel
  BY <1>2 DEF MkKernel
<1>6. \A p \in Int : p \in places <=> p \in MkKernel..MkAppended - 1
  <2>1. ASSUME NEW d \in 0..MkDriver - 1 PROVE MkKernel + d \in MkKernel..MkAppended - 1
    BY <1>3
  <2>2. ASSUME NEW p \in MkKernel..MkAppended - 1
        PROVE  p - MkKernel \in 0..MkDriver - 1 /\ p = MkKernel + (p - MkKernel)
    BY <1>3
  <2>3. \A p : p \in places <=> \E d \in 0..MkDriver - 1 : p = MkKernel + d
    BY <1>3, <1>4
  <2> HIDE DEF places
  <2> QED
    BY <2>1, <2>2, <2>3
<1>7. places \subseteq Int
  BY <1>3, <1>4
<1>8. \A p \in places : cells[p] = mk_request.driver[p - MkKernel]
  BY <1>4
<1> HIDE DEF places
<1>5. DOMAIN cells = places
  OBVIOUS
<1> HIDE DEF cells
<1>9. MkIs(mk_newFile, MkKernel, mk_request.base)
  BY <1>2, <1>3 DEF MkIs
<1>10. \A p \in Nat : MkCells0[p] = IF p < MkKernel THEN mk_request.base[p]
                                   ELSE IF p < MkAppended THEN mk_request.driver[p - MkKernel] ELSE M!Zero
  BY DEF MkCells0
<1>11. MkIs(mk_newFile', MkAppended, MkCells0)
  <2>1. CASE M!DriverGiven
    <3>1. MkAppended - 1 \in Nat /\ MkAppended - 1 \in places /\ places \subseteq 0..MkAppended - 1
      BY <1>3, <1>6, <1>7, <2>1
    <3>2. MkAppended = IF MkAppended - 1 < MkKernel THEN MkKernel ELSE (MkAppended - 1) + 1
      BY <1>3, <2>1
    <3>3. \A p \in 0..MkAppended - 1 :
            MkCells0[p] = IF p \in places THEN cells[p] ELSE IF p < MkKernel THEN mk_request.base[p] ELSE M!Zero
      BY <1>3, <1>6, <1>8, <1>10
    <3>4. PICK m \in Nat : m = MkAppended - 1
      BY <3>1
    <3>5. mk_newFile' = M!Write(mk_newFile, cells)
      BY <1>1, <2>1
    <3>6. m \in DOMAIN cells /\ DOMAIN cells \subseteq 0..m
      BY <1>5, <3>1, <3>4
    <3>7. MkAppended = IF m < MkKernel THEN MkKernel ELSE m + 1
      BY <3>2, <3>4
    <3>8. MkMerged(MkAppended, MkKernel, mk_request.base, cells, MkCells0)
      BY <1>5, <3>3 DEF MkMerged
    <3>9. MkAppended \in Nat
      BY <1>3
    <3> QED
      BY <1>3, <1>9, <3>5, <3>6, <3>7, <3>8, <3>9, MkWriteHas
  <2>2. CASE ~M!DriverGiven
    <3>1. MkAppended = MkKernel
      BY <1>3, <2>2
    <3>2. \A p \in 0..MkKernel - 1 : MkCells0[p] = mk_request.base[p]
      BY <1>3, <1>10
    <3> QED
      BY <1>1, <1>3, <1>9, <2>2, <3>1, <3>2, MkLeftHas
  <2> QED
    BY <2>1, <2>2
<1>12. MkHas(MkAppended, MkCells0)'
  BY <1>1, <1>2, <1>11, MkFrame DEF MkHas
<1>13. MkFileInv'
  BY <1>1, <1>12 DEF MkFileInv
<1> QED
  BY <1>1, <1>3, <1>11, <1>13, MkWritten

\* Page 0 of the first bank is put into the banks of the driver.
LEMMA MkPage0Step == MkInv /\ M!CopyPage0 => MkInv'
<1> SUFFICES ASSUME MkInv, M!CopyPage0 PROVE MkInv'
  OBVIOUS
<1> DEFINE banks == M!Banks(mk_newFile, M!baseBankCount, -1)
           places == {M!Position(b, c) : b \in banks, c \in 0..M!PAGE0_SIZE - 1}
           cells == [p \in places |-> IF p % M!BANK_SIZE = M!BANK_NUMBER
                                      THEN <<"bank", p \div M!BANK_SIZE>> ELSE mk_newFile[p % M!BANK_SIZE]]
<1>1. /\ mk_at = "page0" /\ mk_at' = "mapper" /\ UNCHANGED <<mk_request, mk_First8KMappingAddress, mk_mapperCode>>
      /\ mk_newFile' = IF M!DriverGiven THEN M!Write(mk_newFile, cells) ELSE mk_newFile
  BY DEF M!CopyPage0, M!Step
<1>2. MkAccepted /\ MkHas(MkAppended, MkCells0)
  BY <1>1 DEF MkInv, MkFileInv
<1>3. /\ MkKernel \in Nat /\ MkDriver \in Nat /\ MkAppended \in Nat /\ MkLast \in Nat /\ MkBegun \in Nat
      /\ MkAppended = MkKernel + MkDriver /\ MkKernel >= 36 /\ MkLast = MkAppended \div 9
      /\ M!DriverGiven => MkKernel = 9 * M!baseBankCount /\ M!baseBankCount \in Nat
      /\ MkBegun = IF M!DriverGiven /\ MkAppended < 9 * MkLast + 4 THEN 9 * MkLast + 4 ELSE MkAppended
  BY <1>2, MkFiles
<1>4. DOMAIN mk_newFile = 0..MkAppended - 1 /\ \A p \in 0..MkAppended - 1 : mk_newFile[p] = MkCells0[p]
  BY <1>2 DEF MkHas, MkIs
<1>5. \A p \in 0..MkKernel - 1 : mk_newFile[p] = mk_request.base[p]
  BY <1>3, <1>4 DEF MkCells0
<1>6. \A p \in Nat : MkCells1[p] = IF M!DriverGiven /\ p >= MkKernel /\ p % 9 < 4
                                  THEN IF p % 9 = 3 THEN <<"bank", p \div 9>> ELSE mk_request.base[p % 9]
                                  ELSE MkCells0[p]
  BY DEF MkCells1, M!BANK_SIZE, M!PAGE0_SIZE, M!BANK_NUMBER
<1>7. \A p \in Nat : p >= MkAppended => MkCells0[p] = M!Zero
  BY <1>3 DEF MkCells0
<1>8. MkIs(mk_newFile', MkBegun, MkCells1)
  <2>1. CASE M!DriverGiven
    <3>1. PICK b0 \in Nat : b0 = M!baseBankCount /\ MkKernel = 9 * b0
      BY <1>3, <2>1
    <3>2. b0 <= MkLast /\ 9 * MkLast < MkAppended + 1 /\ MkEnds(MkAppended, MkLast, -1)
      BY <1>3, <3>1 DEF M!BANK_SIZE, MkEnds
    <3>3. banks = b0..MkLast
      <4>1. PICK t \in Int : t = -1 /\ t + 1 \in 0..1
        OBVIOUS
      <4>2. MkEnds(MkAppended, MkLast, t)
        BY <3>2, <4>1
      <4>3. M!Banks(mk_newFile, b0, t) = b0..MkLast
        <5>1. MkAppended \in Nat /\ MkLast \in Nat /\ b0 \in Nat /\ b0 <= MkLast
          BY <1>3, <3>2
        <5>2. DOMAIN mk_newFile = 0..MkAppended - 1 /\ t \in Int /\ t + 1 \in 0..1
          BY <1>4, <4>1
        <5> HIDE DEF banks, places, cells
        <5>3. ASSUME NEW n, NEW l, n = MkAppended, l = MkLast PROVE M!Banks(mk_newFile, b0, t) = b0..l
          <6>1. n \in Nat /\ l \in Nat /\ b0 <= l /\ DOMAIN mk_newFile = 0..n - 1 /\ MkEnds(n, l, t)
            BY <4>2, <5>1, <5>2, <5>3
          <6>2. t \in Int /\ t + 1 \in 0..1 /\ b0 \in Nat
            BY <5>2
          <6> QED
            BY <6>1, <6>2, MkBanksAre
        <5> QED
          BY <5>3
      <4> QED
        BY <3>1, <4>1, <4>3
    <3> HIDE DEF banks
    <3>4. \A p \in Nat : p \in places <=> p % 9 < 4 /\ p >= MkKernel /\ p < 9 * (MkLast + 1)
      <4>1. places = {M!Position(b, c) : b \in b0..MkLast, c \in 0..M!PAGE0_SIZE - 1}
        BY <3>3
      <4> TAKE p \in Nat
      <4>2. p \in {M!Position(b, c) : b \in b0..MkLast, c \in 0..M!PAGE0_SIZE - 1} <=>
              (p % M!BANK_SIZE < M!PAGE0_SIZE /\ p >= M!BANK_SIZE * b0 /\ p < M!BANK_SIZE * (MkLast + 1))
        <5>1. PICK l \in Nat : l = MkLast
          BY <1>3
        <5>2. p \in {M!Position(b, c) : b \in b0..l, c \in 0..M!PAGE0_SIZE - 1} <=>
                (p % M!BANK_SIZE < M!PAGE0_SIZE /\ p >= M!BANK_SIZE * b0 /\ p < M!BANK_SIZE * (l + 1))
          BY MkPages
        <5> QED
          BY <5>1, <5>2
      <4> HIDE DEF places
      <4>3. p \in places <=>
              (p % M!BANK_SIZE < M!PAGE0_SIZE /\ p >= M!BANK_SIZE * b0 /\ p < M!BANK_SIZE * (MkLast + 1))
        BY <4>1, <4>2
      <4> QED
        BY <3>1, <4>3 DEF M!BANK_SIZE, M!PAGE0_SIZE
    <3>5. places \subseteq Nat
      BY <1>3, <3>1, <3>3 DEF M!Position, M!BANK_SIZE, M!PAGE0_SIZE
    <3>6. DOMAIN cells = places
      OBVIOUS
    <3>7. \A p \in places : cells[p] = IF p % 9 = 3 THEN <<"bank", p \div 9>> ELSE mk_newFile[p % 9]
      BY DEF M!BANK_SIZE, M!BANK_NUMBER
    <3> HIDE DEF cells, places
    <3>8. \A p \in places : cells[p] = IF p % 9 = 3 THEN <<"bank", p \div 9>> ELSE mk_request.base[p % 9]
      <4>1. ASSUME NEW p \in Nat, p \in places
            PROVE  cells[p] = IF p % 9 = 3 THEN <<"bank", p \div 9>> ELSE mk_request.base[p % 9]
        <5>1. p % 9 \in Nat /\ p % 9 < 4
          BY <3>4, <4>1
        <5>2. p % 9 \in 0..MkKernel - 1
          BY <1>3, <5>1
        <5>3. mk_newFile[p % 9] = mk_request.base[p % 9]
          BY <1>5, <5>2, Zenon
        <5> QED
          BY <3>7, <4>1, <5>3, Zenon
      <4> QED
        BY <3>5, <4>1, Zenon
    <3>9. 9 * MkLast + 3 \in Nat /\ 9 * MkLast + 3 \in places /\ places \subseteq 0..9 * MkLast + 3
      <4>1. \A p \in Nat : p % 9 < 4 /\ p < 9 * (MkLast + 1) => p <= 9 * MkLast + 3
        BY <1>3
      <4>2. (9 * MkLast + 3) % 9 < 4 /\ 9 * MkLast + 3 >= MkKernel /\ 9 * MkLast + 3 < 9 * (MkLast + 1)
        BY <1>3, <3>1, <3>2
      <4> QED
        BY <1>3, <3>4, <3>5, <4>1, <4>2
    <3>10. MkBegun = IF 9 * MkLast + 3 < MkAppended THEN MkAppended ELSE (9 * MkLast + 3) + 1
      BY <1>3, <2>1
    <3>11. \A p \in 0..MkBegun - 1 : p < 9 * (MkLast + 1)
      BY <1>3, <3>2
    <3>12. \A p \in 0..MkBegun - 1 :
             MkCells1[p] = IF p \in places THEN cells[p] ELSE IF p < MkAppended THEN MkCells0[p] ELSE M!Zero
      <4> TAKE p \in 0..MkBegun - 1
      <4>0. /\ p \in Nat
            /\ MkCells1[p] = IF M!DriverGiven /\ p >= MkKernel /\ p % 9 < 4
                             THEN IF p % 9 = 3 THEN <<"bank", p \div 9>> ELSE mk_request.base[p % 9]
                             ELSE MkCells0[p]
        BY <1>3, <1>6
      <4>1. p \in places <=> p % 9 < 4 /\ p >= MkKernel
        BY <1>3, <3>4, <3>11
      <4>2. CASE p \in places
        BY <2>1, <3>8, <4>0, <4>1, <4>2
      <4>3. CASE p \notin places
        <5>1. MkCells1[p] = MkCells0[p]
          BY <4>0, <4>1, <4>3
        <5>2. p >= MkAppended => MkCells0[p] = M!Zero
          BY <1>7
        <5> QED
          BY <1>3, <4>3, <5>1, <5>2
      <4> QED
        BY <4>2, <4>3
    <3>13. mk_newFile' = M!Write(mk_newFile, cells)
      BY <1>1, <2>1
    <3>14. PICK m \in Nat : m = 9 * MkLast + 3
      BY <3>9
    <3>15. m \in DOMAIN cells /\ DOMAIN cells \subseteq 0..m
      BY <3>6, <3>9, <3>14
    <3>16. MkBegun = IF m < MkAppended THEN MkAppended ELSE m + 1
      BY <3>10, <3>14
    <3>17. MkMerged(MkBegun, MkAppended, MkCells0, cells, MkCells1)
      BY <3>6, <3>12 DEF MkMerged
    <3>18. MkIs(mk_newFile, MkAppended, MkCells0)
      BY <1>2 DEF MkHas
    <3> QED
      BY <1>3, <3>13, <3>15, <3>16, <3>17, <3>18, MkWriteHas
  <2>2. CASE ~M!DriverGiven
    <3>1. MkBegun = MkAppended /\ mk_newFile' = mk_newFile
      BY <1>1, <1>3, <2>2
    <3>2. \A p \in 0..MkAppended - 1 : MkCells1[p] = MkCells0[p]
      BY <1>6, <2>2
    <3> QED
      BY <1>2, <1>3, <3>1, <3>2, MkLeftHas DEF MkHas
  <2> QED
    BY <2>1, <2>2
<1>9. MkHas(MkBegun, MkCells1)'
  BY <1>1, <1>2, <1>8, MkFrame DEF MkHas
<1>10. MkFileInv'
  BY <1>1, <1>9 DEF MkFileInv
<1> QED
  BY <1>1, <1>3, <1>8, <1>10, MkWritten

\* The code that switches banks is put into the banks.
LEMMA MkMapperStep == MkInv /\ M!SetMapperCode => MkInv'
<1> SUFFICES ASSUME MkInv, M!SetMapperCode PROVE MkInv'
  OBVIOUS
<1> DEFINE banks == M!Banks(mk_newFile, IF M!MapperGiven THEN 0 ELSE M!baseBankCount, 0)
           places == {M!Position(b, M!MAPPER_CODE) : b \in banks}
           cells == [p \in places |-> mk_mapperCode]
<1>1. /\ mk_at = "mapper" /\ mk_at' = "patch" /\ UNCHANGED <<mk_request, mk_First8KMappingAddress, mk_mapperCode>>
      /\ mk_newFile' = IF M!MapperGiven \/ M!DriverGiven THEN M!Write(mk_newFile, cells) ELSE mk_newFile
  BY DEF M!SetMapperCode, M!Step
<1>2. MkAccepted /\ MkIs(mk_newFile, MkBegun, MkCells1)
  BY <1>1 DEF MkInv, MkFileInv, MkHas
<1>3. /\ MkKernel \in Nat /\ MkDriver \in Nat /\ MkAppended \in Nat /\ MkLast \in Nat
      /\ MkBegun \in Nat /\ MkWhole \in Nat
      /\ MkAppended = MkKernel + MkDriver /\ MkKernel % 9 = 0 /\ MkKernel >= 36
      /\ MkLast = MkAppended \div 9
      /\ M!DriverGiven => MkKernel = 9 * M!baseBankCount /\ M!baseBankCount \in Nat
      /\ ~M!DriverGiven => MkDriver = 0
      /\ MkBegun = IF M!DriverGiven /\ MkAppended < 9 * MkLast + 4 THEN 9 * MkLast + 4 ELSE MkAppended
      /\ MkWhole = IF M!DriverGiven THEN 9 * (MkLast + 1) ELSE MkKernel
  BY <1>2, MkFiles
<1>4. \A p \in Nat : MkCells2[p] = IF p % 9 = 8 /\ (M!MapperGiven \/ (M!DriverGiven /\ p >= MkKernel))
                                  THEN mk_mapperCode ELSE MkCells1[p]
  BY DEF MkCells2, M!BANK_SIZE, M!MAPPER_CODE
<1>5. \A p \in 0..MkWhole - 1 : p >= MkBegun => MkCells1[p] = M!Zero
  <2> TAKE p \in 0..MkWhole - 1
  <2>1. p \in Nat /\ (p >= MkBegun => p >= MkAppended /\ p % 9 >= 4)
    BY <1>3
  <2>2. p >= MkBegun => MkCells0[p] = M!Zero
    BY <1>3, <2>1 DEF MkCells0
  <2>3. p >= MkBegun => MkCells1[p] = MkCells0[p]
    BY <2>1 DEF MkCells1, M!BANK_SIZE, M!PAGE0_SIZE
  <2> QED
    BY <2>2, <2>3
<1>6. MkIs(mk_newFile', MkWhole, MkCells2)
  <2>1. CASE M!MapperGiven \/ M!DriverGiven
    <3>1. PICK from \in Nat : /\ from = IF M!MapperGiven THEN 0 ELSE M!baseBankCount
                              /\ 9 * from = IF M!MapperGiven THEN 0 ELSE MkKernel
      BY <1>3, <2>1
    <3>2. PICK last \in Nat : MkWhole = 9 * (last + 1) /\ (M!DriverGiven => last = MkLast)
      <4>1. CASE M!DriverGiven
        BY <1>3, <4>1
      <4>2. CASE ~M!DriverGiven
        <5>1. MkKernel = 9 * (((MkKernel \div 9) - 1) + 1) /\ (MkKernel \div 9) - 1 \in Nat
          BY <1>3
        <5> QED
          BY <1>3, <4>2, <5>1
      <4> QED
        BY <4>1, <4>2
    <3>3. from <= last /\ MkEnds(MkBegun, last, 0)
      <4>1. 9 * from < 9 * (last + 1)
        <5>1. CASE M!MapperGiven
          BY <3>1, <5>1
        <5>2. CASE ~M!MapperGiven
          BY <1>3, <2>1, <3>1, <3>2, <5>2
        <5> QED
          BY <5>1, <5>2
      <4>2. 9 * last < MkBegun /\ MkBegun <= 9 * (last + 1)
        <5>1. CASE M!DriverGiven
          BY <1>3, <3>2, <5>1
        <5>2. CASE ~M!DriverGiven
          BY <1>3, <3>2, <5>2
        <5> QED
          BY <5>1, <5>2
      <4> QED
        BY <1>3, <4>1, <4>2 DEF M!BANK_SIZE, MkEnds
    <3>4. banks = from..last
      <4> HIDE DEF places, cells
      <4>1. DOMAIN mk_newFile = 0..MkBegun - 1
        BY <1>2 DEF MkIs
      <4>2. PICK n \in Nat : n = MkBegun
        BY <1>3
      <4>3. DOMAIN mk_newFile = 0..n - 1 /\ MkEnds(n, last, 0)
        BY <3>3, <4>1, <4>2
      <4>4. M!Banks(mk_newFile, from, 0) = from..last
        BY <3>3, <4>3, MkBanksAre
      <4> QED
        BY <3>1, <4>4
    <3> HIDE DEF banks
    <3>5. places = {M!Position(b, 8) : b \in from..last}
      BY <3>4 DEF M!MAPPER_CODE
    <3> HIDE DEF places
    <3>6. \A p \in Nat : p \in places <=> p % 9 = 8 /\ p >= 9 * from /\ p < 9 * (last + 1)
      <4> TAKE p \in Nat
      <4>1. 8 \in 0..8
        OBVIOUS
      <4>2. p \in {M!Position(b, 8) : b \in from..last} <=>
              (p % M!BANK_SIZE = 8 /\ p >= M!BANK_SIZE * from /\ p < M!BANK_SIZE * (last + 1))
        BY <4>1, MkPositions
      <4> QED
        BY <3>5, <4>2 DEF M!BANK_SIZE
    <3>7. DOMAIN cells = places /\ \A p \in places : cells[p] = mk_mapperCode
      OBVIOUS
    <3> HIDE DEF cells
    <3>8. places \subseteq Nat
      BY <3>5 DEF M!Position, M!BANK_SIZE
    <3>9. PICK m \in Nat : m = 9 * last + 8
      OBVIOUS
    <3>10. m \in DOMAIN cells /\ DOMAIN cells \subseteq 0..m
      <4>1. m % 9 = 8 /\ m >= 9 * from /\ m < 9 * (last + 1)
        BY <3>3, <3>9
      <4>2. \A p \in Nat : p < 9 * (last + 1) => p <= m
        BY <3>9
      <4> QED
        BY <3>6, <3>7, <3>8, <4>1, <4>2
    <3>11. MkWhole = IF m < MkBegun THEN MkBegun ELSE m + 1
      BY <1>3, <3>2, <3>9
    <3>12. ASSUME NEW p \in 0..MkWhole - 1
           PROVE  MkCells2[p] = IF p \in DOMAIN cells THEN cells[p]
                                ELSE IF p < MkBegun THEN MkCells1[p] ELSE M!Zero
      <4>1. p \in Nat /\ p < 9 * (last + 1)
        BY <1>3, <3>2
      <4>2. p \in places <=> p % 9 = 8 /\ p >= 9 * from
        BY <3>6, <4>1
      <4>3. p >= 9 * from <=> (M!MapperGiven \/ (M!DriverGiven /\ p >= MkKernel))
        BY <1>3, <2>1, <3>1, <4>1
      <4>4. MkCells2[p] = IF p \in places THEN mk_mapperCode ELSE MkCells1[p]
        BY <1>4, <4>1, <4>2, <4>3
      <4>5. p >= MkBegun => MkCells1[p] = M!Zero
        BY <1>5
      <4>6. p < MkBegun \/ p >= MkBegun
        BY <1>3
      <4> QED
        BY <3>7, <4>4, <4>5, <4>6
    <3>13. MkMerged(MkWhole, MkBegun, MkCells1, cells, MkCells2)
      BY <3>12 DEF MkMerged
    <3>14. mk_newFile' = M!Write(mk_newFile, cells)
      BY <1>1, <2>1
    <3> QED
      BY <1>2, <1>3, <3>10, <3>11, <3>13, <3>14, MkWriteHas
  <2>2. CASE ~(M!MapperGiven \/ M!DriverGiven)
    <3>1. MkWhole = MkBegun /\ mk_newFile' = mk_newFile
      BY <1>1, <1>3, <2>2
    <3>2. \A p \in 0..MkBegun - 1 : MkCells2[p] = MkCells1[p]
      BY <1>3, <1>4, <2>2
    <3> QED
      BY <1>2, <1>3, <3>1, <3>2, MkLeftHas
  <2> QED
    BY <2>1, <2>2
<1>7. MkHas(MkWhole, MkCells2)'
  BY <1>1, <1>2, <1>6, MkFrame DEF MkHas
<1>8. MkFileInv'
  BY <1>1, <1>7 DEF MkFileInv
<1> QED
  BY <1>1, <1>3, <1>6, <1>8, MkWritten

\* The patch for 8K mappers is put into the banks.
LEMMA MkPatchStep == MkInv /\ M!PatchFor8KMapper => MkInv'
<1> SUFFICES ASSUME MkInv, M!PatchFor8KMapper PROVE MkInv'
  OBVIOUS
<1> DEFINE ld == <<"ld", mk_First8KMappingAddress % 65536>>
           banks == M!Banks(mk_newFile, 0, M!_8K_INIT_PATCH_ADDRESS - 1)
           places == {M!Position(b, M!_8K_INIT_PATCH_ADDRESS) : b \in banks}
           cells == [p \in places |-> ld]
<1> HIDE DEF ld
<1>1. /\ mk_at = "patch" /\ mk_at' = "init" /\ UNCHANGED <<mk_request, mk_First8KMappingAddress, mk_mapperCode>>
      /\ mk_newFile' = IF mk_First8KMappingAddress # 0 THEN M!Write(mk_newFile, cells) ELSE mk_newFile
  BY DEF M!PatchFor8KMapper, M!Step, ld
<1>2. MkAccepted /\ MkIs(mk_newFile, MkWhole, MkCells2)
  BY <1>1 DEF MkInv, MkFileInv, MkHas
<1>3. PICK last \in Nat : MkWhole = 9 * (last + 1)
  <2>1. /\ MkKernel \in Nat /\ MkKernel % 9 = 0 /\ MkKernel >= 36 /\ MkLast \in Nat
        /\ MkWhole = IF M!DriverGiven THEN 9 * (MkLast + 1) ELSE MkKernel
    BY <1>2, MkFiles
  <2>2. MkKernel = 9 * (((MkKernel \div 9) - 1) + 1) /\ (MkKernel \div 9) - 1 \in Nat
    BY <2>1
  <2> QED
    BY <2>1, <2>2
<1>4. \A p \in Nat : MkCells3[p] = IF mk_First8KMappingAddress # 0 /\ p % 9 = 1 THEN ld ELSE MkCells2[p]
  BY DEF MkCells3, M!BANK_SIZE, M!_8K_INIT_PATCH_ADDRESS, ld
<1>5. banks = 0..last
  <2> HIDE DEF places, cells
  <2>1. PICK n \in Nat : n = MkWhole
    BY <1>3
  <2>2. DOMAIN mk_newFile = 0..n - 1
    BY <1>2, <2>1 DEF MkIs
  <2>3. MkEnds(n, last, 0) /\ 0 <= last
    BY <1>3, <2>1 DEF MkEnds, M!BANK_SIZE
  <2>4. M!Banks(mk_newFile, 0, 0) = 0..last
    BY <2>2, <2>3, MkBanksAre
  <2>5. M!_8K_INIT_PATCH_ADDRESS - 1 = 0
    BY DEF M!_8K_INIT_PATCH_ADDRESS
  <2> QED
    BY <2>4, <2>5
<1> HIDE DEF banks
<1>6. places = {M!Position(b, 1) : b \in 0..last}
  BY <1>5 DEF M!_8K_INIT_PATCH_ADDRESS
<1> HIDE DEF places
<1>7. \A p \in Nat : p \in places <=> p % 9 = 1 /\ p >= 9 * 0 /\ p < 9 * (last + 1)
  <2> TAKE p \in Nat
  <2>1. 1 \in 0..8 /\ 0 \in Nat
    OBVIOUS
  <2>2. p \in {M!Position(b, 1) : b \in 0..last} <=>
          (p % M!BANK_SIZE = 1 /\ p >= M!BANK_SIZE * 0 /\ p < M!BANK_SIZE * (last + 1))
    BY <2>1, MkPositions
  <2> QED
    BY <1>6, <2>2 DEF M!BANK_SIZE
<1>8. DOMAIN cells = places /\ \A p \in places : cells[p] = ld
  OBVIOUS
<1> HIDE DEF cells
<1>9. places \subseteq Nat
  BY <1>6 DEF M!Position, M!BANK_SIZE
<1>10. MkWhole \in Nat
  BY <1>3
<1>11. MkIs(mk_newFile', MkWhole, MkCells3)
  <2>1. CASE mk_First8KMappingAddress # 0
    <3>1. PICK m \in Nat : m = 9 * last + 1
      OBVIOUS
    <3>2. m \in DOMAIN cells /\ DOMAIN cells \subseteq 0..m
      <4>1. m % 9 = 1 /\ m >= 9 * 0 /\ m < 9 * (last + 1)
        BY <3>1
      <4>2. \A p \in Nat : p % 9 = 1 /\ p < 9 * (last + 1) => p <= m
        BY <3>1
      <4> QED
        BY <1>7, <1>8, <1>9, <4>1, <4>2
    <3>3. MkWhole = IF m < MkWhole THEN MkWhole ELSE m + 1
      BY <1>3, <3>1
    <3>4. ASSUME NEW p \in 0..MkWhole - 1
          PROVE  MkCells3[p] = IF p \in DOMAIN cells THEN cells[p]
                               ELSE IF p < MkWhole THEN MkCells2[p] ELSE M!Zero
      <4>1. p \in Nat /\ p < MkWhole /\ p < 9 * (last + 1) /\ p >= 9 * 0
        BY <1>3
      <4>2. MkCells3[p] = IF p \in places THEN ld ELSE MkCells2[p]
        BY <1>4, <1>7, <2>1, <4>1
      <4> QED
        BY <1>8, <4>1, <4>2
    <3>5. MkMerged(MkWhole, MkWhole, MkCells2, cells, MkCells3)
      BY <3>4 DEF MkMerged
    <3>6. mk_newFile' = M!Write(mk_newFile, cells)
      BY <1>1, <2>1
    <3> QED
      BY <1>2, <1>10, <3>2, <3>3, <3>5, <3>6, MkWriteHas
  <2>2. CASE mk_First8KMappingAddress = 0
    <3>1. \A p \in 0..MkWhole - 1 : MkCells3[p] = MkCells2[p]
      BY <1>4, <1>10, <2>2
    <3> QED
      BY <1>1, <1>2, <1>10, <2>2, <3>1, MkLeftHas
  <2> QED
    BY <2>1, <2>2
<1>12. MkHas(MkWhole, MkCells3)'
  BY <1>1, <1>2, <1>11, MkFrame DEF MkHas
<1>13. MkFileInv'
  BY <1>1, <1>12 DEF MkFileInv
<1> QED
  BY <1>1, <1>10, <1>11, <1>13, MkWritten

\* The ROM file has the kernel's four banks at least.
LEMMA MkWholeKernel == ASSUME MkInv, MkAccepted PROVE MkWhole \in Nat /\ MkWhole > 34
<1>1. /\ MkKernel \in Nat /\ MkDriver \in Nat /\ MkAppended \in Nat /\ MkWhole \in Nat
      /\ MkKernel >= 36 /\ MkAppended = MkKernel + MkDriver /\ MkLast = MkAppended \div 9
      /\ MkWhole = IF M!DriverGiven THEN 9 * (MkLast + 1) ELSE MkKernel
  BY MkFiles
<1> QED
  BY <1>1

\* A part in the kernel is written over.
LEMMA MkOver ==
    ASSUME NEW file, NEW n \in Nat, n > 34, NEW c, MkIs(file, n, c), NEW cells, NEW m \in 0..34,
           DOMAIN cells \subseteq 0..m, m \in DOMAIN cells, NEW d, MkMerged(n, n, c, cells, d)
    PROVE  MkIs(M!Write(file, cells), n, d)
<1>1. m \in Nat /\ n = IF m < n THEN n ELSE m + 1
  OBVIOUS
<1> QED
  BY <1>1, MkWriteHas

\* The code that switches banks is put into the start of the kernel.
LEMMA MkInitStep == MkInv /\ M!SetInitMapperCode => MkInv'
<1> SUFFICES ASSUME MkInv, M!SetInitMapperCode PROVE MkInv'
  OBVIOUS
<1> DEFINE what == mk_mapperCode
           cells == [p \in {5} |-> what]
<1> HIDE DEF what
<1>1. /\ mk_at = "init" /\ mk_at' = "extra" /\ UNCHANGED <<mk_request, mk_First8KMappingAddress, mk_mapperCode>>
      /\ mk_newFile' = IF M!MapperGiven THEN M!Write(mk_newFile, cells) ELSE mk_newFile
  BY DEF M!SetInitMapperCode, M!Step, M!MAPPER_INIT_CODE_ADDRESS, what
<1>2. MkAccepted /\ MkIs(mk_newFile, MkWhole, MkCells3)
  BY <1>1 DEF MkInv, MkFileInv, MkHas
<1>3. \A p \in Nat : MkCells4[p] = IF M!MapperGiven /\ p \in {5} THEN what ELSE MkCells3[p]
  BY DEF MkCells4, M!MAPPER_INIT_CODE_ADDRESS, what
<1>4. DOMAIN cells = {5} /\ \A p \in {5} : cells[p] = what
  OBVIOUS
<1> HIDE DEF cells
<1>8. MkWhole \in Nat /\ MkWhole > 34
  BY <1>2, MkWholeKernel
<1>5. MkIs(mk_newFile', MkWhole, MkCells4)
  <2>1. CASE M!MapperGiven
    <3>1. 5 \in 0..34 /\ 5 \in DOMAIN cells /\ DOMAIN cells \subseteq 0..5
      BY <1>4
    <3>2. MkMerged(MkWhole, MkWhole, MkCells3, cells, MkCells4)
      BY <1>3, <1>4, <1>8, <2>1 DEF MkMerged
    <3> QED
      BY <1>1, <1>2, <1>8, <2>1, <3>1, <3>2, MkOver
  <2>2. CASE ~(M!MapperGiven)
    <3>1. \A p \in 0..MkWhole - 1 : MkCells4[p] = MkCells3[p]
      BY <1>3, <1>8, <2>2
    <3> QED
      BY <1>1, <1>2, <1>8, <2>2, <3>1, MkLeftHas
  <2> QED
    BY <2>1, <2>2
<1>6. MkHas(MkWhole, MkCells4)'
  BY <1>1, <1>2, <1>5, MkFrame DEF MkHas
<1>7. MkFileInv'
  BY <1>1, <1>6 DEF MkFileInv
<1> QED
  BY <1>1, <1>5, <1>7, <1>8, MkWritten

\* Where the extra code is.
LEMMA MkExtraPlacesAre == MkExtraPlaces = {7, 34}
  BY DEF MkExtraPlaces, M!Position, M!BANK_SIZE, M!EXTRA_ADDRESS, M!DOS2_EXTRA_BANK, M!DOS1_EXTRA_BANK

\* The extra code is put into the kernel.
LEMMA MkExtraStep == MkInv /\ M!AppendExtra => MkInv'
<1> SUFFICES ASSUME MkInv, M!AppendExtra PROVE MkInv'
  OBVIOUS
<1> DEFINE what == <<"extra", mk_request.extra.code>>
           cells == [p \in MkExtraPlaces |-> what]
<1> HIDE DEF what
<1>1. /\ mk_at = "extra" /\ mk_at' = "keys" /\ UNCHANGED <<mk_request, mk_First8KMappingAddress, mk_mapperCode>>
      /\ mk_newFile' = IF M!ExtraGiven THEN M!Write(mk_newFile, cells) ELSE mk_newFile
  BY DEF M!AppendExtra, M!Step, MkExtraPlaces, what
<1>2. MkAccepted /\ MkIs(mk_newFile, MkWhole, MkCells4)
  BY <1>1 DEF MkInv, MkFileInv, MkHas
<1>3. \A p \in Nat : MkCells5[p] = IF M!ExtraGiven /\ p \in MkExtraPlaces THEN what ELSE MkCells4[p]
  BY DEF MkCells5, MkExtraPlaces, what
<1>4. DOMAIN cells = MkExtraPlaces /\ \A p \in MkExtraPlaces : cells[p] = what
  OBVIOUS
<1> HIDE DEF cells
<1>8. MkWhole \in Nat /\ MkWhole > 34
  BY <1>2, MkWholeKernel
<1>5. MkIs(mk_newFile', MkWhole, MkCells5)
  <2>1. CASE M!ExtraGiven
    <3>1. 34 \in 0..34 /\ 34 \in DOMAIN cells /\ DOMAIN cells \subseteq 0..34
      BY <1>4, MkExtraPlacesAre
    <3>2. MkMerged(MkWhole, MkWhole, MkCells4, cells, MkCells5)
      BY <1>3, <1>4, <1>8, <2>1 DEF MkMerged
    <3> QED
      BY <1>1, <1>2, <1>8, <2>1, <3>1, <3>2, MkOver
  <2>2. CASE ~(M!ExtraGiven)
    <3>1. \A p \in 0..MkWhole - 1 : MkCells5[p] = MkCells4[p]
      BY <1>3, <1>8, <2>2
    <3> QED
      BY <1>1, <1>2, <1>8, <2>2, <3>1, MkLeftHas
  <2> QED
    BY <2>1, <2>2
<1>6. MkHas(MkWhole, MkCells5)'
  BY <1>1, <1>2, <1>5, MkFrame DEF MkHas
<1>7. MkFileInv'
  BY <1>1, <1>6 DEF MkFileInv
<1> QED
  BY <1>1, <1>5, <1>7, <1>8, MkWritten

\* The boot keys are put into the kernel.
LEMMA MkKeysStep == MkInv /\ M!SetBootKeys => MkInv'
<1> SUFFICES ASSUME MkInv, M!SetBootKeys PROVE MkInv'
  OBVIOUS
<1> DEFINE what == <<"keys", mk_request.keys>>
           cells == [p \in {4} |-> what]
<1> HIDE DEF what
<1>1. /\ mk_at = "keys" /\ mk_at' = "done" /\ UNCHANGED <<mk_request, mk_First8KMappingAddress, mk_mapperCode>>
      /\ mk_newFile' = IF mk_request.keys # -1 THEN M!Write(mk_newFile, cells) ELSE mk_newFile
  BY DEF M!SetBootKeys, M!Step, M!BOOT_KEYS_INVERTER_OFFSET, what
<1>2. MkAccepted /\ MkIs(mk_newFile, MkWhole, MkCells5)
  BY <1>1 DEF MkInv, MkFileInv, MkHas
<1>3. \A p \in Nat : MkCells6[p] = IF mk_request.keys # -1 /\ p \in {4} THEN what ELSE MkCells5[p]
  BY DEF MkCells6, M!BOOT_KEYS_INVERTER_OFFSET, what
<1>4. DOMAIN cells = {4} /\ \A p \in {4} : cells[p] = what
  OBVIOUS
<1> HIDE DEF cells
<1>8. MkWhole \in Nat /\ MkWhole > 34
  BY <1>2, MkWholeKernel
<1>5. MkIs(mk_newFile', MkWhole, MkCells6)
  <2>1. CASE mk_request.keys # -1
    <3>1. 4 \in 0..34 /\ 4 \in DOMAIN cells /\ DOMAIN cells \subseteq 0..4
      BY <1>4
    <3>2. MkMerged(MkWhole, MkWhole, MkCells5, cells, MkCells6)
      BY <1>3, <1>4, <1>8, <2>1 DEF MkMerged
    <3> QED
      BY <1>1, <1>2, <1>8, <2>1, <3>1, <3>2, MkOver
  <2>2. CASE ~(mk_request.keys # -1)
    <3>1. \A p \in 0..MkWhole - 1 : MkCells6[p] = MkCells5[p]
      BY <1>3, <1>8, <2>2
    <3> QED
      BY <1>1, <1>2, <1>8, <2>2, <3>1, MkLeftHas
  <2> QED
    BY <2>1, <2>2
<1>6. MkHas(MkWhole, MkCells6)'
  BY <1>1, <1>2, <1>5, MkFrame DEF MkHas
<1>7. MkFileInv'
  BY <1>1, <1>6 DEF MkFileInv
<1> QED
  BY <1>1, <1>5, <1>7, <1>8, MkWritten

\* The address in the header of a mapper code file.
LEMMA MkSigned ==
    ASSUME NEW b \in 0..255
    PROVE  M!Signed(b) \in Int /\ -129 < M!Signed(b) /\ M!Signed(b) < 128
<1>1. b \in Int /\ 0 <= b /\ b < 256
  OBVIOUS
<1> QED
  BY <1>1 DEF M!Signed

\* The files are checked.
LEMMA MkCheckStep == MkInv /\ M!Check => MkInv'
<1> SUFFICES ASSUME MkInv, M!Check PROVE MkInv'
  OBVIOUS
<1>1. mk_at = "check" /\ UNCHANGED <<mk_request, mk_newFile>>
  BY DEF M!Check
<1>2. MkGiven' /\ M!IsFile(mk_newFile')
  BY <1>1 DEF MkInv, MkGiven
<1>3. CASE mk_at' = "exit" /\ UNCHANGED <<mk_mapperCode, mk_First8KMappingAddress>>
  BY <1>1, <1>2, <1>3 DEF MkInv, MkFileInv
<1>4. CASE /\ M!AddressGiven /\ M!BaseFileSize /\ M!DriverPresence /\ (M!DriverGiven => M!DriverSignature)
           /\ mk_mapperCode' = M!MapperCode
           /\ mk_First8KMappingAddress' =
                IF M!MapperGiven /\ mk_request.mapper.header /\ mk_request.address = 0
                THEN M!HeaderAddress ELSE mk_request.address
           /\ mk_at' = "create"
  <2>1. mk_request.mapper \in MkMappers /\ mk_request.address \in MkAddresses /\ mk_request.driver \in MkDrivers
    BY DEF MkInv, MkGiven
  <2>2. mk_request.address \in Nat
    BY <2>1, MkAssumption DEF M!MknexromAssumption
  <2>3. mk_request.mapper.low \in 0..255 /\ mk_request.mapper.high \in 0..255
    BY <2>1, MkAssumption DEF M!MknexromAssumption
  <2>4. M!HeaderAddress \in Int /\ -65536 < M!HeaderAddress /\ M!HeaderAddress < 65536
    <3>1. /\ M!Signed(mk_request.mapper.low) \in Int /\ M!Signed(mk_request.mapper.high) \in Int
          /\ -129 < M!Signed(mk_request.mapper.low) /\ M!Signed(mk_request.mapper.low) < 128
          /\ -129 < M!Signed(mk_request.mapper.high) /\ M!Signed(mk_request.mapper.high) < 128
      BY <2>3, MkSigned
    <3> QED
      BY <3>1 DEF M!HeaderAddress
  <2>5. mk_request.address < 65536
    BY <1>4, <2>2 DEF M!AddressGiven
  <2>6. /\ mk_First8KMappingAddress' \in Int
        /\ -65536 < mk_First8KMappingAddress' /\ mk_First8KMappingAddress' < 65536
    BY <1>4, <2>2, <2>4, <2>5
  <2>7. /\ M!AddressGiven' = M!AddressGiven /\ M!BaseFileSize' = M!BaseFileSize
        /\ M!DriverPresence' = M!DriverPresence /\ M!DriverGiven' = M!DriverGiven /\ MkDriver' = MkDriver
        /\ M!MapperCode' = M!MapperCode /\ M!MapperGiven' = M!MapperGiven /\ M!HeaderAddress' = M!HeaderAddress
    BY <1>1 DEF M!AddressGiven, M!BaseFileSize, M!DriverPresence, M!DriverGiven, MkDriver, M!MapperCode,
       M!MapperGiven, M!HeaderAddress, M!HasDriver, M!baseBankCount
  <2>8. M!DriverGiven => MkDriver > 0
    <3>1. M!IsFile(mk_request.driver)
      BY <2>1, MkAssumption DEF M!MknexromAssumption
    <3>2. MkDriver \in Nat
      BY <3>1, MkFileSize DEF MkDriver
    <3> QED
      BY <1>4, <3>2 DEF M!DriverSignature, MkDriver, M!DRIVER_MIN_SIZE
  <2>9. MkAccepted'
    BY <1>1, <1>4, <2>7, <2>8 DEF MkAccepted
  <2>10. MkFileInv'
    BY <1>4 DEF MkFileInv
  <2> QED
    BY <1>2, <1>4, <2>6, <2>9, <2>10 DEF MkInv
<1> QED
  BY <1>3, <1>4 DEF M!Check

\* The invariant holds at first.
LEMMA MknexromInit == M!Init => MkInv
<1> SUFFICES ASSUME M!Init PROVE MkInv
  OBVIOUS
<1>1. MkGiven
  BY DEF M!Init, MkGiven
<1>2. M!IsFile(mk_newFile)
  <2>1. M!IsFile(mk_request.base)
    BY <1>1, MkAssumption DEF MkGiven, M!MknexromAssumption, M!IsKernel
  <2>2. M!IsFile(M!NoFile)
    <3>1. DOMAIN M!NoFile = 0..0 - 1
      BY DEF M!NoFile
    <3> QED
      BY <3>1, MkFileIs
  <2> QED
    BY <2>1, <2>2 DEF M!Init
<1> QED
  BY <1>1, <1>2 DEF M!Init, MkInv, MkFileInv

\* And after every step of MKNEXROM.
LEMMA MknexromStep == MkInv /\ [M!Next]_(M!vars) => MkInv'
<1> SUFFICES ASSUME MkInv, [M!Next]_(M!vars) PROVE MkInv'
  OBVIOUS
<1>1. CASE UNCHANGED M!vars
  <2>1. /\ UNCHANGED <<mk_request, mk_First8KMappingAddress, mk_mapperCode>>
        /\ mk_at' = mk_at /\ mk_newFile' = mk_newFile
    BY <1>1 DEF M!vars
  <2>2. MkGiven'
    BY <2>1 DEF MkInv, MkGiven
  <2>3. CASE mk_at \in {"check", "exit"}
    BY <2>1, <2>2, <2>3 DEF MkInv, MkFileInv
  <2>4. CASE mk_at \notin {"check", "exit"}
    <3>1. MkAccepted /\ MkAccepted'
      BY <2>1, <2>4, MkFrame DEF MkInv
    <3>2. MkFileInv'
      BY <2>1, <3>1, MkFrame DEF MkInv, MkFileInv, MkHas
    <3> QED
      BY <2>1, <2>2, <3>1, <3>2 DEF MkInv
  <2> QED
    BY <2>3, <2>4
<1>2. CASE M!CreateRom
  <2>1. /\ mk_at = "create" /\ mk_at' = "driver" /\ mk_newFile' = mk_request.base
        /\ UNCHANGED <<mk_request, mk_First8KMappingAddress, mk_mapperCode>>
    BY <1>2 DEF M!CreateRom, M!Step
  <2>2. MkAccepted /\ MkAccepted'
    BY <2>1, MkFrame DEF MkInv
  <2>3. MkGiven'
    BY <2>1 DEF MkInv, MkGiven
  <2>4. M!IsFile(mk_newFile')
    BY <2>1, <2>2, MkFiles DEF M!IsKernel
  <2>5. MkFileInv'
    BY <2>1 DEF MkFileInv
  <2> QED
    BY <2>1, <2>2, <2>3, <2>4, <2>5 DEF MkInv
<1>3. CASE M!DoExit
  <2>1. /\ mk_at' = "exit" /\ mk_newFile' = mk_newFile
        /\ UNCHANGED <<mk_request, mk_First8KMappingAddress, mk_mapperCode>>
    BY <1>3 DEF M!DoExit
  <2>2. MkGiven'
    BY <2>1 DEF MkInv, MkGiven
  <2> QED
    BY <2>1, <2>2 DEF MkInv, MkFileInv
<1>4. CASE M!Ended
  BY <1>1, <1>4 DEF M!Ended
<1> QED
  BY <1>1, <1>2, <1>3, <1>4, MkCheckStep, MkDriverStep, MkPage0Step, MkMapperStep, MkPatchStep,
     MkInitStep, MkExtraStep, MkKeysStep DEF M!Next

\* A place in a bank, the number of the bank, and the patch, as cells.
MkPlace(p) == p % M!BANK_SIZE
MkOwn(p) == <<"bank", p \div M!BANK_SIZE>>
MkLd == <<"ld", mk_First8KMappingAddress % 65536>>

\* The places of those that are written in the kernel alone.
LEMMA MkPlaceIs ==
    ASSUME NEW p \in Nat
    PROVE  /\ MkPlace(p) \in Nat /\ MkPlace(p) < 9
           /\ p = 4 => MkPlace(p) = 4
           /\ p = 5 => MkPlace(p) = 5
           /\ p \in {7, 34} => MkPlace(p) = 7
           /\ p < 9 => MkPlace(p) = p
<1>1. p % 9 \in Nat /\ p % 9 < 9 /\ (p < 9 => p % 9 = p) /\ (p = 34 => p % 9 = 7)
  OBVIOUS
<1>2. MkPlace(p) = p % 9
  BY DEF MkPlace, M!BANK_SIZE
<1> QED
  BY <1>1, <1>2

\* The cells of the finished ROM file, one part over the other.
LEMMA MkFinal ==
    ASSUME MkInv, mk_at = "done", NEW p \in 0..MkWhole - 1
    PROVE  /\ mk_newFile[p] = IF mk_request.keys # -1 /\ p = 4 THEN <<"keys", mk_request.keys>> ELSE MkCells5[p]
           /\ MkCells5[p] = IF M!ExtraGiven /\ p \in {7, 34} THEN <<"extra", mk_request.extra.code>> ELSE MkCells4[p]
           /\ MkCells4[p] = IF M!MapperGiven /\ p = 5 THEN mk_mapperCode ELSE MkCells3[p]
           /\ MkCells3[p] = IF mk_First8KMappingAddress # 0 /\ MkPlace(p) = 1 THEN MkLd ELSE MkCells2[p]
           /\ MkCells2[p] = IF MkPlace(p) = 8 /\ (M!MapperGiven \/ (M!DriverGiven /\ p >= MkKernel))
                            THEN mk_mapperCode ELSE MkCells1[p]
           /\ MkCells1[p] = IF M!DriverGiven /\ p >= MkKernel /\ MkPlace(p) < 4
                            THEN IF MkPlace(p) = 3 THEN MkOwn(p) ELSE mk_request.base[MkPlace(p)]
                            ELSE MkCells0[p]
           /\ MkCells0[p] = IF p < MkKernel THEN mk_request.base[p]
                            ELSE IF p < MkAppended THEN mk_request.driver[p - MkKernel] ELSE M!Zero
<1>1. MkAccepted /\ MkIs(mk_newFile, MkWhole, MkCells6)
  BY DEF MkInv, MkFileInv, MkHas
<1>2. p \in Nat
  BY <1>1, MkWholeKernel
<1>3. mk_newFile[p] = MkCells6[p]
  BY <1>1 DEF MkIs
<1> QED
  BY <1>2, <1>3, MkExtraPlacesAre
  DEF MkCells0, MkCells1, MkCells2, MkCells3, MkCells4, MkCells5, MkCells6, M!BANK_SIZE, M!PAGE0_SIZE,
      M!BANK_NUMBER, M!MAPPER_CODE, M!_8K_INIT_PATCH_ADDRESS, M!MAPPER_INIT_CODE_ADDRESS,
      M!BOOT_KEYS_INVERTER_OFFSET, MkPlace, MkOwn, MkLd

\* A position in the ROM file is one of the kernel, or one behind it when a driver is given.
LEMMA MkWhere ==
    ASSUME MkInv, MkAccepted, NEW p \in 0..MkWhole - 1
    PROVE  /\ p \in Nat /\ MkKernel \in Nat /\ MkKernel >= 36 /\ MkDriver \in Nat
           /\ MkAppended = MkKernel + MkDriver
           /\ DOMAIN mk_request.base = 0..MkKernel - 1 /\ DOMAIN mk_request.driver = 0..MkDriver - 1
           /\ p < MkKernel <=> p \in DOMAIN mk_request.base
           /\ p >= MkKernel <=> ~(p < MkKernel)
           /\ p >= MkKernel => M!DriverGiven
<1>1. /\ MkKernel \in Nat /\ MkKernel >= 36 /\ MkDriver \in Nat /\ MkWhole \in Nat
      /\ MkAppended = MkKernel + MkDriver
      /\ DOMAIN mk_request.base = 0..MkKernel - 1 /\ DOMAIN mk_request.driver = 0..MkDriver - 1
      /\ ~M!DriverGiven => MkWhole = MkKernel
  BY MkFiles
<1>2. p \in Nat /\ p < MkWhole
  BY <1>1
<1> QED
  BY <1>1, <1>2

\* What the kernel has where page 0 and the code are, and where not.
LEMMA MkKernelCells ==
    ASSUME MkInv, MkAccepted, NEW p \in DOMAIN mk_request.base
    PROVE  /\ MkPlace(p) < 4 => mk_request.base[p] = IF MkPlace(p) = 3 THEN MkOwn(p)
                                                     ELSE mk_request.base[MkPlace(p)]
           /\ MkPlace(p) = 8 => mk_request.base[p] = mk_request.base[8]
           /\ mk_request.base[p][1] = "extra" => ~(MkPlace(p) < 4) /\ MkPlace(p) # 8
<1>1. M!IsKernel(mk_request.base) /\ DOMAIN mk_request.base = 0..MkKernel - 1 /\ MkKernel \in Nat
  BY MkFiles
<1>2. p \in Nat
  BY <1>1
<1>3. MkPlace(p) \in Nat
  BY <1>2, MkPlaceIs
<1>4. /\ MkPlace(p) < M!PAGE0_SIZE => mk_request.base[p] = IF MkPlace(p) = M!BANK_NUMBER THEN MkOwn(p)
                                                           ELSE mk_request.base[MkPlace(p)]
      /\ MkPlace(p) = M!MAPPER_CODE => mk_request.base[p] = mk_request.base[M!MAPPER_CODE]
      /\ mk_request.base[p][1] = "extra" => MkPlace(p) \notin 0..M!PAGE0_SIZE - 1 \cup {M!MAPPER_CODE}
  BY <1>1, Zenon DEF M!IsKernel, MkPlace, MkOwn
<1> QED
  BY <1>3, <1>4 DEF M!PAGE0_SIZE, M!BANK_NUMBER, M!MAPPER_CODE

\* Page 0 of the finished ROM file.
LEMMA MkFinalPage ==
    ASSUME MkInv, mk_at = "done", NEW p \in 0..MkWhole - 1, MkPlace(p) < 4
    PROVE  mk_newFile[p] = IF mk_First8KMappingAddress # 0 /\ MkPlace(p) = 1 THEN MkLd
                           ELSE IF MkPlace(p) = 3 THEN MkOwn(p) ELSE mk_request.base[MkPlace(p)]
<1>1. MkAccepted
  BY DEF MkInv
<1>2. /\ p \in Nat
      /\ p >= MkKernel => M!DriverGiven
      /\ p < MkKernel <=> p \in DOMAIN mk_request.base
      /\ p >= MkKernel <=> ~(p < MkKernel)
  BY <1>1, MkWhere
<1>3. p # 4 /\ p \notin {7, 34} /\ p # 5 /\ MkPlace(p) # 8
  BY <1>2, MkPlaceIs
<1>4. mk_newFile[p] = MkCells3[p] /\ MkCells2[p] = MkCells1[p]
  BY <1>3, MkFinal, Zenon
<1>5. MkCells1[p] = IF MkPlace(p) = 3 THEN MkOwn(p) ELSE mk_request.base[MkPlace(p)]
  <2>1. CASE p >= MkKernel
    BY <1>2, <2>1, MkFinal, Zenon
  <2>2. CASE p < MkKernel
    <3>1. MkCells1[p] = mk_request.base[p]
      BY <1>2, <2>2, MkFinal, Zenon
    <3> QED
      BY <1>1, <1>2, <2>2, <3>1, MkKernelCells
  <2> QED
    BY <1>2, <2>1, <2>2
<1>6. MkCells3[p] = IF mk_First8KMappingAddress # 0 /\ MkPlace(p) = 1 THEN MkLd ELSE MkCells2[p]
  BY MkFinal, Zenon
<1> QED
  BY <1>4, <1>5, <1>6, Zenon

\* What the code that switches banks is.
LEMMA MkCodeIs ==
    ASSUME MkInv, MkAccepted
    PROVE  /\ mk_mapperCode[1] # "undefined" =>
                mk_mapperCode = IF M!MapperGiven THEN <<"mapper", mk_request.mapper.code>> ELSE mk_request.base[8]
           /\ mk_mapperCode[1] # "extra"
<1>1. mk_mapperCode = M!MapperCode
  BY DEF MkAccepted
<1>2. CASE M!MapperGiven
  <2>1. mk_mapperCode = <<"undefined", 0>> \/ mk_mapperCode = <<"mapper", mk_request.mapper.code>>
    BY <1>1, <1>2 DEF M!MapperCode
  <2> QED
    BY <1>2, <2>1
<1>3. CASE ~M!MapperGiven
  <2>1. mk_mapperCode = mk_request.base[8]
    BY <1>1, <1>3 DEF M!MapperCode, M!MAPPER_CODE
  <2>2. DOMAIN mk_request.base = 0..MkKernel - 1 /\ MkKernel \in Nat /\ MkKernel >= 36
    BY MkFiles
  <2>3. 8 \in DOMAIN mk_request.base /\ MkPlace(8) = 8
    BY <2>2, MkPlaceIs
  <2>4. mk_request.base[8][1] # "extra"
    BY <2>3, MkKernelCells
  <2> QED
    BY <1>3, <2>1, <2>4
<1> QED
  BY <1>2, <1>3

\* The code that switches banks, in the finished ROM file.
LEMMA MkFinalMapper ==
    ASSUME MkInv, mk_at = "done", NEW p \in 0..MkWhole - 1, MkPlace(p) = 8, mk_mapperCode[1] # "undefined"
    PROVE  mk_newFile[p] = IF M!MapperGiven THEN <<"mapper", mk_request.mapper.code>> ELSE mk_request.base[8]
<1>1. MkAccepted
  BY DEF MkInv
<1>2. /\ p \in Nat
      /\ p >= MkKernel => M!DriverGiven
      /\ p < MkKernel <=> p \in DOMAIN mk_request.base
      /\ p >= MkKernel <=> ~(p < MkKernel)
  BY <1>1, MkWhere
<1>3. p # 4 /\ p \notin {7, 34} /\ p # 5 /\ MkPlace(p) # 1 /\ ~(MkPlace(p) < 4)
  BY <1>2, MkPlaceIs
<1>4. mk_newFile[p] = MkCells2[p]
  <2>1. mk_newFile[p] = MkCells4[p] /\ MkCells4[p] = MkCells3[p]
    BY <1>3, MkFinal, Zenon
  <2>2. MkCells3[p] = MkCells2[p]
    BY <1>3, MkFinal, Zenon
  <2> QED
    BY <2>1, <2>2
<1>5. mk_mapperCode = IF M!MapperGiven THEN <<"mapper", mk_request.mapper.code>> ELSE mk_request.base[8]
  BY <1>1, MkCodeIs
<1>6. CASE M!MapperGiven \/ p >= MkKernel
  <2>1. MkCells2[p] = mk_mapperCode
    BY <1>2, <1>6, MkFinal, Zenon
  <2> QED
    BY <1>4, <1>5, <2>1
<1>7. CASE ~M!MapperGiven /\ p < MkKernel
  <2>1. MkCells2[p] = mk_request.base[p]
    BY <1>2, <1>3, <1>7, MkFinal, Zenon
  <2>2. mk_request.base[p] = mk_request.base[8]
    BY <1>1, <1>2, <1>7, MkKernelCells
  <2> QED
    BY <1>4, <1>7, <2>1, <2>2
<1> QED
  BY <1>2, <1>6, <1>7

\* A number of two bytes, and the same as signed, are equal in a word.
LEMMA MkWord ==
    ASSUME NEW a \in Int, NEW n \in Int, 0 < n, n < 65536, a = n \/ a = n - 65536
    PROVE  a # 0 /\ a % 65536 = n
<1>1. CASE a = n
  <2>1. n % 65536 = n
    OBVIOUS
  <2> QED
    BY <1>1, <2>1
<1>2. CASE a = n - 65536
  <2>1. (n - 65536) % 65536 = n
    OBVIOUS
  <2> QED
    BY <1>2, <2>1
<1> QED
  BY <1>1, <1>2

\* The address that was asked for, when the low byte of that in a header is below 80h.
MkAddress ==
    IF mk_request.address # 0 THEN mk_request.address
    ELSE IF M!MapperGiven /\ mk_request.mapper.header
    THEN mk_request.mapper.low + 256 * mk_request.mapper.high ELSE 0

\* The address that is patched in is that one.
LEMMA MkAddressIs ==
    ASSUME MkInv, MkAccepted, MkAddress # 0, MkAddress % 256 < 128
    PROVE  mk_First8KMappingAddress # 0 /\ MkLd = <<"ld", MkAddress>>
<1>1. mk_request.mapper \in MkMappers /\ mk_request.address \in MkAddresses
  BY DEF MkInv, MkGiven
<1>2. mk_request.address \in Nat /\ mk_request.mapper.low \in 0..255 /\ mk_request.mapper.high \in 0..255
  BY <1>1, MkAssumption DEF M!MknexromAssumption
<1>3. CASE mk_request.address # 0
  <2>1. mk_First8KMappingAddress = mk_request.address
    BY <1>3 DEF MkAccepted
  <2>2. mk_request.address < 65536 /\ mk_request.address > 0
    BY <1>2, <1>3 DEF MkAccepted, M!AddressGiven
  <2>3. mk_First8KMappingAddress # 0 /\ mk_First8KMappingAddress % 65536 = mk_request.address
    BY <1>2, <2>1, <2>2, MkWord
  <2> QED
    BY <1>3, <2>3 DEF MkAddress, MkLd
<1>4. CASE mk_request.address = 0
  <2>1. M!MapperGiven /\ mk_request.mapper.header
    BY <1>4 DEF MkAddress
  <2>2. mk_First8KMappingAddress = M!HeaderAddress
    BY <1>4, <2>1 DEF MkAccepted
  <2> DEFINE l == mk_request.mapper.low
             h == mk_request.mapper.high
  <2>3. l \in Int /\ 0 <= l /\ l < 256 /\ h \in Int /\ 0 <= h /\ h < 256
    <3>1. \A b \in 0..255 : b \in Int /\ 0 <= b /\ b < 256
      OBVIOUS
    <3>2. l \in Int /\ 0 <= l /\ l < 256
      BY <1>2, <3>1, Zenon
    <3>3. h \in Int /\ 0 <= h /\ h < 256
      BY <1>2, <3>1, Zenon
    <3> QED
      BY <3>2, <3>3
  <2>4. MkAddress = l + 256 * h
    BY <1>4, <2>1 DEF MkAddress
  <2>7. M!HeaderAddress = M!Signed(l) + M!Signed(h) * 256
    BY DEF M!HeaderAddress
  <2> HIDE DEF l, h
  <2>5. l < 128 /\ l + 256 * h < 65536 /\ 0 < l + 256 * h
    BY <2>3, <2>4
  <2>6. M!Signed(l) = l /\ (M!Signed(h) = h \/ M!Signed(h) = h - 256)
    BY <2>3, <2>5 DEF M!Signed
  <2>8. M!HeaderAddress = l + 256 * h \/ M!HeaderAddress = (l + 256 * h) - 65536
    BY <2>3, <2>6, <2>7
  <2>9. PICK n \in Int : n = l + 256 * h
    BY <2>3
  <2>10. M!HeaderAddress # 0 /\ M!HeaderAddress % 65536 = n
    BY <2>5, <2>8, <2>9, MkWord
  <2> QED
    BY <2>2, <2>4, <2>9, <2>10 DEF MkLd
<1> QED
  BY <1>3, <1>4

\* Where the extra code is, in the finished ROM file.
LEMMA MkFinalExtra ==
    ASSUME MkInv, mk_at = "done", NEW p \in 0..MkWhole - 1, mk_newFile[p][1] = "extra"
    PROVE  \/ p \in DOMAIN mk_request.base /\ mk_newFile[p] = mk_request.base[p]
           \/ p \in {7, 34} /\ mk_newFile[p] = <<"extra", mk_request.extra.code>>
<1>1. MkAccepted
  BY DEF MkInv
<1>2. /\ p \in Nat
      /\ p >= MkKernel => M!DriverGiven
      /\ p < MkKernel <=> p \in DOMAIN mk_request.base
      /\ p >= MkKernel <=> ~(p < MkKernel)
      /\ MkPlace(p) \in Nat
  BY <1>1, MkWhere, MkPlaceIs
<1>3. mk_mapperCode[1] # "extra"
  BY <1>1, MkCodeIs
<1>4. /\ <<"keys", mk_request.keys>>[1] # "extra" /\ MkOwn(p)[1] # "extra" /\ MkLd[1] # "extra"
      /\ M!Zero[1] # "extra"
  BY DEF MkOwn, MkLd, M!Zero
<1>5. mk_newFile[p] = MkCells5[p]
  BY <1>4, MkFinal, Zenon
<1>6. CASE M!ExtraGiven /\ p \in {7, 34}
  BY <1>5, <1>6, MkFinal, Zenon
<1>7. CASE ~(M!ExtraGiven /\ p \in {7, 34})
  <2>1. mk_newFile[p] = MkCells4[p]
    BY <1>5, <1>7, MkFinal, Zenon
  <2>2. mk_newFile[p] = MkCells3[p]
    BY <1>3, <2>1, MkFinal, Zenon
  <2>3. mk_newFile[p] = MkCells2[p]
    BY <1>4, <2>2, MkFinal, Zenon
  <2>4. mk_newFile[p] = MkCells1[p]
    BY <1>3, <2>3, MkFinal, Zenon
  <2>5. CASE p < MkKernel
    <3>1. MkCells1[p] = MkCells0[p] /\ MkCells0[p] = mk_request.base[p]
      BY <1>2, <2>5, MkFinal, Zenon
    <3> QED
      BY <1>2, <2>4, <2>5, <3>1
  <2>6. CASE p >= MkKernel /\ MkPlace(p) < 4
    <3>1. mk_newFile[p] = mk_request.base[MkPlace(p)]
      BY <1>2, <1>4, <2>4, <2>6, MkFinal, Zenon
    <3>2. MkPlace(p) \in DOMAIN mk_request.base /\ MkPlace(MkPlace(p)) = MkPlace(p)
      <4>1. DOMAIN mk_request.base = 0..MkKernel - 1 /\ MkKernel \in Nat /\ MkKernel >= 36
        BY <1>1, MkWhere
      <4>2. MkPlace(p) \in Nat /\ MkPlace(p) < 9
        BY <1>2, MkPlaceIs
      <4> QED
        BY <4>1, <4>2, MkPlaceIs
    <3> QED
      BY <1>1, <2>6, <3>1, <3>2, MkKernelCells
  <2>7. CASE p >= MkKernel /\ ~(MkPlace(p) < 4)
    <3>1. mk_newFile[p] = MkCells0[p]
      BY <1>2, <2>4, <2>7, MkFinal, Zenon
    <3>2. p < MkAppended /\ mk_newFile[p] = mk_request.driver[p - MkKernel]
      BY <1>2, <1>4, <2>7, <3>1, MkFinal, Zenon
    <3>3. p - MkKernel \in DOMAIN mk_request.driver
      BY <1>1, <2>7, <3>2, MkWhere
    <3>4. mk_request.driver \in MkDrivers
      BY DEF MkInv, MkGiven
    <3> QED
      BY <3>2, <3>3, <3>4, MkAssumption DEF M!MknexromAssumption
  <2> QED
    BY <1>2, <2>5, <2>6, <2>7
<1> QED
  BY <1>6, <1>7

\* The rest of the finished ROM file.
LEMMA MkFinalRest ==
    ASSUME MkInv, mk_at = "done", NEW p \in 0..MkWhole - 1, MkPlace(p) \notin {1, 3, 8}
    PROVE  \/ p \in DOMAIN mk_request.base /\ mk_newFile[p] = mk_request.base[p]
           \/ p = 5 /\ M!MapperGiven
           \/ p = 4 /\ mk_request.keys # -1
           \/ M!ExtraGiven /\ mk_newFile[p][1] = "extra"
           \/ p >= MkKernel /\ MkPlace(p) < 4
           \/ /\ p >= MkKernel
              /\ mk_newFile[p] = IF p - MkKernel \in DOMAIN mk_request.driver
                                 THEN mk_request.driver[p - MkKernel] ELSE M!Zero
<1>1. MkAccepted
  BY DEF MkInv
<1>2. /\ p \in Nat
      /\ p >= MkKernel => M!DriverGiven
      /\ p < MkKernel <=> p \in DOMAIN mk_request.base
      /\ p >= MkKernel <=> ~(p < MkKernel)
  BY <1>1, MkWhere
<1> SUFFICES ASSUME ~(p = 5 /\ M!MapperGiven), ~(p = 4 /\ mk_request.keys # -1),
                    ~(M!ExtraGiven /\ mk_newFile[p][1] = "extra"), ~(p >= MkKernel /\ MkPlace(p) < 4)
             PROVE  \/ p \in DOMAIN mk_request.base /\ mk_newFile[p] = mk_request.base[p]
                    \/ /\ p >= MkKernel
                       /\ mk_newFile[p] = IF p - MkKernel \in DOMAIN mk_request.driver
                                          THEN mk_request.driver[p - MkKernel] ELSE M!Zero
  OBVIOUS
<1>3. mk_newFile[p] = MkCells5[p]
  BY MkFinal, Zenon
<1>4. mk_newFile[p] = MkCells4[p]
  <2>1. <<"extra", mk_request.extra.code>>[1] = "extra"
    OBVIOUS
  <2>2. MkCells5[p] = IF M!ExtraGiven /\ p \in {7, 34} THEN <<"extra", mk_request.extra.code>>
                      ELSE MkCells4[p]
    BY MkFinal, Zenon
  <2>3. ~(M!ExtraGiven /\ p \in {7, 34})
    BY <1>3, <2>1, <2>2, Zenon
  <2> QED
    BY <1>3, <2>2, <2>3, Zenon
<1>5. mk_newFile[p] = MkCells3[p]
  BY <1>4, MkFinal, Zenon
<1>6. MkPlace(p) # 1 /\ MkPlace(p) # 8
  OBVIOUS
<1>7. mk_newFile[p] = MkCells2[p]
  BY <1>5, <1>6, MkFinal, Zenon
<1>8. mk_newFile[p] = MkCells1[p]
  BY <1>6, <1>7, MkFinal, Zenon
<1>9. mk_newFile[p] = MkCells0[p]
  BY <1>8, MkFinal, Zenon
<1>10. CASE p < MkKernel
  <2>1. mk_newFile[p] = mk_request.base[p]
    BY <1>9, <1>10, MkFinal, Zenon
  <2> QED
    BY <1>2, <1>10, <2>1
<1>11. CASE p >= MkKernel
  <2>1. mk_newFile[p] = IF p < MkAppended THEN mk_request.driver[p - MkKernel] ELSE M!Zero
    BY <1>2, <1>9, <1>11, MkFinal, Zenon
  <2>2. p < MkAppended <=> p - MkKernel \in DOMAIN mk_request.driver
    BY <1>1, <1>11, MkWhere
  <2> QED
    BY <1>11, <2>1, <2>2, Zenon
<1> QED
  BY <1>2, <1>10, <1>11

\* The position of a place in a bank of the finished ROM file.
LEMMA MkAt ==
    ASSUME MkInv, MkAccepted, NEW b \in 0..(MkWhole \div 9) - 1, NEW c \in 0..8
    PROVE  /\ M!Position(b, c) \in 0..MkWhole - 1
           /\ MkPlace(M!Position(b, c)) = c /\ MkOwn(M!Position(b, c)) = <<"bank", b>>
<1>1. MkWhole \in Nat
  BY MkWholeKernel
<1>2. PICK w \in Nat : w = MkWhole
  BY <1>1
<1>3. b \in Int /\ 0 <= b /\ b < w \div 9 /\ c \in Int /\ 0 <= c /\ c < 9
  BY <1>2
<1>4. 9 * b + c < w /\ 0 <= 9 * b + c /\ 9 * b + c \in Int
  BY <1>3
<1>5. (9 * b + c) % 9 = c /\ (9 * b + c) \div 9 = b
  BY <1>3
<1>6. M!Position(b, c) = 9 * b + c
  BY DEF M!Position, M!BANK_SIZE
<1> QED
  BY <1>2, <1>4, <1>5, <1>6 DEF MkPlace, MkOwn, M!BANK_SIZE

\* How long the finished ROM file is.
LEMMA MkLength ==
    ASSUME MkInv, MkAccepted
    PROVE  /\ MkWhole \in Nat /\ MkWhole >= 36 /\ MkWhole % 9 = 0
           /\ MkWhole \div 9 = (MkKernel \div 9) + (IF M!DriverGiven THEN (MkDriver \div 9) + 1 ELSE 0)
<1>1. /\ MkKernel \in Nat /\ MkDriver \in Nat /\ MkKernel % 9 = 0 /\ MkKernel >= 36
      /\ MkAppended = MkKernel + MkDriver /\ MkLast = MkAppended \div 9
      /\ MkWhole = IF M!DriverGiven THEN 9 * (MkLast + 1) ELSE MkKernel
  BY MkFiles
<1>2. PICK k \in Nat : k = MkKernel \div 9 /\ MkKernel = 9 * k
  BY <1>1
<1>3. PICK d \in Nat : d = MkDriver
  BY <1>1
<1>4. MkLast = k + (d \div 9) /\ d \div 9 \in Nat
  <2>1. (9 * k + d) \div 9 = k + (d \div 9) /\ d \div 9 \in Nat
    OBVIOUS
  <2> QED
    BY <1>1, <1>2, <1>3, <2>1
<1>5. PICK q \in Nat : q = d \div 9 /\ MkLast = k + q
  BY <1>4
<1>6. CASE M!DriverGiven
  <2>1. MkWhole = 9 * (k + q + 1)
    BY <1>1, <1>5, <1>6
  <2>2. (9 * (k + q + 1)) % 9 = 0 /\ (9 * (k + q + 1)) \div 9 = k + q + 1
    OBVIOUS
  <2> QED
    BY <1>1, <1>2, <1>3, <1>5, <1>6, <2>1, <2>2
<1>7. CASE ~M!DriverGiven
  BY <1>1, <1>2, <1>7
<1> QED
  BY <1>6, <1>7

\* What the invariant implies.
LEMMA MknexromSafe == MkInv => M!RomComplete /\ M!TypeOK
<1> SUFFICES ASSUME MkInv PROVE M!RomComplete /\ M!TypeOK
  OBVIOUS
<1>1. M!TypeOK
  BY DEF MkInv, M!TypeOK, M!IsFile
<1>2. ASSUME mk_at = "done" PROVE M!RomComplete
  <2>1. MkAccepted /\ MkIs(mk_newFile, MkWhole, MkCells6)
    BY <1>2 DEF MkInv, MkFileInv, MkHas
  <2>2. /\ MkWhole \in Nat /\ MkWhole >= 36 /\ MkWhole % 9 = 0
        /\ MkWhole \div 9 = (MkKernel \div 9) + (IF M!DriverGiven THEN (MkDriver \div 9) + 1 ELSE 0)
    BY <2>1, MkLength
  <2>3. DOMAIN mk_newFile = 0..MkWhole - 1 /\ M!Size(mk_newFile) = MkWhole
    BY <2>1, <2>2, MkFileIs DEF MkIs
  <2>4. ASSUME NEW b \in 0..(MkWhole \div 9) - 1, NEW c \in 0..3
        PROVE  mk_newFile[M!Position(b, c)] = IF c = 3 THEN <<"bank", b>> ELSE mk_newFile[c]
    <3>1. /\ M!Position(b, c) \in 0..MkWhole - 1
          /\ MkPlace(M!Position(b, c)) = c /\ MkOwn(M!Position(b, c)) = <<"bank", b>>
      BY <2>1, MkAt
    <3>2. c \in 0..MkWhole - 1 /\ MkPlace(c) = c /\ c < 4
      BY <2>2, MkPlaceIs
    <3>3. mk_newFile[M!Position(b, c)] =
            IF mk_First8KMappingAddress # 0 /\ c = 1 THEN MkLd
            ELSE IF c = 3 THEN <<"bank", b>> ELSE mk_request.base[c]
      BY <1>2, <3>1, <3>2, MkFinalPage
    <3>4. mk_newFile[c] = IF mk_First8KMappingAddress # 0 /\ c = 1 THEN MkLd
                          ELSE IF c = 3 THEN MkOwn(c) ELSE mk_request.base[c]
      BY <1>2, <3>2, MkFinalPage
    <3> QED
      BY <3>3, <3>4
  <2>5. ASSUME mk_mapperCode[1] # "undefined", NEW b \in 0..(MkWhole \div 9) - 1
        PROVE  mk_newFile[M!Position(b, 8)] =
                 IF M!MapperGiven THEN <<"mapper", mk_request.mapper.code>> ELSE mk_request.base[8]
    <3>1. M!Position(b, 8) \in 0..MkWhole - 1 /\ MkPlace(M!Position(b, 8)) = 8
      BY <2>1, MkAt
    <3> QED
      BY <1>2, <2>5, <3>1, MkFinalMapper
  <2>6. ASSUME MkAddress # 0, MkAddress % 256 < 128, NEW b \in 0..(MkWhole \div 9) - 1
        PROVE  mk_newFile[M!Position(b, 1)] = <<"ld", MkAddress>>
    <3>1. M!Position(b, 1) \in 0..MkWhole - 1 /\ MkPlace(M!Position(b, 1)) = 1
      BY <2>1, MkAt
    <3>2. mk_First8KMappingAddress # 0 /\ MkLd = <<"ld", MkAddress>>
      BY <2>1, <2>6, MkAddressIs
    <3> QED
      BY <1>2, <3>1, <3>2, MkFinalPage
  <2>7. ASSUME NEW p \in DOMAIN mk_newFile, mk_newFile[p][1] = "extra"
        PROVE  \/ p \in DOMAIN mk_request.base /\ mk_newFile[p] = mk_request.base[p]
               \/ p \in {M!Position(b, M!EXTRA_ADDRESS) : b \in {M!DOS2_EXTRA_BANK, M!DOS1_EXTRA_BANK}}
                    /\ mk_newFile[p] = <<"extra", mk_request.extra.code>>
    BY <1>2, <2>3, <2>7, MkFinalExtra, MkExtraPlacesAre DEF MkExtraPlaces
  <2>8. ASSUME NEW p \in DOMAIN mk_newFile, MkPlace(p) \notin {1, 3, 8}
        PROVE  \/ p \in DOMAIN mk_request.base /\ mk_newFile[p] = mk_request.base[p]
               \/ p < 9 /\ (\/ p = 5 /\ M!MapperGiven
                            \/ p = 4 /\ mk_request.keys # -1)
               \/ M!ExtraGiven /\ mk_newFile[p][1] = "extra"
               \/ p >= MkKernel /\ MkPlace(p) < 4
               \/ /\ p >= MkKernel
                  /\ mk_newFile[p] = IF p - MkKernel \in DOMAIN mk_request.driver
                                     THEN mk_request.driver[p - MkKernel] ELSE M!Zero
    <3>1. p \in 0..MkWhole - 1
      BY <2>3
    <3>2. p = 5 \/ p = 4 => p < 9
      BY <3>1
    <3> QED
      BY <1>2, <2>8, <3>1, <3>2, MkFinalRest, Zenon
  <2> DEFINE banks == M!Size(mk_newFile) \div M!BANK_SIZE
  <2>9. banks = MkWhole \div 9
    BY <2>3 DEF M!BANK_SIZE
  <2>10. M!Size(mk_newFile) % M!BANK_SIZE = 0
    BY <2>2, <2>3 DEF M!BANK_SIZE
  <2>11. banks = M!Size(mk_request.base) \div M!BANK_SIZE
                   + (IF M!DriverGiven THEN M!Size(mk_request.driver) \div M!BANK_SIZE + 1 ELSE 0)
    BY <2>2, <2>9 DEF M!BANK_SIZE, MkKernel, MkDriver
  <2> HIDE DEF banks
  <2>12. \A b \in 0..banks - 1, c \in 0..M!PAGE0_SIZE - 1 :
           mk_newFile[M!Position(b, c)] = IF c = M!BANK_NUMBER THEN <<"bank", b>> ELSE mk_newFile[c]
    BY <2>4, <2>9 DEF M!PAGE0_SIZE, M!BANK_NUMBER
  <2>13. mk_mapperCode[1] # "undefined" =>
           \A b \in 0..banks - 1 :
             mk_newFile[M!Position(b, M!MAPPER_CODE)] =
               IF M!MapperGiven THEN <<"mapper", mk_request.mapper.code>> ELSE mk_request.base[M!MAPPER_CODE]
    BY <2>5, <2>9 DEF M!MAPPER_CODE
  <2>14. MkAddress # 0 /\ MkAddress % 256 < 128 =>
           \A b \in 0..banks - 1 : mk_newFile[M!Position(b, M!_8K_INIT_PATCH_ADDRESS)] = <<"ld", MkAddress>>
    BY <2>6, <2>9 DEF M!_8K_INIT_PATCH_ADDRESS
  <2>15. \A p \in DOMAIN mk_newFile :
           p % M!BANK_SIZE \notin {M!_8K_INIT_PATCH_ADDRESS, M!BANK_NUMBER, M!MAPPER_CODE} =>
             \/ p \in DOMAIN mk_request.base /\ mk_newFile[p] = mk_request.base[p]
             \/ /\ p < M!BANK_SIZE
                /\ \/ p = M!MAPPER_INIT_CODE_ADDRESS /\ M!MapperGiven
                   \/ p = M!BOOT_KEYS_INVERTER_OFFSET /\ mk_request.keys # -1
             \/ M!ExtraGiven /\ mk_newFile[p][1] = "extra"
             \/ p >= M!Size(mk_request.base) /\ p % M!BANK_SIZE < M!PAGE0_SIZE
             \/ /\ p >= M!Size(mk_request.base)
                /\ mk_newFile[p] = IF p - M!Size(mk_request.base) \in DOMAIN mk_request.driver
                                   THEN mk_request.driver[p - M!Size(mk_request.base)] ELSE M!Zero
    <3> TAKE p \in DOMAIN mk_newFile
    <3>1. MkKernel = M!Size(mk_request.base) /\ p % M!BANK_SIZE = MkPlace(p)
      BY DEF MkKernel, MkPlace
    <3> QED
      BY <2>8, <3>1 DEF M!BANK_SIZE, M!PAGE0_SIZE, M!BANK_NUMBER, M!MAPPER_CODE, M!_8K_INIT_PATCH_ADDRESS,
         M!MAPPER_INIT_CODE_ADDRESS, M!BOOT_KEYS_INVERTER_OFFSET
  <2> QED
    BY <2>7, <2>10, <2>11, <2>12, <2>13, <2>14, <2>15, Zenon DEF M!RomComplete, MkAddress, banks
<1>3. M!RomComplete
  BY <1>2 DEF M!RomComplete
<1> QED
  BY <1>1, <1>3

----------------------------------------------------------------------------
(* XCOPY: its proofs are in XcopyProofs, of the module of the tool itself; here it has    *)
(* the variables that it has among the programs.  X and XP are the same definitions,      *)
(* taken from Xcopy and from XcopyProofs, so each is the other one's.                     *)

XP == INSTANCE XcopyProofs WITH
        Cases <- XcCases, MaxHandles <- XcMaxHandles,
        case <- xc_case, tree <- xc_tree, verify <- xc_verify,
        verify_flag <- xc_verify_flag, opened <- xc_opened,
        file_not_ensured <- xc_file_not_ensured, stack <- xc_stack, job <- xc_job,
        dup_mode <- xc_dup_mode, pc <- xc_pc, joined <- xc_joined, copied <- xc_copied

\* An action of XCOPY among the programs is the one of the proofs.
LEMMA XcopySteps == X!Next => XP!Next
<1>1. X!main <=> XP!main
  BY DEF X!flags, XP!flags, X!history, XP!history, X!main, XP!main
<1>2. X!get_drives <=> XP!get_drives
  BY DEF X!Contents, XP!Contents, X!Front, XP!Front, X!Last, XP!Last, X!Names, XP!Names,
         X!Search, XP!Search, X!enter, XP!enter, X!flags, XP!flags, X!get_drives, XP!get_drives,
         X!history, XP!history, X!level, XP!level, X!opt, XP!opt
<1>3. X!enter <=> XP!enter
  BY DEF X!Contents, XP!Contents, X!Front, XP!Front, X!Last, XP!Last, X!Names, XP!Names,
         X!Search, XP!Search, X!enter, XP!enter, X!flags, XP!flags, X!history, XP!history,
         X!level, XP!level
<1>4. ASSUME NEW name, NEW answer PROVE X!next_file(name, answer) <=> XP!next_file(name, answer)
  BY DEF X!Contents, XP!Contents, X!Front, XP!Front, X!Is, XP!Is, X!Last, XP!Last, X!Names,
         XP!Names, X!Seen, XP!Seen, X!Unseen, XP!Unseen, X!Wanted, XP!Wanted, X!check_duplicate,
         XP!check_duplicate, X!disk, XP!disk, X!dst_parse, XP!dst_parse, X!dup_decision,
         XP!dup_decision, X!dup_prompt, XP!dup_prompt, X!expand_name, XP!expand_name, X!flags,
         XP!flags, X!history, XP!history, X!level, XP!level, X!next_file, XP!next_file, X!opt,
         XP!opt, X!src_parse, XP!src_parse
<1>5. X!chk_and_open <=> XP!chk_and_open
  BY DEF X!Last, XP!Last, X!chk_and_open, XP!chk_and_open, X!flags, XP!flags, X!level, XP!level,
         X!source, XP!source
<1>6. X!find_new <=> XP!find_new
  BY DEF X!Front, XP!Front, X!Is, XP!Is, X!Last, XP!Last, X!NoJob, XP!NoJob, X!Range, XP!Range,
         X!With, XP!With, X!find_new, XP!find_new, X!flags, XP!flags, X!history, XP!history,
         X!level, XP!level, X!source, XP!source
<1>7. X!open_file <=> XP!open_file
  BY DEF X!flags, XP!flags, X!history, XP!history, X!open_file, XP!open_file
<1>8. X!do_write <=> XP!do_write
  BY DEF X!Last, XP!Last, X!do_write, XP!do_write, X!ensure, XP!ensure, X!flags, XP!flags,
         X!history, XP!history, X!level, XP!level, X!source, XP!source
<1>9. X!ensure <=> XP!ensure
  BY DEF X!ensure, XP!ensure, X!flags, XP!flags, X!history, XP!history
<1>10. X!set_time <=> XP!set_time
  BY DEF X!Last, XP!Last, X!flags, XP!flags, X!history, XP!history, X!level, XP!level, X!opt,
         XP!opt, X!set_time, XP!set_time, X!source, XP!source
<1>11. X!set_file_attr <=> XP!set_file_attr
  BY DEF X!Last, XP!Last, X!NoJob, XP!NoJob, X!flags, XP!flags, X!level, XP!level, X!opt, XP!opt,
         X!set_file_attr, XP!set_file_attr, X!source, XP!source
<1>12. X!files_done <=> XP!files_done
  BY DEF X!AllSeen, XP!AllSeen, X!Contents, XP!Contents, X!Front, XP!Front, X!Last, XP!Last,
         X!Names, XP!Names, X!Search, XP!Search, X!Unseen, XP!Unseen, X!Without, XP!Without,
         X!files_done, XP!files_done, X!flags, XP!flags, X!history, XP!history, X!leave,
         XP!leave, X!level, XP!level, X!opt, XP!opt
<1>13. ASSUME NEW name PROVE X!next_dir(name) <=> XP!next_dir(name)
  BY DEF X!Contents, XP!Contents, X!Front, XP!Front, X!Is, XP!Is, X!IsSubdirectory,
         XP!IsSubdirectory, X!Last, XP!Last, X!Names, XP!Names, X!Search, XP!Search, X!Seen,
         XP!Seen, X!Unseen, XP!Unseen, X!With, XP!With, X!dst_parse, XP!dst_parse, X!enter,
         XP!enter, X!flags, XP!flags, X!history, XP!history, X!level, XP!level, X!next_dir,
         XP!next_dir, X!opt, XP!opt
<1>14. X!dirs_done <=> XP!dirs_done
  BY DEF X!AllSeen, XP!AllSeen, X!Contents, XP!Contents, X!Front, XP!Front, X!Last, XP!Last,
         X!Names, XP!Names, X!Unseen, XP!Unseen, X!Without, XP!Without, X!dirs_done,
         XP!dirs_done, X!flags, XP!flags, X!history, XP!history, X!leave, XP!leave, X!level,
         XP!level, X!opt, XP!opt
<1>15. X!Terminate <=> XP!Terminate
  BY DEF X!Front, XP!Front, X!Terminate, XP!Terminate, X!Unknown, XP!Unknown, X!Without,
         XP!Without, X!abort_handler, XP!abort_handler, X!history, XP!history
<1>16. X!Abort <=> XP!Abort
  BY DEF X!Abort, XP!Abort, X!Front, XP!Front, X!Unknown, XP!Unknown, X!Without, XP!Without,
         X!abort_handler, XP!abort_handler, X!history, XP!history
<1>17. X!Ended <=> XP!Ended
  BY DEF X!Ended, XP!Ended, X!history, XP!history, X!vars, XP!vars
<1> QED
  BY <1>1, <1>2, <1>3, <1>4, <1>5, <1>6, <1>7, <1>8, <1>9, <1>10, <1>11, <1>12, <1>13, <1>14, <1>15, <1>16, <1>17
  DEF X!Next, XP!Next, X!Names, XP!Names, X!Contents, XP!Contents, X!Range, XP!Range,
      X!Front, XP!Front, X!Last, XP!Last,
      X!level, XP!level, X!Answers, XP!Answers

\* And so are the start of XCOPY, a step of it or of another program, and what it is
\* started with.
LEMMA XcopySame ==
    /\ X!Init => XP!Init
    /\ [X!Next]_(X!vars) => [XP!Next]_(XP!vars)
    /\ X!XcopyAssumption => XP!XcopyAssumption
<1>1. X!Init => XP!Init
  BY DEF X!Init, XP!Init, X!Last, XP!Last, X!NoJob, XP!NoJob, X!Unknown, XP!Unknown, X!dst_parse,
         XP!dst_parse, X!src_parse, XP!src_parse
<1>2. [X!Next]_(X!vars) => [XP!Next]_(XP!vars)
  BY XcopySteps DEF X!history, XP!history, X!vars, XP!vars
<1>3. X!XcopyAssumption => XP!XcopyAssumption
  BY DEF X!Options, XP!Options, X!XcEntry, XP!XcEntry, X!XcName, XP!XcName, X!XcPath, XP!XcPath,
         X!XcopyAssumption, XP!XcopyAssumption
<1> QED
  BY <1>1, <1>2, <1>3

\* What the proofs show of XCOPY is what the programs ask of it.
LEMMA XcopyShown == XP!CleanExit /\ XP!NoRunaway /\ XP!CopiesKept => CleanExit /\ NoRunaway /\ CopiesKept
<1>1. XP!CleanExit => CleanExit
  BY DEF CleanExit, X!CleanExit, XP!CleanExit, X!Over, XP!Over
<1>2. XP!NoRunaway => NoRunaway
  BY DEF NoRunaway, X!Last, XP!Last, X!Max, XP!Max, X!NoRunaway, XP!NoRunaway, X!src_parse, XP!src_parse
<1>3. XP!CopiesKept => CopiesKept
  BY DEF CopiesKept, X!CopiesKept, XP!CopiesKept
<1> QED
  BY <1>1, <1>2, <1>3

\* The invariant of XCOPY from the start to each step, among the programs.
LEMMA XcopyHolds ==
    /\ X!Init => XP!XcAllInv
    /\ XP!XcAllInv /\ [X!Next]_(X!vars) => XP!XcAllInv'
    /\ XP!XcAllInv => CleanExit /\ NoRunaway /\ CopiesKept
<1>1. XP!XcopyAssumption
  BY XcAssumption, XcopySame
<1>2. X!Init => XP!XcAllInv
  BY <1>1, XcopySame, XP!XcopyAllInit
<1>3. XP!XcAllInv /\ [X!Next]_(X!vars) => XP!XcAllInv'
  BY <1>1, XcopySame, XP!XcopyAllStep
<1>4. XP!XcAllInv => CleanExit /\ NoRunaway /\ CopiesKept
  BY <1>1, XP!XcopyAllSafe, XcopyShown
<1> QED
  BY <1>2, <1>3, <1>4

----------------------------------------------------------------------------
(* The programs together. *)

\* Each program begins in a start of its own.
LEMMA AllStarts == AllInit => Init /\ X!Init /\ D!Init /\ R!Init /\ C!Init /\ V!Init /\ F!Init /\ E!Init /\ M!Init
BY DEF AllInit

\* A step of the programs is a step of the one that runs, and leaves the others alone.
LEMMA AllSteps ==
    ASSUME [AllNext]_allVars
    PROVE  /\ [Next]_vars
           /\ [X!Next]_(X!vars)
           /\ [D!Next]_(D!vars)
           /\ [R!Next]_(R!vars)
           /\ [C!Next]_(C!vars)
           /\ [V!Next]_(V!vars)
           /\ [F!Next]_(F!vars)
           /\ [E!Next]_(E!vars)
           /\ [M!Next]_(M!vars)
<1>0. [Next]_vars
  <2>1. (running = "fdisk" /\ Next) \/ UNCHANGED vars
    BY DEF AllNext, Others, allVars
  <2> QED
    BY <2>1
<1>1. [X!Next]_(X!vars)
  <2>1. (running = "xcopy" /\ X!Next) \/ UNCHANGED xc_vars
    BY DEF AllNext, Others, allVars
  <2>2. UNCHANGED xc_vars => UNCHANGED X!vars
    BY DEF xc_vars, X!vars, X!history
  <2> QED
    BY <2>1, <2>2
<1>2. [D!Next]_(D!vars)
  <2>1. (running = "diskcopy" /\ D!Next) \/ UNCHANGED dc_vars
    BY DEF AllNext, Others, allVars
  <2>2. UNCHANGED dc_vars => UNCHANGED D!vars
    BY DEF dc_vars, D!vars
  <2> QED
    BY <2>1, <2>2
<1>3. [R!Next]_(R!vars)
  <2>1. (running = "drvrop" /\ R!Next) \/ UNCHANGED dr_vars
    BY DEF AllNext, Others, allVars
  <2>2. UNCHANGED dr_vars => UNCHANGED R!vars
    BY DEF dr_vars, R!vars
  <2> QED
    BY <2>1, <2>2
<1>4. [C!Next]_(C!vars)
  <2>1. (running = "eptcft" /\ C!Next) \/ UNCHANGED ep_vars
    BY DEF AllNext, Others, allVars
  <2>2. UNCHANGED ep_vars => UNCHANGED C!vars
    BY DEF ep_vars, C!vars
  <2> QED
    BY <2>1, <2>2
<1>5. [V!Next]_(V!vars)
  <2>1. (running = "vsft" /\ V!Next) \/ UNCHANGED vs_vars
    BY DEF AllNext, Others, allVars
  <2>2. UNCHANGED vs_vars => UNCHANGED V!vars
    BY DEF vs_vars, V!vars
  <2> QED
    BY <2>1, <2>2
<1>6. [F!Next]_(F!vars)
  <2>1. (running = "devices" /\ F!Next) \/ UNCHANGED fs_vars
    BY DEF AllNext, Others, allVars
  <2>2. UNCHANGED fs_vars => UNCHANGED F!vars
    BY DEF fs_vars, F!vars, F!list
  <2> QED
    BY <2>1, <2>2
<1>7. [E!Next]_(E!vars)
  <2>1. (running = "emufile" /\ E!Next) \/ UNCHANGED em_vars
    BY DEF AllNext, Others, allVars
  <2>2. UNCHANGED em_vars => UNCHANGED E!vars
    BY DEF em_vars, E!vars
  <2> QED
    BY <2>1, <2>2
<1>8. [M!Next]_(M!vars)
  <2>1. (running = "mknexrom" /\ M!Next) \/ UNCHANGED mk_vars
    BY DEF AllNext, Others, allVars
  <2>2. UNCHANGED mk_vars => UNCHANGED M!vars
    BY DEF mk_vars, M!vars
  <2> QED
    BY <2>1, <2>2
<1> QED
  BY <1>0, <1>1, <1>2, <1>3, <1>4, <1>5, <1>6, <1>7, <1>8

\* Wherever XCOPY is stopped and whatever fails, no part of a file is left and the verify
\* flag is as it was; when it ends by itself no handle is open (xcopy.c 460-490, 1215-1229).
THEOREM XcopyEndsClean == AllSpec => []CleanExit
<1>1. AllInit => XP!XcAllInv
  BY AllStarts, XcopyHolds
<1>2. XP!XcAllInv /\ [AllNext]_allVars => XP!XcAllInv'
  BY AllSteps, XcopyHolds
<1>3. XP!XcAllInv => CleanExit
  BY XcopyHolds
<1> QED
  BY <1>1, <1>2, <1>3, PTL DEF AllSpec

\* XCOPY does not overwrite a file that it has made, as long as the trees do not become one:
\* what is copied to a name stays there (xcopy.c 39-48).
THEOREM XcopyKeepsCopies == AllSpec => []CopiesKept
<1>1. AllInit => XP!XcAllInv
  BY AllStarts, XcopyHolds
<1>2. XP!XcAllInv /\ [AllNext]_allVars => XP!XcAllInv'
  BY AllSteps, XcopyHolds
<1>3. XP!XcAllInv => CopiesKept
  BY XcopyHolds
<1> QED
  BY <1>1, <1>2, <1>3, PTL DEF AllSpec

\* XCOPY never goes deeper than the tree it was started with: a copy of a directory in
\* itself is not copied again (xcopy.c 1350-1356).
THEOREM XcopyStops == AllSpec => []NoRunaway
<1>1. AllInit => XP!XcAllInv
  BY AllStarts, XcopyHolds
<1>2. XP!XcAllInv /\ [AllNext]_allVars => XP!XcAllInv'
  BY AllSteps, XcopyHolds
<1>3. XP!XcAllInv => NoRunaway
  BY XcopyHolds
<1> QED
  BY <1>1, <1>2, <1>3, PTL DEF AllSpec

\* A DISKCOPY that ends without an error has copied each sector, from the disks that it
\* asked for.
THEOREM DiskCopied == AllSpec => []CopyExact
<1>1. AllInit => DcInv
  BY AllStarts, DiskcopyInit
<1>2. DcInv /\ [AllNext]_allVars => DcInv'
  BY AllSteps, DiskcopyStep
<1>3. DcInv => CopyExact
  BY DiskcopySafe DEF CopyExact
<1> QED
  BY <1>1, <1>2, <1>3, PTL DEF AllSpec

\* DISKCOPY leaves disk checking and the error routine as it found them.
THEOREM DiskcopyRestores == AllSpec => []SystemRestored
<1>1. AllInit => DcInv
  BY AllStarts, DiskcopyInit
<1>2. DcInv /\ [AllNext]_allVars => DcInv'
  BY AllSteps, DiskcopyStep
<1>3. DcInv => SystemRestored
  BY DiskcopySafe DEF SystemRestored
<1> QED
  BY <1>1, <1>2, <1>3, PTL DEF AllSpec

\* Each mapper segment has one owner: it is free, a driver's or the program's at work.
THEOREM DriverSegmentsOwned == AllSpec => []SegmentsOwned
<1>1. AllInit => DrInv
  BY AllStarts, DrvropInit
<1>2. DrInv /\ [AllNext]_allVars => DrInv'
  BY AllSteps, DrvropStep
<1>3. DrInv => SegmentsOwned
  BY DrvropSafe DEF SegmentsOwned
<1> QED
  BY <1>1, <1>2, <1>3, PTL DEF AllSpec

\* Of each device that FDISK lists, and of the one it partitions, it says what the selected
\* driver answers; the devices listed are the first ones the driver has, in order, unless
\* their numbers wrapped (fdisk.c 285-561); and a list of partitions that it says was found
\* on the device is there, but for the flags after an error that leaves them unknown.
THEOREM WhatIsShownIsTrue == AllSpec => []ShownTruthful
<1>1. AllInit => FdevInv /\ SafeInv /\ ListTruthful
  BY AllStarts, FdevInit, SafeAtFirst DEF Init, ListTruthful
<1>2. FdevInv /\ SafeInv /\ ListTruthful /\ [AllNext]_allVars => FdevInv' /\ SafeInv' /\ ListTruthful'
  BY AllSteps, FdevStep, SafeKept, TruthfulKept
<1>3. FdevInv /\ ListTruthful => ShownTruthful
  BY FdevSafe DEF ShownTruthful
<1> QED
  BY <1>1, <1>2, <1>3, PTL DEF AllSpec

\* Each entry of a finished data file of EMUFILE stands for its image, sector by sector, the
\* images of a file are all there, and the file to mount is in the table.
THEOREM TableIsExact == AllSpec => []TableExact
<1>1. AllInit => EmInv
  BY AllStarts, EmInit
<1>2. EmInv /\ [AllNext]_allVars => EmInv'
  BY AllSteps, EmStep
<1>3. EmInv => TableExact
  BY EmSafe DEF TableExact
<1> QED
  BY <1>1, <1>2, <1>3, PTL DEF AllSpec

\* A finished ROM file has page 0, the code that switches banks and the patch in every bank,
\* the extra code where the kernel has room for it, and otherwise the base file and the driver.
THEOREM RomIsComplete == AllSpec => []RomComplete
<1>1. AllInit => MkInv
  BY AllStarts, MknexromInit
<1>2. MkInv /\ [AllNext]_allVars => MkInv'
  BY AllSteps, MknexromStep
<1>3. MkInv => RomComplete
  BY MknexromSafe DEF RomComplete
<1> QED
  BY <1>1, <1>2, <1>3, PTL DEF AllSpec

\* EPTCFT changes type codes of extended partitions only, and VSFT the size of a volume in
\* the boot sector and nothing else there.
THEOREM RepairsAreExact == AllSpec => []RepairsExact
<1>1. AllInit => EpInv /\ VsInv
  BY AllStarts, EptcftInit, VsftInit
<1>2. EpInv /\ VsInv /\ [AllNext]_allVars => EpInv' /\ VsInv'
  BY AllSteps, EptcftStep, VsftStep
<1>3. EpInv /\ VsInv => RepairsExact
  BY EptcftSafe, VsftSafe DEF RepairsExact
<1> QED
  BY <1>1, <1>2, <1>3, PTL DEF AllSpec
=============================================================================
