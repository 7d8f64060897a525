--------------------------- MODULE MCProgramCases ---------------------------
(***************************************************************************)
(* What the programs of MCPrograms are given: command lines, files, disks  *)
(* and devices, few and small, chosen so that each check and each error    *)
(* path of a program is met.                                               *)
(***************************************************************************)
EXTENDS Integers, SequencesExt, TLC

LOCAL P == INSTANCE PersistentStorage WITH PSD_MAX_SIZE <- 32

----------------------------------------------------------------------------
(* FDISK: an empty device too small for partitions by one sector, one that  *)
(* takes two partitions of 32000K and a rest, and one with foreign          *)
(* partitions: no first one, a primary one and two logical ones.            *)

FdEntry(t, st, f, n) == [type |-> t, status |-> st, first |-> f, size |-> n]
FdNone == FdEntry(0, 0, 0, 0)
FdTable(a, b, c) == [kind |-> "table", entries |-> <<a, b, c, FdNone>>]
FdForeign ==
    (0 :> FdTable(FdNone, FdEntry(14, 128, 63, 600), FdEntry(5, 0, 700, 900)))
    @@ (700 :> FdTable(FdEntry(1, 0, 63, 200), FdEntry(5, 0, 400, 400), FdNone))
    @@ (1100 :> FdTable(FdEntry(4, 128, 63, 200), FdNone, FdNone))
FdBlank == [s \in {} |-> 0]
FdDevices == {[sectors |-> 2300, disk |-> FdForeign], [sectors |-> 2047, disk |-> FdBlank],
              [sectors |-> 66000, disk |-> FdBlank]}
FdEnteredSizes == {[n |-> 32000, inK |-> TRUE], [n |-> 1, inK |-> FALSE]}

----------------------------------------------------------------------------
(* The devices of FDISK, with two on a page and three at most: drivers with *)
(* none, with good ones after others, with more than fit, with one that     *)
(* counts to the last number of a byte, and one that is not Nextor's.       *)

FsDevice(n, a, p) == [name |-> n, availability |-> a, params |-> p]
FsGood == FsDevice("medium", "online", {})
FsDriver(nextor, max, ds) == [nextor |-> nextor, max |-> max, devices |-> ds]
FsMany == FsDriver(TRUE, 4, [n \in 1..4 |-> FsGood])
FsNone == FsDriver(TRUE, 2, [n \in {} |-> FsGood])
FsBad == {FsDevice("medium", "offline", {}), FsDevice("device", "error", {}),
          FsDevice("none", "none", {"none"}), FsDevice("medium", "online", {"error"}),
          FsDevice("invalid", "online", {}), FsDevice("truncated", "online", {"floppy"})}
FsMixed == {FsDriver(TRUE, m, 1 :> a @@ 3 :> FsGood @@ 4 :> FsDevice("medium", "none", {"no size"})) :
               a \in FsBad, m \in {0, 4}}
FsLast == FsDriver(TRUE, 5, 2 :> FsGood @@ 5 :> FsDevice("medium", "none", {"read only"}))
GivenFsSystems == {<<>>, <<FsDriver(FALSE, 0, FsMany.devices)>>, <<FsLast, FsNone>>}
                  \cup {<<FsMany, FsNone, FsDriver(FALSE, 0, FsMany.devices), d>> : d \in FsMixed}

----------------------------------------------------------------------------
(* XCOPY: a tree s with files, directories, one empty but for a file of the *)
(* name of the source, copied to t where a newer hidden file and a          *)
(* read-only file are in the way; and a tree copied into itself.            *)

XcFile(p) == p :> [kind |-> "file", data |-> p, whole |-> TRUE, archive |-> TRUE,
                   readonly |-> FALSE, hidden |-> FALSE, stamp |-> 1, size |-> 1]
XcDir(p) == p :> [XcFile(p)[p] EXCEPT !.kind = "dir"]
XcTree ==
    XcDir(<<"s">>) @@ XcDir(<<"t">>) @@
    XcFile(<<"s", "a">>) @@ XcFile(<<"s", "b">>) @@ XcFile(<<"s", "d">>)
    @@ XcDir(<<"s", "c">>) @@ XcFile(<<"s", "c", "a">>)
    @@ XcDir(<<"s", "e">>) @@ XcFile(<<"s", "e", "s">>)
    @@ <<"t", "b">> :> [XcFile(<<"t", "b">>)[<<"t", "b">>] EXCEPT !.stamp = 2, !.size = 0,
                                                                  !.hidden = TRUE]
    @@ <<"t", "e">> :> [XcFile(<<"t", "e">>)[<<"t", "e">>] EXCEPT !.readonly = TRUE]
XcNested ==
    XcFile(<<"a">>) @@ XcFile(<<"b">>) @@ XcDir(<<"s">>) @@ XcFile(<<"s", "a">>)
    @@ XcDir(<<"s", "s">>) @@ XcFile(<<"s", "s", "a">>)

XcNone == [sub |-> FALSE, empty |-> FALSE, prompt |-> FALSE, verify |-> FALSE, hidden |-> FALSE,
           time |-> FALSE, archive |-> FALSE, update |-> FALSE, dup |-> "overwrite"]
XcDuplicates == {"overwrite", "skip", "newer", "older", "diff", "smaller", "bigger", "prompt"}
XcAll == [XcNone EXCEPT !.sub = TRUE, !.hidden = TRUE]
XcBackup == [XcNone EXCEPT !.sub = TRUE, !.archive = TRUE, !.update = TRUE, !.verify = TRUE]

XcNames == {"a", "b", "c", "d", "e", "s", "n"}
XcSource(p) ==
    IF p = <<>> THEN [dir |-> p, name |-> "", ambiguous |-> TRUE, matches |-> XcNames]
    ELSE [dir |-> Front(p), name |-> Last(p), ambiguous |-> FALSE, matches |-> {Last(p)}]
XcTarget(p) ==
    IF p = <<>> THEN [dir |-> p, name |-> "", ambiguous |-> TRUE, rename |-> [n \in {} |-> n]]
    ELSE [dir |-> Front(p), name |-> Last(p), ambiguous |-> FALSE,
          rename |-> [n \in XcNames |-> Last(p)]]
XcPattern(dir, names) == [dir |-> dir, name |-> "*", ambiguous |-> TRUE, rename |-> names]
XcCase(t, s, d, o) ==
    [tree |-> t, from |-> XcSource(s), to |-> XcTarget(d), first |-> <<"s">>, opt |-> o,
     verify |-> 0]
XcRenamed(t, s, d, o, names) == [XcCase(t, s, d, o) EXCEPT !.to = XcPattern(d, names)]
XcMatched(t, s, d, o, names) ==
    [XcCase(t, s, d, o) EXCEPT !.from = [dir |-> s, name |-> "*", ambiguous |-> TRUE,
                                         matches |-> names]]
XcOverlaps == {<< <<>>, <<"s">> >>, << <<>>, <<"s", "s">> >>, << <<"s">>, <<>> >>,
               << <<"s">>, <<"s">> >>, << <<>>, <<>> >>, << <<>>, <<"s", "s", "n">> >>,
               << <<"s", "a">>, <<>> >>}
GivenXcCases ==
    {XcCase(XcTree, <<"s">>, <<"t">>, o) :
        o \in {XcAll, XcBackup, [XcAll EXCEPT !.empty = TRUE]}
              \cup {[XcNone EXCEPT !.dup = u] : u \in XcDuplicates}}
    \cup {XcRenamed(XcTree, <<"s">>, <<"t">>, o,
                    [n \in {"a", "b", "d"} |-> IF n = "b" THEN "y" ELSE "x"]) :
             o \in {XcBackup, [XcAll EXCEPT !.prompt = TRUE]}}
    \cup {XcMatched(XcTree, <<"s">>, <<"t">>, XcAll, {"a", "c", "d"})}
    \cup {XcCase(XcNested, c[1], c[2], o) : c \in XcOverlaps, o \in {XcAll, XcBackup}}
    \cup {XcRenamed(XcNested, <<>>, <<>>, o, [n \in {"a", "b", "s"} |-> "b"]) :
             o \in {XcAll, XcBackup}}

----------------------------------------------------------------------------
(* DISKCOPY: a floppy drive A shared by the letters A and B, another one    *)
(* shared by C and D, a write-protected E.                                  *)

DcDrive(st, h, ro, m) ==
    [status |-> st, host |-> h, readOnly |-> ro, msxdos |-> m, floppy |-> FALSE]
GivenDcDrives == "A" :> DcDrive(1, "A", FALSE, TRUE) @@ "B" :> DcDrive(5, "A", FALSE, FALSE)
                 @@ "C" :> DcDrive(1, "C", FALSE, FALSE) @@ "D" :> DcDrive(3, "C", FALSE, FALSE)
                 @@ "E" :> DcDrive(3, "A", TRUE, FALSE)
DcGood == [geometry |-> TRUE, sector512 |-> TRUE, sourceId |-> TRUE, targetId |-> TRUE,
           samePhysical |-> FALSE]
DcCase(l, check, p) ==
    [line |-> l, current |-> "A", nextor |-> 3, dskchk |-> check, params |-> p]
DcLetters == {"A", "B", "C", "D", "E"}
GivenDcCases ==
    {DcCase(l, 0, p) : l \in {<<"A", "/S", "/S">>, <<"A">>, <<"A", "D", "/S">>, <<"A", "D">>},
                       p \in {DcGood, [DcGood EXCEPT !.sourceId = FALSE]}}
    \cup {DcCase(<<d[1], d[2], "/X">>, 255, p) : d \in DcLetters \X DcLetters,
             p \in {[DcGood EXCEPT !.targetId = FALSE], [DcGood EXCEPT !.samePhysical = TRUE]}}
    \cup {DcCase(l, 0, DcGood) : l \in {<<>>, <<"/S">>, <<"A", "D", "B">>, <<"A", "/X", "/?">>}}

----------------------------------------------------------------------------
(* EMUFILE: files on drives of two devices, one of them with two logical    *)
(* units, and files that cannot be used for one reason each.                *)

EmOption(k, v) == [kind |-> k, value |-> v, name |-> ""]
EmName(n) == [kind |-> "name", value |-> 0, name |-> n]
EmDrive(st, p, first, dev, lun, data, spc) ==
    [status |-> st, primary |-> p, first |-> first, device |-> dev, lun |-> lun,
     data |-> data, spc |-> spc]
GivenEmDrives == "A" :> EmDrive("device", TRUE, 0, 1, 1, 4, 2)
                 @@ "B" :> EmDrive("device", TRUE, 50, 1, 1, 3, 1)
                 @@ "C" :> EmDrive("device", TRUE, 0, 2, 1, 4, 2)
                 @@ "D" :> EmDrive("device", FALSE, 0, 1, 1, 4, 2)
                 @@ "E" :> EmDrive("mounted", TRUE, 0, 1, 1, 4, 2)
                 @@ "F" :> EmDrive("device", TRUE, 0, 1, 2, 4, 2)
EmFile(d, b, c) == [drive |-> d, bytes |-> b, clusters |-> c]
GivenEmDirectory ==
    "data" :> <<EmFile("A", 2, <<20>>)>>
    @@ "one" :> <<EmFile("A", 5, <<2, 3>>)>>
    @@ "two" :> <<EmFile("A", 4, <<5>>), EmFile("A", 8, <<6, 7>>)>>
    @@ "other" :> <<EmFile("B", 8, <<4, 5, 6, 7>>), EmFile("B", 16, [i \in 1..8 |-> 7 + i])>>
    @@ "small" :> <<EmFile("A", 1, <<9>>), EmFile("A", 16, <<10, 11, 12, 13>>),
                    EmFile("A", 4, <<14>>)>>
    @@ "broken" :> <<EmFile("A", 8, <<2, 4>>)>> @@ "empty" :> <<EmFile("A", 0, <<>>)>>
    @@ "none" :> <<>> @@ "C" :> <<EmFile("C", 8, <<3, 4>>)>>
    @@ "D" :> <<EmFile("D", 8, <<3, 4>>)>> @@ "E" :> <<EmFile("E", 8, <<3, 4>>)>>
    @@ "F" :> <<EmFile("F", 8, <<3, 4>>)>>
EmOptionLists ==
    {<<>>, <<EmOption("b", 2)>>, <<EmOption("m", -1)>>, <<EmOption("m", 2), EmOption("5", 0)>>,
     <<EmOption("5", 0), EmOption("c", 0), EmOption("5", 0)>>,
     <<EmOption("5", 0), EmOption("6", 0)>>, <<EmOption("a", 50), EmOption("8", 0)>>,
     <<EmOption("a", 3)>>, <<EmOption("b", 33)>>, <<EmOption("m", 5)>>}
EmNames == {<<EmName(f)>> : f \in DOMAIN GivenEmDirectory \ {"data"}}
GivenEmCommands ==
    {o \o <<EmName("data")>> \o n : o \in EmOptionLists,
        n \in {<<>>} \cup EmNames \cup {a \o b : a, b \in EmNames}}
    \cup {<<>>, <<EmName("data"), EmName("one"), EmOption("c", 0)>>, <<EmOption("c", 0)>>}

----------------------------------------------------------------------------
(* NEXBOOT and EMUFILE's settings: storages of one sector and of several,   *)
(* with a block of this version, of a later one with fields more, a damaged *)
(* one, none, and no storage at all.                                        *)

\* A block with its sum made good by the last byte.
BsSummed(block, last) == [block EXCEPT ![last] = (256 - P!SumOf(block, last)) % 256]
BsBlock(n, size, extra) ==
    BsSummed([i \in 0..n - 1 |->
                 CASE i = P!PSD_SIZE -> size [] i = 18 -> 1 [] i = 19 -> 77
                   [] i < P!PSD_MIN_SIZE - 1 /\ i \notin {P!PSD_SIZE, 18, 19} -> P!PSD_FRESH_DATA[i]
                   [] OTHER -> extra], size - 1)
BsStorage(e, ss, c, b) == [exists |-> e, sectorSize |-> ss, sectorCount |-> c, bytes |-> b]
BsZeros(n) == [i \in 0..n - 1 |-> 0]
GivenBsStorages ==
    {BsStorage(TRUE, 30, 1, BsBlock(30, 30, 5)), BsStorage(TRUE, 16, 3, BsBlock(48, 25, 9)),
     BsStorage(FALSE, 30, 1, BsZeros(30)), BsStorage(FALSE, 0, 0, BsZeros(1)),
     BsStorage(TRUE, 30, 2, [BsBlock(60, 27, 3) EXCEPT ![26] = (@ + 1) % 256]),
     BsStorage(TRUE, 30, 1, BsSummed([BsBlock(30, 28, 5) EXCEPT ![10] = 2, ![11] = 16], 27))}
BsRequest(op, n, f, x, k, s) ==
    [op |-> op, name |-> n, flags |-> f, x |-> x, keys |-> k, slots |-> s]
GivenBsRequests ==
    {BsRequest("set p", "emu", {2}, FALSE, {}, {}), BsRequest("set p", "dir", {8}, TRUE, {}, {}),
     BsRequest("set o", "emu", {4, 64}, FALSE, {}, {}), BsRequest("set o", "bad", {}, FALSE, {}, {}),
     BsRequest("set p", "emu", {2, 4}, FALSE, {}, {}), BsRequest("k", "", {}, FALSE, {}, {}),
     BsRequest("/p", "", {}, FALSE, {1, 7, 10}, {}), BsRequest("/p", "", {}, FALSE, {}, {}),
     BsRequest("/p", "", {}, FALSE, {8}, {}), BsRequest("/k", "", {}, FALSE, {}, {}),
     BsRequest("/i", "", {}, FALSE, {}, {}),
     BsRequest("keys", "", {}, FALSE, {2, 9, 11}, {-1, 5, 15})}
BsFile(fo, p, b, r, sg, fl, d, s) ==
    [found |-> fo, primary |-> p, bytes |-> b, read |-> r, signature |-> sg, flags |-> fl,
     device |-> d, sector |-> s]
GivenBsDataFiles ==
    "emu" :> BsFile(TRUE, TRUE, 200, 24, TRUE, {4, 16, 32}, 2, 70000)
    @@ "bad" :> BsFile(TRUE, TRUE, 200, 24, FALSE, {}, 1, 9)
    @@ "in" :> BsFile(TRUE, TRUE, 20, 20, TRUE, {}, 1, 300)
GivenBsInside == "dir" :> "in"

----------------------------------------------------------------------------
(* MKNEXROM: base files of four and six banks, with extra code and without, *)
(* a damaged one and a short one; drivers of less than one bank, exactly    *)
(* one bank and more than one.  A bank is nine cells, as in Mknexrom.       *)

MkCell(c, bank, n, extra) ==
    CASE c = 2 -> <<"count", n>> [] c = 3 -> <<"bank", bank>> [] c \in 0..1 -> <<"page0", c>>
      [] c = 7 /\ bank \in {0, 3} -> extra [] c = 8 -> <<"mapper", 0>>
      [] OTHER -> <<"kernel", c>>
MkFile(n, banks, extra) == [p \in 0..(9 * banks) - 1 |-> MkCell(p % 9, p \div 9, n, extra)]
MkZero == <<"zero", 0>>
GivenMkBases == {MkFile(4, 4, MkZero), MkFile(4, 6, <<"extra", 9>>), MkFile(4, 4, <<"kernel", 7>>),
                 [p \in 0..39 |-> MkFile(4, 5, MkZero)[p]]}
MkDriver(n, signature) == [p \in 0..n - 1 |-> IF p = 4 THEN <<signature, 0>> ELSE <<"driver", p>>]
GivenMkDrivers == {[p \in {} |-> MkZero], MkDriver(9, "NEXTOR_DRIVER")}
                  \cup {MkDriver(n, "NEXTORv3_DRIVER") : n \in {5, 6, 9, 12}}
MkMapper(s, h, l, hi, c) == [size |-> s, header |-> h, low |-> l, high |-> hi, code |-> c]
GivenMkMappers == {MkMapper(0, FALSE, 0, 0, 0), MkMapper(48, FALSE, 0, 0, 1), MkMapper(51, TRUE, 0, 96, 2),
                   MkMapper(51, TRUE, 128, 104, 3), MkMapper(50, TRUE, 0, 96, 4), MkMapper(52, FALSE, 0, 0, 5)}
GivenMkExtras == {[size |-> 0, code |-> 0], [size |-> 100, code |-> 1], [size |-> 257, code |-> 2]}
GivenMkAddresses == {0, 28672, 12288}
GivenMkBootKeys == {-1, 2}

----------------------------------------------------------------------------
(* DRVROP: two free segments, two driver files one of which is too long for *)
(* a segment, a text file and one that cannot be opened.                    *)

GivenDrSegments == {<<3, 10>>, <<2, 4>>}
GivenDrHomePage1 == <<3, 1>>
DrInstall(f, d, m) == [op |-> "i", file |-> f, data |-> d, autoMap |-> m, target |-> <<-1, -1>>]
DrUninstall(t) == [op |-> "u", file |-> "", data |-> <<>>, autoMap |-> FALSE, target |-> t]
GivenDrRequests == {DrInstall("good", <<1, 300>>, TRUE), DrInstall("other", <<7, 2, 513, -3>>, TRUE),
                    DrInstall("text", <<>>, FALSE), DrInstall("none", <<>>, FALSE)}
                   \cup {DrUninstall(s) : s \in GivenDrSegments}
DrFile(o, b, s, d, m) == [opens |-> o, bytes |-> b, signature |-> s, devices |-> d, max |-> m]
DrDevice(b, s) == [block |-> b, sector512 |-> s]
GivenDrFiles ==
    "good" :> DrFile(TRUE, 5, TRUE,
                     <<DrDevice(FALSE, FALSE), DrDevice(TRUE, FALSE), DrDevice(TRUE, TRUE)>>, 0)
    @@ "other" :> DrFile(TRUE, 20, TRUE, <<DrDevice(TRUE, FALSE), DrDevice(TRUE, TRUE)>>, 1)
    @@ "text" :> DrFile(TRUE, 3, FALSE, <<>>, 0) @@ "none" :> DrFile(FALSE, 0, FALSE, <<>>, 0)
GivenDrLetters == <<"C", "D">>

----------------------------------------------------------------------------
(* EPTCFT: chains of four tables of all kinds.  VSFT: volumes around the    *)
(* largest cluster counts, which are scaled down.                           *)

EpTable(t, r) == [type |-> t, rest |-> r]
GivenEpDisks == {<<EpTable(a, "mbr"), EpTable(b, "a"), EpTable(c, "b"), EpTable(d, "c")>> :
                    a, b, c, d \in {0, 5, 15}}
GivenEpTargets == {[byDrive |-> FALSE, status |-> 0, device |-> 1],
                   [byDrive |-> TRUE, status |-> 3, device |-> 1],
                   [byDrive |-> TRUE, status |-> 1, device |-> 2]}

GivenVsSmallLimit == 15
GivenVsVolumes ==
    {[small |-> IF n <= GivenVsSmallLimit THEN n ELSE 0, big |-> IF n <= GivenVsSmallLimit THEN 0 ELSE n,
      data |-> 3, spc |-> s, fat16 |-> f] : n \in 8..22, s \in {1, 2}, f \in BOOLEAN}
=============================================================================
