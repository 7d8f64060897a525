---------------------------- MODULE XcopyProofs ----------------------------
(***************************************************************************)
(* The invariant of XCOPY, for any tree, command line and number of file   *)
(* handles: the verify flag and the partial file (XcFlagInv, XcWholeInv),  *)
(* how deep it goes (XcDepthInv), and where the data of the copied files   *)
(* is (XcPathInv, XcCopyInv, XcKeptInv).                                   *)
(***************************************************************************)
EXTENDS Xcopy, ProofLemmas

----------------------------------------------------------------------------
(* XCOPY. *)

\* The levels of the recursion: the directories, and how far each is done.
XcLevel == [src : XcPath, dst : XcPath, phase : {"files", "dirs"}, seen : SUBSET XcName,
            first : SUBSET XcName, made : BOOLEAN]

\* A file is being copied; its copy is there.
Copying == pc \in {"open", "new", "opendst", "write", "ensure", "attr", "archive"}
CopyThere == pc \in {"opendst", "write", "ensure", "attr", "archive"}

\* The variables have their types; the file at work is there, and so is its copy.
XcTypeInv ==
    /\ pc \in {"start", "flags", "enter", "next", "done", "end", "aborted"} \/ Copying
    /\ case \in Cases
    /\ DOMAIN tree \subseteq XcPath /\ \A p \in DOMAIN tree : tree[p] \in XcEntry
    /\ stack \in Seq(XcLevel) /\ Len(stack) > 0
    /\ opened \in Seq(XcPath) /\ dup_mode \in Options /\ joined \in BOOLEAN
    /\ Copying => /\ job \in [name : XcName, dst : XcPath, done : Nat]
                  /\ source \in DOMAIN tree /\ tree[source].kind = "file"
    /\ CopyThere => job.dst \in DOMAIN tree
    /\ Len(opened) <= MaxHandles
    /\ pc \in {"new", "opendst"} => Len(opened) < MaxHandles /\ opened # <<>>
    /\ pc \in {"start", "flags", "enter"} => level.phase = "files"

\* The verify flag is kept until it is restored.
XcFlagInv ==
    /\ pc = "start" => verify_flag = Unknown
    /\ pc # "start" => verify_flag = case.verify \/ (pc = "aborted" /\ verify_flag = Unknown)
    /\ Over \/ pc \in {"start", "flags"} => verify = case.verify
    /\ verify \in {0, 1}

\* The only file that may not be whole is the copy at work, or an empty one.
XcWholeInv ==
    /\ file_not_ensured \in BOOLEAN /\ (file_not_ensured <=> pc \in {"write", "ensure"})
    /\ \A p \in DOMAIN tree :
         \/ tree[p].whole
         \/ pc \in {"opendst", "write"} /\ p = job.dst
         \/ pc = "aborted" /\ p = job.dst /\ job.done = 0
    /\ pc \in {"open", "new", "opendst"} => job.done = 0

\* The invariant of the types and of the clean end.
XcSafeInv == XcTypeInv /\ XcFlagInv /\ XcWholeInv

\* What a case of the command line has.
LEMMA XcopyCases ==
    ASSUME XcopyAssumption, NEW c \in Cases
    PROVE  /\ DOMAIN c.tree \subseteq XcPath
           /\ \A p \in DOMAIN c.tree : c.tree[p] \in XcEntry /\ c.tree[p].whole /\ c.tree[p].data = p
  BY DEF XcopyAssumption

\* The names and options of a case of the command line.
LEMMA XcopyCommands ==
    ASSUME XcopyAssumption, NEW c \in Cases
    PROVE  /\ c.from.dir \in XcPath /\ c.from.name \in XcName
           /\ c.to.dir \in XcPath /\ c.to.name \in XcName
           /\ c.verify \in {0, 1} /\ c.opt.dup \in Options
<1>1. <<>> \in XcPath
  BY DEF XcPath
<1> QED
  BY <1>1 DEF XcopyAssumption

\* Names are renamed to names.
LEMMA XcopyRenames ==
    ASSUME XcopyAssumption, NEW c \in Cases, NEW n \in DOMAIN c.to.rename
    PROVE  c.to.rename[n] \in XcName
  BY DEF XcopyAssumption

\* The two directories, and the names that are made of names.
LEMMA XcopyParsed ==
    ASSUME XcopyAssumption, case \in Cases
    PROVE  /\ src_parse.dir \in XcPath /\ dst_parse.dir \in XcPath
           /\ \A n \in XcName : expand_name(n) \in XcName
<1>1. /\ case.from.dir \in XcPath /\ case.from.name \in XcName
      /\ case.to.dir \in XcPath /\ case.to.name \in XcName
  BY XcopyCommands
<1>a. \A n \in DOMAIN case.to.rename : case.to.rename[n] \in XcName
  <2> TAKE n \in DOMAIN case.to.rename
  <2> QED
    BY XcopyRenames
<1>2. \A d \in XcPath, n \in XcName : Append(d, n) \in XcPath
  BY DEF XcPath
<1>3. src_parse.dir \in XcPath
  BY <1>1, <1>2 DEF src_parse
<1>4. dst_parse.dir \in XcPath
  BY <1>1, <1>2 DEF dst_parse
<1>5. \A n \in DOMAIN dst_parse.rename : dst_parse.rename[n] \in XcName
  BY <1>a DEF dst_parse
<1>6. \A n \in XcName : expand_name(n) \in XcName
  BY <1>5 DEF expand_name
<1> QED
  BY <1>3, <1>4, <1>6

\* A name of a directory is that of an entry.
LEMMA NamesAre ==
    ASSUME DOMAIN tree \subseteq XcPath, NEW dir \in XcPath, NEW name \in Names(dir)
    PROVE  Append(dir, name) \in DOMAIN tree /\ name \in XcName
<1>1. PICK p \in DOMAIN tree : Len(p) = Len(dir) + 1 /\ Front(p) = dir /\ name = Last(p)
  BY DEF Names, Contents
<1>2. p \in Seq(XcName) /\ dir \in Seq(XcName) /\ Len(dir) \in Nat
  BY DEF XcPath
<1>3. name = p[Len(dir) + 1] /\ name \in XcName
  BY <1>1, <1>2 DEF Last
<1>4. \A i \in 1..Len(dir) : dir[i] = p[i]
  BY <1>1, <1>2 DEF Front
<1>5. Append(dir, name) \in Seq(XcName) /\ Len(Append(dir, name)) = Len(p)
      /\ \A i \in 1..Len(p) : Append(dir, name)[i] = p[i]
  BY <1>1, <1>2, <1>3, <1>4
<1>6. Append(dir, name) = p
  BY <1>2, <1>5
<1> QED
  BY <1>1, <1>3, <1>6

\* A sequence of one element.
LEMMA OneElement ==
    ASSUME NEW S, NEW x \in S
    PROVE  Append(<<>>, x) \in Seq(S) /\ Len(Append(<<>>, x)) = 1
<1>1. <<>> \in Seq(S) /\ Len(<<>>) = 0
  OBVIOUS
<1> QED
  BY <1>1

\* All but the last element of a sequence.
LEMMA FrontOf ==
    ASSUME NEW S, NEW q \in Seq(S), q # <<>>
    PROVE  /\ Front(q) \in Seq(S) /\ Len(Front(q)) = Len(q) - 1 /\ Len(q) \in Nat \ {0}
           /\ \A i \in 1..Len(q) - 1 : Front(q)[i] = q[i]
<1>1. Len(q) \in Nat \ {0}
  OBVIOUS
<1>2. Front(q) = SubSeq(q, 1, Len(q) - 1)
  BY DEF Front
<1>3. /\ SubSeq(q, 1, Len(q) - 1) \in Seq(S) /\ Len(SubSeq(q, 1, Len(q) - 1)) = Len(q) - 1
      /\ \A i \in 1..Len(q) - 1 : SubSeq(q, 1, Len(q) - 1)[i] = q[i]
  <2> DEFINE k == Len(q) - 1
  <2>1. k \in Nat /\ k < Len(q)
    BY <1>1
  <2> HIDE DEF k
  <2>2. SubSeq(q, 1, k) \in Seq(S)
    BY <1>1, <2>1
  <2>3. Len(SubSeq(q, 1, k)) = k
    BY <1>1, <2>1
  <2>4. \A i \in 1..k : SubSeq(q, 1, k)[i] = q[i]
    BY <1>1, <2>1
  <2> QED
    BY <2>2, <2>3, <2>4 DEF k
<1> QED
  BY <1>1, <1>2, <1>3

\* The front of a sequence that may be empty.
LEMMA FrontShorter ==
    ASSUME NEW S, NEW q \in Seq(S)
    PROVE  Front(q) \in Seq(S) /\ Len(Front(q)) <= Len(q)
<1>1. CASE q = <<>>
  <2>1. Front(q) = SubSeq(q, 1, Len(q) - 1)
    BY DEF Front
  <2>2. Len(q) = 0
    BY <1>1
  <2>3. SubSeq(q, 1, Len(q) - 1) \in Seq(S) /\ Len(SubSeq(q, 1, Len(q) - 1)) = 0
    BY <1>1, <2>2
  <2> QED
    BY <2>1, <2>2, <2>3
<1>2. CASE q # <<>>
  BY <1>2, FrontOf
<1> QED
  BY <1>1, <1>2

\* The last level changes, the others do not.
LEMMA LevelChanges ==
    ASSUME XcTypeInv, NEW l \in XcLevel
    PROVE  /\ [stack EXCEPT ![Len(stack)] = l] \in Seq(XcLevel)
           /\ Len([stack EXCEPT ![Len(stack)] = l]) = Len(stack)
           /\ [stack EXCEPT ![Len(stack)] = l][Len(stack)] = l
           /\ \A i \in 1..Len(stack) - 1 : [stack EXCEPT ![Len(stack)] = l][i] = stack[i]
  BY DEF XcTypeInv

\* The last level, when a search begins and when a name was seen.
LEMMA Levels ==
    ASSUME XcTypeInv
    PROVE  /\ level \in XcLevel /\ level = stack[Len(stack)] /\ Len(stack) \in Nat \ {0}
           /\ \A phase \in {"files", "dirs"} :
                LET l == [level EXCEPT !.phase = phase, !.seen = {}, !.first = Names(level.src)]
                IN Search(phase) = [stack EXCEPT ![Len(stack)] = l] /\ l \in XcLevel
           /\ \A name \in XcName :
                LET l == [level EXCEPT !.seen = @ \cup {name}]
                IN Seen(name) = [stack EXCEPT ![Len(stack)] = l] /\ l \in XcLevel
<1>1. stack \in Seq(XcLevel) /\ Len(stack) \in Nat \ {0} /\ level = stack[Len(stack)]
      /\ Len(stack) \in 1..Len(stack)
  BY DEF XcTypeInv, level, Last
<1>2. level \in XcLevel
  BY <1>1
<1>3. Names(level.src) \subseteq XcName
  BY <1>2, NamesAre DEF XcTypeInv, XcLevel
<1>4. ASSUME NEW phase \in {"files", "dirs"}
      PROVE  LET l == [level EXCEPT !.phase = phase, !.seen = {}, !.first = Names(level.src)]
             IN Search(phase) = [stack EXCEPT ![Len(stack)] = l] /\ l \in XcLevel
  <2> DEFINE l == [level EXCEPT !.phase = phase, !.seen = {}, !.first = Names(level.src)]
  <2>1. l \in XcLevel
    BY <1>2, <1>3 DEF XcLevel
  <2>2. Search(phase) = [stack EXCEPT ![Len(stack)] = l]
    BY <1>1 DEF Search
  <2> QED
    BY <2>1, <2>2
<1>5. ASSUME NEW name \in XcName
      PROVE  LET l == [level EXCEPT !.seen = @ \cup {name}]
             IN Seen(name) = [stack EXCEPT ![Len(stack)] = l] /\ l \in XcLevel
  <2> DEFINE l == [level EXCEPT !.seen = @ \cup {name}]
  <2>1. l \in XcLevel
    BY <1>2 DEF XcLevel
  <2>2. Seen(name) = [stack EXCEPT ![Len(stack)] = l]
    BY <1>1 DEF Seen
  <2> QED
    BY <2>1, <2>2
<1> QED
  BY <1>1, <1>2, <1>4, <1>5

\* What is written and taken away in the tree.
LEMMA TreeWith ==
    ASSUME NEW path, NEW e
    PROVE  /\ DOMAIN With(path, e) = DOMAIN tree \cup {path}
           /\ With(path, e)[path] = e
           /\ \A p \in DOMAIN tree \ {path} : With(path, e)[p] = tree[p]
  BY DEF With

\* An entry more among entries.
LEMMA EntryWith ==
    ASSUME NEW to \in XcPath, NEW e \in XcEntry, tree' = With(to, e),
           DOMAIN tree \subseteq XcPath, \A p \in DOMAIN tree : tree[p] \in XcEntry
    PROVE  DOMAIN tree' \subseteq XcPath /\ \A p \in DOMAIN tree' : tree'[p] \in XcEntry
  BY DEF With

\* A whole file more among whole files.
LEMMA WholeWith ==
    ASSUME NEW path, NEW e, e.whole, \A p \in DOMAIN tree : tree[p].whole
    PROVE  \A p \in DOMAIN With(path, e) : With(path, e)[p].whole
  BY DEF With

\* A file deleted, and nothing else.
LEMMA TreeWithout ==
    ASSUME NEW path
    PROVE  /\ DOMAIN Without(path) = DOMAIN tree \ {path}
           /\ \A p \in DOMAIN tree \ {path} : Without(path)[p] = tree[p]
  BY DEF Without

\* It holds when XCOPY is started.
LEMMA XcopyInit ==
    ASSUME XcopyAssumption
    PROVE  Init => XcSafeInv
<1> SUFFICES ASSUME Init PROVE XcSafeInv
  OBVIOUS
<1>1. case \in Cases /\ tree = case.tree /\ pc = "start" /\ opened = <<>> /\ verify = case.verify
  BY DEF Init
<1>2. src_parse.dir \in XcPath /\ dst_parse.dir \in XcPath
  BY <1>1, XcopyParsed
<1>3. [src |-> src_parse.dir, dst |-> dst_parse.dir, phase |-> "files", seen |-> {},
       first |-> {}, made |-> FALSE] \in XcLevel
  BY <1>2 DEF XcLevel
<1>4. stack \in Seq(XcLevel) /\ Len(stack) = 1
  BY <1>3 DEF Init
<1>5. XcTypeInv
  <2>1. DOMAIN tree \subseteq XcPath /\ \A p \in DOMAIN tree : tree[p] \in XcEntry
    BY <1>1, XcopyCases
  <2>2. opened \in Seq(XcPath) /\ Len(opened) = 0 /\ dup_mode \in Options /\ joined \in BOOLEAN
    <3>1. opened = <<>> /\ dup_mode = "overwrite" /\ joined = FALSE
      BY DEF Init
    <3>2. dup_mode \in Options
      BY <3>1 DEF Options
    <3>3. opened \in Seq(XcPath) /\ Len(opened) = 0
      BY <3>1
    <3> QED
      BY <3>1, <3>2, <3>3
  <2>3. 0 <= MaxHandles
    BY DEF XcopyAssumption
  <2>4. ~Copying /\ ~CopyThere
    BY <1>1 DEF Copying, CopyThere
  <2>5. level.phase = "files"
    BY <1>4 DEF Init, level, Last
  <2> QED
    BY <1>1, <1>4, <2>1, <2>2, <2>3, <2>4, <2>5 DEF XcTypeInv
<1>6. XcFlagInv
  BY <1>1, XcopyCommands DEF Init, XcFlagInv, Over
<1>7. XcWholeInv
  <2>1. \A p \in DOMAIN tree : tree[p].whole
    BY <1>1, XcopyCases
  <2>2. file_not_ensured = FALSE
    BY DEF Init
  <2> QED
    BY <1>1, <2>1, <2>2 DEF XcWholeInv
<1> QED
  BY <1>5, <1>6, <1>7 DEF XcSafeInv

\* Every step keeps the verify flag.
LEMMA XcopyFlags ==
    ASSUME XcopyAssumption, XcSafeInv, Next PROVE XcFlagInv'
<1> USE DEF XcSafeInv, XcFlagInv, flags, disk, history, Over, Unknown
<1>0. case \in Cases /\ case.verify \in {0, 1}
  BY XcopyCommands DEF XcTypeInv
<1>1. CASE main
  BY <1>0, <1>1 DEF main
<1>2. CASE get_drives
  BY <1>0, <1>2 DEF get_drives
<1>3. CASE enter
  BY <1>0, <1>3 DEF enter
<1>4. ASSUME NEW name, NEW answer, next_file(name, answer) PROVE XcFlagInv'
  <2>1. UNCHANGED <<case, verify, verify_flag>> /\ pc = "next" /\ pc' \in {"next", "open"}
    BY <1>4 DEF next_file
  <2> QED
    BY <2>1
<1>5. CASE chk_and_open \/ find_new \/ open_file \/ do_write \/ ensure \/ set_time
           \/ set_file_attr
  BY <1>0, <1>5 DEF chk_and_open, find_new, open_file, do_write, ensure, set_time, set_file_attr
<1>6. CASE files_done \/ dirs_done
  <2>1. UNCHANGED <<case, verify, verify_flag>> /\ pc = "next" /\ pc' \in {"next", "done"}
    BY <1>6 DEF files_done, dirs_done, leave
  <2> QED
    BY <2>1
<1>7. ASSUME NEW name, next_dir(name) PROVE XcFlagInv'
  <2>1. UNCHANGED <<case, verify, verify_flag>> /\ pc = "next" /\ pc' \in {"next", "enter"}
    BY <1>7 DEF next_dir
  <2> QED
    BY <2>1
<1>8. CASE Terminate
  BY <1>0, <1>8 DEF Terminate, abort_handler
<1>9. CASE Abort
  BY <1>0, <1>9 DEF Abort, abort_handler
<1>10. CASE Ended
  BY <1>10 DEF Ended, vars
<1> QED
  BY <1>1, <1>2, <1>3, <1>4, <1>5, <1>6, <1>7, <1>8, <1>9, <1>10 DEF Next

\* An entry that becomes another one.
LEMMA EntriesChanged ==
    ASSUME NEW e \in XcEntry, NEW x \in BOOLEAN, NEW y \in BOOLEAN, NEW t \in Nat
    PROVE  /\ [e EXCEPT !.whole = x, !.readonly = y] \in XcEntry
           /\ [e EXCEPT !.whole = x, !.readonly = y].whole = x
           /\ [e EXCEPT !.whole = x, !.readonly = y].kind = e.kind
           /\ [e EXCEPT !.whole = x, !.readonly = y].data = e.data
           /\ [e EXCEPT !.whole = x] \in XcEntry
           /\ [e EXCEPT !.archive = x] \in XcEntry
           /\ [e EXCEPT !.readonly = x, !.archive = y, !.stamp = t] \in XcEntry
  BY DEF XcEntry

\* An entry that is copied as another one, and what is written to it.
LEMMA TreeSteps ==
    ASSUME XcTypeInv, Next
    PROVE  /\ find_new /\ pc' # "next" =>
                /\ pc' = "opendst" /\ DOMAIN tree' = DOMAIN tree \cup {job.dst}
                /\ tree'[job.dst] \in XcEntry /\ ~tree'[job.dst].whole
                /\ tree'[job.dst].kind = "file" /\ tree'[job.dst].data = tree[source].data
                /\ \A p \in DOMAIN tree \ {job.dst} : tree'[p] = tree[p]
           /\ do_write /\ pc' # "write" =>
                /\ pc' = "ensure" /\ DOMAIN tree' = DOMAIN tree /\ tree'[job.dst] \in XcEntry /\ tree'[job.dst].whole
                /\ tree'[job.dst].kind = tree[job.dst].kind
                /\ tree'[job.dst].data = tree[job.dst].data
                /\ \A p \in DOMAIN tree \ {job.dst} : tree'[p] = tree[p]
           /\ set_time \/ set_file_attr =>
                /\ DOMAIN tree' = DOMAIN tree
                /\ \A p \in DOMAIN tree :
                     /\ tree'[p] \in XcEntry /\ tree'[p].whole = tree[p].whole
                     /\ tree'[p].kind = tree[p].kind /\ tree'[p].data = tree[p].data
<1>1. ASSUME Copying
      PROVE  source \in DOMAIN tree /\ tree[source] \in XcEntry /\ tree[source].kind = "file"
  BY <1>1 DEF XcTypeInv
<1>2. ASSUME CopyThere PROVE job.dst \in DOMAIN tree /\ tree[job.dst] \in XcEntry
  BY <1>2 DEF XcTypeInv
<1>3. ASSUME find_new, pc' # "next"
      PROVE  /\ pc' = "opendst" /\ DOMAIN tree' = DOMAIN tree \cup {job.dst}
             /\ tree'[job.dst] \in XcEntry /\ ~tree'[job.dst].whole
             /\ tree'[job.dst].kind = "file" /\ tree'[job.dst].data = tree[source].data
             /\ \A p \in DOMAIN tree \ {job.dst} : tree'[p] = tree[p]
  <2>1. pc' = "opendst"
        /\ tree' = With(job.dst, [tree[source] EXCEPT !.whole = FALSE, !.readonly = FALSE])
    BY <1>3 DEF find_new
  <2>2. Copying
    BY <1>3 DEF find_new, Copying
  <2>3. /\ [tree[source] EXCEPT !.whole = FALSE, !.readonly = FALSE] \in XcEntry
        /\ ~[tree[source] EXCEPT !.whole = FALSE, !.readonly = FALSE].whole
        /\ [tree[source] EXCEPT !.whole = FALSE, !.readonly = FALSE].kind = "file"
        /\ [tree[source] EXCEPT !.whole = FALSE, !.readonly = FALSE].data = tree[source].data
    BY <1>1, <2>2 DEF XcEntry
  <2> DEFINE e == [tree[source] EXCEPT !.whole = FALSE, !.readonly = FALSE]
  <2>4. e \in XcEntry /\ ~e.whole /\ e.kind = "file" /\ e.data = tree[source].data
    BY <2>3
  <2>5. tree' = With(job.dst, e)
    BY <2>1
  <2> HIDE DEF e
  <2>6. /\ DOMAIN tree' = DOMAIN tree \cup {job.dst} /\ tree'[job.dst] = e
        /\ \A p \in DOMAIN tree \ {job.dst} : tree'[p] = tree[p]
    BY <2>5, TreeWith
  <2> QED
    BY <2>1, <2>4, <2>6
<1>4. ASSUME do_write, pc' # "write"
      PROVE  /\ pc' = "ensure" /\ DOMAIN tree' = DOMAIN tree /\ tree'[job.dst] \in XcEntry /\ tree'[job.dst].whole
             /\ tree'[job.dst].kind = tree[job.dst].kind
             /\ tree'[job.dst].data = tree[job.dst].data
             /\ \A p \in DOMAIN tree \ {job.dst} : tree'[p] = tree[p]
  <2>1. tree' = [tree EXCEPT ![job.dst].whole = TRUE] /\ CopyThere /\ pc' = "ensure"
    BY <1>4 DEF do_write, CopyThere
  <2>2. job.dst \in DOMAIN tree /\ tree[job.dst] \in XcEntry
    BY <1>2, <2>1
  <2>3. /\ [tree[job.dst] EXCEPT !.whole = TRUE] \in XcEntry
        /\ [tree[job.dst] EXCEPT !.whole = TRUE].whole
        /\ [tree[job.dst] EXCEPT !.whole = TRUE].kind = tree[job.dst].kind
        /\ [tree[job.dst] EXCEPT !.whole = TRUE].data = tree[job.dst].data
    BY <2>2 DEF XcEntry
  <2>4. /\ DOMAIN tree' = DOMAIN tree /\ tree'[job.dst] = [tree[job.dst] EXCEPT !.whole = TRUE]
        /\ \A p \in DOMAIN tree \ {job.dst} : tree'[p] = tree[p]
    BY <2>1, <2>2
  <2> QED
    BY <2>1, <2>3, <2>4
<1>5. ASSUME set_time \/ set_file_attr
      PROVE  /\ DOMAIN tree' = DOMAIN tree
             /\ \A p \in DOMAIN tree :
                  /\ tree'[p] \in XcEntry /\ tree'[p].whole = tree[p].whole
                  /\ tree'[p].kind = tree[p].kind /\ tree'[p].data = tree[p].data
  <2>1. CopyThere /\ Copying
    BY <1>5 DEF set_time, set_file_attr, CopyThere, Copying
  <2>2. /\ source \in DOMAIN tree /\ tree[source] \in XcEntry
        /\ job.dst \in DOMAIN tree /\ tree[job.dst] \in XcEntry
    BY <1>1, <1>2, <2>1
  <2>3. CASE set_time
    <3> DEFINE e == [tree[job.dst] EXCEPT
                        !.readonly = tree[source].readonly,
                        !.archive = @ \/ tree[source].readonly,
                        !.stamp = IF opt.time THEN 9 ELSE tree[source].stamp]
    <3>1. tree' = [tree EXCEPT ![job.dst] = e]
      BY <2>2, <2>3 DEF set_time
    <3>2. /\ e \in XcEntry /\ e.whole = tree[job.dst].whole /\ e.kind = tree[job.dst].kind
          /\ e.data = tree[job.dst].data
      <4>1. /\ tree[source].readonly \in BOOLEAN /\ tree[job.dst].archive \in BOOLEAN
            /\ tree[source].stamp \in Nat
        BY <2>2 DEF XcEntry
      <4>2. (tree[job.dst].archive \/ tree[source].readonly) \in BOOLEAN
        OBVIOUS
      <4>3. (IF opt.time THEN 9 ELSE tree[source].stamp) \in Nat
        BY <4>1
      <4> QED
        BY <2>2, <4>1, <4>2, <4>3 DEF XcEntry
    <3> HIDE DEF e
    <3> QED
      BY <2>2, <3>1, <3>2 DEF XcTypeInv
  <2>4. CASE set_file_attr
    <3> DEFINE e == [tree[source] EXCEPT !.archive = FALSE]
    <3>1. tree' = [tree EXCEPT ![source] = e] \/ tree' = tree
      BY <2>2, <2>4 DEF set_file_attr
    <3>2. /\ e \in XcEntry /\ e.whole = tree[source].whole /\ e.kind = tree[source].kind
          /\ e.data = tree[source].data
      BY <2>2 DEF XcEntry
    <3> HIDE DEF e
    <3> QED
      BY <2>2, <3>1, <3>2 DEF XcTypeInv
  <2> QED
    BY <1>5, <2>3, <2>4
<1> QED
  BY <1>3, <1>4, <1>5

\* Every step keeps the files whole.
LEMMA XcopyWhole ==
    ASSUME XcSafeInv, Next PROVE XcWholeInv'
<1> USE DEF XcSafeInv, XcWholeInv, flags, disk, history
<1>0. XcTypeInv
  OBVIOUS
<1>1. CASE main
  BY <1>1 DEF main
<1>2. CASE get_drives
  BY <1>2 DEF get_drives
<1>3. CASE enter
  BY <1>3 DEF enter
<1>4. ASSUME NEW name, NEW answer, next_file(name, answer) PROVE XcWholeInv'
  <2>1. UNCHANGED disk /\ pc = "next" /\ pc' \in {"next", "open"}
    BY <1>4 DEF next_file
  <2>2. ASSUME pc' = "open" PROVE job'.done = 0
    <3>1. job' = [name |-> name, dst |-> Append(level.dst, expand_name(name)), done |-> 0]
      BY <1>4, <2>1, <2>2 DEF next_file
    <3> QED
      BY <3>1
  <2> QED
    BY <2>1, <2>2
<1>5. CASE chk_and_open
  BY <1>5 DEF chk_and_open
<1>6. CASE find_new
  <2>1. CASE pc' = "next"
    <3>1. pc = "new" /\ UNCHANGED <<file_not_ensured, tree>>
      BY <1>6, <2>1 DEF find_new
    <3> QED
      BY <2>1, <3>1
  <2>2. CASE pc' # "next"
    <3>1. /\ pc' = "opendst" /\ DOMAIN tree' = DOMAIN tree \cup {job.dst}
          /\ \A p \in DOMAIN tree \ {job.dst} : tree'[p] = tree[p]
      BY <1>0, <1>6, <2>2, TreeSteps
    <3>2. pc = "new" /\ UNCHANGED <<file_not_ensured, job>>
      BY <1>6, <3>1 DEF find_new
    <3> QED
      BY <3>1, <3>2
  <2> QED
    BY <2>1, <2>2
<1>7. CASE open_file \/ ensure
  BY <1>7 DEF open_file, ensure
<1>8. CASE do_write
  <2>1. CASE pc' = "write"
    <3>1. pc = "write" /\ UNCHANGED <<file_not_ensured, tree>> /\ job'.dst = job.dst
      <4>1. pc = "write" /\ UNCHANGED file_not_ensured
        BY <1>8 DEF do_write
      <4>2. UNCHANGED tree /\ job' = [job EXCEPT !.done = @ + 1]
        BY <1>8, <2>1 DEF do_write
      <4>3. job \in [name : XcName, dst : XcPath, done : Nat]
        BY <4>1 DEF XcTypeInv, Copying
      <4> QED
        BY <4>1, <4>2, <4>3
    <3> QED
      BY <2>1, <3>1
  <2>2. CASE pc' # "write"
    <3>1. /\ pc' = "ensure" /\ DOMAIN tree' = DOMAIN tree /\ tree'[job.dst].whole
          /\ \A p \in DOMAIN tree \ {job.dst} : tree'[p] = tree[p]
      BY <1>0, <1>8, <2>2, TreeSteps
    <3>2. pc = "write" /\ UNCHANGED <<file_not_ensured, job>>
      BY <1>8, <3>1 DEF do_write
    <3> QED
      BY <3>1, <3>2
  <2> QED
    BY <2>1, <2>2
<1>9. CASE set_time \/ set_file_attr
  <2>1. DOMAIN tree' = DOMAIN tree /\ \A p \in DOMAIN tree : tree'[p].whole = tree[p].whole
    BY <1>0, <1>9, TreeSteps
  <2>2. pc \in {"attr", "archive"} /\ pc' \in {"archive", "next"} /\ UNCHANGED file_not_ensured
    BY <1>9 DEF set_time, set_file_attr
  <2> QED
    BY <2>1, <2>2
<1>10. CASE files_done \/ dirs_done
  <2>1. /\ pc = "next" /\ pc' \in {"next", "done"} /\ UNCHANGED file_not_ensured
        /\ tree' = tree \/ tree' = Without(level.dst)
    BY <1>10 DEF files_done, dirs_done, leave
  <2>2. \A p \in DOMAIN tree' : p \in DOMAIN tree /\ tree'[p] = tree[p]
    BY <2>1, TreeWithout
  <2> QED
    BY <2>1, <2>2
<1>11. ASSUME NEW name \in Names(level.src), next_dir(name) PROVE XcWholeInv'
  <2>1. /\ pc = "next" /\ pc' \in {"next", "enter"} /\ UNCHANGED file_not_ensured
        /\ \/ tree' = tree
           \/ /\ tree' = With(Append(level.dst, name), tree[Append(level.src, name)])
              /\ Append(level.src, name) \in DOMAIN tree
    BY <1>11 DEF next_dir, IsSubdirectory, Is
  <2>2. \A p \in DOMAIN tree : tree[p].whole
    BY <2>1
  <2> DEFINE e == tree[Append(level.src, name)]
             to == Append(level.dst, name)
  <2>3. tree' = tree \/ (tree' = With(to, e) /\ e.whole)
    BY <2>1, <2>2
  <2> HIDE DEF e, to
  <2>4. ASSUME tree' = With(to, e), e.whole PROVE \A p \in DOMAIN tree' : tree'[p].whole
    <3>1. \A p \in DOMAIN With(to, e) : With(to, e)[p].whole
      <4> HIDE DEF XcSafeInv, XcWholeInv, flags, disk, history
      <4> QED
        BY <2>2, <2>4, WholeWith
    <3> QED
      BY <2>4, <3>1
  <2>5. \A p \in DOMAIN tree' : tree'[p].whole
    BY <2>2, <2>3, <2>4
  <2> QED
    BY <2>1, <2>5
<1>12. CASE Terminate \/ Abort
  <2>1. /\ pc \notin {"end", "aborted"} /\ pc' \in {"end", "aborted"} /\ file_not_ensured' = FALSE
        /\ (pc' = "end" => pc = "done") /\ UNCHANGED job
        /\ tree' = IF file_not_ensured THEN Without(job.dst) ELSE tree
    BY <1>12 DEF Terminate, Abort, abort_handler
  <2>2. CASE file_not_ensured
    <3>1. DOMAIN tree' = DOMAIN tree \ {job.dst}
          /\ \A p \in DOMAIN tree \ {job.dst} : tree'[p] = tree[p]
      BY <2>1, <2>2, TreeWithout
    <3> QED
      BY <2>1, <2>2, <3>1
  <2>3. CASE ~file_not_ensured
    BY <2>1, <2>3
  <2> QED
    BY <2>2, <2>3
<1>13. CASE Ended
  BY <1>13 DEF Ended, vars
<1> QED
  BY <1>1, <1>2, <1>3, <1>4, <1>5, <1>6, <1>7, <1>8, <1>9, <1>10, <1>11, <1>12, <1>13 DEF Next

\* The handles that are open: the source's, and those of the copies before it.
LEMMA XcopyHandles ==
    ASSUME XcopyAssumption, XcSafeInv, Next
    PROVE  /\ opened' \in Seq(XcPath) /\ Len(opened') <= MaxHandles
           /\ pc' \in {"new", "opendst"} => Len(opened') < MaxHandles /\ opened' # <<>>
<1>o. opened \in Seq(XcPath) /\ Len(opened) <= MaxHandles
  BY DEF XcSafeInv, XcTypeInv
<1> USE DEF XcSafeInv, XcTypeInv, flags, disk, history
<1> DEFINE Good == /\ opened' \in Seq(XcPath) /\ Len(opened') <= MaxHandles
                   /\ pc' \in {"new", "opendst"} => Len(opened') < MaxHandles /\ opened' # <<>>
<1>0. MaxHandles \in Nat /\ MaxHandles >= 2 /\ <<>> \in Seq(XcPath) /\ Len(<<>>) = 0
  BY DEF XcopyAssumption
<1>1. ASSUME opened' = opened \/ opened' = <<>>, pc' \notin {"new", "opendst"} PROVE Good
  <2>1. opened' \in Seq(XcPath) /\ Len(opened') <= MaxHandles
    <3>1. CASE opened' = opened
      BY <1>o, <3>1
    <3>2. CASE opened' = <<>>
      BY <1>0, <3>2
    <3> QED
      BY <1>1, <3>1, <3>2
  <2> QED
    BY <1>1, <2>1
<1>2. CASE main \/ get_drives \/ enter
  <2>1. (opened' = opened \/ opened' = <<>>) /\ pc' \notin {"new", "opendst"}
    BY <1>2 DEF main, get_drives, enter
  <2> QED
    BY <1>1, <2>1
<1>3. ASSUME NEW name, NEW answer, next_file(name, answer) PROVE Good
  <2>1. opened' = opened /\ pc' \in {"next", "open"}
    BY <1>3 DEF next_file
  <2> QED
    BY <1>1, <2>1
<1>4. CASE chk_and_open
  <2>1. source \in XcPath /\ opened' = Append(IF Len(opened) + 2 <= MaxHandles THEN opened ELSE <<>>, source)
    BY <1>4 DEF chk_and_open, Copying
  <2>2. CASE Len(opened) + 2 <= MaxHandles
    <3>1. opened' = Append(opened, source)
      BY <2>1, <2>2
    <3> QED
      BY <1>0, <2>1, <2>2, <3>1
  <2>3. CASE ~(Len(opened) + 2 <= MaxHandles)
    <3>1. opened' = Append(<<>>, source)
      BY <2>1, <2>3
    <3>2. opened' \in Seq(XcPath) /\ Len(opened') = 1
      <4> HIDE DEF XcSafeInv, XcTypeInv
      <4>1. source \in XcPath /\ opened' = Append(<<>>, source)
        BY <2>1, <3>1
      <4> QED
        BY <4>1, OneElement
    <3>3. Len(opened') <= MaxHandles /\ Len(opened') < MaxHandles /\ opened' # <<>>
      <4> HIDE DEF XcSafeInv, XcTypeInv
      <4> QED
        BY <1>0, <3>2
    <3> QED
      BY <3>2, <3>3
  <2> QED
    BY <2>2, <2>3
<1>5. CASE find_new
  <2>1. CASE opened' = opened
    BY <1>0, <1>5, <2>1 DEF find_new
  <2>2. CASE opened' = Front(opened) /\ pc' = "next"
    <3>1. opened # <<>> /\ Len(opened) <= MaxHandles /\ opened \in Seq(XcPath)
      BY <1>5 DEF find_new
    <3>2. Front(opened) \in Seq(XcPath) /\ Len(Front(opened)) = Len(opened) - 1
      BY <3>1, FrontOf
    <3> QED
      BY <1>0, <2>2, <3>1, <3>2
  <2> QED
    BY <1>5, <2>1, <2>2 DEF find_new
<1>6. CASE open_file
  <2>1. pc = "opendst" /\ job.dst \in XcPath /\ opened' = Append(opened, job.dst) /\ pc' = "write"
    BY <1>6 DEF open_file, Copying
  <2> QED
    BY <1>0, <2>1
<1>7. CASE do_write \/ ensure \/ set_time \/ set_file_attr
  <2>1. opened' = opened /\ pc' \notin {"new", "opendst"}
    BY <1>7 DEF do_write, ensure, set_time, set_file_attr
  <2> QED
    BY <1>1, <2>1
<1>8. CASE files_done \/ dirs_done
  <2>1. (opened' = opened \/ opened' = <<>>) /\ pc' \notin {"new", "opendst"}
    BY <1>8 DEF files_done, dirs_done, leave
  <2> QED
    BY <1>1, <2>1
<1>9. ASSUME NEW name, next_dir(name) PROVE Good
  <2>1. opened' = opened /\ pc' \notin {"new", "opendst"}
    BY <1>9 DEF next_dir
  <2> QED
    BY <1>1, <2>1
<1>10. CASE Terminate \/ Abort \/ Ended
  <2>1. (opened' = opened \/ opened' = Front(opened)) /\ pc' \notin {"new", "opendst"}
    BY <1>10 DEF Terminate, Abort, Ended, abort_handler, vars
  <2>2. CASE opened' = opened
    BY <1>1, <2>1, <2>2
  <2>3. CASE opened' = Front(opened)
    <3>1. opened' \in Seq(XcPath) /\ Len(opened') <= Len(opened)
      BY <1>o, <2>3, FrontShorter
    <3> QED
      BY <1>o, <1>0, <2>1, <3>1
  <2> QED
    BY <2>1, <2>2, <2>3
<1> QED
  BY <1>2, <1>3, <1>4, <1>5, <1>6, <1>7, <1>8, <1>9, <1>10 DEF Next

\* A level, later: its directories are the same, and it does not go back to its files,
\* nor to a name it has seen.
Later(m, l) ==
    /\ l.src = m.src /\ l.dst = m.dst /\ l.made = m.made
    /\ m.phase = "dirs" => l.phase = "dirs" /\ m.seen \subseteq l.seen
Further(l) == Later(level, l)

\* The level of a directory in that of the last level, and the last level by then.
Down(name, l, k) ==
    /\ name \in XcName \ level.seen /\ level.phase = "dirs"
    /\ Further(l) /\ name \in l.seen
    /\ k.src = Append(level.src, name) /\ k.dst = Append(level.dst, name)
    /\ k.phase = "files"
    /\ k.made => Append(level.dst, name) \notin DOMAIN tree
    /\ IsSubdirectory(Append(level.src, name))

\* What a step does to the levels: nothing, a change of the last one, a level more for a
\* directory in it, or a level less.
LEMMA StackSteps ==
    ASSUME XcTypeInv, Next
    PROVE  \/ stack' = stack
           \/ \E l \in XcLevel : /\ stack' = [stack EXCEPT ![Len(stack)] = l] /\ Further(l)
                                 /\ l.phase # level.phase => opened' = <<>>
           \/ \E name \in Names(level.src), l, k \in XcLevel :
                /\ next_dir(name) /\ Down(name, l, k)
                /\ stack' = Append([stack EXCEPT ![Len(stack)] = l], k)
           \/ Len(stack) > 1 /\ stack' = Front(stack) /\ (files_done \/ dirs_done)
<1> USE DEF flags, disk, history
<1> DEFINE Change == \E l \in XcLevel : /\ stack' = [stack EXCEPT ![Len(stack)] = l] /\ Further(l)
                                        /\ l.phase # level.phase => opened' = <<>>
<1>0. level \in XcLevel /\ DOMAIN tree \subseteq XcPath /\ level.src \in XcPath
  BY Levels DEF XcTypeInv, XcLevel
<1>a. Len(stack) \in Nat \ {0}
  BY Levels
<1>1. ASSUME NEW phase \in {"files", "dirs"}, stack' = Search(phase), opened' = <<>>,
             phase = "dirs" => level.phase = "files", phase = "files" => level.phase = "files"
      PROVE  Change
  <2> DEFINE l == [level EXCEPT !.phase = phase, !.seen = {}, !.first = Names(level.src)]
  <2>1. stack' = [stack EXCEPT ![Len(stack)] = l] /\ l \in XcLevel
    BY <1>1, Levels
  <2>2. Further(l)
    BY <1>0, <1>1 DEF XcLevel, Further, Later
  <2> HIDE DEF l
  <2> QED
    BY <1>1, <2>1, <2>2
<1>2. ASSUME NEW name \in XcName
      PROVE  \E l \in XcLevel : /\ Seen(name) = [stack EXCEPT ![Len(stack)] = l]
                                /\ Further(l) /\ l.phase = level.phase /\ name \in l.seen
  <2> DEFINE l == [level EXCEPT !.seen = @ \cup {name}]
  <2>1. Seen(name) = [stack EXCEPT ![Len(stack)] = l] /\ l \in XcLevel
    BY Levels
  <2>2. Further(l) /\ l.phase = level.phase /\ name \in l.seen
    BY <1>0 DEF XcLevel, Further, Later
  <2> HIDE DEF l
  <2> QED
    BY <2>1, <2>2
<1>3. CASE main \/ get_drives \/ chk_and_open \/ find_new \/ open_file \/ do_write \/ ensure
           \/ set_time \/ set_file_attr \/ Terminate \/ Abort \/ Ended
  <2>1. stack' = stack
    BY <1>3 DEF main, get_drives, chk_and_open, find_new, open_file, do_write, ensure, set_time,
                set_file_attr, Terminate, Abort, Ended, vars
  <2> QED
    BY <2>1
<1>4. CASE enter
  <2>1. stack' = Search("files") /\ opened' = <<>> /\ level.phase = "files"
    BY <1>4 DEF enter, XcTypeInv
  <2> QED
    BY <1>1, <2>1
<1>5. ASSUME NEW name \in Names(level.src), NEW answer, next_file(name, answer) PROVE Change
  <2>1. stack' = Seen(name) /\ name \in XcName
    BY <1>0, <1>5, NamesAre DEF next_file
  <2> QED
    BY <1>2, <2>1
<1>6. CASE files_done \/ dirs_done
  <2>1. \/ stack' = Search("dirs") /\ opened' = <<>> /\ level.phase = "files"
        \/ stack' = stack
        \/ stack' = Front(stack) /\ Len(stack) > 1
    <3>1. \/ stack' = Search("dirs") /\ opened' = <<>> /\ level.phase = "files"
          \/ leave
      BY <1>6 DEF files_done, dirs_done
    <3>2. ASSUME leave PROVE stack' = IF Len(stack) = 1 THEN stack ELSE Front(stack)
      BY <3>2 DEF leave
    <3>3. Len(stack) # 1 => Len(stack) > 1
      <4>1. \A n \in Nat \ {0} : n # 1 => n > 1
        OBVIOUS
      <4> QED
        BY <1>a, <4>1
    <3> QED
      BY <3>1, <3>2, <3>3
  <2> QED
    BY <1>1, <1>6, <2>1
<1>7. ASSUME NEW name \in Names(level.src), next_dir(name)
      PROVE  \/ Change
             \/ \E l, k \in XcLevel : /\ Down(name, l, k)
                                      /\ stack' = Append([stack EXCEPT ![Len(stack)] = l], k)
  <2>1. name \in XcName
    BY <1>0, NamesAre
  <2>2. PICK l \in XcLevel : /\ Seen(name) = [stack EXCEPT ![Len(stack)] = l]
                             /\ Further(l) /\ l.phase = level.phase /\ name \in l.seen
    BY <1>2, <2>1
  <2>3. CASE stack' = Seen(name)
    BY <2>2, <2>3
  <2>4. CASE stack' # Seen(name)
    <3> DEFINE k == [src |-> Append(level.src, name), dst |-> Append(level.dst, name),
                     phase |-> "files", seen |-> {}, first |-> {},
                     made |-> Append(level.dst, name) \notin DOMAIN tree]
    <3>1. /\ stack' = Append(Seen(name), k) /\ IsSubdirectory(Append(level.src, name))
          /\ level.phase = "dirs" /\ name \notin level.seen
      BY <1>7, <2>4 DEF next_dir, Unseen
    <3>2. k \in XcLevel
      <4>1. level.src \in Seq(XcName) /\ level.dst \in Seq(XcName)
        BY <1>0 DEF XcLevel, XcPath
      <4>2. Append(level.src, name) \in XcPath /\ Append(level.dst, name) \in XcPath
        BY <2>1, <4>1 DEF XcPath
      <4>3. (Append(level.dst, name) \notin DOMAIN tree) \in BOOLEAN
        OBVIOUS
      <4> QED
        BY <4>2, <4>3 DEF XcLevel
    <3>3. /\ k.src = Append(level.src, name) /\ k.dst = Append(level.dst, name)
          /\ k.phase = "files" /\ (k.made => Append(level.dst, name) \notin DOMAIN tree)
      OBVIOUS
    <3> HIDE DEF k
    <3>4. Down(name, l, k)
      BY <2>1, <2>2, <3>1, <3>3 DEF Down
    <3> QED
      BY <2>2, <3>1, <3>2, <3>4
  <2> QED
    BY <2>3, <2>4
<1> QED
  BY <1>3, <1>4, <1>5, <1>6, <1>7 DEF Next

\* There is always a level.
LEMMA XcopyLevels ==
    ASSUME XcTypeInv, Next
    PROVE  stack' \in Seq(XcLevel) /\ Len(stack') > 0
<1>0. stack \in Seq(XcLevel) /\ Len(stack) > 0 /\ stack # <<>> /\ Len(stack) \in Nat
  BY DEF XcTypeInv
<1>1. CASE stack' = stack
  BY <1>0, <1>1
<1>2. ASSUME NEW l \in XcLevel, stack' = [stack EXCEPT ![Len(stack)] = l]
      PROVE  stack' \in Seq(XcLevel) /\ Len(stack') > 0
  <2>1. /\ [stack EXCEPT ![Len(stack)] = l] \in Seq(XcLevel)
        /\ Len([stack EXCEPT ![Len(stack)] = l]) = Len(stack)
    BY LevelChanges
  <2> QED
    BY <1>0, <1>2, <2>1
<1>3. ASSUME NEW l \in XcLevel, NEW k \in XcLevel,
             stack' = Append([stack EXCEPT ![Len(stack)] = l], k)
      PROVE  stack' \in Seq(XcLevel) /\ Len(stack') > 0
  <2>1. /\ [stack EXCEPT ![Len(stack)] = l] \in Seq(XcLevel)
        /\ Len([stack EXCEPT ![Len(stack)] = l]) = Len(stack)
    BY LevelChanges
  <2> DEFINE s == [stack EXCEPT ![Len(stack)] = l]
  <2>2. s \in Seq(XcLevel) /\ Len(s) \in Nat /\ stack' = Append(s, k)
    BY <1>0, <1>3, <2>1
  <2> HIDE DEF s
  <2> QED
    BY <2>2
<1>4. CASE Len(stack) > 1 /\ stack' = Front(stack)
  BY <1>0, <1>4, FrontOf
<1> QED
  BY <1>1, <1>2, <1>3, <1>4, StackSteps

\* The tree has entries of its kind.
LEMMA XcopyTree ==
    ASSUME XcTypeInv, Next
    PROVE  DOMAIN tree' \subseteq XcPath /\ \A p \in DOMAIN tree' : tree'[p] \in XcEntry
<1> USE DEF flags, disk, history
<1> DEFINE Good == DOMAIN tree' \subseteq XcPath /\ \A p \in DOMAIN tree' : tree'[p] \in XcEntry
<1>0. DOMAIN tree \subseteq XcPath /\ \A p \in DOMAIN tree : tree[p] \in XcEntry
  BY DEF XcTypeInv
<1>1. ASSUME NEW path, tree' = Without(path) \/ tree' = tree PROVE Good
  <2>1. \A p \in DOMAIN tree' : p \in DOMAIN tree /\ tree'[p] = tree[p]
    BY <1>1, TreeWithout
  <2> QED
    BY <1>0, <2>1
<1>2. CASE main \/ get_drives \/ enter \/ chk_and_open \/ open_file \/ ensure \/ Ended
  <2>1. tree' = tree
    BY <1>2 DEF main, get_drives, enter, chk_and_open, open_file, ensure, Ended, vars
  <2> QED
    BY <1>0, <2>1
<1>3. ASSUME NEW name, NEW answer, next_file(name, answer) PROVE Good
  <2>1. tree' = tree
    BY <1>3 DEF next_file
  <2> QED
    BY <1>0, <2>1
<1>4. CASE find_new
  <2>1. CASE pc' = "next"
    <3>1. tree' = tree
      BY <1>4, <2>1 DEF find_new
    <3> QED
      BY <1>0, <3>1
  <2>2. CASE pc' # "next"
    <3>1. /\ DOMAIN tree' = DOMAIN tree \cup {job.dst} /\ tree'[job.dst] \in XcEntry
          /\ \A p \in DOMAIN tree \ {job.dst} : tree'[p] = tree[p]
      BY <1>4, <2>2, TreeSteps
    <3>2. job.dst \in XcPath
      BY <1>4 DEF find_new, XcTypeInv, Copying
    <3> QED
      BY <1>0, <3>1, <3>2
  <2> QED
    BY <2>1, <2>2
<1>5. CASE do_write
  <2>1. CASE pc' = "write"
    <3>1. tree' = tree
      BY <1>5, <2>1 DEF do_write
    <3> QED
      BY <1>0, <3>1
  <2>2. CASE pc' # "write"
    <3>1. /\ DOMAIN tree' = DOMAIN tree /\ tree'[job.dst] \in XcEntry
          /\ \A p \in DOMAIN tree \ {job.dst} : tree'[p] = tree[p]
      BY <1>5, <2>2, TreeSteps
    <3> QED
      BY <1>0, <3>1
  <2> QED
    BY <2>1, <2>2
<1>6. CASE set_time \/ set_file_attr
  <2>1. DOMAIN tree' = DOMAIN tree /\ \A p \in DOMAIN tree : tree'[p] \in XcEntry
    BY <1>6, TreeSteps
  <2> QED
    BY <1>0, <2>1
<1>7. CASE files_done \/ dirs_done
  <2>1. tree' = Without(level.dst) \/ tree' = tree
    BY <1>7 DEF files_done, dirs_done, leave
  <2> QED
    BY <1>1, <2>1
<1>8. ASSUME NEW name \in Names(level.src), next_dir(name) PROVE Good
  <2> DEFINE from == Append(level.src, name)
             to == Append(level.dst, name)
  <2>1. tree' = tree \/ tree' = With(to, tree[from])
    BY <1>8 DEF next_dir
  <2>2. from \in DOMAIN tree /\ to \in XcPath
    <3>1. level \in XcLevel
      BY Levels
    <3>2. level.src \in XcPath /\ level.dst \in Seq(XcName)
      BY <3>1 DEF XcLevel, XcPath
    <3>3. from \in DOMAIN tree /\ name \in XcName
      BY <1>0, <3>2, NamesAre
    <3> QED
      BY <3>2, <3>3 DEF XcPath
  <2> HIDE DEF from, to
  <2>3. ASSUME tree' = With(to, tree[from]) PROVE Good
    <3>1. tree[from] \in XcEntry
      BY <1>0, <2>2
    <3> QED
      BY <1>0, <2>2, <2>3, <3>1, EntryWith
  <2>4. CASE tree' = tree
    BY <1>0, <2>4
  <2> QED
    BY <2>1, <2>3, <2>4
<1>9. CASE Terminate \/ Abort
  <2>1. tree' = Without(job.dst) \/ tree' = tree
    BY <1>9 DEF Terminate, Abort, abort_handler
  <2> QED
    BY <1>1, <2>1
<1> QED
  BY <1>2, <1>3, <1>4, <1>5, <1>6, <1>7, <1>8, <1>9 DEF Next

\* What is copied is a file of the directory it was found in.
LEMMA XcopyJobs ==
    ASSUME XcopyAssumption, XcTypeInv, Next
    PROVE  /\ Copying' => /\ job' \in [name : XcName, dst : XcPath, done : Nat]
                          /\ source' \in DOMAIN tree' /\ tree'[source'].kind = "file"
           /\ CopyThere' => job'.dst \in DOMAIN tree'
<1> USE DEF flags, disk, history
<1> DEFINE Good == /\ Copying' => /\ job' \in [name : XcName, dst : XcPath, done : Nat]
                                  /\ source' \in DOMAIN tree' /\ tree'[source'].kind = "file"
                   /\ CopyThere' => job'.dst \in DOMAIN tree'
<1>1. ASSUME pc' \in {"start", "flags", "enter", "next", "done", "end", "aborted"} PROVE Good
  BY <1>1 DEF Copying, CopyThere
<1>2. CASE main \/ get_drives \/ enter \/ set_file_attr \/ files_done \/ dirs_done \/ Terminate \/ Abort
  BY <1>1, <1>2 DEF main, get_drives, enter, set_file_attr, files_done, dirs_done, leave,
                    Terminate, Abort
<1>3. ASSUME NEW name, next_dir(name) PROVE Good
  BY <1>1, <1>3 DEF next_dir
<1>4. CASE Ended
  BY <1>1, <1>4 DEF Ended, vars
<1>5. ASSUME NEW name \in Names(level.src), NEW answer, next_file(name, answer) PROVE Good
  <2> DEFINE from == Append(level.src, name)
             to == Append(level.dst, expand_name(name))
  <2>1. pc = "next" /\ pc' \in {"next", "open"} /\ tree' = tree /\ stack' = Seen(name)
    BY <1>5 DEF next_file
  <2>2. CASE pc' = "next"
    BY <1>1, <2>2
  <2>3. CASE pc' = "open"
    <3>1. tree[from].kind = "file"
      BY <1>5, <2>1, <2>3 DEF next_file, Wanted
    <3>2. job' = [name |-> name, dst |-> to, done |-> 0]
      BY <1>5, <2>1, <2>3 DEF next_file
    <3>3. level \in XcLevel /\ case \in Cases /\ DOMAIN tree \subseteq XcPath
      BY Levels DEF XcTypeInv
    <3>4. level.src \in XcPath /\ level.dst \in Seq(XcName)
      BY <3>3 DEF XcLevel, XcPath
    <3>5. from \in DOMAIN tree /\ name \in XcName
      BY <3>3, <3>4, NamesAre
    <3>6. to \in XcPath
      <4>1. expand_name(name) \in XcName
        BY <3>3, <3>5, XcopyParsed
      <4> QED
        BY <3>4, <4>1 DEF XcPath
    <3>7. job' \in [name : XcName, dst : XcPath, done : Nat] /\ job'.name = name
      BY <3>2, <3>5, <3>6
    <3>8. level'.src = level.src
      <4> DEFINE l == [level EXCEPT !.seen = @ \cup {name}]
      <4>1. stack' = [stack EXCEPT ![Len(stack)] = l] /\ l \in XcLevel
        BY <2>1, <3>5, Levels
      <4>2. l.src = level.src
        BY <3>3 DEF XcLevel
      <4> HIDE DEF l
      <4>3. Len(stack') = Len(stack) /\ stack'[Len(stack)] = l
        BY <4>1, LevelChanges
      <4> QED
        BY <4>2, <4>3 DEF level, Last
    <3>9. source' = from
      BY <3>7, <3>8 DEF source
    <3> QED
      BY <2>1, <2>3, <3>1, <3>5, <3>7, <3>9 DEF CopyThere
  <2> QED
    BY <2>1, <2>2, <2>3
<1>6. ASSUME Copying, stack' = stack, job' = job
      PROVE  /\ source' = source /\ source \in DOMAIN tree /\ tree[source].kind = "file"
             /\ job \in [name : XcName, dst : XcPath, done : Nat]
  <2>1. level' = level
    BY <1>6 DEF level
  <2> QED
    BY <1>6, <2>1 DEF source, XcTypeInv
<1>7. CASE chk_and_open \/ open_file \/ ensure
  <2>1. /\ Copying /\ UNCHANGED <<stack, job, tree>>
        /\ CopyThere' => CopyThere
    BY <1>7 DEF chk_and_open, open_file, ensure, Copying, CopyThere
  <2>2. CopyThere => job.dst \in DOMAIN tree
    BY DEF XcTypeInv
  <2> QED
    BY <1>6, <2>1, <2>2
<1>8. CASE find_new
  <2>1. CASE pc' = "next"
    BY <1>1, <2>1
  <2>2. CASE pc' # "next"
    <3>1. /\ DOMAIN tree' = DOMAIN tree \cup {job.dst} /\ tree'[job.dst].kind = "file"
          /\ \A p \in DOMAIN tree \ {job.dst} : tree'[p] = tree[p]
      BY <1>8, <2>2, TreeSteps
    <3>2. Copying /\ UNCHANGED <<stack, job>>
      BY <1>8, <2>2 DEF find_new, Copying
    <3> QED
      BY <1>6, <3>1, <3>2
  <2> QED
    BY <2>1, <2>2
<1>9. CASE do_write
  <2>1. CASE pc' = "write"
    <3>1. /\ Copying /\ CopyThere /\ UNCHANGED <<stack, tree>>
          /\ job' = [job EXCEPT !.done = @ + 1]
      BY <1>9, <2>1 DEF do_write, Copying, CopyThere
    <3>2. /\ job \in [name : XcName, dst : XcPath, done : Nat]
          /\ source \in DOMAIN tree /\ tree[source].kind = "file" /\ job.dst \in DOMAIN tree
      BY <3>1 DEF XcTypeInv
    <3>3. /\ job' \in [name : XcName, dst : XcPath, done : Nat]
          /\ job'.name = job.name /\ job'.dst = job.dst
      BY <3>1, <3>2
    <3>4. source' = source
      BY <3>1, <3>3 DEF source, level
    <3> QED
      BY <3>1, <3>2, <3>3, <3>4
  <2>2. CASE pc' # "write"
    <3>1. /\ DOMAIN tree' = DOMAIN tree /\ tree'[job.dst].kind = tree[job.dst].kind
          /\ \A p \in DOMAIN tree \ {job.dst} : tree'[p] = tree[p]
      BY <1>9, <2>2, TreeSteps
    <3>2. Copying /\ CopyThere /\ UNCHANGED <<stack, job>>
      BY <1>9, <2>2 DEF do_write, Copying, CopyThere
    <3>3. job.dst \in DOMAIN tree
      BY <3>2 DEF XcTypeInv
    <3> QED
      BY <1>6, <3>1, <3>2, <3>3
  <2> QED
    BY <2>1, <2>2
<1>10. CASE set_time
  <2>1. DOMAIN tree' = DOMAIN tree /\ \A p \in DOMAIN tree : tree'[p].kind = tree[p].kind
    BY <1>10, TreeSteps
  <2>2. Copying /\ CopyThere /\ UNCHANGED <<stack, job>>
    BY <1>10 DEF set_time, Copying, CopyThere
  <2>3. job.dst \in DOMAIN tree
    BY <2>2 DEF XcTypeInv
  <2> QED
    BY <1>6, <2>1, <2>2, <2>3
<1> QED
  BY <1>2, <1>3, <1>4, <1>5, <1>7, <1>8, <1>9, <1>10 DEF Next

\* A level begins with its files.
LEMMA XcopyPhase ==
    ASSUME XcTypeInv, Next, pc' \in {"start", "flags", "enter"} PROVE level'.phase = "files"
<1> USE DEF flags, disk, history
<1>1. CASE stack' = stack /\ pc \in {"start", "flags", "enter"}
  BY <1>1 DEF XcTypeInv, level
<1>2. CASE main \/ get_drives
  <2>1. stack' = stack /\ pc \in {"start", "flags"}
    BY <1>2 DEF main, get_drives
  <2> QED
    BY <1>1, <2>1
<1>5. Ended => pc' \in {"end", "aborted"}
  BY DEF Ended, vars
<1>3. ASSUME NEW name \in Names(level.src), next_dir(name) PROVE level'.phase = "files"
  <2>1. pc' = "enter"
    BY <1>3 DEF next_dir
  <2> DEFINE k == [src |-> Append(level.src, name), dst |-> Append(level.dst, name),
                   phase |-> "files", seen |-> {}, first |-> {},
                   made |-> Append(level.dst, name) \notin DOMAIN tree]
  <2>2. stack' = Append(Seen(name), k)
    BY <1>3, <2>1 DEF next_dir
  <2>3. Seen(name) \in Seq(XcLevel)
    <3>1. level \in XcLevel /\ DOMAIN tree \subseteq XcPath
      BY Levels DEF XcTypeInv
    <3>2. name \in XcName
      BY <3>1, NamesAre DEF XcLevel
    <3> DEFINE l == [level EXCEPT !.seen = @ \cup {name}]
    <3>3. Seen(name) = [stack EXCEPT ![Len(stack)] = l] /\ l \in XcLevel
      BY <3>2, Levels
    <3> HIDE DEF l
    <3> QED
      BY <3>3, LevelChanges
  <2>4. k.phase = "files"
    OBVIOUS
  <2> HIDE DEF k
  <2> QED
    BY <2>2, <2>3, <2>4 DEF level, Last
<1>4. ASSUME NEW name, NEW answer, next_file(name, answer) PROVE pc' \in {"next", "open"}
  BY <1>4 DEF next_file
<1> QED
  BY <1>2, <1>3, <1>4, <1>5 DEF Next, enter, chk_and_open, find_new, open_file, do_write, ensure, set_time,
         set_file_attr, files_done, dirs_done, leave, Terminate, Abort

\* Every step keeps the types.
LEMMA XcopyTypes ==
    ASSUME XcopyAssumption, XcSafeInv, Next PROVE XcTypeInv'
<1>0. XcTypeInv
  BY DEF XcSafeInv
<1>1. /\ pc' \in {"start", "flags", "enter", "next", "done", "end", "aborted"} \/ Copying'
      /\ case' = case
  BY <1>0 DEF Next, main, get_drives, enter, next_file, chk_and_open, find_new, open_file, do_write,
              ensure, set_time, set_file_attr, files_done, next_dir, dirs_done, leave, Terminate,
              Abort, Ended, Copying, vars, flags, disk, history, XcTypeInv
<1>2. dup_mode' \in Options
  <2>1. dup_mode \in Options /\ opt.dup \in Options
    BY <1>0, XcopyCommands DEF XcTypeInv, opt
  <2>2. \/ dup_mode' = dup_mode \/ dup_mode' = opt.dup
        \/ dup_mode' \in {"overwrite", "skip"}
    <3>1. ASSUME NEW name, NEW answer, next_file(name, answer)
          PROVE  dup_mode' = dup_mode \/ dup_mode' \in {"overwrite", "skip"}
      BY <3>1 DEF next_file, dup_prompt
    <3> QED
      BY <3>1 DEF Next, main, get_drives, enter, chk_and_open, find_new, open_file, do_write,
                  ensure, set_time, set_file_attr, files_done, next_dir, dirs_done, Terminate,
                  Abort, Ended, vars, history
  <2> QED
    BY <2>1, <2>2 DEF Options
<1>3. joined' \in BOOLEAN
  <2>1. joined \in BOOLEAN
    BY <1>0 DEF XcTypeInv
  <2>2. CASE chk_and_open
    BY <2>2 DEF chk_and_open
  <2>3. CASE ~chk_and_open
    BY <2>1, <2>3 DEF Next, main, get_drives, enter, next_file, find_new, open_file, do_write,
                  ensure, set_time, set_file_attr, files_done, next_dir, dirs_done, Terminate,
                  Abort, Ended, vars, history
  <2> QED
    BY <2>2, <2>3
<1> QED
  BY <1>0, <1>1, <1>2, <1>3, XcopyHandles, XcopyLevels, XcopyTree, XcopyJobs, XcopyPhase DEF XcTypeInv

\* Every step keeps the first part of the invariant.
LEMMA XcopyStep ==
    ASSUME XcopyAssumption
    PROVE  XcSafeInv /\ [Next]_vars => XcSafeInv'
<1>1. ASSUME XcSafeInv, Next PROVE XcSafeInv'
  BY <1>1, XcopyTypes, XcopyFlags, XcopyWhole DEF XcSafeInv
<1>2. ASSUME XcSafeInv, UNCHANGED vars PROVE XcSafeInv'
  BY <1>2 DEF XcSafeInv, XcTypeInv, XcFlagInv, XcWholeInv, vars, history, Copying, CopyThere,
              source, level, Over
<1> QED
  BY <1>1, <1>2

\* It is enough for the clean end.
LEMMA XcopySafe ==
    ASSUME XcopyAssumption
    PROVE  XcSafeInv => ((pc = "end" => opened = <<>>) => CleanExit) /\ TypeOK
<1> SUFFICES ASSUME XcSafeInv PROVE ((pc = "end" => opened = <<>>) => CleanExit) /\ TypeOK
  OBVIOUS
<1>1. (pc = "end" => opened = <<>>) => CleanExit
  BY DEF XcSafeInv, XcFlagInv, XcWholeInv, CleanExit, Over
<1>2. TypeOK
  <2>1. /\ case \in Cases /\ Len(opened) <= MaxHandles /\ joined \in BOOLEAN /\ dup_mode \in Options
        /\ \A p \in DOMAIN tree : tree[p] \in XcEntry
        /\ stack \in Seq(XcLevel)
    BY DEF XcSafeInv, XcTypeInv
  <2>2. verify \in {0, 1} /\ verify_flag \in {0, 1, Unknown}
    BY <2>1, XcopyCommands DEF XcSafeInv, XcFlagInv, Over
  <2>3. file_not_ensured \in BOOLEAN
    BY DEF XcSafeInv, XcWholeInv
  <2>4. \A p \in DOMAIN tree : tree[p].kind \in {"file", "dir", "system"}
    BY <2>1 DEF XcEntry
  <2>5. ASSUME NEW i \in 1..Len(stack)
        PROVE  stack[i].phase \in {"files", "dirs"} /\ stack[i].made \in BOOLEAN
    <3>1. stack[i] \in XcLevel
      BY <2>1
    <3> QED
      BY <3>1 DEF XcLevel
  <2> QED
    BY <2>1, <2>2, <2>3, <2>4, <2>5 DEF TypeOK
<1> QED
  BY <1>1, <1>2

----------------------------------------------------------------------------
(* How deep XCOPY goes. *)

\* A path that starts with another one; one no longer than the longest of the source.
Under(top, p) == Len(top) <= Len(p) /\ \A i \in 1..Len(top) : p[i] = top[i]
Shallow(p) == \E q \in DOMAIN case.tree : Len(p) <= Len(q)
\* The target is further down than the source.
Inward == Len(src_parse.dir) < Len(dst_parse.dir)

\* The levels go down by one name each; a target further down is never gone into, and
\* what is deeper than the source was is in the target.
XcDepthInv ==
    /\ \A i \in 1..Len(stack) :
         /\ Len(stack[i].src) = Len(src_parse.dir) + i - 1
         /\ Len(stack[i].dst) = Len(dst_parse.dir) + i - 1
         /\ Under(dst_parse.dir, stack[i].dst)
         /\ Inward => ~Under(dst_parse.dir, stack[i].src)
         /\ Shallow(stack[i].src)
    /\ \A p \in DOMAIN tree :
         tree[p].kind = "dir" => Shallow(p) \/ (Inward /\ Under(dst_parse.dir, p))

\* A path with one name more.
LEMMA UnderAppend ==
    ASSUME NEW top \in XcPath, NEW p \in XcPath, NEW name \in XcName
    PROVE  /\ Append(p, name) \in XcPath /\ Len(Append(p, name)) = Len(p) + 1 /\ Len(p) \in Nat
           /\ Under(top, p) => Under(top, Append(p, name))
           /\ Under(top, Append(p, name)) => Under(top, p) \/ top = Append(p, name)
<1>1. top \in Seq(XcName) /\ p \in Seq(XcName)
  BY DEF XcPath
<1>2. /\ Append(p, name) \in Seq(XcName) /\ Len(Append(p, name)) = Len(p) + 1
      /\ Len(p) \in Nat /\ Len(top) \in Nat
      /\ \A i \in 1..Len(p) : Append(p, name)[i] = p[i]
  BY <1>1
<1>3. Append(p, name) \in XcPath
  BY <1>2 DEF XcPath
<1>4. ASSUME Under(top, p) PROVE Under(top, Append(p, name))
  BY <1>2, <1>4 DEF Under
<1>5. ASSUME Under(top, Append(p, name)), ~Under(top, p) PROVE top = Append(p, name)
  <2> DEFINE q == Append(p, name)
  <2>0. /\ q \in Seq(XcName) /\ Len(q) = Len(p) + 1 /\ \A i \in 1..Len(p) : q[i] = p[i]
        /\ Len(top) <= Len(q) /\ \A i \in 1..Len(top) : q[i] = top[i]
        /\ ~(Len(top) <= Len(p) /\ \A i \in 1..Len(top) : p[i] = top[i])
    BY <1>2, <1>5 DEF Under
  <2> HIDE DEF q
  <2>1. Len(top) = Len(q)
    BY <1>2, <2>0
  <2>2. \A i \in 1..Len(top) : top[i] = q[i]
    BY <2>0
  <2>3. top = q
    BY <1>1, <2>0, <2>1, <2>2
  <2> QED
    BY <2>3 DEF q
<1> QED
  BY <1>2, <1>3, <1>4, <1>5

\* The command line stays what it is.
LEMMA SameCommand ==
    ASSUME Next
    PROVE  case' = case /\ src_parse' = src_parse /\ dst_parse' = dst_parse
<1>1. case' = case
  BY DEF Next, main, get_drives, enter, next_file, chk_and_open, find_new, open_file, do_write,
         ensure, set_time, set_file_attr, files_done, next_dir, dirs_done, Terminate,
         Abort, Ended, vars, flags
<1> QED
  BY <1>1 DEF src_parse, dst_parse

\* The levels after a step: those there were, later, but for one that is gone, and one for
\* a directory in that of the last.
LEMMA LevelSteps ==
    ASSUME XcTypeInv, Next
    PROVE  \/ /\ Len(stack') = Len(stack) \/ (Len(stack) > 1 /\ Len(stack') = Len(stack) - 1
                                              /\ (files_done \/ dirs_done))
              /\ \A i \in 1..Len(stack') : Later(stack[i], stack'[i])
           \/ /\ Len(stack') = Len(stack) + 1
              /\ \A i \in 1..Len(stack) : Later(stack[i], stack'[i])
              /\ \E name \in Names(level.src) :
                   next_dir(name) /\ Down(name, stack'[Len(stack)], stack'[Len(stack')])
<1>0. stack \in Seq(XcLevel) /\ stack # <<>> /\ Len(stack) > 0 /\ level = stack[Len(stack)]
  BY DEF XcTypeInv, level, Last
<1>a. Len(stack) \in Nat
  BY <1>0
<1>1. CASE stack' = stack
  <2>1. \A i \in 1..Len(stack') : Later(stack[i], stack'[i])
    BY <1>1 DEF Later
  <2> QED
    BY <1>1, <2>1
<1>2. ASSUME NEW l \in XcLevel, Further(l), NEW s, s = [stack EXCEPT ![Len(stack)] = l]
      PROVE  /\ s \in Seq(XcLevel) /\ Len(s) = Len(stack) /\ s[Len(stack)] = l
             /\ \A j \in 1..Len(stack) : Later(stack[j], s[j])
  <2>1. /\ s \in Seq(XcLevel) /\ Len(s) = Len(stack)
        /\ s[Len(stack)] = l /\ \A j \in 1..Len(stack) - 1 : s[j] = stack[j]
    BY <1>2, LevelChanges
  <2>2. Later(stack[Len(stack)], s[Len(stack)])
    BY <1>0, <1>2, <2>1 DEF Further
  <2>3. \A j \in 1..Len(stack) - 1 : Later(stack[j], s[j])
    BY <2>1 DEF Later
  <2>4. \A j \in 1..Len(stack) : j \in 1..Len(stack) - 1 \/ j = Len(stack)
    BY <1>a
  <2> QED
    BY <2>1, <2>2, <2>3, <2>4
<1>3. ASSUME NEW l \in XcLevel, Further(l), stack' = [stack EXCEPT ![Len(stack)] = l]
      PROVE  Len(stack') = Len(stack) /\ \A i \in 1..Len(stack') : Later(stack[i], stack'[i])
  <2> DEFINE s == [stack EXCEPT ![Len(stack)] = l]
  <2>1. stack' = s
    BY <1>3
  <2>2. Len(s) = Len(stack) /\ \A j \in 1..Len(stack) : Later(stack[j], s[j])
    BY <1>2, <1>3
  <2> HIDE DEF s
  <2> QED
    BY <2>1, <2>2
<1>4. ASSUME NEW name \in Names(level.src), NEW l \in XcLevel, NEW k \in XcLevel, next_dir(name),
             Down(name, l, k), stack' = Append([stack EXCEPT ![Len(stack)] = l], k)
      PROVE  /\ Len(stack') = Len(stack) + 1
             /\ \A i \in 1..Len(stack) : Later(stack[i], stack'[i])
             /\ Down(name, stack'[Len(stack)], stack'[Len(stack')])
  <2> DEFINE s == [stack EXCEPT ![Len(stack)] = l]
  <2>1. stack' = Append(s, k) /\ Further(l)
    BY <1>4 DEF Down
  <2>2. /\ s \in Seq(XcLevel) /\ Len(s) = Len(stack) /\ s[Len(stack)] = l
        /\ \A j \in 1..Len(stack) : Later(stack[j], s[j])
    BY <1>2, <2>1
  <2> HIDE DEF s
  <2>3. Len(stack') = Len(stack) + 1 /\ stack'[Len(stack) + 1] = k
        /\ \A j \in 1..Len(stack) : stack'[j] = s[j]
    BY <1>a, <2>1, <2>2
  <2>4. Len(stack) \in 1..Len(stack)
    BY <1>0, <1>a
  <2> QED
    BY <1>4, <2>2, <2>3, <2>4
<1>5. ASSUME Len(stack) > 1, stack' = Front(stack)
      PROVE  Len(stack') = Len(stack) - 1 /\ \A i \in 1..Len(stack') : Later(stack[i], stack'[i])
  <2>1. Len(stack') = Len(stack) - 1 /\ \A j \in 1..Len(stack) - 1 : stack'[j] = stack[j]
    BY <1>0, <1>5, FrontOf
  <2> QED
    BY <2>1 DEF Later
<1> HIDE DEF Further
<1> QED
  BY <1>1, <1>3, <1>4, <1>5, StackSteps

\* The directories of a level: those it had, or those in the last level's.
LEMMA LevelDirs ==
    ASSUME XcTypeInv, Next, NEW i \in 1..Len(stack')
    PROVE  \/ i \in 1..Len(stack) /\ stack'[i].src = stack[i].src /\ stack'[i].dst = stack[i].dst
           \/ /\ i = Len(stack) + 1
              /\ \E name \in XcName : /\ IsSubdirectory(Append(level.src, name))
                                      /\ stack'[i].src = Append(level.src, name)
                                      /\ stack'[i].dst = Append(level.dst, name)
<1>0. Len(stack) \in Nat
  BY Levels
<1>1. CASE /\ Len(stack') = Len(stack) \/ (Len(stack) > 1 /\ Len(stack') = Len(stack) - 1)
           /\ \A j \in 1..Len(stack') : Later(stack[j], stack'[j])
  <2>1. i \in 1..Len(stack)
    BY <1>0, <1>1
  <2> QED
    BY <1>1, <2>1 DEF Later
<1>2. ASSUME Len(stack') = Len(stack) + 1, \A j \in 1..Len(stack) : Later(stack[j], stack'[j]),
             NEW name, Down(name, stack'[Len(stack)], stack'[Len(stack')])
      PROVE  \/ i \in 1..Len(stack) /\ stack'[i].src = stack[i].src /\ stack'[i].dst = stack[i].dst
             \/ /\ i = Len(stack) + 1 /\ name \in XcName
                /\ IsSubdirectory(Append(level.src, name))
                /\ stack'[i].src = Append(level.src, name)
                /\ stack'[i].dst = Append(level.dst, name)
  <2>1. i \in 1..Len(stack) \/ i = Len(stack')
    BY <1>0, <1>2
  <2>2. ASSUME i \in 1..Len(stack) PROVE stack'[i].src = stack[i].src /\ stack'[i].dst = stack[i].dst
    BY <1>2, <2>2 DEF Later
  <2>3. ASSUME i = Len(stack')
        PROVE  /\ name \in XcName /\ IsSubdirectory(Append(level.src, name))
               /\ stack'[i].src = Append(level.src, name)
               /\ stack'[i].dst = Append(level.dst, name)
    BY <1>2, <2>3 DEF Down
  <2> QED
    BY <1>2, <2>1, <2>2, <2>3
<1> QED
  BY <1>1, <1>2, LevelSteps

\* A directory was there, or is the copy of one that XCOPY goes into.
LEMMA DirSteps ==
    ASSUME XcTypeInv, Next, NEW p \in DOMAIN tree', tree'[p].kind = "dir"
    PROVE  \/ p \in DOMAIN tree /\ tree[p].kind = "dir"
           \/ \E name \in XcName : /\ p = Append(level.dst, name)
                                   /\ IsSubdirectory(Append(level.src, name))
<1> USE DEF flags, disk, history
<1>1. ASSUME NEW path, tree' = Without(path) \/ tree' = tree
      PROVE  p \in DOMAIN tree /\ tree[p].kind = "dir"
  BY <1>1, TreeWithout
<1>2. CASE main \/ get_drives \/ enter \/ chk_and_open \/ open_file \/ ensure \/ Ended
  <2>1. tree' = tree
    BY <1>2 DEF main, get_drives, enter, chk_and_open, open_file, ensure, Ended, vars
  <2> QED
    BY <1>1, <2>1
<1>3. ASSUME NEW name, NEW answer, next_file(name, answer)
      PROVE  p \in DOMAIN tree /\ tree[p].kind = "dir"
  <2>1. tree' = tree
    BY <1>3 DEF next_file
  <2> QED
    BY <1>1, <2>1
<1>4. CASE find_new
  <2>1. CASE pc' = "next"
    <3>1. tree' = tree
      BY <1>4, <2>1 DEF find_new
    <3> QED
      BY <1>1, <3>1
  <2>2. CASE pc' # "next"
    <3>1. /\ DOMAIN tree' = DOMAIN tree \cup {job.dst} /\ tree'[job.dst].kind = "file"
          /\ \A q \in DOMAIN tree \ {job.dst} : tree'[q] = tree[q]
      BY <1>4, <2>2, TreeSteps
    <3> QED
      BY <3>1
  <2> QED
    BY <2>1, <2>2
<1>5. CASE do_write
  <2>1. CASE pc' = "write"
    <3>1. tree' = tree
      BY <1>5, <2>1 DEF do_write
    <3> QED
      BY <1>1, <3>1
  <2>2. CASE pc' # "write"
    <3>1. /\ DOMAIN tree' = DOMAIN tree /\ tree'[job.dst].kind = tree[job.dst].kind
          /\ \A q \in DOMAIN tree \ {job.dst} : tree'[q] = tree[q]
      BY <1>5, <2>2, TreeSteps
    <3> QED
      BY <3>1
  <2> QED
    BY <2>1, <2>2
<1>6. CASE set_time \/ set_file_attr
  <2>1. DOMAIN tree' = DOMAIN tree /\ \A q \in DOMAIN tree : tree'[q].kind = tree[q].kind
    BY <1>6, TreeSteps
  <2> QED
    BY <2>1
<1>7. CASE files_done \/ dirs_done
  <2>1. tree' = Without(level.dst) \/ tree' = tree
    BY <1>7 DEF files_done, dirs_done, leave
  <2> QED
    BY <1>1, <2>1
<1>8. ASSUME NEW name \in Names(level.src), next_dir(name)
      PROVE  \/ p \in DOMAIN tree /\ tree[p].kind = "dir"
             \/ name \in XcName /\ p = Append(level.dst, name) /\ IsSubdirectory(Append(level.src, name))
  <2> DEFINE from == Append(level.src, name)
             to == Append(level.dst, name)
  <2>1. tree' = tree \/ (tree' = With(to, tree[from]) /\ IsSubdirectory(from))
    BY <1>8 DEF next_dir
  <2>2. level \in XcLevel /\ DOMAIN tree \subseteq XcPath
    BY Levels DEF XcTypeInv
  <2>3. name \in XcName
    BY <2>2, NamesAre DEF XcLevel
  <2> HIDE DEF from, to
  <2>4. ASSUME tree' = With(to, tree[from]), p # to PROVE p \in DOMAIN tree /\ tree[p].kind = "dir"
    <3>1. /\ DOMAIN With(to, tree[from]) = DOMAIN tree \cup {to}
          /\ \A q \in DOMAIN tree \ {to} : With(to, tree[from])[q] = tree[q]
      BY DEF With
    <3> QED
      BY <2>4, <3>1
  <2> QED
    BY <2>1, <2>3, <2>4 DEF from, to
<1>9. CASE Terminate \/ Abort
  <2>1. tree' = Without(job.dst) \/ tree' = tree
    BY <1>9 DEF Terminate, Abort, abort_handler
  <2> QED
    BY <1>1, <2>1
<1> QED
  BY <1>2, <1>3, <1>4, <1>5, <1>6, <1>7, <1>8, <1>9 DEF Next

\* A directory XCOPY goes into is no deeper than the source was, nor in a target further
\* down than the source.
LEMMA DirectoryBelow ==
    ASSUME XcopyAssumption, XcTypeInv, XcDepthInv, NEW name \in XcName, IsSubdirectory(Append(level.src, name))
    PROVE  /\ Shallow(Append(level.src, name))
           /\ Inward => ~Under(dst_parse.dir, Append(level.src, name))
<1> DEFINE from == Append(level.src, name)
<1>0. level \in XcLevel /\ level = stack[Len(stack)] /\ Len(stack) \in 1..Len(stack)
  BY Levels
<1>1. level.src \in XcPath /\ dst_parse.dir \in XcPath /\ src_parse.dir \in XcPath /\ case \in Cases
  BY <1>0, XcopyParsed DEF XcLevel, XcTypeInv
<1>2. from \in DOMAIN tree /\ tree[from].kind = "dir" /\ from # dst_parse.guard
  BY DEF IsSubdirectory, Is
<1>3. Inward => dst_parse.guard = dst_parse.dir
  <2>1. Len(src_parse.dir) \in Nat /\ Len(<<>>) = 0
    BY <1>1 DEF XcPath
  <2>2. Inward => dst_parse.dir # <<>>
    BY <2>1 DEF Inward
  <2> QED
    BY <2>2 DEF dst_parse
<1>4. Inward => ~Under(dst_parse.dir, level.src)
  BY <1>0 DEF XcDepthInv
<1>5. Inward => ~Under(dst_parse.dir, from)
  BY <1>1, <1>2, <1>3, <1>4, UnderAppend
<1> QED
  BY <1>2, <1>5 DEF XcDepthInv

\* It holds when XCOPY is started.
LEMMA XcopyDepthInit ==
    ASSUME XcopyAssumption
    PROVE  Init => XcDepthInv
<1> SUFFICES ASSUME Init PROVE XcDepthInv
  OBVIOUS
<1>1. case \in Cases /\ tree = case.tree
  BY DEF Init
<1>2. src_parse.dir \in Seq(XcName) /\ dst_parse.dir \in Seq(XcName)
  BY <1>1, XcopyParsed DEF XcPath
<1>3. Len(stack) = 1 /\ stack[1].src = src_parse.dir /\ stack[1].dst = dst_parse.dir
  BY DEF Init
<1>4. \A p \in DOMAIN tree : p \in XcPath
  BY <1>1, XcopyCases
<1>5. \A p \in XcPath : Len(p) \in Nat
  BY DEF XcPath
<1>6. \A p \in DOMAIN tree : Shallow(p)
  <2> TAKE p \in DOMAIN tree
  <2>1. Len(p) <= Len(p)
    BY <1>4, <1>5
  <2> QED
    BY <1>1, <2>1 DEF Shallow
<1>7. Shallow(src_parse.dir)
  <2>0. Shallow(case.from.dir)
    <3>1. case.from.dir = <<>> \/ case.from.dir \in DOMAIN case.tree
      BY <1>1 DEF XcopyAssumption
    <3>2. CASE case.from.dir \in DOMAIN case.tree
      BY <1>1, <1>6, <3>2
    <3>3. CASE case.from.dir = <<>>
      <4>1. PICK q \in DOMAIN case.tree : TRUE
        BY <1>1 DEF XcopyAssumption
      <4>2. Len(q) \in Nat /\ Len(<<>>) = 0
        BY <1>1, <1>4, <1>5, <4>1
      <4>3. Len(<<>>) <= Len(q)
        BY <4>2
      <4> QED
        BY <3>3, <4>1, <4>3 DEF Shallow
    <3> QED
      BY <3>1, <3>2, <3>3
  <2>1. src_parse.dir = case.from.dir \/ src_parse.dir \in DOMAIN case.tree
    BY DEF src_parse
  <2> QED
    BY <1>1, <1>6, <2>0, <2>1
<1>8. Under(dst_parse.dir, dst_parse.dir)
  BY <1>2 DEF Under
<1>9. Inward => ~Under(dst_parse.dir, src_parse.dir)
  BY <1>2 DEF Inward, Under
<1>10. Len(src_parse.dir) = Len(src_parse.dir) + 1 - 1 /\ Len(dst_parse.dir) = Len(dst_parse.dir) + 1 - 1
  BY <1>2
<1>11. \A i \in 1..1 : i = 1
  OBVIOUS
<1> QED
  BY <1>3, <1>6, <1>7, <1>8, <1>9, <1>10, <1>11 DEF XcDepthInv

\* Every step keeps the depth.
LEMMA XcopyDepthStep ==
    ASSUME XcopyAssumption, XcTypeInv, XcDepthInv, Next PROVE XcDepthInv'
<1> DEFINE S == src_parse.dir
           T == dst_parse.dir
           Good(i, l) == /\ Len(l.src) = Len(S) + i - 1 /\ Len(l.dst) = Len(T) + i - 1
                         /\ Under(T, l.dst) /\ (Inward => ~Under(T, l.src)) /\ Shallow(l.src)
<1>0. /\ level \in XcLevel /\ level = stack[Len(stack)] /\ Len(stack) \in 1..Len(stack)
      /\ Len(stack) \in Nat
  BY Levels
<1>1. level.src \in XcPath /\ level.dst \in XcPath /\ T \in XcPath /\ S \in XcPath /\ case \in Cases
  BY <1>0, XcopyParsed DEF XcLevel, XcTypeInv
<1>2. Len(S) \in Nat /\ Len(T) \in Nat /\ \A p \in XcPath : Len(p) \in Nat
  BY <1>1 DEF XcPath
<1>3. \A i \in 1..Len(stack) : Good(i, stack[i])
  BY DEF XcDepthInv
<1>4. ASSUME NEW name \in XcName, IsSubdirectory(Append(level.src, name)),
             NEW l, l.src = Append(level.src, name), l.dst = Append(level.dst, name)
      PROVE  Good(Len(stack) + 1, l)
  <2>1. Good(Len(stack), level)
    BY <1>0, <1>3
  <2>2. Len(l.src) = Len(level.src) + 1 /\ Len(l.dst) = Len(level.dst) + 1 /\ Under(T, l.dst)
    BY <1>1, <1>4, <2>1, UnderAppend
  <2>3. (Inward => ~Under(T, l.src)) /\ Shallow(l.src)
    BY <1>4, DirectoryBelow
  <2>4. Len(l.src) = Len(S) + (Len(stack) + 1) - 1 /\ Len(l.dst) = Len(T) + (Len(stack) + 1) - 1
    BY <1>0, <1>1, <1>2, <2>1, <2>2
  <2> QED
    BY <2>2, <2>3, <2>4
<1>5. \A i \in 1..Len(stack') : Good(i, stack'[i])
  <2> TAKE i \in 1..Len(stack')
  <2> HIDE DEF Good
  <2>1. CASE i \in 1..Len(stack) /\ stack'[i].src = stack[i].src /\ stack'[i].dst = stack[i].dst
    BY <1>3, <2>1 DEF Good
  <2>2. CASE i = Len(stack) + 1 /\ \E name \in XcName : /\ IsSubdirectory(Append(level.src, name))
                                      /\ stack'[i].src = Append(level.src, name)
                                      /\ stack'[i].dst = Append(level.dst, name)
    BY <1>4, <2>2
  <2> QED
    BY <2>1, <2>2, LevelDirs
<1>6. ASSUME NEW p \in DOMAIN tree', tree'[p].kind = "dir"
      PROVE  Shallow(p) \/ (Inward /\ Under(T, p))
  <2>1. CASE p \in DOMAIN tree /\ tree[p].kind = "dir"
    BY <2>1 DEF XcDepthInv
  <2>2. ASSUME NEW name \in XcName, p = Append(level.dst, name),
               IsSubdirectory(Append(level.src, name))
        PROVE  Shallow(p) \/ (Inward /\ Under(T, p))
    <3> DEFINE from == Append(level.src, name)
    <3>1. Shallow(from)
      BY <2>2, DirectoryBelow
    <3>2. Good(Len(stack), level)
      BY <1>0, <1>3
    <3>3. Under(T, p) /\ Len(p) = Len(level.dst) + 1 /\ Len(from) = Len(level.src) + 1
      BY <1>1, <2>2, <3>2, UnderAppend
    <3>4. ASSUME ~Inward PROVE Shallow(p)
      <4>1. Len(T) <= Len(S)
        BY <1>2, <3>4 DEF Inward
      <4>2. Len(level.src) = Len(S) + Len(stack) - 1 /\ Len(level.dst) = Len(T) + Len(stack) - 1
        BY <3>2
      <4>3. Len(p) <= Len(from) /\ Len(p) \in Nat /\ Len(from) \in Nat
        BY <1>0, <1>2, <3>3, <4>1, <4>2
      <4>4. PICK q \in DOMAIN case.tree : Len(from) <= Len(q)
        BY <3>1 DEF Shallow
      <4>5. Len(q) \in Nat
        BY <1>1, <1>2, <4>4, XcopyCases
      <4>6. Len(p) <= Len(q)
        BY <4>3, <4>4, <4>5
      <4> QED
        BY <4>4, <4>6 DEF Shallow
    <3> QED
      BY <3>3, <3>4
  <2> QED
    BY <1>6, <2>1, <2>2, DirSteps
<1>7. case' = case /\ src_parse' = src_parse /\ dst_parse' = dst_parse
  BY SameCommand
<1>8. (\A p : Shallow(p)' <=> Shallow(p)) /\ (Inward' <=> Inward)
  BY <1>7 DEF Shallow, Inward
<1> QED
  BY <1>5, <1>6, <1>7, <1>8 DEF XcDepthInv

\* The longest path of the source.
LEMMA XcopyShallow ==
    ASSUME XcopyAssumption
    PROVE  XcTypeInv /\ XcDepthInv => NoRunaway
<1> SUFFICES ASSUME XcTypeInv, XcDepthInv PROVE NoRunaway
  OBVIOUS
<1> DEFINE Lens == {Len(p) : p \in DOMAIN case.tree}
           m == Max(Lens)
<1>0. case \in Cases /\ Len(stack) \in 1..Len(stack) /\ Len(stack) \in Nat
  BY Levels DEF XcTypeInv
<1>1. \A p \in DOMAIN case.tree : Len(p) \in Nat
  BY <1>0, XcopyCases DEF XcPath
<1>2. \E x \in Lens : \A y \in Lens : x >= y
  <2>1. PICK p \in DOMAIN case.tree : \A q \in DOMAIN case.tree : Len(q) <= Len(p)
    BY <1>0 DEF XcopyAssumption
  <2>2. \A y \in Lens : Len(p) >= y
    BY <1>1, <2>1
  <2> QED
    BY <2>2
<1>3. m \in Lens /\ \A y \in Lens : m >= y
  BY <1>2 DEF Max
<1>4. PICK q \in DOMAIN case.tree : Len(stack[Len(stack)].src) <= Len(q)
  BY <1>0 DEF XcDepthInv, Shallow
<1>5. Len(stack[Len(stack)].src) = Len(src_parse.dir) + Len(stack) - 1
  BY <1>0 DEF XcDepthInv
<1>6. Len(src_parse.dir) \in Nat
  BY <1>0, XcopyParsed DEF XcPath
<1>7. Len(q) \in Lens /\ m \in Int
  BY <1>1, <1>3
<1> HIDE DEF Lens, m
<1>8. Len(stack) <= 1 + m - Len(src_parse.dir)
  BY <1>0, <1>1, <1>3, <1>4, <1>5, <1>6, <1>7
<1> QED
  BY <1>8 DEF m, Lens, NoRunaway

----------------------------------------------------------------------------
(* What keeps the data of the copied files. *)

\* XCOPY is done; source and target are one directory.
Finished == pc \in {"done", "end", "aborted"}
Same == src_parse.dir = dst_parse.dir

\* The levels follow one path, its names seen, and only the last of them copies files.
XcPathInv ==
    /\ \A i \in 1..Len(stack) : \A j \in i + 1..Len(stack) :
         /\ stack[i].phase = "dirs" /\ Under(stack[i].dst, stack[j].dst)
         /\ stack[j].dst[Len(stack[i].dst) + 1] \in stack[i].seen
    /\ \A i \in 1..Len(stack) :
         /\ Under(src_parse.dir, stack[i].src)
         /\ Same => stack[i].src = stack[i].dst
         /\ stack[i].made => i > 1 /\ Is(stack[i].dst, "dir")
    /\ pc \in {"start", "flags", "enter", "done", "end"} \/ level.phase = "dirs" => opened = <<>>

\* The file at work: its source and its copy are in the directories of the last level.
XcCopyInv ==
    /\ Copying => level.phase = "files" /\ Front(job.dst) = level.dst
                  /\ Len(job.dst) = Len(level.dst) + 1
    /\ pc = "new" => Last(opened) = source
    /\ CopyThere => tree[job.dst].kind = "file" /\ tree[job.dst].data = tree[source].data
    /\ CopyThere /\ pc # "opendst" => job.dst \in Range(opened)

\* A directory into which files are yet to be copied, or are being copied.
Future(dir) ==
    \E i \in 1..Len(stack) :
      /\ Under(stack[i].dst, dir) /\ Len(dir) > Len(stack[i].dst)
      /\ stack[i].phase = "files" \/ dir[Len(stack[i].dst) + 1] \notin stack[i].seen
Active(dir) == level.phase = "files" /\ dir = level.dst

\* The files whose handles stay open while files are copied in this directory.
Held == Range(IF pc = "new" THEN Front(opened) ELSE opened)

\* No copy is put into the directory of p any more, or none as long as q is held.
Settled(p, q) == ~Future(Front(p)) /\ (Active(Front(p)) => q \in Held)

\* The data of a file that was copied is in another one that is not replaced, and
\* data that is not where it was at first has gone one way, or cannot go back.
Kept(d) ==
    \E p \in DOMAIN tree :
      /\ p # d /\ tree[p].kind = "file" /\ tree[p].whole /\ tree[p].data = d
      /\ ~Finished => p # <<>> /\ Settled(p, p) /\ (CopyThere => p # job.dst)
Moved(p) ==
    LET d == tree[p].data IN
    \/ Inward /\ Len(d) < Len(p)
    \/ Len(dst_parse.dir) < Len(src_parse.dir) /\ Len(p) < Len(d)
    \/ Len(dst_parse.dir) = Len(src_parse.dir) /\ ~Same /\ Under(dst_parse.dir, p)
    \/ Same /\ p # <<>> /\ Settled(p, d)
\* The data of the copied files is kept, as long as no handles were joined.
XcKeptInv ==
    ~joined =>
      /\ \A d \in copied : Kept(d)
      /\ ~Finished => \A p \in DOMAIN tree :
                        tree[p].kind = "file" => tree[p].data = p \/ Moved(p)
      /\ CopyThere => job.dst # tree[source].data

\* What a level is, and how deep.
LEMMA LevelsAre ==
    ASSUME XcopyAssumption, XcTypeInv, XcDepthInv, NEW i \in 1..Len(stack)
    PROVE  /\ stack[i] \in XcLevel /\ stack[i].src \in XcPath /\ stack[i].dst \in XcPath
           /\ Len(stack[i].dst) \in Nat /\ Len(dst_parse.dir) \in Nat
           /\ Len(stack[i].dst) = Len(dst_parse.dir) + i - 1
<1>1. stack[i] \in XcLevel
  BY DEF XcTypeInv
<1>2. stack[i].src \in XcPath /\ stack[i].dst \in XcPath
  BY <1>1 DEF XcLevel
<1>3. case \in Cases
  BY DEF XcTypeInv
<1>4. dst_parse.dir \in XcPath
  BY <1>3, XcopyParsed
<1>5. Len(stack[i].dst) \in Nat /\ Len(dst_parse.dir) \in Nat
  BY <1>2, <1>4 DEF XcPath
<1>6. Len(stack[i].dst) = Len(dst_parse.dir) + i - 1
  BY DEF XcDepthInv
<1> QED
  BY <1>1, <1>2, <1>5, <1>6

\* A directory after the step.
StaysDir(p) == p \in DOMAIN tree' /\ tree'[p].kind = "dir"

\* A directory stays, unless it is that of the last level, new and empty.
LEMMA DirsStay ==
    ASSUME XcTypeInv, XcWholeInv, XcCopyInv, Next, NEW path, Is(path, "dir")
    PROVE  \/ StaysDir(path)
           \/ (files_done \/ dirs_done) /\ leave /\ level.made /\ path = level.dst
<1> USE DEF flags, disk, history, Is, StaysDir
<1>1. CASE main \/ get_drives \/ enter \/ chk_and_open \/ open_file \/ ensure \/ Ended
  BY <1>1 DEF main, get_drives, enter, chk_and_open, open_file, ensure, Ended, vars
<1>2. ASSUME NEW name, NEW answer, next_file(name, answer) PROVE StaysDir(path)
  BY <1>2 DEF next_file
<1>3. CASE find_new
  <2>1. CASE pc' = "next"
    BY <1>3, <2>1 DEF find_new
  <2>2. CASE pc' # "next"
    <3>1. /\ DOMAIN tree' = DOMAIN tree \cup {job.dst}
          /\ \A p \in DOMAIN tree \ {job.dst} : tree'[p] = tree[p]
      BY <1>3, <2>2, TreeSteps
    <3>2. ~Is(job.dst, "dir")
      BY <1>3, <2>2 DEF find_new
    <3> QED
      BY <3>1, <3>2
  <2> QED
    BY <2>1, <2>2
<1>4. CASE do_write
  <2>1. CASE pc' = "write"
    BY <1>4, <2>1 DEF do_write
  <2>2. CASE pc' # "write"
    <3>1. /\ DOMAIN tree' = DOMAIN tree /\ tree'[job.dst].kind = tree[job.dst].kind
          /\ \A p \in DOMAIN tree \ {job.dst} : tree'[p] = tree[p]
      BY <1>4, <2>2, TreeSteps
    <3> QED
      BY <3>1
  <2> QED
    BY <2>1, <2>2
<1>5. CASE set_time \/ set_file_attr
  <2>1. DOMAIN tree' = DOMAIN tree /\ \A p \in DOMAIN tree : tree'[p].kind = tree[p].kind
    BY <1>5, TreeSteps
  <2> QED
    BY <2>1
<1>6. CASE files_done \/ dirs_done
  <2>1. tree' = tree \/ (leave /\ level.made /\ tree' = Without(level.dst))
    BY <1>6 DEF files_done, dirs_done, leave
  <2>2. CASE tree' = tree
    BY <2>2
  <2>3. CASE tree' = Without(level.dst) /\ path # level.dst
    BY <2>3, TreeWithout
  <2> QED
    BY <1>6, <2>1, <2>2, <2>3
<1>7. ASSUME NEW name, next_dir(name) PROVE StaysDir(path)
  <2> DEFINE from == Append(level.src, name)
             to == Append(level.dst, name)
  <2>1. tree' = tree \/ (to \notin DOMAIN tree /\ tree' = With(to, tree[from]))
    BY <1>7 DEF next_dir
  <2> HIDE DEF from, to
  <2>2. ASSUME to \notin DOMAIN tree, tree' = With(to, tree[from]) PROVE StaysDir(path)
    BY <2>2 DEF With
  <2> QED
    BY <2>1, <2>2
<1>8. CASE Terminate \/ Abort
  <2>1. tree' = tree \/ (tree' = Without(job.dst) /\ file_not_ensured)
    BY <1>8 DEF Terminate, Abort, abort_handler
  <2>2. file_not_ensured => tree[job.dst].kind = "file"
    BY DEF XcWholeInv, XcCopyInv, CopyThere
  <2>3. CASE tree' = Without(job.dst) /\ file_not_ensured
    <3>1. path # job.dst
      BY <2>2, <2>3
    <3> QED
      BY <2>3, <3>1, TreeWithout
  <2> QED
    BY <2>1, <2>3
<1> QED
  BY <1>1, <1>2, <1>3, <1>4, <1>5, <1>6, <1>7, <1>8 DEF Next

\* The directory that XCOPY goes into, when it is a new one.
LEMMA NewDirectory ==
    ASSUME NEW name, next_dir(name), IsSubdirectory(Append(level.src, name)),
           NEW to, to = Append(level.dst, name), to \notin DOMAIN tree
    PROVE  StaysDir(to)
<1> DEFINE e == tree[Append(level.src, name)]
<1>1. tree' = With(to, e)
  BY DEF next_dir
<1>2. e.kind = "dir"
  BY DEF IsSubdirectory, Is
<1> HIDE DEF e
<1> QED
  BY <1>1, <1>2 DEF StaysDir, With

\* It holds when XCOPY is started.
LEMMA XcopyPathInit ==
    ASSUME XcopyAssumption
    PROVE  Init => XcPathInv /\ XcCopyInv
<1> SUFFICES ASSUME Init PROVE XcPathInv /\ XcCopyInv
  OBVIOUS
<1>1. /\ case \in Cases /\ opened = <<>> /\ pc = "start"
      /\ stack = <<[src |-> src_parse.dir, dst |-> dst_parse.dir, phase |-> "files", seen |-> {},
                    first |-> {}, made |-> FALSE]>>
  BY DEF Init
<1>2. src_parse.dir \in Seq(XcName)
  BY <1>1, XcopyParsed DEF XcPath
<1>3. /\ Len(stack) = 1 /\ stack[1].src = src_parse.dir /\ stack[1].dst = dst_parse.dir
      /\ stack[1].made = FALSE
  BY <1>1
<1>4. Under(src_parse.dir, src_parse.dir)
  BY <1>2 DEF Under
<1>5. XcPathInv
  <2>1. \A i \in 1..Len(stack) : i = 1 /\ \A j \in i + 1..Len(stack) : FALSE
    BY <1>3
  <2> QED
    BY <1>1, <1>3, <1>4, <2>1 DEF XcPathInv, Same
<1>6. XcCopyInv
  BY <1>1 DEF XcCopyInv, Copying, CopyThere
<1> QED
  BY <1>5, <1>6

\* The levels follow one path.
LEMMA XcopyPaths ==
    ASSUME XcopyAssumption, XcTypeInv, XcDepthInv, XcPathInv, Next
    PROVE  \A i \in 1..Len(stack') : \A j \in i + 1..Len(stack') :
             /\ stack'[i].phase = "dirs" /\ Under(stack'[i].dst, stack'[j].dst)
             /\ stack'[j].dst[Len(stack'[i].dst) + 1] \in stack'[i].seen
<1> DEFINE Good(m, l) == /\ m.phase = "dirs" /\ Under(m.dst, l.dst)
                         /\ l.dst[Len(m.dst) + 1] \in m.seen
<1>0. Len(stack) \in Nat \ {0} /\ level = stack[Len(stack)]
  BY Levels
<1>1. \A i \in 1..Len(stack) : \A j \in i + 1..Len(stack) : Good(stack[i], stack[j])
  BY DEF XcPathInv
<1>2. ASSUME NEW m, NEW l, NEW x, NEW y, Good(m, l), Later(m, x), Later(l, y) PROVE Good(x, y)
  BY <1>2 DEF Later
<1> SUFFICES ASSUME NEW i \in 1..Len(stack'), NEW j \in i + 1..Len(stack')
             PROVE  Good(stack'[i], stack'[j])
  OBVIOUS
<1>3. CASE /\ Len(stack') = Len(stack) \/ (Len(stack) > 1 /\ Len(stack') = Len(stack) - 1)
           /\ \A n \in 1..Len(stack') : Later(stack[n], stack'[n])
  <2>1. i \in 1..Len(stack) /\ j \in i + 1..Len(stack) /\ j \in 1..Len(stack')
    BY <1>0, <1>3
  <2>2. Good(stack[i], stack[j]) /\ Later(stack[i], stack'[i]) /\ Later(stack[j], stack'[j])
    BY <1>1, <1>3, <2>1
  <2> HIDE DEF Good
  <2> QED
    BY <1>2, <2>2
<1>4. ASSUME Len(stack') = Len(stack) + 1, \A n \in 1..Len(stack) : Later(stack[n], stack'[n]),
             NEW name, Down(name, stack'[Len(stack)], stack'[Len(stack')])
      PROVE  Good(stack'[i], stack'[j])
  <2>0. i \in 1..Len(stack) /\ (j \in i + 1..Len(stack) \/ j = Len(stack'))
    BY <1>0, <1>4
  <2>1. CASE j \in i + 1..Len(stack)
    <3>1. j \in 1..Len(stack)
      BY <1>0, <2>0, <2>1
    <3>2. Good(stack[i], stack[j]) /\ Later(stack[i], stack'[i]) /\ Later(stack[j], stack'[j])
      BY <1>1, <1>4, <2>0, <2>1, <3>1
    <3> HIDE DEF Good
    <3> QED
      BY <1>2, <3>2
  <2>2. CASE j = Len(stack')
    <3> DEFINE k == stack'[Len(stack')]
    <3>1. /\ k.dst = Append(level.dst, name) /\ name \in XcName
          /\ level.phase = "dirs" /\ Further(stack'[Len(stack)]) /\ name \in stack'[Len(stack)].seen
      BY <1>4 DEF Down
    <3>2. level.dst \in XcPath /\ Len(level.dst) \in Nat
          /\ Len(level.dst) = Len(dst_parse.dir) + Len(stack) - 1
      BY <1>0, LevelsAre
    <3>3. Under(stack[i].dst, level.dst) /\ stack[i].dst \in XcPath
      <4>1. stack[i].dst \in XcPath
        BY <2>0, LevelsAre
      <4>2. CASE i = Len(stack)
        <5>1. level.dst \in Seq(XcName)
          BY <3>2 DEF XcPath
        <5>2. Under(level.dst, level.dst)
          BY <5>1 DEF Under
        <5> QED
          BY <1>0, <4>1, <4>2, <5>2
      <4>3. CASE i # Len(stack)
        <5>1. Len(stack) \in i + 1..Len(stack)
          BY <1>0, <2>0, <4>3
        <5> QED
          BY <1>0, <1>1, <2>0, <4>1, <5>1
      <4> QED
        BY <4>1, <4>2, <4>3
    <3>4. Under(stack[i].dst, k.dst)
      BY <3>1, <3>2, <3>3, UnderAppend
    <3>5. CASE i = Len(stack)
      <4>1. stack'[i].phase = "dirs" /\ stack'[i].dst = level.dst /\ name \in stack'[i].seen
        BY <3>1, <3>5 DEF Further, Later
      <4>2. k.dst[Len(level.dst) + 1] = name
        <5>1. level.dst \in Seq(XcName)
          BY <3>2 DEF XcPath
        <5> QED
          BY <3>1, <5>1
      <4> QED
        BY <1>0, <2>2, <3>4, <3>5, <4>1, <4>2
    <3>6. CASE i # Len(stack)
      <4>1. Len(stack) \in i + 1..Len(stack) /\ i < Len(stack)
        BY <1>0, <2>0, <3>6
      <4>2. Good(stack[i], level) /\ Later(stack[i], stack'[i])
        BY <1>0, <1>1, <1>4, <2>0, <4>1
      <4>3. Len(stack[i].dst) = Len(dst_parse.dir) + i - 1 /\ Len(stack[i].dst) \in Nat
            /\ Len(dst_parse.dir) \in Nat
        BY <2>0, LevelsAre
      <4>4. Len(stack[i].dst) + 1 \in 1..Len(level.dst)
        BY <1>0, <2>0, <3>2, <4>1, <4>3
      <4>5. k.dst[Len(stack[i].dst) + 1] = level.dst[Len(stack[i].dst) + 1]
        <5>1. level.dst \in Seq(XcName)
          BY <3>2 DEF XcPath
        <5> QED
          BY <3>1, <4>4, <5>1
      <4>6. Good(stack[i], k)
        BY <3>4, <4>2, <4>5
      <4> QED
        BY <2>2, <4>2, <4>6 DEF Later
    <3> QED
      BY <3>5, <3>6
  <2> QED
    BY <2>0, <2>1, <2>2
<1> HIDE DEF Good
<1> QED
  BY <1>3, <1>4, LevelSteps

\* The entries of a level that is new are a directory's.
LEMMA XcopyMade ==
    ASSUME XcopyAssumption, XcSafeInv, XcDepthInv, XcPathInv, XcCopyInv, Next
    PROVE  \A i \in 1..Len(stack') :
             /\ Under(src_parse.dir, stack'[i].src)
             /\ Same => stack'[i].src = stack'[i].dst
             /\ stack'[i].made => i > 1 /\ StaysDir(stack'[i].dst)
<1> DEFINE Good(i, l) == Under(src_parse.dir, l.src) /\ (Same => l.src = l.dst) /\ (l.made => i > 1)
           Stays(path) == \/ StaysDir(path)
                          \/ (files_done \/ dirs_done) /\ leave /\ level.made /\ path = level.dst
<1> SUFFICES \A i \in 1..Len(stack') :
               Good(i, stack'[i]) /\ (stack'[i].made => StaysDir(stack'[i].dst))
  OBVIOUS
<1>t. XcTypeInv /\ XcWholeInv
  BY DEF XcSafeInv
<1>0. Len(stack) \in Nat \ {0} /\ level = stack[Len(stack)] /\ level \in XcLevel
  BY <1>t, Levels
<1>1. \A i \in 1..Len(stack) : Good(i, stack[i]) /\ (stack[i].made => Is(stack[i].dst, "dir"))
  BY DEF XcPathInv
<1>2. \A path : Is(path, "dir") => Stays(path)
  BY <1>t, DirsStay
<1>3. ASSUME NEW i \in 1..Len(stack), i \in 1..Len(stack'), Later(stack[i], stack'[i]),
             i < Len(stack) \/ ~leave \/ ~(files_done \/ dirs_done) \/ Len(stack) = 1
      PROVE  Good(i, stack'[i]) /\ (stack'[i].made => StaysDir(stack'[i].dst))
  <2>1. Good(i, stack'[i]) /\ stack'[i].dst = stack[i].dst /\ stack'[i].made = stack[i].made
    BY <1>1, <1>3 DEF Later
  <2>2. ASSUME stack'[i].made PROVE StaysDir(stack'[i].dst)
    <3> DEFINE d == stack[i].dst
    <3>1. Stays(d) /\ i > 1
      BY <1>1, <1>2, <2>1, <2>2
    <3>2. ASSUME (files_done \/ dirs_done) /\ leave /\ level.made /\ d = level.dst PROVE FALSE
      <4>1. i < Len(stack)
        BY <1>0, <1>3, <3>1, <3>2
      <4>2. /\ Len(d) = Len(dst_parse.dir) + i - 1 /\ Len(dst_parse.dir) \in Nat
            /\ Len(level.dst) = Len(dst_parse.dir) + Len(stack) - 1
        BY <1>t, <1>0, LevelsAre
      <4> HIDE DEF d
      <4> QED
        BY <1>0, <3>2, <4>1, <4>2
    <3>3. \A p : p = d => (StaysDir(p) \/ ((files_done \/ dirs_done) /\ leave /\ level.made /\ p = level.dst))
      BY <3>1
    <3>4. stack'[i].dst = d
      BY <2>1
    <3> QED
      BY <3>2, <3>3, <3>4
  <2> QED
    BY <2>1, <2>2
<1>4. CASE /\ Len(stack') = Len(stack) \/ (Len(stack) > 1 /\ Len(stack') = Len(stack) - 1)
           /\ \A n \in 1..Len(stack') : Later(stack[n], stack'[n])
  <2> SUFFICES ASSUME NEW i \in 1..Len(stack')
               PROVE  Good(i, stack'[i]) /\ (stack'[i].made => StaysDir(stack'[i].dst))
    OBVIOUS
  <2>1. i \in 1..Len(stack) /\ Later(stack[i], stack'[i])
    BY <1>0, <1>4
  <2>2. i < Len(stack) \/ ~leave \/ ~(files_done \/ dirs_done) \/ Len(stack) = 1
    <3>1. ASSUME leave, Len(stack) # 1 PROVE i < Len(stack)
      <4>1. stack' = Front(stack)
        BY <3>1 DEF leave
      <4>2. stack \in Seq(XcLevel) /\ stack # <<>>
        BY <1>t DEF XcTypeInv
      <4>3. Len(stack') = Len(stack) - 1
        BY <4>1, <4>2, FrontOf
      <4> QED
        BY <1>0, <4>3
    <3> QED
      BY <3>1
  <2> HIDE DEF Good
  <2> QED
    BY <1>3, <2>1, <2>2
<1>5. ASSUME Len(stack') = Len(stack) + 1, \A n \in 1..Len(stack) : Later(stack[n], stack'[n]),
             NEW name, next_dir(name), Down(name, stack'[Len(stack)], stack'[Len(stack')]),
             NEW i \in 1..Len(stack')
      PROVE  Good(i, stack'[i]) /\ (stack'[i].made => StaysDir(stack'[i].dst))
  <2>0. i \in 1..Len(stack) \/ i = Len(stack')
    BY <1>0, <1>5
  <2>1. CASE i \in 1..Len(stack)
    <3>1. ~leave
      <4>1. ASSUME leave PROVE FALSE
        <5>1. stack' = stack \/ stack' = Front(stack)
          BY <4>1 DEF leave
        <5>2. stack \in Seq(XcLevel) /\ stack # <<>>
          BY <1>t DEF XcTypeInv
        <5>3. Len(Front(stack)) = Len(stack) - 1
          BY <5>2, FrontOf
        <5> QED
          BY <1>0, <1>5, <5>1, <5>3
      <4> QED
        BY <4>1
    <3> HIDE DEF Good
    <3> QED
      BY <1>3, <1>5, <2>1, <3>1
  <2>2. CASE i = Len(stack')
    <3> DEFINE to == Append(level.dst, name)
    <3>1. /\ stack'[i].src = Append(level.src, name) /\ stack'[i].dst = to /\ name \in XcName
          /\ stack'[i].made => to \notin DOMAIN tree
          /\ IsSubdirectory(Append(level.src, name))
      BY <1>5, <2>2, Zenon DEF Down
    <3>2. Good(Len(stack), level)
      BY <1>0, <1>1
    <3>3. case \in Cases /\ level.src \in XcPath
      BY <1>t, <1>0 DEF XcTypeInv, XcLevel
    <3>4. src_parse.dir \in XcPath
      BY <3>3, XcopyParsed
    <3>5. Under(src_parse.dir, stack'[i].src) /\ (Same => stack'[i].src = stack'[i].dst)
      <4>1. Under(src_parse.dir, level.src) /\ (Same => level.src = level.dst)
        BY <3>2
      <4> HIDE DEF Good, Later, Down, to
      <4>2. Same => stack'[i].src = stack'[i].dst
        BY <3>1, <4>1 DEF to
      <4>3. Under(src_parse.dir, stack'[i].src)
        BY <3>1, <3>3, <3>4, <4>1, UnderAppend
      <4> QED
        BY <4>2, <4>3
    <3>6. i > 1
      BY <1>0, <1>5, <2>2
    <3>7. ASSUME stack'[i].made PROVE StaysDir(stack'[i].dst)
      <4>1. \A p : p = to => StaysDir(p)
        <5> SUFFICES ASSUME NEW p, p = to PROVE StaysDir(p)
          OBVIOUS
        <5>1. p = Append(level.dst, name) /\ p \notin DOMAIN tree
          BY <3>1, <3>7
        <5> HIDE DEF to
        <5> QED
          BY <1>5, <3>1, <5>1, NewDirectory
      <4>2. stack'[i].dst = to
        BY <3>1
      <4> QED
        BY <4>1, <4>2
    <3> QED
      BY <3>5, <3>6, <3>7
  <2> QED
    BY <2>0, <2>1, <2>2
<1> HIDE DEF Good
<1>6. \A i \in 1..Len(stack') : Good(i, stack'[i]) /\ (stack'[i].made => StaysDir(stack'[i].dst))
  <2>1. CASE /\ Len(stack') = Len(stack) + 1
             /\ \A i \in 1..Len(stack) : Later(stack[i], stack'[i])
             /\ \E name \in Names(level.src) :
                  next_dir(name) /\ Down(name, stack'[Len(stack)], stack'[Len(stack')])
    BY <1>5, <2>1
  <2>2. CASE /\ Len(stack') = Len(stack) \/ (Len(stack) > 1 /\ Len(stack') = Len(stack) - 1
                                                /\ (files_done \/ dirs_done))
             /\ \A i \in 1..Len(stack') : Later(stack[i], stack'[i])
    <3>1. Len(stack') = Len(stack) \/ (Len(stack) > 1 /\ Len(stack') = Len(stack) - 1)
      BY <2>2
    <3> QED
      BY <1>4, <2>2, <3>1
  <2> QED
    BY <1>t, <2>1, <2>2, LevelSteps
<1> QED
  BY <1>6

\* The last level, when one more of its names was seen.
LEMMA SeenLevel ==
    ASSUME XcTypeInv, NEW name \in Names(level.src), stack' = Seen(name)
    PROVE  /\ name \in XcName /\ level'.src = level.src /\ level'.dst = level.dst
           /\ level'.phase = level.phase
<1>0. level \in XcLevel /\ DOMAIN tree \subseteq XcPath
  BY Levels DEF XcTypeInv
<1>1. name \in XcName
  BY <1>0, NamesAre DEF XcLevel
<1> DEFINE l == [level EXCEPT !.seen = @ \cup {name}]
<1>2. stack' = [stack EXCEPT ![Len(stack)] = l] /\ l \in XcLevel
  BY <1>1, Levels
<1>3. l.src = level.src /\ l.dst = level.dst /\ l.phase = level.phase
  BY <1>0 DEF XcLevel
<1> HIDE DEF l
<1>4. Len(stack') = Len(stack) /\ stack'[Len(stack)] = l
  BY <1>2, LevelChanges
<1> QED
  BY <1>1, <1>3, <1>4 DEF level, Last

\* The actions on the file at work.
CopyStep == chk_and_open \/ find_new \/ open_file \/ do_write \/ ensure \/ set_time \/ set_file_attr
\* They leave the levels alone.
LEMMA CopyStepLevel ==
    ASSUME CopyStep
    PROVE  /\ Copying /\ stack' = stack /\ level' = level /\ (Copying' \/ pc' = "next")
<1>1. Copying /\ stack' = stack /\ (Copying' \/ pc' = "next")
  <2>1. CASE chk_and_open \/ find_new \/ open_file
    BY <2>1 DEF chk_and_open, find_new, open_file, Copying
  <2>2. CASE do_write \/ ensure \/ set_time \/ set_file_attr
    BY <2>2 DEF do_write, ensure, set_time, set_file_attr, Copying
  <2> QED
    BY <2>1, <2>2 DEF CopyStep
<1> QED
  BY <1>1 DEF level

\* No handle is open but in the file phase of a directory.
LEMMA XcopyIdle ==
    ASSUME XcSafeInv, XcPathInv, XcCopyInv, Next
    PROVE  pc' \in {"start", "flags", "enter", "done", "end"} \/ level'.phase = "dirs" => opened' = <<>>
<1> USE DEF flags, disk, history, XcSafeInv
<1>0. pc \in {"start", "flags", "enter", "done", "end"} \/ level.phase = "dirs" => opened = <<>>
  BY DEF XcPathInv
<1>1. CASE main \/ get_drives
  BY <1>0, <1>1 DEF main, get_drives
<1>2. CASE enter \/ files_done
  BY <1>2 DEF enter, files_done
<1>3. ASSUME NEW name \in Names(level.src), NEW answer, next_file(name, answer)
      PROVE  pc' \in {"next", "open"} /\ level'.phase = "files"
  <2>1. pc' \in {"next", "open"} /\ level.phase = "files" /\ stack' = Seen(name)
    BY <1>3 DEF next_file
  <2> QED
    BY <2>1, SeenLevel
<1>4. CASE CopyStep
  <2>1. level'.phase = "files" /\ (Copying' \/ pc' = "next")
    BY <1>4, CopyStepLevel DEF XcCopyInv
  <2> QED
    BY <2>1 DEF Finished, Copying
<1>5. ASSUME NEW name, next_dir(name) \/ dirs_done PROVE opened' = <<>>
  BY <1>0, <1>5 DEF next_dir, dirs_done
<1>6. CASE dirs_done
  BY <1>5, <1>6
<1>7. CASE Terminate \/ Abort
  <2>1. /\ (pc = "done" /\ pc' = "end") \/ pc' = "aborted"
        /\ stack' = stack /\ opened' = IF file_not_ensured THEN Front(opened) ELSE opened
    BY <1>7 DEF Terminate, Abort, abort_handler
  <2>2. level' = level
    BY <2>1 DEF level
  <2>3. file_not_ensured => Copying /\ pc # "done" /\ level.phase = "files"
    BY DEF XcWholeInv, XcCopyInv, Copying
  <2> QED
    BY <1>0, <2>1, <2>2, <2>3
<1>8. CASE Ended
  <2>1. opened' = opened /\ pc' = pc /\ stack' = stack
    BY <1>8 DEF Ended, vars
  <2>2. level' = level
    BY <2>1 DEF level
  <2> QED
    BY <1>0, <2>1, <2>2
<1> QED
  BY <1>1, <1>2, <1>3, <1>4, <1>5, <1>6, <1>7, <1>8 DEF Next, CopyStep, Finished

\* Every step keeps the path of the levels.
LEMMA XcopyPathStep ==
    ASSUME XcopyAssumption, XcSafeInv, XcDepthInv, XcPathInv, XcCopyInv, Next PROVE XcPathInv'
<1>1. XcTypeInv /\ src_parse' = src_parse /\ dst_parse' = dst_parse
  BY SameCommand DEF XcSafeInv
<1>2. Same' <=> Same
  BY <1>1 DEF Same
<1>3. \A i \in 1..Len(stack') :
        /\ Under(src_parse.dir, stack'[i].src)
        /\ Same => stack'[i].src = stack'[i].dst
        /\ stack'[i].made => i > 1 /\ stack'[i].dst \in DOMAIN tree'
                            /\ tree'[stack'[i].dst].kind = "dir"
  BY XcopyMade DEF StaysDir
<1>4. \A i \in 1..Len(stack') : \A j \in i + 1..Len(stack') :
             /\ stack'[i].phase = "dirs" /\ Under(stack'[i].dst, stack'[j].dst)
             /\ stack'[j].dst[Len(stack'[i].dst) + 1] \in stack'[i].seen
  BY <1>1, XcopyPaths
<1>5. pc' \in {"start", "flags", "enter", "done", "end"} \/ level'.phase = "dirs" => opened' = <<>>
  BY <1>1, XcopyIdle
<1> QED
  BY <1>1, <1>2, <1>3, <1>4, <1>5 DEF XcPathInv, Is

\* The last and all but the last of what was appended to.
LEMMA AppendParts ==
    ASSUME NEW S, NEW q \in Seq(S), NEW x \in S
    PROVE  /\ Append(q, x) \in Seq(S) /\ Len(Append(q, x)) = Len(q) + 1 /\ Len(q) \in Nat
           /\ Last(Append(q, x)) = x /\ Front(Append(q, x)) = q
<1> DEFINE r == Append(q, x)
<1>1. r \in Seq(S) /\ Len(r) = Len(q) + 1 /\ Len(q) \in Nat /\ r[Len(q) + 1] = x
      /\ \A i \in 1..Len(q) : r[i] = q[i]
  OBVIOUS
<1> HIDE DEF r
<1>2. r # <<>>
  <2>1. Len(<<>>) = 0
    OBVIOUS
  <2>2. Len(q) + 1 # 0
    BY <1>1
  <2> QED
    BY <1>1, <2>1, <2>2
<1>3. Last(r) = x
  BY <1>1 DEF Last
<1>4. /\ Front(r) \in Seq(S) /\ Len(Front(r)) = Len(r) - 1
      /\ \A i \in 1..Len(r) - 1 : Front(r)[i] = r[i]
  BY <1>1, <1>2, FrontOf
<1>5. Len(Front(r)) = Len(q) /\ \A i \in 1..Len(q) : Front(r)[i] = q[i]
  BY <1>1, <1>4
<1>6. Front(r) = q
  BY <1>4, <1>5
<1> QED
  BY <1>1, <1>3, <1>6 DEF r

\* Every step keeps the file at work in its directories.
LEMMA XcopyCopyStep ==
    ASSUME XcopyAssumption, XcTypeInv, XcCopyInv, Next PROVE XcCopyInv'
<1> USE DEF flags, disk, history
<1>0. /\ Copying => level.phase = "files" /\ Front(job.dst) = level.dst
                    /\ Len(job.dst) = Len(level.dst) + 1
      /\ pc = "new" => Last(opened) = source
      /\ CopyThere => tree[job.dst].kind = "file" /\ tree[job.dst].data = tree[source].data
      /\ CopyThere /\ pc # "opendst" => job.dst \in Range(opened)
  BY DEF XcCopyInv
<1>1. ASSUME pc' \in {"start", "flags", "enter", "next", "done", "end", "aborted"} PROVE XcCopyInv'
  BY <1>1 DEF XcCopyInv, Copying, CopyThere
<1>2. CASE main \/ get_drives \/ enter \/ set_file_attr \/ files_done \/ dirs_done \/ Terminate \/ Abort
  BY <1>1, <1>2 DEF main, get_drives, enter, set_file_attr, files_done, dirs_done, leave,
                    Terminate, Abort
<1>3. ASSUME NEW name, next_dir(name) PROVE XcCopyInv'
  BY <1>1, <1>3 DEF next_dir
<1>4. CASE Ended
  BY <1>1, <1>4 DEF Ended, vars
<1>5. ASSUME NEW name \in Names(level.src), NEW answer, next_file(name, answer) PROVE XcCopyInv'
  <2> DEFINE to == Append(level.dst, expand_name(name))
  <2>1. pc' \in {"next", "open"} /\ level.phase = "files" /\ stack' = Seen(name)
    BY <1>5 DEF next_file
  <2>2. CASE pc' = "next"
    BY <1>1, <2>2
  <2>3. CASE pc' = "open"
    <3>1. job' = [name |-> name, dst |-> to, done |-> 0]
      BY <1>5, <2>3 DEF next_file
    <3>2. name \in XcName /\ level'.dst = level.dst /\ level'.phase = "files"
      BY <2>1, SeenLevel
    <3>3. case \in Cases /\ level \in XcLevel
      BY Levels DEF XcTypeInv
    <3>4. expand_name(name) \in XcName /\ level.dst \in Seq(XcName)
      BY <3>2, <3>3, XcopyParsed DEF XcLevel, XcPath
    <3>5. Front(to) = level.dst /\ Len(to) = Len(level.dst) + 1
      BY <3>4, AppendParts
    <3>6. job'.dst = to
      BY <3>1
    <3> HIDE DEF to
    <3> QED
      BY <2>3, <3>2, <3>5, <3>6 DEF XcCopyInv, CopyThere
  <2> QED
    BY <2>1, <2>2, <2>3
<1>6. ASSUME Copying, level' = level, job' = job
      PROVE  /\ source' = source
             /\ level'.phase = "files" /\ Front(job'.dst) = level'.dst
             /\ Len(job'.dst) = Len(level'.dst) + 1
  BY <1>0, <1>6 DEF source
<1>7. CASE chk_and_open
  <2>1. /\ Copying /\ level' = level /\ job' = job /\ pc' = "new"
        /\ \E q \in Seq(XcPath) : opened' = Append(q, source)
    <3>1. <<>> \in Seq(XcPath) /\ opened \in Seq(XcPath)
      BY DEF XcTypeInv
    <3> QED
      BY <1>7, <3>1 DEF chk_and_open, Copying, level
  <2>2. source \in XcPath
    BY <2>1 DEF XcTypeInv
  <2>3. Last(opened') = source
    BY <2>1, <2>2, AppendParts
  <2> QED
    BY <1>6, <2>1, <2>3 DEF XcCopyInv, CopyThere
<1>8. CASE find_new
  <2>1. CASE pc' = "next"
    BY <1>1, <2>1
  <2>2. CASE pc' # "next"
    <3>1. /\ pc' = "opendst" /\ tree'[job.dst].kind = "file"
          /\ tree'[job.dst].data = tree[source].data
          /\ \A p \in DOMAIN tree \ {job.dst} : tree'[p] = tree[p]
      BY <1>8, <2>2, TreeSteps
    <3>2. Copying /\ level' = level /\ job' = job
      BY <1>8, <2>2 DEF find_new, Copying, level
    <3>3. source \in DOMAIN tree
      BY <3>2 DEF XcTypeInv
    <3> QED
      BY <1>6, <3>1, <3>2, <3>3 DEF XcCopyInv
  <2> QED
    BY <2>1, <2>2
<1>9. CASE open_file
  <2>1. /\ Copying /\ CopyThere /\ level' = level /\ UNCHANGED <<job, tree>>
        /\ opened' = Append(opened, job.dst) /\ pc' = "write"
    BY <1>9 DEF open_file, Copying, CopyThere, level
  <2>2. opened \in Seq(XcPath) /\ job.dst \in XcPath
    BY <2>1 DEF XcTypeInv
  <2>3. job.dst \in Range(opened')
    <3>1. /\ Len(opened') \in 1..Len(opened') /\ DOMAIN opened' = 1..Len(opened')
          /\ opened'[Len(opened')] = job.dst
      BY <2>1, <2>2
    <3> QED
      BY <3>1 DEF Range
  <2> QED
    BY <1>0, <1>6, <2>1, <2>3 DEF XcCopyInv
<1>10. CASE do_write
  <2>0. Copying /\ CopyThere /\ level' = level /\ opened' = opened /\ pc = "write"
    BY <1>10 DEF do_write, Copying, CopyThere, level
  <2>1. CASE pc' = "write"
    <3>1. tree' = tree /\ job' = [job EXCEPT !.done = @ + 1]
      BY <1>10, <2>1 DEF do_write
    <3>2. job \in [name : XcName, dst : XcPath, done : Nat]
      BY <2>0 DEF XcTypeInv
    <3>3. job'.name = job.name /\ job'.dst = job.dst
      BY <3>1, <3>2
    <3>4. source' = source
      BY <2>0, <3>3 DEF source
    <3> QED
      BY <1>0, <2>0, <2>1, <3>1, <3>3, <3>4 DEF XcCopyInv
  <2>2. CASE pc' # "write"
    <3>1. /\ pc' = "ensure" /\ tree'[job.dst].kind = tree[job.dst].kind
          /\ tree'[job.dst].data = tree[job.dst].data
          /\ \A p \in DOMAIN tree \ {job.dst} : tree'[p] = tree[p]
      BY <1>10, <2>2, TreeSteps
    <3>2. job' = job
      BY <1>10, <3>1 DEF do_write
    <3>3. source \in DOMAIN tree
      BY <2>0 DEF XcTypeInv
    <3>4. tree'[source].data = tree[source].data
      BY <3>1, <3>3
    <3> QED
      BY <1>0, <1>6, <2>0, <3>1, <3>2, <3>4 DEF XcCopyInv
  <2> QED
    BY <2>1, <2>2
<1>11. CASE ensure
  <2>1. /\ Copying /\ CopyThere /\ pc # "opendst" /\ level' = level /\ UNCHANGED <<job, tree, opened>>
        /\ pc' = "attr"
    BY <1>11 DEF ensure, Copying, CopyThere, level
  <2> QED
    BY <1>0, <1>6, <2>1 DEF XcCopyInv
<1>12. CASE set_time
  <2>1. \A p \in DOMAIN tree : tree'[p].kind = tree[p].kind /\ tree'[p].data = tree[p].data
    BY <1>12, TreeSteps
  <2>2. /\ Copying /\ CopyThere /\ pc # "opendst" /\ level' = level /\ UNCHANGED <<job, opened>>
        /\ pc' = "archive"
    BY <1>12 DEF set_time, Copying, CopyThere, level
  <2>3. source \in DOMAIN tree /\ job.dst \in DOMAIN tree
    BY <2>2 DEF XcTypeInv
  <2> QED
    BY <1>0, <1>6, <2>1, <2>2, <2>3 DEF XcCopyInv
<1> QED
  BY <1>2, <1>3, <1>4, <1>5, <1>7, <1>8, <1>9, <1>10, <1>11, <1>12 DEF Next

\* A directory in that of the last level is one to come.
LEMMA FutureBelow ==
    ASSUME XcTypeInv, NEW name, name \notin level.seen, name \in XcName,
           NEW dir, Len(dir) \in Nat, Under(Append(level.dst, name), dir)
    PROVE  Future(dir)
<1>0. level \in XcLevel /\ level = stack[Len(stack)] /\ Len(stack) \in 1..Len(stack)
  BY Levels
<1>1. level.dst \in Seq(XcName)
  BY <1>0 DEF XcLevel, XcPath
<1> DEFINE q == Append(level.dst, name)
<1>2. /\ Len(q) = Len(level.dst) + 1 /\ q[Len(level.dst) + 1] = name /\ Len(level.dst) \in Nat
      /\ \A i \in 1..Len(level.dst) : q[i] = level.dst[i]
  BY <1>1
<1>3. Len(q) <= Len(dir) /\ \A i \in 1..Len(q) : dir[i] = q[i]
  BY DEF Under
<1> HIDE DEF q
<1>4. /\ Len(level.dst) <= Len(dir) /\ Len(dir) > Len(level.dst)
      /\ \A i \in 1..Len(level.dst) : dir[i] = level.dst[i]
      /\ dir[Len(level.dst) + 1] = name
  <2>1. Len(dir) >= Len(level.dst) + 1
    BY <1>2, <1>3
  <2>2. Len(level.dst) <= Len(dir) /\ Len(dir) > Len(level.dst)
    BY <1>2, <2>1
  <2>3. \A i \in 1..Len(level.dst) : i \in 1..Len(q)
    BY <1>2
  <2>4. Len(level.dst) + 1 \in 1..Len(q)
    BY <1>2
  <2> QED
    BY <1>2, <1>3, <2>2, <2>3, <2>4
<1> QED
  BY <1>0, <1>4 DEF Future, Under

\* What is to come after a step was to come before it.
LEMMA FutureSteps ==
    ASSUME XcTypeInv, Next, NEW dir, Len(dir) \in Nat, Future(dir)' PROVE Future(dir)
<1>0. Len(stack) \in Nat \ {0} /\ \A i \in 1..Len(stack) : stack[i] \in XcLevel
  BY Levels DEF XcTypeInv
<1> DEFINE Open(l) == /\ Under(l.dst, dir) /\ Len(dir) > Len(l.dst)
                      /\ l.phase = "files" \/ dir[Len(l.dst) + 1] \notin l.seen
<1>1. PICK i \in 1..Len(stack') : Open(stack'[i])
  BY DEF Future
<1>2. ASSUME i \in 1..Len(stack), Later(stack[i], stack'[i]) PROVE Future(dir)
  <2>1. stack[i].phase = "files" \/ stack[i].phase = "dirs"
    <3>1. stack[i] \in XcLevel
      BY <1>0, <1>2
    <3> QED
      BY <3>1 DEF XcLevel
  <2>2. Open(stack[i])
    BY <1>1, <1>2, <2>1 DEF Later
  <2> QED
    BY <1>2, <2>2 DEF Future
<1>3. ASSUME NEW name, Down(name, stack'[Len(stack)], stack'[Len(stack')]), i = Len(stack')
      PROVE  Future(dir)
  <2>1. /\ name \in XcName /\ name \notin level.seen
        /\ stack'[i].dst = Append(level.dst, name)
    BY <1>3 DEF Down
  <2>2. Under(Append(level.dst, name), dir)
    BY <1>1, <2>1
  <2> QED
    BY <2>1, <2>2, FutureBelow
<1>4. CASE /\ Len(stack') = Len(stack) \/ (Len(stack) > 1 /\ Len(stack') = Len(stack) - 1)
           /\ \A n \in 1..Len(stack') : Later(stack[n], stack'[n])
  <2>1. i \in 1..Len(stack)
    BY <1>0, <1>4
  <2> QED
    BY <1>2, <1>4, <2>1
<1>5. ASSUME Len(stack') = Len(stack) + 1, \A n \in 1..Len(stack) : Later(stack[n], stack'[n]),
             NEW name, Down(name, stack'[Len(stack)], stack'[Len(stack')])
      PROVE  Future(dir)
  <2>1. i \in 1..Len(stack) \/ i = Len(stack')
    BY <1>0, <1>5
  <2> QED
    BY <1>2, <1>3, <1>5, <2>1
<1> QED
  BY <1>4, <1>5, LevelSteps

\* Files are copied into a directory that was to come, or into the one they were.
LEMMA ActiveSteps ==
    ASSUME XcTypeInv, XcPathInv, Next, NEW dir, Active(dir)', ~Active(dir) PROVE Future(dir)
<1>0. Len(stack) \in Nat \ {0} /\ level = stack[Len(stack)] /\ level \in XcLevel
  BY Levels
<1>1. level' = stack'[Len(stack')] /\ level'.phase = "files" /\ dir = level'.dst
  BY DEF Active, level, Last
<1>2. ASSUME Len(stack') = Len(stack), Later(stack[Len(stack)], stack'[Len(stack)]) PROVE FALSE
  <2>1. level.phase = "files" \/ level.phase = "dirs"
    BY <1>0 DEF XcLevel
  <2>2. level.phase = "files" /\ dir = level.dst
    BY <1>0, <1>1, <1>2, <2>1 DEF Later
  <2> QED
    BY <2>2 DEF Active
<1>3. ASSUME Len(stack) > 1, Len(stack') = Len(stack) - 1,
             Later(stack[Len(stack) - 1], stack'[Len(stack) - 1])
      PROVE FALSE
  <2>1. Len(stack) - 1 \in 1..Len(stack) /\ Len(stack) \in (Len(stack) - 1) + 1..Len(stack)
    BY <1>0, <1>3
  <2>2. stack[Len(stack) - 1].phase = "dirs"
    BY <2>1 DEF XcPathInv
  <2> QED
    BY <1>1, <1>3, <2>2 DEF Later
<1>4. ASSUME NEW name, Down(name, stack'[Len(stack)], stack'[Len(stack')]) PROVE Future(dir)
  <2>1. name \in XcName /\ name \notin level.seen /\ dir = Append(level.dst, name)
    BY <1>1, <1>4 DEF Down
  <2>2. level.dst \in Seq(XcName)
    BY <1>0 DEF XcLevel, XcPath
  <2>3. dir \in Seq(XcName)
    BY <2>1, <2>2
  <2>4. Under(Append(level.dst, name), dir)
    BY <2>1, <2>3 DEF Under
  <2> QED
    BY <2>1, <2>4, FutureBelow
<1>5. CASE /\ Len(stack') = Len(stack) \/ (Len(stack) > 1 /\ Len(stack') = Len(stack) - 1)
           /\ \A n \in 1..Len(stack') : Later(stack[n], stack'[n])
  <2>1. Len(stack) \in 1..Len(stack) /\ (Len(stack) > 1 => Len(stack) - 1 \in 1..Len(stack) - 1)
    BY <1>0
  <2> QED
    BY <1>2, <1>3, <1>5, <2>1
<1> QED
  BY <1>4, <1>5, LevelSteps

\* The elements of a sequence that grows or shrinks.
LEMMA RangeParts ==
    ASSUME NEW S, NEW q \in Seq(S), NEW x \in S
    PROVE  /\ Range(q) \subseteq Range(Append(q, x)) /\ x \in Range(Append(q, x))
           /\ q # <<>> => Range(Front(q)) \subseteq Range(q) /\ Last(q) \in Range(q)
<1>1. Len(q) \in Nat /\ DOMAIN q = 1..Len(q) /\ Range(q) = {q[i] : i \in 1..Len(q)}
  BY DEF Range
<1>2. /\ DOMAIN Append(q, x) = 1..Len(q) + 1 /\ Append(q, x)[Len(q) + 1] = x
      /\ \A i \in 1..Len(q) : Append(q, x)[i] = q[i]
  BY <1>1
<1>3. Range(q) \subseteq Range(Append(q, x)) /\ x \in Range(Append(q, x))
  <2>1. \A i \in 1..Len(q) : i \in 1..Len(q) + 1
    BY <1>1
  <2>2. Len(q) + 1 \in 1..Len(q) + 1
    BY <1>1
  <2>3. ASSUME NEW e \in Range(q) PROVE e \in Range(Append(q, x))
    <3>1. PICK i \in 1..Len(q) : e = q[i]
      BY <1>1
    <3>2. i \in DOMAIN Append(q, x) /\ e = Append(q, x)[i]
      BY <1>2, <2>1, <3>1
    <3> QED
      BY <3>2 DEF Range
  <2>4. x \in Range(Append(q, x))
    BY <1>2, <2>2 DEF Range
  <2> QED
    BY <2>3, <2>4
<1>4. ASSUME q # <<>> PROVE Range(Front(q)) \subseteq Range(q) /\ Last(q) \in Range(q)
  <2>1. /\ Front(q) \in Seq(S) /\ Len(Front(q)) = Len(q) - 1 /\ Len(q) \in Nat \ {0}
        /\ \A i \in 1..Len(q) - 1 : Front(q)[i] = q[i]
    BY <1>4, FrontOf
  <2>2. DOMAIN Front(q) = 1..Len(q) - 1
    BY <2>1
  <2>3. ASSUME NEW e \in Range(Front(q)) PROVE e \in Range(q)
    <3>1. PICK i \in 1..Len(q) - 1 : e = Front(q)[i]
      BY <2>2 DEF Range
    <3>2. i \in 1..Len(q) /\ e = q[i]
      BY <1>1, <2>1, <3>1
    <3> QED
      BY <1>1, <3>2
  <2>4. Last(q) \in Range(q)
    <3>1. Len(q) \in 1..Len(q) /\ Last(q) = q[Len(q)]
      BY <2>1 DEF Last
    <3> QED
      BY <1>1, <3>1
  <2> QED
    BY <2>3, <2>4
<1> QED
  BY <1>3, <1>4

\* Handles are closed when there are too few, and kept otherwise.
LEMMA HeldSteps ==
    ASSUME XcTypeInv, XcPathInv, Next, ~joined', ~Finished', NEW dir, Active(dir), Active(dir)'
    PROVE  Held \subseteq Held'
<1> USE DEF flags, disk, history
<1>0. /\ opened \in Seq(XcPath) /\ level.phase = "files"
      /\ pc \in {"start", "flags", "enter", "done", "end"} => opened = <<>>
  BY DEF XcTypeInv, Active, XcPathInv
<1>1. ASSUME opened = <<>>, pc # "new" PROVE Held = {}
  <2>1. Range(<<>>) = {}
    BY DEF Range
  <2> QED
    BY <1>1, <2>1 DEF Held
<1>2. ASSUME opened' = opened, pc # "new", pc' # "new" PROVE Held \subseteq Held'
  BY <1>2 DEF Held
<1>3. CASE main \/ get_drives \/ enter \/ Ended
  <2>1. pc \in {"start", "flags", "enter"}
    BY <1>3 DEF main, get_drives, enter, Ended, Finished, vars
  <2>2. opened = <<>> /\ pc # "new"
    BY <1>0, <2>1
  <2> QED
    BY <1>1, <2>2
<1>4. ASSUME NEW name, NEW answer, next_file(name, answer) PROVE Held \subseteq Held'
  <2>1. opened' = opened /\ pc = "next" /\ pc' \in {"next", "open"}
    BY <1>4 DEF next_file
  <2> QED
    BY <1>2, <2>1
<1>5. CASE chk_and_open
  <2>1. opened' = Append(opened, source) /\ pc = "open" /\ pc' = "new"
    BY <1>5 DEF chk_and_open
  <2>2. source \in XcPath
    BY <2>1 DEF XcTypeInv, Copying
  <2>3. Front(opened') = opened
    BY <1>0, <2>1, <2>2, AppendParts
  <2> QED
    BY <2>1, <2>3 DEF Held
<1>6. CASE find_new
  <2>1. pc = "new" /\ pc' \in {"next", "opendst"} /\ (opened' = opened \/ opened' = Front(opened))
    BY <1>6 DEF find_new
  <2>2. opened # <<>>
    BY <2>1 DEF XcTypeInv
  <2>3. Range(Front(opened)) \subseteq Range(opened)
    <3>1. Last(opened) \in XcPath
      <4>1. Len(opened) \in 1..Len(opened)
        BY <1>0, <2>2, FrontOf
      <4> QED
        BY <1>0, <4>1 DEF Last
    <3> QED
      BY <1>0, <2>2, <3>1, RangeParts
  <2> QED
    BY <2>1, <2>3 DEF Held
<1>7. CASE open_file
  <2>1. opened' = Append(opened, job.dst) /\ pc = "opendst" /\ pc' = "write"
    BY <1>7 DEF open_file
  <2>2. job.dst \in XcPath
    BY <2>1 DEF XcTypeInv, Copying
  <2>3. Range(opened) \subseteq Range(opened')
    BY <1>0, <2>1, <2>2, RangeParts
  <2> QED
    BY <2>1, <2>3 DEF Held
<1>8. CASE do_write \/ ensure \/ set_time \/ set_file_attr
  <2>1. opened' = opened /\ pc # "new" /\ pc' # "new"
    BY <1>8 DEF do_write, ensure, set_time, set_file_attr
  <2> QED
    BY <1>2, <2>1
<1>9. CASE files_done
  <2>1. Len(stack) \in Nat \ {0} /\ stack \in Seq(XcLevel) /\ stack # <<>>
    BY Levels DEF XcTypeInv
  <2>2. level'.phase = "files"
    BY DEF Active
  <2>3. CASE stack' = Search("dirs")
    <3> DEFINE l == [level EXCEPT !.phase = "dirs", !.seen = {}, !.first = Names(level.src)]
    <3>1. stack' = [stack EXCEPT ![Len(stack)] = l] /\ l \in XcLevel
      BY <2>3, Levels
    <3>2. l.phase = "dirs"
      <4>1. level \in XcLevel
        BY Levels
      <4> QED
        BY <4>1 DEF XcLevel
    <3> HIDE DEF l
    <3>3. stack'[Len(stack')] = l
      BY <3>1, LevelChanges
    <3> QED
      BY <2>2, <3>2, <3>3 DEF level, Last
  <2>4. CASE leave
    <3>1. stack' = Front(stack) /\ Len(stack) # 1
      BY <2>4 DEF leave, Finished
    <3>2. /\ Len(stack') = Len(stack) - 1 /\ stack'[Len(stack) - 1] = stack[Len(stack) - 1]
          /\ Len(stack) - 1 \in 1..Len(stack) /\ Len(stack) \in (Len(stack) - 1) + 1..Len(stack)
      <4>1. /\ Len(Front(stack)) = Len(stack) - 1
            /\ \A i \in 1..Len(stack) - 1 : Front(stack)[i] = stack[i]
        BY <2>1, FrontOf
      <4>2. Len(stack) - 1 \in 1..Len(stack) - 1 /\ Len(stack) - 1 \in 1..Len(stack)
            /\ Len(stack) \in (Len(stack) - 1) + 1..Len(stack)
        BY <2>1, <3>1
      <4> QED
        BY <3>1, <4>1, <4>2
    <3>3. stack[Len(stack) - 1].phase = "dirs"
      BY <3>2 DEF XcPathInv
    <3> QED
      BY <2>2, <3>2, <3>3 DEF level, Last
  <2> QED
    BY <1>9, <2>3, <2>4 DEF files_done
<1>10. ASSUME NEW name, next_dir(name) PROVE FALSE
  BY <1>0, <1>10 DEF next_dir
<1>11. ~dirs_done
  BY <1>0 DEF dirs_done
<1>12. ~Terminate /\ ~Abort
  BY DEF Terminate, Abort, Finished
<1> QED
  BY <1>3, <1>4, <1>5, <1>6, <1>7, <1>8, <1>9, <1>10, <1>11, <1>12 DEF Next

\* A file that is settled stays so.
LEMMA SettledSteps ==
    ASSUME XcTypeInv, XcPathInv, Next, ~joined', ~Finished', NEW p, NEW q, Settled(p, q)
    PROVE  Settled(p, q)'
<1> DEFINE dir == Front(p)
<1>1. ~Future(dir) /\ (Active(dir) => q \in Held)
  BY DEF Settled
<1> HIDE DEF dir
<1>2. ~Future(dir)'
  BY <1>1, FutureSteps
<1>3. ASSUME Active(dir)' PROVE q \in Held'
  <2>1. Active(dir)
    BY <1>1, <1>3, ActiveSteps
  <2> QED
    BY <1>1, <1>3, <2>1, HeldSteps
<1> QED
  BY <1>2, <1>3 DEF Settled, dir

\* The directory of the last level is not to come any more.
LEMMA LastNotFuture ==
    ASSUME XcopyAssumption, XcTypeInv, XcDepthInv, XcPathInv PROVE ~Future(level.dst)
<1>0. Len(stack) \in Nat \ {0} /\ level = stack[Len(stack)] /\ Len(stack) \in 1..Len(stack)
  BY Levels
<1> SUFFICES ASSUME NEW i \in 1..Len(stack), Under(stack[i].dst, level.dst),
                    Len(level.dst) > Len(stack[i].dst),
                    stack[i].phase = "files" \/ level.dst[Len(stack[i].dst) + 1] \notin stack[i].seen
             PROVE  FALSE
  BY DEF Future
<1>1. i # Len(stack)
  <2>1. Len(level.dst) \in Nat
    BY <1>0, LevelsAre
  <2> QED
    BY <1>0, <2>1
<1>2. Len(stack) \in i + 1..Len(stack)
  BY <1>0, <1>1
<1>3. stack[i].phase = "dirs" /\ level.dst[Len(stack[i].dst) + 1] \in stack[i].seen
  BY <1>0, <1>2 DEF XcPathInv
<1> QED
  BY <1>3

\* A file, after the step.
StaysFile(p) == p \in DOMAIN tree' /\ tree'[p].kind = "file" /\ tree'[p].data = tree[p].data

\* A file whose directory has no copy put into it, or that is held there, is not replaced.
LEMMA FilesStay ==
    ASSUME XcTypeInv, XcWholeInv, XcPathInv, XcCopyInv, Next,
           NEW p \in DOMAIN tree, tree[p].kind = "file", tree[p].whole,
           ~Finished => Settled(p, p) /\ (CopyThere => p # job.dst)
    PROVE  StaysFile(p) /\ tree'[p].whole /\ (CopyThere' => p # job'.dst)
<1> USE DEF flags, disk, history, StaysFile
<1> DEFINE Good == StaysFile(p) /\ tree'[p].whole /\ (CopyThere' => p # job'.dst)
<1>1. ASSUME tree' = tree, ~CopyThere' PROVE Good
  BY <1>1
<1>2. CASE main \/ get_drives \/ enter \/ chk_and_open \/ Ended
  <2>1. tree' = tree /\ ~CopyThere'
    BY <1>2 DEF main, get_drives, enter, chk_and_open, Ended, vars, CopyThere
  <2> QED
    BY <1>1, <2>1
<1>3. ASSUME NEW name, NEW answer, next_file(name, answer) PROVE Good
  <2>1. tree' = tree /\ ~CopyThere'
    BY <1>3 DEF next_file, CopyThere
  <2> QED
    BY <1>1, <2>1
<1>4. CASE find_new
  <2>1. CASE pc' = "next"
    <3>1. tree' = tree /\ ~CopyThere'
      BY <1>4, <2>1 DEF find_new, CopyThere
    <3> QED
      BY <1>1, <3>1
  <2>2. CASE pc' # "next"
    <3>1. /\ DOMAIN tree' = DOMAIN tree \cup {job.dst}
          /\ \A q \in DOMAIN tree \ {job.dst} : tree'[q] = tree[q]
      BY <1>4, <2>2, TreeSteps
    <3>2. pc = "new" /\ job.dst \notin Range(opened) /\ job' = job
      BY <1>4, <2>2 DEF find_new
    <3>3. Settled(p, p)
      BY <3>2 DEF Finished
    <3>4. level.phase = "files" /\ Front(job.dst) = level.dst
      BY <3>2 DEF XcCopyInv, Copying
    <3>5. p # job.dst
      <4>1. ASSUME p = job.dst PROVE FALSE
        <5>1. p \in Range(Front(opened))
          BY <3>2, <3>3, <3>4, <4>1 DEF Settled, Active, Held
        <5>2. opened \in Seq(XcPath) /\ opened # <<>>
          BY <3>2 DEF XcTypeInv
        <5>3. Last(opened) \in XcPath
          BY <3>2 DEF XcCopyInv, XcTypeInv, Copying
        <5>4. p \in Range(opened)
          BY <5>1, <5>2, <5>3, RangeParts
        <5> QED
          BY <3>2, <4>1, <5>4
      <4> QED
        BY <4>1
    <3> QED
      BY <3>1, <3>2, <3>5
  <2> QED
    BY <2>1, <2>2
<1>5. CASE open_file \/ ensure
  <2>1. tree' = tree /\ CopyThere /\ job' = job
    BY <1>5 DEF open_file, ensure, CopyThere
  <2> QED
    BY <2>1 DEF Finished, CopyThere
<1>6. CASE do_write
  <2>0. pc = "write" /\ CopyThere
    BY <1>6 DEF do_write, CopyThere
  <2>1. p # job.dst
    BY <2>0 DEF Finished
  <2>2. CASE pc' = "write"
    <3>1. tree' = tree /\ job' = [job EXCEPT !.done = @ + 1]
      BY <1>6, <2>2 DEF do_write
    <3>2. job \in [name : XcName, dst : XcPath, done : Nat]
      BY <2>0 DEF XcTypeInv, Copying
    <3>3. job'.dst = job.dst
      BY <3>1, <3>2
    <3> QED
      BY <2>1, <3>1, <3>3
  <2>3. CASE pc' # "write"
    <3>1. /\ DOMAIN tree' = DOMAIN tree
          /\ \A q \in DOMAIN tree \ {job.dst} : tree'[q] = tree[q]
      BY <1>6, <2>3, TreeSteps
    <3>2. job' = job
      BY <1>6, <2>3 DEF do_write
    <3> QED
      BY <2>1, <3>1, <3>2
  <2> QED
    BY <2>2, <2>3
<1>7. CASE set_time \/ set_file_attr
  <2>1. /\ DOMAIN tree' = DOMAIN tree
        /\ \A q \in DOMAIN tree : /\ tree'[q].kind = tree[q].kind /\ tree'[q].data = tree[q].data
                                  /\ tree'[q].whole = tree[q].whole
    BY <1>7, TreeSteps
  <2>2. CopyThere /\ ~Finished /\ (CopyThere' => job' = job)
    BY <1>7 DEF set_time, set_file_attr, CopyThere, Finished
  <2> QED
    BY <2>1, <2>2
<1>8. CASE files_done \/ dirs_done
  <2>1. tree' = tree \/ (level.made /\ tree' = Without(level.dst))
    BY <1>8 DEF files_done, dirs_done, leave
  <2>2. ~CopyThere'
    BY <1>8 DEF files_done, dirs_done, leave, CopyThere
  <2>3. level.made => Is(level.dst, "dir")
    <3>1. level = stack[Len(stack)] /\ Len(stack) \in 1..Len(stack)
      BY Levels
    <3> QED
      BY <3>1 DEF XcPathInv
  <2>4. ASSUME level.made, tree' = Without(level.dst) PROVE Good
    <3>1. p # level.dst
      BY <2>3, <2>4 DEF Is
    <3> QED
      BY <2>2, <2>4, <3>1, TreeWithout
  <2> QED
    BY <1>1, <2>1, <2>2, <2>4
<1>9. ASSUME NEW name, next_dir(name) PROVE Good
  <2> DEFINE from == Append(level.src, name)
             to == Append(level.dst, name)
  <2>1. tree' = tree \/ (to \notin DOMAIN tree /\ tree' = With(to, tree[from]))
    BY <1>9 DEF next_dir
  <2>2. ~CopyThere'
    BY <1>9 DEF next_dir, CopyThere
  <2> HIDE DEF from, to
  <2>3. ASSUME to \notin DOMAIN tree, tree' = With(to, tree[from]) PROVE Good
    BY <2>2, <2>3 DEF With
  <2> QED
    BY <1>1, <2>1, <2>2, <2>3
<1>10. CASE Terminate \/ Abort
  <2>1. tree' = tree \/ (tree' = Without(job.dst) /\ file_not_ensured)
    BY <1>10 DEF Terminate, Abort, abort_handler
  <2>2. ~CopyThere'
    BY <1>10 DEF Terminate, Abort, CopyThere
  <2>3. file_not_ensured => CopyThere /\ ~Finished
    BY DEF XcWholeInv, CopyThere, Finished
  <2>4. CASE tree' = Without(job.dst) /\ file_not_ensured
    <3>1. p # job.dst
      BY <2>3, <2>4
    <3> QED
      BY <2>2, <2>4, <3>1, TreeWithout
  <2> QED
    BY <1>1, <2>1, <2>2, <2>4
<1> QED
  BY <1>2, <1>3, <1>4, <1>5, <1>6, <1>7, <1>8, <1>9, <1>10 DEF Next

\* Handles that were closed are not forgotten, and what is finished stays so.
LEMMA JoinedSteps ==
    ASSUME XcTypeInv, Next
    PROVE  /\ ~joined' => ~joined
           /\ Finished => Finished'
           /\ copied' = copied \/ (set_file_attr /\ copied' = copied \cup {tree[source].data})
<1> USE DEF flags, disk, history
<1>1. joined \in BOOLEAN
  BY DEF XcTypeInv
<1>2. CASE chk_and_open
  BY <1>2 DEF chk_and_open, Finished
<1>3. CASE set_file_attr
  BY <1>3 DEF set_file_attr, Finished
<1>4. ASSUME NEW name, NEW answer, next_file(name, answer)
      PROVE  joined' = joined /\ copied' = copied /\ ~Finished
  BY <1>4 DEF next_file, Finished
<1>5. CASE Next /\ ~chk_and_open /\ ~set_file_attr
  <2>1. joined' = joined /\ copied' = copied
    BY <1>4, <1>5 DEF Next, main, get_drives, enter, find_new, open_file, do_write, ensure,
                  set_time, files_done, next_dir, dirs_done, Terminate, Abort, Ended, vars
  <2>2. Finished => Finished'
    BY <1>4, <1>5 DEF Next, main, get_drives, enter, find_new, open_file, do_write, ensure,
                  set_time, files_done, next_dir, dirs_done, Terminate, Abort, Ended, vars, Finished
  <2> QED
    BY <2>1, <2>2
<1> QED
  BY <1>2, <1>3, <1>5

\* A file after the step was one before, with the same data, or it is a new copy.
LEMMA FileSteps ==
    ASSUME XcTypeInv, Next, NEW p \in DOMAIN tree', tree'[p].kind = "file"
    PROVE  \/ p \in DOMAIN tree /\ tree[p].kind = "file" /\ tree'[p].data = tree[p].data
           \/ find_new /\ pc' # "next" /\ p = job.dst /\ tree'[p].data = tree[source].data
<1> USE DEF flags, disk, history
<1> DEFINE Good == p \in DOMAIN tree /\ tree[p].kind = "file" /\ tree'[p].data = tree[p].data
<1>1. ASSUME NEW path, tree' = Without(path) \/ tree' = tree PROVE Good
  BY <1>1 DEF Without
<1>2. CASE main \/ get_drives \/ enter \/ chk_and_open \/ open_file \/ ensure \/ Ended
  <2>1. tree' = tree
    BY <1>2 DEF main, get_drives, enter, chk_and_open, open_file, ensure, Ended, vars
  <2> QED
    BY <1>1, <2>1
<1>3. ASSUME NEW name, NEW answer, next_file(name, answer) PROVE Good
  <2>1. tree' = tree
    BY <1>3 DEF next_file
  <2> QED
    BY <1>1, <2>1
<1>4. CASE find_new
  <2>1. CASE pc' = "next"
    <3>1. tree' = tree
      BY <1>4, <2>1 DEF find_new
    <3> QED
      BY <1>1, <3>1
  <2>2. CASE pc' # "next"
    <3>1. /\ DOMAIN tree' = DOMAIN tree \cup {job.dst}
          /\ tree'[job.dst].data = tree[source].data
          /\ \A q \in DOMAIN tree \ {job.dst} : tree'[q] = tree[q]
      BY <1>4, <2>2, TreeSteps
    <3> QED
      BY <1>4, <2>2, <3>1
  <2> QED
    BY <2>1, <2>2
<1>5. CASE do_write
  <2>1. CASE pc' = "write"
    <3>1. tree' = tree
      BY <1>5, <2>1 DEF do_write
    <3> QED
      BY <1>1, <3>1
  <2>2. CASE pc' # "write"
    <3>1. /\ DOMAIN tree' = DOMAIN tree /\ tree'[job.dst].kind = tree[job.dst].kind
          /\ tree'[job.dst].data = tree[job.dst].data
          /\ \A q \in DOMAIN tree \ {job.dst} : tree'[q] = tree[q]
      BY <1>5, <2>2, TreeSteps
    <3> QED
      BY <3>1
  <2> QED
    BY <2>1, <2>2
<1>6. CASE set_time \/ set_file_attr
  <2>1. /\ DOMAIN tree' = DOMAIN tree
        /\ \A q \in DOMAIN tree : tree'[q].kind = tree[q].kind /\ tree'[q].data = tree[q].data
    BY <1>6, TreeSteps
  <2> QED
    BY <2>1
<1>7. CASE files_done \/ dirs_done
  <2>1. tree' = Without(level.dst) \/ tree' = tree
    BY <1>7 DEF files_done, dirs_done, leave
  <2> QED
    BY <1>1, <2>1
<1>8. ASSUME NEW name, next_dir(name) PROVE Good
  <2> DEFINE from == Append(level.src, name)
             to == Append(level.dst, name)
  <2>1. tree' = tree \/ (tree' = With(to, tree[from]) /\ tree[from].kind = "dir")
    BY <1>8 DEF next_dir, IsSubdirectory, Is
  <2> HIDE DEF from, to
  <2>2. ASSUME tree' = With(to, tree[from]), tree[from].kind = "dir" PROVE Good
    BY <2>2 DEF With
  <2> QED
    BY <1>1, <2>1, <2>2
<1>9. CASE Terminate \/ Abort
  <2>1. tree' = Without(job.dst) \/ tree' = tree
    BY <1>9 DEF Terminate, Abort, abort_handler
  <2> QED
    BY <1>1, <2>1
<1> QED
  BY <1>2, <1>3, <1>4, <1>5, <1>6, <1>7, <1>8, <1>9 DEF Next

\* The source and the copy, when the copy is made: how deep they are, and where.
LEMMA CopyPlaces ==
    ASSUME XcopyAssumption, XcTypeInv, XcDepthInv, XcPathInv, XcCopyInv, Copying
    PROVE  /\ source \in Seq(XcName) /\ job.dst \in Seq(XcName)
           /\ Len(source) = Len(src_parse.dir) + Len(stack)
           /\ Len(job.dst) = Len(dst_parse.dir) + Len(stack)
           /\ Len(src_parse.dir) \in Nat /\ Len(dst_parse.dir) \in Nat /\ Len(stack) \in Nat \ {0}
           /\ Front(source) = level.src /\ Front(job.dst) = level.dst
           /\ Under(src_parse.dir, source) /\ Under(dst_parse.dir, job.dst)
           /\ Same => level.src = level.dst
<1>0. /\ Len(stack) \in Nat \ {0} /\ level = stack[Len(stack)] /\ Len(stack) \in 1..Len(stack)
      /\ level \in XcLevel
  BY Levels
<1>1. level.src \in XcPath /\ level.dst \in XcPath
  BY <1>0 DEF XcLevel
<1>2. case \in Cases /\ job \in [name : XcName, dst : XcPath, done : Nat]
  BY DEF XcTypeInv
<1>3. src_parse.dir \in XcPath /\ dst_parse.dir \in XcPath /\ job.name \in XcName /\ job.dst \in XcPath
  BY <1>2, XcopyParsed
<1>4. /\ Len(level.src) = Len(src_parse.dir) + Len(stack) - 1
      /\ Len(level.dst) = Len(dst_parse.dir) + Len(stack) - 1
      /\ Under(dst_parse.dir, level.dst)
  BY <1>0 DEF XcDepthInv
<1>5. Under(src_parse.dir, level.src) /\ (Same => level.src = level.dst)
  BY <1>0 DEF XcPathInv
<1>6. Front(job.dst) = level.dst /\ Len(job.dst) = Len(level.dst) + 1
  BY DEF XcCopyInv
<1>7. /\ level.src \in Seq(XcName) /\ level.dst \in Seq(XcName) /\ job.dst \in Seq(XcName)
      /\ src_parse.dir \in Seq(XcName) /\ dst_parse.dir \in Seq(XcName)
  BY <1>1, <1>3 DEF XcPath
<1>8. /\ source \in Seq(XcName) /\ Len(source) = Len(level.src) + 1 /\ Front(source) = level.src
      /\ Len(level.src) \in Nat
  BY <1>3, <1>7, AppendParts DEF source
<1>9. Under(src_parse.dir, source)
  BY <1>1, <1>3, <1>5, UnderAppend DEF source
<1>10. Under(dst_parse.dir, job.dst)
  <2>1. job.dst # <<>>
    <3>1. Len(<<>>) = 0 /\ Len(level.dst) \in Nat
      BY <1>7
    <3> QED
      BY <1>6, <3>1
  <2>2. \A i \in 1..Len(job.dst) - 1 : level.dst[i] = job.dst[i]
    BY <1>6, <1>7, <2>1, FrontOf
  <2>3. Len(dst_parse.dir) \in Nat /\ Len(level.dst) \in Nat
    BY <1>7
  <2> QED
    BY <1>4, <1>6, <2>2, <2>3 DEF Under
<1>11. Len(src_parse.dir) \in Nat /\ Len(dst_parse.dir) \in Nat
  BY <1>7
<1>12. /\ Len(source) = Len(src_parse.dir) + Len(stack)
       /\ Len(job.dst) = Len(dst_parse.dir) + Len(stack)
  BY <1>0, <1>4, <1>6, <1>8, <1>11
<1> QED
  BY <1>0, <1>5, <1>6, <1>7, <1>8, <1>9, <1>10, <1>11, <1>12

\* Paths of the same length that start one path are the same.
LEMMA UnderBoth ==
    ASSUME NEW top \in XcPath, NEW other \in XcPath, NEW p, Under(top, p), Under(other, p),
           Len(top) = Len(other)
    PROVE  top = other
<1>1. top \in Seq(XcName) /\ other \in Seq(XcName)
  BY DEF XcPath
<1>2. \A i \in 1..Len(top) : top[i] = other[i]
  BY DEF Under
<1> QED
  BY <1>1, <1>2

\* The data that is copied comes from another place than the copy's, which is the one
\* way that data goes; the source is open by then, and so is its first place.
LEMMA CopyMoves ==
    ASSUME XcopyAssumption, XcTypeInv, XcDepthInv, XcPathInv, XcCopyInv, XcKeptInv, ~joined,
           find_new, pc' # "next", NEW d, d = tree[source].data
    PROVE  /\ job.dst # d /\ job.dst # source
           /\ \/ Inward /\ Len(d) < Len(job.dst)
              \/ Len(dst_parse.dir) < Len(src_parse.dir) /\ Len(job.dst) < Len(d)
              \/ Len(dst_parse.dir) = Len(src_parse.dir) /\ ~Same /\ Under(dst_parse.dir, job.dst)
              \/ Same /\ job.dst # <<>> /\ d \in Range(opened)
<1> DEFINE S == src_parse.dir
           T == dst_parse.dir
<1>0. pc = "new" /\ Copying /\ job.dst \notin Range(opened) /\ ~Finished
  BY DEF find_new, Copying, Finished
<1>1. /\ source \in Seq(XcName) /\ job.dst \in Seq(XcName)
      /\ Len(source) = Len(S) + Len(stack) /\ Len(job.dst) = Len(T) + Len(stack)
      /\ Len(S) \in Nat /\ Len(T) \in Nat /\ Len(stack) \in Nat \ {0}
      /\ Front(source) = level.src
      /\ Under(S, source) /\ Under(T, job.dst) /\ (Same => level.src = level.dst)
  BY <1>0, CopyPlaces
<1>2. /\ opened \in Seq(XcPath) /\ opened # <<>> /\ Last(opened) = source
      /\ source \in DOMAIN tree /\ tree[source].kind = "file" /\ case \in Cases
      /\ DOMAIN tree \subseteq XcPath /\ \A p \in DOMAIN tree : tree[p] \in XcEntry
  BY <1>0 DEF XcTypeInv, XcCopyInv
<1>3. source \in Range(opened) /\ Range(Front(opened)) \subseteq Range(opened)
  BY <1>2, RangeParts
<1>4. d = source \/ Moved(source)
  BY <1>0, <1>2 DEF XcKeptInv
<1>5. Len(d) \in Nat /\ S \in XcPath /\ T \in XcPath
  BY <1>2, XcopyParsed DEF XcPath, XcEntry
<1>6. job.dst # source
  BY <1>0, <1>3
<1>n. Len(source) \in Nat /\ Len(job.dst) \in Nat /\ job.dst # <<>>
  <2>1. Len(<<>>) = 0
    OBVIOUS
  <2>2. Len(source) \in Nat /\ Len(job.dst) \in Nat /\ Len(job.dst) # 0
    BY <1>1
  <2> QED
    BY <2>1, <2>2
<1> HIDE DEF S, T
<1>7. CASE Len(S) < Len(T)
  <2>1. Inward /\ ~Same /\ ~(Len(T) < Len(S)) /\ Len(T) # Len(S)
    BY <1>1, <1>7 DEF Inward, Same, S, T
  <2>2. d = source \/ Len(d) < Len(source)
    BY <1>4, <2>1 DEF Moved, S, T
  <2>3. Len(source) < Len(job.dst)
    BY <1>1, <1>7
  <2>4. Len(d) < Len(job.dst)
    BY <1>5, <1>n, <2>2, <2>3
  <2>5. job.dst # d
    BY <1>5, <2>4
  <2> QED
    BY <1>6, <2>1, <2>4, <2>5 DEF S, T
<1>8. CASE Len(T) < Len(S)
  <2>1. ~Inward /\ ~Same /\ Len(T) # Len(S)
    BY <1>1, <1>8 DEF Inward, Same, S, T
  <2>2. d = source \/ Len(source) < Len(d)
    BY <1>4, <2>1 DEF Moved, S, T
  <2>3. Len(job.dst) < Len(source)
    BY <1>1, <1>8
  <2>4. Len(job.dst) < Len(d)
    BY <1>5, <1>n, <2>2, <2>3
  <2>5. job.dst # d
    BY <1>5, <2>4
  <2> QED
    BY <1>6, <1>8, <2>4, <2>5 DEF S, T
<1>9. CASE Len(S) = Len(T) /\ ~Same
  <2>1. ~Inward /\ ~(Len(T) < Len(S))
    BY <1>1, <1>9 DEF Inward, S, T
  <2>2. ~Under(T, source)
    BY <1>1, <1>5, <1>9, UnderBoth DEF Same, S, T
  <2>3. d = source
    BY <1>4, <1>9, <2>1, <2>2 DEF Moved, S, T
  <2> QED
    BY <1>1, <1>6, <1>9, <2>3 DEF S, T
<1>10. CASE Same
  <2>1. ~Inward /\ ~(Len(T) < Len(S))
    BY <1>1, <1>10 DEF Inward, Same, S, T
  <2>2. d = source \/ Settled(source, d)
    BY <1>4, <1>10, <2>1 DEF Moved, S, T
  <2>3. Active(Front(source))
    BY <1>0, <1>1, <1>10 DEF XcCopyInv, Active
  <2>4. d \in Range(opened)
    BY <1>0, <1>3, <2>2, <2>3 DEF Settled, Held
  <2> QED
    BY <1>0, <1>6, <1>10, <1>n, <2>4
<1>11. Len(S) < Len(T) \/ Len(T) < Len(S) \/ Len(S) = Len(T)
  BY <1>1
<1> QED
  BY <1>7, <1>8, <1>9, <1>10, <1>11

\* The levels and the files in them, when a copy was just made.
LEMMA CopySettled ==
    ASSUME XcopyAssumption, XcTypeInv, XcDepthInv, XcPathInv, XcCopyInv, XcTypeInv', XcDepthInv', XcPathInv',
           CopyStep, pc' \in {"opendst", "next"}, NEW p, p = job.dst,
           NEW q, q \in Range(opened')
    PROVE  Settled(p, q)'
<1>1. Copying /\ level' = level
  BY CopyStepLevel
<1>2. Front(p) = level.dst
  BY <1>1, CopyPlaces
<1>3. ~Future(level.dst)'
  <2>1. (XcTypeInv /\ XcDepthInv /\ XcPathInv => ~Future(level.dst))'
    BY LastNotFuture, PTL
  <2> QED
    BY <2>1
<1>4. Front(p) = level'.dst
  BY <1>1, <1>2
<1>5. q \in Held'
  BY DEF Held
<1> QED
  BY <1>3, <1>4, <1>5 DEF Settled, Future

\* The invariant of XCOPY.
XcAllInv == XcSafeInv /\ XcDepthInv /\ XcPathInv /\ XcCopyInv /\ XcKeptInv

\* The data of the copied files stays somewhere else.
LEMMA XcopyKept ==
    ASSUME XcopyAssumption, XcAllInv, XcTypeInv', XcDepthInv', XcPathInv', Next, ~joined', NEW d \in copied'
    PROVE  Kept(d)'
<1> USE DEF XcAllInv, XcSafeInv
<1>0. ~joined /\ (Finished => Finished')
  BY JoinedSteps
<1>1. ASSUME d \in copied PROVE Kept(d)'
  <2>1. PICK p \in DOMAIN tree :
          /\ p # d /\ tree[p].kind = "file" /\ tree[p].whole /\ tree[p].data = d
          /\ ~Finished => p # <<>> /\ Settled(p, p) /\ (CopyThere => p # job.dst)
    BY <1>0, <1>1 DEF XcKeptInv, Kept
  <2>2. StaysFile(p) /\ tree'[p].whole /\ (CopyThere' => p # job'.dst)
    BY <2>1, FilesStay
  <2>3. ~Finished' => p # <<>> /\ Settled(p, p)'
    BY <1>0, <2>1, SettledSteps
  <2> QED
    BY <2>1, <2>2, <2>3 DEF Kept, StaysFile
<1>2. ASSUME set_file_attr, d = tree[source].data PROVE Kept(d)'
  <2>1. /\ CopyThere /\ Copying /\ pc = "archive" /\ pc' = "next" /\ opened' = opened /\ CopyStep
    BY <1>2 DEF set_file_attr, CopyThere, Copying, CopyStep
  <2>2. /\ job.dst \in DOMAIN tree /\ job.dst # d /\ tree[job.dst].kind = "file"
        /\ tree[job.dst].data = d /\ job.dst \in Range(opened)
    BY <1>0, <1>2, <2>1 DEF XcTypeInv, XcCopyInv, XcKeptInv
  <2>3. tree[job.dst].whole
    BY <2>1, <2>2 DEF XcWholeInv
  <2>4. /\ DOMAIN tree' = DOMAIN tree
        /\ \A p \in DOMAIN tree : /\ tree'[p].kind = tree[p].kind /\ tree'[p].data = tree[p].data
                                  /\ tree'[p].whole = tree[p].whole
    BY <1>2, TreeSteps
  <2>5. job.dst # <<>>
    <3>1. Len(job.dst) = Len(dst_parse.dir) + Len(stack) /\ Len(dst_parse.dir) \in Nat
          /\ Len(stack) \in Nat \ {0}
      BY <2>1, CopyPlaces
    <3>2. Len(<<>>) = 0
      OBVIOUS
    <3> QED
      BY <3>1, <3>2
  <2>6. \A p : p = job.dst => Settled(p, p)'
    BY <2>1, <2>2, CopySettled
  <2>7. ~CopyThere'
    BY <2>1 DEF CopyThere
  <2>8. PICK p : p = job.dst
    OBVIOUS
  <2>9. /\ p # d /\ p \in DOMAIN tree' /\ tree'[p].kind = "file" /\ tree'[p].whole
        /\ tree'[p].data = d /\ p # <<>> /\ Settled(p, p)'
    BY <2>2, <2>3, <2>4, <2>5, <2>6, <2>8
  <2> QED
    BY <2>7, <2>9 DEF Kept
<1>3. d \in copied \/ (set_file_attr /\ d = tree[source].data)
  BY JoinedSteps
<1> QED
  BY <1>1, <1>2, <1>3

\* Data goes one way, or cannot come back.
LEMMA XcopyMoved ==
    ASSUME XcopyAssumption, XcAllInv, XcTypeInv', XcDepthInv', XcPathInv', Next, ~joined', ~Finished',
           NEW p \in DOMAIN tree', tree'[p].kind = "file", tree'[p].data # p
    PROVE  Moved(p)'
<1> USE DEF XcAllInv, XcSafeInv
<1>0. ~joined /\ ~Finished /\ src_parse' = src_parse /\ dst_parse' = dst_parse
  BY JoinedSteps, SameCommand
<1>1. CASE p \in DOMAIN tree /\ tree[p].kind = "file" /\ tree'[p].data = tree[p].data
  <2> DEFINE d == tree[p].data
  <2>1. Moved(p)
    BY <1>0, <1>1 DEF XcKeptInv
  <2>2. \A q : Settled(p, q) => Settled(p, q)'
    BY <1>0, SettledSteps
  <2>3. \/ Inward /\ Len(d) < Len(p)
        \/ Len(dst_parse.dir) < Len(src_parse.dir) /\ Len(p) < Len(d)
        \/ Len(dst_parse.dir) = Len(src_parse.dir) /\ ~Same /\ Under(dst_parse.dir, p)
        \/ Same /\ p # <<>> /\ Settled(p, d)
    BY <2>1 DEF Moved
  <2>4. PICK x : x = d
    OBVIOUS
  <2>5. tree'[p].data = x /\ (Settled(p, d) => Settled(p, x)')
    BY <1>1, <2>2, <2>4
  <2> HIDE DEF d
  <2> QED
    BY <1>0, <2>3, <2>4, <2>5 DEF Moved, Inward, Same, Settled
<1>2. CASE find_new /\ pc' # "next" /\ p = job.dst /\ tree'[p].data = tree[source].data
  <2>1. PICK x : x = tree[source].data
    OBVIOUS
  <2>2. \/ Inward /\ Len(x) < Len(p)
        \/ Len(dst_parse.dir) < Len(src_parse.dir) /\ Len(p) < Len(x)
        \/ Len(dst_parse.dir) = Len(src_parse.dir) /\ ~Same /\ Under(dst_parse.dir, p)
        \/ Same /\ p # <<>> /\ x \in Range(opened)
    BY <1>0, <1>2, <2>1, CopyMoves
  <2>3. pc' = "opendst" /\ opened' = opened /\ CopyStep
    BY <1>2 DEF find_new, CopyStep
  <2>4. x \in Range(opened) => Settled(p, x)'
    BY <1>2, <2>3, CopySettled
  <2>5. tree'[p].data = x
    BY <1>2, <2>1
  <2> QED
    BY <1>0, <2>2, <2>4, <2>5 DEF Moved, Inward, Same, Settled
<1> QED
  BY <1>1, <1>2, FileSteps

\* A copy is not put in the first place of its data.
LEMMA XcopyApart ==
    ASSUME XcopyAssumption, XcAllInv, Next, ~joined', CopyThere' PROVE job'.dst # tree'[source'].data
<1> USE DEF XcAllInv, XcSafeInv, flags, disk, history
<1>0. ~joined
  BY JoinedSteps
<1>1. CASE find_new
  <2>1. pc' # "next"
    BY DEF CopyThere
  <2>2. /\ job' = job /\ Copying /\ source \in DOMAIN tree
        /\ \A p \in DOMAIN tree \ {job.dst} : tree'[p] = tree[p]
    BY <1>1, <2>1, TreeSteps DEF find_new, Copying, XcTypeInv
  <2>3. level' = level
    BY <1>1, CopyStepLevel DEF CopyStep
  <2>4. source' = source
    BY <2>2, <2>3 DEF source
  <2>5. job.dst # tree[source].data /\ job.dst # source
    BY <1>0, <1>1, <2>1, CopyMoves
  <2> QED
    BY <2>2, <2>4, <2>5
<1>2. ASSUME CopyThere, job'.dst = job.dst, job'.name = job.name, level' = level,
             tree' = tree \/ \A p \in DOMAIN tree : tree'[p].data = tree[p].data
      PROVE  job'.dst # tree'[source'].data
  <2>1. source' = source
    BY <1>2 DEF source
  <2>2. source \in DOMAIN tree
    BY <1>2 DEF XcTypeInv, CopyThere, Copying
  <2> QED
    BY <1>0, <1>2, <2>1, <2>2 DEF XcKeptInv
<1>3. CASE open_file \/ ensure
  <2>1. tree' = tree /\ CopyThere /\ job' = job
    BY <1>3 DEF open_file, ensure, CopyThere
  <2>2. level' = level
    BY <1>3, CopyStepLevel DEF CopyStep
  <2> QED
    BY <1>2, <2>1, <2>2
<1>4. CASE do_write
  <2>0. pc = "write" /\ CopyThere /\ job.dst \in DOMAIN tree
    BY <1>4 DEF do_write, CopyThere, XcTypeInv
  <2>1. level' = level
    BY <1>4, CopyStepLevel DEF CopyStep
  <2>2. CASE pc' = "write"
    <3>1. tree' = tree /\ job' = [job EXCEPT !.done = @ + 1]
      BY <1>4, <2>2 DEF do_write
    <3>2. job \in [name : XcName, dst : XcPath, done : Nat]
      BY <2>0 DEF XcTypeInv, Copying
    <3>3. job'.dst = job.dst /\ job'.name = job.name
      BY <3>1, <3>2
    <3> QED
      BY <1>2, <2>0, <2>1, <3>1, <3>3
  <2>3. CASE pc' # "write"
    <3>1. /\ tree'[job.dst].data = tree[job.dst].data
          /\ \A q \in DOMAIN tree \ {job.dst} : tree'[q] = tree[q]
      BY <1>4, <2>3, TreeSteps
    <3>2. \A q \in DOMAIN tree : tree'[q].data = tree[q].data
      BY <3>1
    <3>3. job' = job
      BY <1>4, <2>3 DEF do_write
    <3> QED
      BY <1>2, <2>0, <2>1, <3>2, <3>3
  <2> QED
    BY <2>2, <2>3
<1>5. CASE set_time
  <2>1. \A q \in DOMAIN tree : tree'[q].data = tree[q].data
    BY <1>5, TreeSteps
  <2>2. CopyThere /\ job' = job
    BY <1>5 DEF set_time, CopyThere
  <2>3. level' = level
    BY <1>5, CopyStepLevel DEF CopyStep
  <2> QED
    BY <1>2, <2>1, <2>2, <2>3
<1>6. ASSUME NEW name, NEW answer, next_file(name, answer) PROVE FALSE
  BY <1>6 DEF next_file, CopyThere
<1>7. ASSUME NEW name, next_dir(name) PROVE FALSE
  BY <1>7 DEF next_dir, CopyThere
<1>8. ~(main \/ get_drives \/ enter \/ chk_and_open \/ set_file_attr \/ files_done \/ dirs_done
        \/ Terminate \/ Abort \/ Ended)
  BY DEF main, get_drives, enter, chk_and_open, set_file_attr, files_done, dirs_done, leave,
         Terminate, Abort, Ended, vars, CopyThere
<1> QED
  BY <1>1, <1>3, <1>4, <1>5, <1>6, <1>7, <1>8 DEF Next

\* It holds when XCOPY is started.
LEMMA XcopyAllInit ==
    ASSUME XcopyAssumption
    PROVE  Init => XcAllInv
<1> SUFFICES ASSUME Init PROVE XcAllInv
  OBVIOUS
<1>1. XcSafeInv /\ XcDepthInv /\ XcPathInv /\ XcCopyInv
  BY XcopyInit, XcopyDepthInit, XcopyPathInit
<1>2. XcKeptInv
  <2>1. case \in Cases /\ tree = case.tree /\ copied = {} /\ pc = "start"
    BY DEF Init
  <2>2. \A p \in DOMAIN tree : tree[p].data = p
    BY <2>1, XcopyCases
  <2> QED
    BY <2>1, <2>2 DEF XcKeptInv, CopyThere
<1> QED
  BY <1>1, <1>2 DEF XcAllInv

\* Every step of XCOPY keeps it.
LEMMA XcopyAllStep ==
    ASSUME XcopyAssumption
    PROVE  XcAllInv /\ [Next]_vars => XcAllInv'
<1>1. ASSUME XcAllInv, Next PROVE XcAllInv'
  <2>1. XcSafeInv' /\ XcTypeInv'
    BY <1>1, XcopyStep DEF XcAllInv, XcSafeInv
  <2>2. XcDepthInv' /\ XcPathInv' /\ XcCopyInv'
    BY <1>1, XcopyDepthStep, XcopyPathStep, XcopyCopyStep DEF XcAllInv, XcSafeInv
  <2>3. XcKeptInv'
    <3>1. ASSUME ~joined' PROVE \A d \in copied' : Kept(d)'
      BY <1>1, <2>1, <2>2, <3>1, XcopyKept
    <3>2. ASSUME ~joined', ~Finished', NEW p \in DOMAIN tree', tree'[p].kind = "file"
          PROVE  tree'[p].data = p \/ Moved(p)'
      BY <1>1, <2>1, <2>2, <3>2, XcopyMoved
    <3>3. ASSUME ~joined', CopyThere' PROVE job'.dst # tree'[source'].data
      BY <1>1, <3>3, XcopyApart
    <3> QED
      BY <3>1, <3>2, <3>3 DEF XcKeptInv
  <2> QED
    BY <2>1, <2>2, <2>3 DEF XcAllInv
<1>2. ASSUME XcAllInv, UNCHANGED vars PROVE XcAllInv'
  <2>1. /\ case' = case /\ tree' = tree /\ opened' = opened /\ stack' = stack /\ job' = job
        /\ pc' = pc /\ joined' = joined /\ copied' = copied /\ level' = level /\ source' = source
        /\ src_parse' = src_parse /\ dst_parse' = dst_parse
    BY <1>2 DEF vars, history, level, source, src_parse, dst_parse
  <2>2. XcSafeInv'
    BY <1>2, XcopyStep DEF XcAllInv
  <2>3. XcDepthInv'
    BY <1>2, <2>1 DEF XcAllInv, XcDepthInv, Inward, Shallow
  <2>4. XcPathInv' /\ XcCopyInv'
    BY <1>2, <2>1 DEF XcAllInv, XcPathInv, XcCopyInv, Finished, Same, Is, Copying, CopyThere
  <2>5. XcKeptInv'
    BY <1>2, <2>1 DEF XcAllInv, XcKeptInv, Kept, Moved, Settled, Future, Active, Held, Finished,
                      Same, Inward, CopyThere
  <2> QED
    BY <2>2, <2>3, <2>4, <2>5 DEF XcAllInv
<1> QED
  BY <1>1, <1>2

\* It is enough for all that is proved of XCOPY.
LEMMA XcopyAllSafe ==
    ASSUME XcopyAssumption
    PROVE  XcAllInv => CleanExit /\ NoRunaway /\ CopiesKept /\ TypeOK
<1> SUFFICES ASSUME XcAllInv PROVE CleanExit /\ NoRunaway /\ CopiesKept /\ TypeOK
  OBVIOUS
<1>1. CleanExit /\ TypeOK /\ NoRunaway
  <2>1. pc = "end" => opened = <<>>
    BY DEF XcAllInv, XcPathInv
  <2> QED
    BY <2>1, XcopySafe, XcopyShallow DEF XcAllInv, XcSafeInv
<1>2. CopiesKept
  BY DEF XcAllInv, XcKeptInv, Kept, CopiesKept
<1> QED
  BY <1>1, <1>2
=============================================================================
