-------------------------------- MODULE Xcopy --------------------------------
(***************************************************************************)
(* XCOPY (tools/C/xcopy.c), the tool that copies files and directory       *)
(* trees, one action per DOS call that matters.  CTRL-C, CTRL-STOP, an     *)
(* aborted disk error or an error XCOPY gives up at may come at any of     *)
(* them (Abort).                                                           *)
(*                                                                         *)
(* A path is a sequence of names.  An entry is a file, a system file or a  *)
(* directory; the data of a file is the path of the file that had it when  *)
(* XCOPY was started, and its size a number of full copy buffers.          *)
(***************************************************************************)
EXTENDS Integers, FiniteSets, SequencesExt

CONSTANTS Cases,      \* what may be asked: [tree, from, to, first, opt, verify]:
                      \* from = [dir, name, ambiguous, matches], the names it matches,
                      \* to = [dir, name, ambiguous, rename], the names it changes;
                      \* first is the first entry of the current directory ("." is
                      \* the directory itself), verify the verify flag
          MaxHandles  \* file handles that are free when XCOPY starts

VARIABLES case,       \* the command line, parsed: one of Cases
          tree,       \* the entries on the disk, by path
          verify,     \* the verify flag of the system
          verify_flag,\* its value before, Unknown until it has been read
          opened,     \* paths of the handles open, oldest first
          file_not_ensured, \* has it a destination file to delete?
          stack,      \* xcopy() calls: [src, dst, phase, seen, first, made]
          job,        \* the file being copied: [name, dst, done]
          dup_mode,   \* may be changed by an answer
          pc,
          joined,     \* history: were handles closed to get free ones?
          copied      \* history: the data that was copied

history == <<joined, copied>>
vars == <<case, tree, verify, verify_flag, opened, file_not_ensured, stack, job,
          dup_mode, pc, history>>
disk == <<tree, opened, file_not_ensured>>
flags == <<case, verify, verify_flag>>

Unknown == 2
opt == case.opt
level == Last(stack)
NoJob == [name |-> "none"]
Contents(dir) == {p \in DOMAIN tree : Len(p) = Len(dir) + 1 /\ Front(p) = dir}
Names(dir) == {Last(p) : p \in Contents(dir)}
Is(path, kind) == path \in DOMAIN tree /\ tree[path].kind = kind
With(path, entry) == [p \in DOMAIN tree \cup {path} |-> IF p = path THEN entry ELSE tree[p]]
Without(path) == [p \in DOMAIN tree \ {path} |-> tree[p]]

\* get_ver_flag and set_abort_routine.
main ==
    /\ pc = "start"
    /\ verify_flag' = verify
    /\ pc' = "flags"
    /\ UNCHANGED <<case, tree, verify, opened, file_not_ensured, stack, job, dup_mode, history>>

\* src_parse: the contents of a directory, or what the last item matches.
src_parse ==
    LET item == Append(case.from.dir, case.from.name)
    IN IF ~case.from.ambiguous /\ item \in DOMAIN case.tree /\ case.tree[item].kind = "dir"
       THEN [dir |-> item, names |-> {Last(p) : p \in DOMAIN case.tree}]
       ELSE [dir |-> case.from.dir, names |-> case.from.matches]

\* dst_parse: a directory that is there, or one in which the last item renames.  The
\* guard is the directory that is not copied: an item in the root without a path to
\* it has the first entry of the current directory there.
dst_parse ==
    LET item == Append(case.to.dir, case.to.name)
    IN IF ~case.to.ambiguous /\ item \in DOMAIN case.tree /\ case.tree[item].kind = "dir"
       THEN [dir |-> item, rename |-> [n \in {} |-> n], guard |-> item]
       ELSE [dir |-> case.to.dir, rename |-> case.to.rename,
             guard |-> IF case.to.dir = <<>> THEN case.first ELSE case.to.dir]

\* get_drives, with parse_flags; the two directories are found.
get_drives ==
    /\ pc = "flags"
    /\ verify' = IF opt.verify THEN 1 ELSE verify
    /\ dup_mode' = opt.dup
    /\ pc' = "enter"
    /\ UNCHANGED <<case, tree, verify_flag, opened, file_not_ensured, stack, job, history>>

\* _FIRST: the entries there now are found, later ones may be.
Search(phase) ==
    [stack EXCEPT ![Len(stack)].phase = phase, ![Len(stack)].seen = {},
                  ![Len(stack)].first = Names(level.src)]

\* A level of xcopy() begins: fork_process, and the search for files.
enter ==
    /\ pc = "enter"
    /\ stack' = Search("files")
    /\ opened' = <<>>
    /\ pc' = "next"
    /\ UNCHANGED <<flags, tree, file_not_ensured, job, dup_mode, history>>

Seen(name) == [stack EXCEPT ![Len(stack)].seen = @ \cup {name}]
Unseen == Names(level.src) \ level.seen
AllSeen == level.first \cap Unseen = {}

\* expand_name: the rename pattern applied to a name; several may become the same.
expand_name(name) ==
    IF name \in DOMAIN dst_parse.rename THEN dst_parse.rename[name] ELSE name

Wanted(e) ==
    /\ e.kind = "file"
    /\ opt.hidden \/ ~e.hidden
    /\ e.archive \/ ~opt.archive

dup_decision(s, t) ==
    CASE dup_mode = "overwrite" -> TRUE
      [] dup_mode = "skip" -> FALSE
      [] dup_mode = "newer" -> s.stamp > t.stamp
      [] dup_mode = "older" -> s.stamp < t.stamp
      [] dup_mode = "diff" -> s.size # t.size
      [] dup_mode = "smaller" -> s.size < t.size
      [] dup_mode = "bigger" -> s.size > t.size

\* Is a plain file in the place of the copy?
check_duplicate(name) == Is(Append(level.dst, expand_name(name)), "file")

\* The answers to the question of /DP; the one that is missing, C, is an Abort.
Answers == {"O", "W", "S", "K"}
dup_prompt(answer) ==
    dup_mode' = CASE answer = "W" -> "overwrite" [] answer = "K" -> "skip" [] OTHER -> dup_mode

\* One entry of the file phase, up to the decision to copy it: it may be passed
\* over at the question of /P, then comes the check for a file in its place.
next_file(name, answer) ==
    LET from == Append(level.src, name)
        to == Append(level.dst, expand_name(name))
        wanted == name \in src_parse.names /\ Wanted(tree[from])
        asked == check_duplicate(name) /\ dup_mode = "prompt"
        do_it == ~check_duplicate(name) \/ (IF asked THEN answer \in {"O", "W"}
                                            ELSE dup_decision(tree[from], tree[to]))
    IN /\ pc = "next" /\ level.phase = "files" /\ name \in Unseen
       /\ stack' = Seen(name)
       /\ \/ /\ ~wanted \/ opt.prompt
             /\ answer = "none"
             /\ UNCHANGED <<job, pc, dup_mode>>
          \/ /\ wanted
             /\ asked <=> answer # "none"
             /\ dup_prompt(answer)
             /\ IF do_it THEN job' = [name |-> name, dst |-> to, done |-> 0] /\ pc' = "open"
                ELSE UNCHANGED <<job, pc>>
       /\ UNCHANGED <<flags, disk, history>>

source == Append(level.src, job.name)

\* Mutant: the handles are closed for each file.
chk_and_open_Closing ==
    /\ pc = "open"
    /\ opened' = <<source>>
    /\ file_not_ensured' = FALSE
    /\ pc' = "new"
    /\ UNCHANGED <<flags, tree, stack, job, dup_mode, history>>

\* chk_and_open: a handle for the source, and one more to spare; all the handles
\* of this directory are closed when there are not.
chk_and_open ==
    /\ pc = "open"
    /\ LET free == Len(opened) + 2 <= MaxHandles
       IN /\ opened' = Append(IF free THEN opened ELSE <<>>, source)
          /\ joined' = (joined \/ ~free)
    /\ file_not_ensured' = FALSE
    /\ pc' = "new"
    /\ UNCHANGED <<flags, tree, stack, job, dup_mode, copied>>

\* The first buffer is read, then _FNEW makes an empty file, in the place of one
\* that is there.  Its attributes are those of the source, never read only.
find_new ==
    /\ pc = "new"
    /\ IF Is(job.dst, "dir") \/ Is(job.dst, "system") \/ job.dst \in Range(opened)
             \/ (Is(job.dst, "file") /\ tree[job.dst].readonly)
       THEN \* pr_err: the source is closed, and that was it
            /\ opened' = Front(opened)
            /\ pc' = "next" /\ job' = NoJob
            /\ UNCHANGED tree
       ELSE /\ tree' = With(job.dst, [tree[source] EXCEPT !.whole = FALSE, !.readonly = FALSE])
            /\ pc' = "opendst"
            /\ UNCHANGED <<opened, job>>
    /\ UNCHANGED <<flags, file_not_ensured, stack, dup_mode, history>>

open_file ==
    /\ pc = "opendst"
    /\ opened' = Append(opened, job.dst)
    /\ file_not_ensured' = TRUE
    /\ pc' = "write"
    /\ UNCHANGED <<flags, tree, stack, job, dup_mode, history>>

\* A buffer is written, and the next is read unless this one was not full.
do_write ==
    /\ pc = "write"
    /\ IF job.done < tree[source].size
       THEN job' = [job EXCEPT !.done = @ + 1] /\ UNCHANGED <<tree, pc>>
       ELSE /\ tree' = [tree EXCEPT ![job.dst].whole = TRUE]
            /\ pc' = "ensure"
            /\ UNCHANGED job
    /\ UNCHANGED <<flags, opened, file_not_ensured, stack, dup_mode, history>>

\* _ENSURE; what is written from here on is attributes only.
ensure ==
    /\ pc = "ensure"
    /\ file_not_ensured' = FALSE
    /\ pc' = "attr"
    /\ UNCHANGED <<flags, tree, opened, stack, job, dup_mode, history>>

\* set_file_attr and set_time for the copy, one step as nothing depends on an end between
\* the two.
set_time ==
    /\ pc = "attr"
    /\ tree' = [tree EXCEPT ![job.dst].readonly = tree[source].readonly,
                            ![job.dst].archive = @ \/ tree[source].readonly,
                            ![job.dst].stamp = IF opt.time THEN 9 ELSE tree[source].stamp]
    /\ pc' = "archive"
    /\ UNCHANGED <<flags, opened, file_not_ensured, stack, job, dup_mode, history>>

\* /M: the archive attribute of the source goes.
set_file_attr ==
    /\ pc = "archive"
    /\ tree' = IF opt.update THEN [tree EXCEPT ![source].archive = FALSE] ELSE tree
    /\ copied' = copied \cup {tree[source].data}
    /\ pc' = "next" /\ job' = NoJob
    /\ UNCHANGED <<flags, opened, file_not_ensured, stack, dup_mode, joined>>

\* Mutant: only a directory that is empty in the source is unwanted.
leave_Keeps ==
    LET unwanted == level.made /\ ~opt.empty /\ Contents(level.src) = {}
    IN /\ stack' = IF Len(stack) = 1 THEN stack ELSE Front(stack)
       /\ tree' = IF unwanted THEN Without(level.dst) ELSE tree
       /\ pc' = IF Len(stack) = 1 THEN "done" ELSE "next"

\* xcopy() returns: join_process has closed the files of its directory.  A new
\* directory that is empty goes again, unless /E was given.
leave ==
    LET unwanted == level.made /\ ~opt.empty /\ Contents(level.dst) = {}
    IN /\ stack' = IF Len(stack) = 1 THEN stack ELSE Front(stack)
       /\ tree' = IF unwanted THEN Without(level.dst) ELSE tree
       /\ pc' = IF Len(stack) = 1 THEN "done" ELSE "next"

files_done ==
    /\ pc = "next" /\ level.phase = "files" /\ AllSeen
    /\ opened' = <<>>
    /\ IF opt.sub
       THEN /\ stack' = Search("dirs")
            /\ UNCHANGED <<tree, pc>>
       ELSE leave
    /\ UNCHANGED <<flags, file_not_ensured, job, dup_mode, history>>

\* Mutant: the target is copied like any other directory.
IsSubdirectory_Target(path) == Is(path, "dir") /\ (opt.hidden \/ ~tree[path].hidden)

\* The target itself is not copied into.
IsSubdirectory(path) ==
    Is(path, "dir") /\ (opt.hidden \/ ~tree[path].hidden) /\ path # dst_parse.guard

\* One entry of the directory phase: the directory is made, or it is there, and
\* xcopy() is called for the pair.  A file in its place is only complained about.
next_dir(name) ==
    LET from == Append(level.src, name)
        to == Append(level.dst, name)
    IN /\ pc = "next" /\ level.phase = "dirs" /\ name \in Unseen
       /\ IF IsSubdirectory(from) /\ (to \in DOMAIN tree => Is(to, "dir"))
          THEN /\ tree' = IF to \in DOMAIN tree THEN tree ELSE With(to, tree[from])
               /\ stack' = Append(Seen(name),
                                  [src |-> from, dst |-> to, phase |-> "files", seen |-> {},
                                   first |-> {}, made |-> to \notin DOMAIN tree])
               /\ pc' = "enter"
          ELSE stack' = Seen(name) /\ UNCHANGED <<tree, pc>>
       /\ UNCHANGED <<flags, opened, file_not_ensured, job, dup_mode, history>>

dirs_done ==
    /\ pc = "next" /\ level.phase = "dirs" /\ AllSeen
    /\ leave
    /\ UNCHANGED <<flags, opened, file_not_ensured, job, dup_mode, history>>

\* Mutant: the file that is not complete stays.
abort_handler_Keeps ==
    /\ verify' = IF verify_flag = Unknown THEN verify ELSE verify_flag
    /\ file_not_ensured' = FALSE
    /\ UNCHANGED <<tree, opened>>

\* abort_handler, once it is registered; it runs at a normal end too.  _HDELETE closes
\* the handle, the last one opened; others that are open are left to the system.
abort_handler ==
    /\ tree' = IF file_not_ensured THEN Without(job.dst) ELSE tree
    /\ verify' = IF verify_flag = Unknown THEN verify ELSE verify_flag
    /\ file_not_ensured' = FALSE
    /\ opened' = IF file_not_ensured THEN Front(opened) ELSE opened

Terminate ==
    /\ pc = "done"
    /\ abort_handler
    /\ pc' = "end"
    /\ UNCHANGED <<case, verify_flag, stack, job, dup_mode, history>>

\* Also the answer C to the question of /DP.
Abort ==
    /\ pc \notin {"done", "end", "aborted"}
    /\ abort_handler
    /\ pc' = "aborted"
    /\ UNCHANGED <<case, verify_flag, stack, job, dup_mode, history>>

Ended == pc \in {"end", "aborted"} /\ UNCHANGED vars

Init ==
    /\ case \in Cases
    /\ tree = case.tree
    /\ verify = case.verify /\ verify_flag = Unknown
    /\ opened = <<>> /\ file_not_ensured = FALSE
    /\ stack = <<[src |-> src_parse.dir, dst |-> dst_parse.dir, phase |-> "files", seen |-> {},
                  first |-> {}, made |-> FALSE]>>
    /\ job = NoJob /\ dup_mode = "overwrite"
    /\ pc = "start"
    /\ joined = FALSE /\ copied = {}

Next ==
    \/ main
    \/ get_drives
    \/ enter
    \/ \E name \in Names(level.src), answer \in Answers \cup {"none"} :
         next_file(name, answer)
    \/ chk_and_open
    \/ find_new
    \/ open_file
    \/ do_write
    \/ ensure
    \/ set_time
    \/ set_file_attr
    \/ files_done
    \/ \E name \in Names(level.src) : next_dir(name)
    \/ dirs_done
    \/ Terminate
    \/ Abort
    \/ Ended

Spec == Init /\ [][Next]_vars

----------------------------------------------------------------------------
(* What XCOPY may be started with. *)

\* Names are strings, a path is a sequence of them.
XcName == STRING
XcPath == Seq(XcName)
XcEntry == [kind : {"file", "dir", "system"}, data : XcPath, whole : BOOLEAN, archive : BOOLEAN,
            readonly : BOOLEAN, hidden : BOOLEAN, stamp : Nat, size : Nat]

\* What to do when the target is there.
Options == {"overwrite", "skip", "newer", "older", "diff", "smaller", "bigger", "prompt"}

\* A tree of whole files with a longest path in it, the directory of the source among
\* them, names that are renamed to names, and handles for two files.
XcopyAssumption ==
    /\ MaxHandles \in Nat /\ MaxHandles >= 2
    /\ \A c \in Cases :
         /\ DOMAIN c.tree \subseteq XcPath
         /\ \A p \in DOMAIN c.tree :
              c.tree[p] \in XcEntry /\ c.tree[p].whole /\ c.tree[p].data = p
         /\ \E p \in DOMAIN c.tree : \A q \in DOMAIN c.tree : Len(q) <= Len(p)
         /\ c.from.dir = <<>> \/ c.from.dir \in DOMAIN c.tree
         /\ c.from.name \in XcName /\ c.to.dir \in XcPath /\ c.to.name \in XcName
         /\ \A n \in DOMAIN c.to.rename : c.to.rename[n] \in XcName
         /\ c.verify \in {0, 1} /\ c.opt.dup \in Options
         /\ c.opt.time \in BOOLEAN /\ c.opt.empty \in BOOLEAN

----------------------------------------------------------------------------
(* Properties. *)

Over == pc \in {"end", "aborted"}

TypeOK ==
    /\ case \in Cases
    /\ \A p \in DOMAIN tree : tree[p].kind \in {"file", "dir", "system"}
    /\ verify \in {0, 1} /\ verify_flag \in {0, 1, Unknown}
    /\ Len(opened) <= MaxHandles /\ {file_not_ensured, joined} \subseteq BOOLEAN
    /\ \A i \in 1..Len(stack) : stack[i].phase \in {"files", "dirs"} /\ stack[i].made \in BOOLEAN
    /\ dup_mode \in Options

\* However XCOPY ends, by itself or at any DOS call, the verify flag of the
\* system is what it was, and no half of a file is left: at worst an empty one,
\* when it is stopped after _FNEW and before the file is open, or before the
\* first buffer is written.  When it ends by itself it has closed the handles of all the
\* directories it was in; those of the last one are left to the system when it is
\* stopped (xcopy.c 460-490, 1215-1229, 1340).
CleanExit ==
    Over => /\ verify = case.verify
            /\ \A p \in DOMAIN tree :
                 tree[p].whole \/ (pc = "aborted" /\ p = job.dst /\ job.done = 0)
            /\ pc = "end" => opened = <<>>

\* The data of every file that was copied, and has lost its archive attribute to
\* /M, is in some other file then, whatever else is copied over what: a copy is
\* not replaced by the copy of another file of its directory, nor a file by
\* itself, as long as there are handles to hold them open (xcopy.c 39-48).
CopiesKept ==
    joined \/ \A d \in copied : \E p \in DOMAIN tree \ {d} : tree[p].whole /\ tree[p].data = d

\* With /S /H, trees apart and nothing to keep a file from being copied, all of the
\* source that the pattern matches is in the target when XCOPY ends by itself, unless
\* something else was in its place, and a new directory in which nothing was put is only
\* there with /E (xcopy.c 1265-1395).
CopyComplete ==
    LET S == src_parse.dir
        T == dst_parse.dir
        Apart == ~IsPrefix(S, T) /\ ~IsPrefix(T, S)
        Place(p) == T \o SubSeq(p, Len(S) + 1, Len(p))
        Blocked(p) ==
            \E n \in Len(T) + 1..Len(Place(p)) :
              LET at == SubSeq(Place(p), 1, n)
              IN /\ at \in DOMAIN case.tree
                 /\ IF at = Place(p) THEN case.tree[at].kind # "file" \/ case.tree[at].readonly
                                    ELSE case.tree[at].kind # "dir"
        All == opt.sub /\ opt.hidden /\ ~opt.archive /\ ~opt.prompt /\ opt.dup = "overwrite"
    IN pc = "end" =>
         /\ All /\ Apart /\ DOMAIN dst_parse.rename = {} =>
              \A p \in DOMAIN case.tree :
                IsPrefix(S, p) /\ case.tree[p].kind = "file" /\ ~Blocked(p)
                  /\ Last(p) \in src_parse.names =>
                  Is(Place(p), "file") /\ tree[Place(p)].data = p
         /\ \A p \in DOMAIN tree \ DOMAIN case.tree :
              tree[p].kind = "dir" => opt.empty \/ Contents(p) # {}

\* xcopy() never calls itself deeper than the source was when XCOPY started: it
\* does not copy what it has just copied, with the target anywhere in the source
\* (xcopy.c 1350-1356).
NoRunaway ==
    Len(stack) <= 1 + Max({Len(p) : p \in DOMAIN case.tree}) - Len(src_parse.dir)

=============================================================================
