-------------------------------- MODULE FileTree --------------------------------
(***************************************************************************)
(* fileUtils and pathUtils on one tree of files: TfMakeDirs, TfWalkDirs,   *)
(* TfRmTree and TfRealPath make a system call at a time, and other         *)
(* processes change the tree in between.  A path is a sequence of names;   *)
(* the file system is external.                                            *)
(***************************************************************************)
EXTENDS Integers, FiniteSets, Sequences, SequencesExt

CONSTANTS
  Makers,       \* the processes
  Requests,     \* the one call each may make: a function to sets of calls
  Trees         \* the trees they may find: functions from paths to what is there

VARIABLES
  tree,         \* what is at each path that exists: [kind |-> "dir" or "file"] or a "link" with to, a path
  found,        \* the tree at the start
  task          \* what each process is doing

treeVars == <<tree, found, task>>

Parent(p) == SubSeq(p, 1, Len(p) - 1)
Nowhere == <<"">>
MaxLinks == 3   \* ELOOP

\* Where a path leads: links on the way are followed, the last name if follow.
RECURSIVE Resolve(_, _, _, _)
Resolve(t, p, follow, links) ==
  IF p = <<>> THEN p
  ELSE LET d == Resolve(t, Parent(p), TRUE, links)
           q == Append(d, p[Len(p)])
       IN IF d = Nowhere THEN Nowhere
          ELSE IF follow /\ q \in DOMAIN t /\ t[q].kind = "link"
          THEN IF links = 0 THEN Nowhere ELSE Resolve(t, t[q].to, TRUE, links - 1)
          ELSE q

LStat(p) == LET q == Resolve(tree, p, FALSE, MaxLinks)
            IN IF q \in DOMAIN tree THEN tree[q].kind ELSE "none"
Stat(p) == LET q == Resolve(tree, p, TRUE, MaxLinks)
           IN IF q = <<>> THEN "dir" ELSE IF q \in DOMAIN tree THEN tree[q].kind ELSE "none"

PathExists(p) == LStat(p) # "none"
IsDir(p) == LStat(p) = "dir"
Children(p) == LET q == Resolve(tree, p, TRUE, MaxLinks)
               IN {c \in DOMAIN tree : Len(c) = Len(q) + 1 /\ IsPrefix(q, c)}

OnStep(m, step) == task[m].step = step
TaskGoes(m, t) == task' = [task EXCEPT ![m] = t]
Answers(m, result) == TaskGoes(m, [step |-> "Done", call |-> task[m].call, result |-> result])

TreeInit ==
  /\ found \in Trees
  /\ tree = found
  /\ task \in [Makers -> UNION {{[step |-> "Start", call |-> c] : c \in Requests[m]} : m \in Makers}]
  /\ \A m \in Makers : task[m].call \in Requests[m]

-----------------------------------------------------------------------------
(* TfMakeDirs: Tf_MakeDirsRec goes down to a parent that exists, then makes  *)
(* one directory after the other; k is how many names of the path it is at.  *)

MakeStart(m) ==
  /\ OnStep(m, "Start") /\ task[m].call.op = "make"
  /\ TaskGoes(m, [step |-> "Probe", call |-> task[m].call, k |-> Len(task[m].call.path)])
  /\ UNCHANGED tree

UpTo(m, k) == SubSeq(task[m].call.path, 1, k)

Probe(m) ==
  /\ OnStep(m, "Probe")
  /\ TaskGoes(m, IF task[m].k > 1 /\ ~PathExists(UpTo(m, task[m].k - 1))
             THEN [task[m] EXCEPT !.k = @ - 1]
             ELSE [task[m] EXCEPT !.step = "Make"])
  /\ UNCHANGED tree

\* One level is made, or was there: on to the next, or return.
LevelDone(m, result) ==
  IF task[m].k = Len(task[m].call.path) THEN Answers(m, result)
  ELSE TaskGoes(m, [task[m] EXCEPT !.k = @ + 1, !.step = "Make"])

LevelFails_AnyErrno(m, exists) == Answers(m, FALSE)

\* A parent that failed for EEXIST is not an error.
LevelFails(m, exists) ==
  IF exists THEN LevelDone(m, FALSE) ELSE Answers(m, FALSE)

\* TfMakeDir.
MakeDir(m) ==
  LET p == UpTo(m, task[m].k)
      q == Resolve(tree, p, FALSE, MaxLinks)
  IN /\ OnStep(m, "Make")
     /\ IF q \in DOMAIN tree
        THEN /\ IF task[m].call.existOk THEN TaskGoes(m, [task[m] EXCEPT !.step = "IsDir"])
                ELSE LevelFails(m, TRUE)
             /\ UNCHANGED tree
        ELSE IF Stat(Parent(p)) = "dir"
        THEN /\ tree' = [x \in DOMAIN tree \cup {q} |-> IF x = q THEN [kind |-> "dir"] ELSE tree[x]]
             /\ LevelDone(m, TRUE)
        ELSE (IF task[m].call.existOk THEN TaskGoes(m, [task[m] EXCEPT !.step = "IsDir"])
              ELSE LevelFails(m, FALSE)) /\ UNCHANGED tree

\* existOk: lstat leaves EEXIST in errno when it succeeds.
CheckDir(m) ==
  LET p == UpTo(m, task[m].k) IN
  /\ OnStep(m, "IsDir")
  /\ IF IsDir(p) THEN LevelDone(m, TRUE) ELSE LevelFails(m, PathExists(p))
  /\ UNCHANGED tree

-----------------------------------------------------------------------------
(* TfWalkDirs, with what TfRmTree does in every directory, or a walk that    *)
(* remembers what it saw.  stack holds the directories that are being        *)
(* walked: the path, the names of those still to be entered, and the files.  *)

Entered(p) == [path |-> p, dirs |-> {}, files |-> {}]
Top(m) == task[m].stack[Len(task[m].stack)]
Removes(m) == task[m].call.op = "remove"

WalkStart(m) ==
  LET c == task[m].call IN
  /\ OnStep(m, "Start") /\ c.op \in {"remove", "walk"}
  /\ TaskGoes(m, [step |-> IF Stat(c.path) = "dir" THEN "Read" ELSE "NotDir", call |-> c,
              stack |-> <<Entered(c.path)>>, targets |-> {}, seen |-> {}, errors |-> 0, raised |-> 0])
  /\ UNCHANGED tree

\* onError: of the caller, or for TfRmTree without one Tf_RmTreeRaiseErrors.
Raised(t) == [t EXCEPT !.errors = @ + 1, !.raised = @ + 1]

NotADirectory(m) ==
  /\ OnStep(m, "NotDir")
  /\ TaskGoes(m, [Raised(task[m]) EXCEPT !.step = "Done"])
  /\ UNCHANGED tree

\* A link to a directory is entered once, and only where links are followed.
Follows(m, links) ==
  LET dirs == {q \in links : Stat(q) = "dir"}
      Target(q) == Resolve(tree, q, TRUE, MaxLinks)
      new == {q \in dirs : Target(q) \notin task[m].targets}
  IN IF ~task[m].call.follow THEN {}
     ELSE {d \in SUBSET new : /\ \A q, r \in d : Target(q) = Target(r) => q = r
                              /\ {Target(q) : q \in d} = {Target(q) : q \in new}}

\* Tf_ReadDir, the stat of the links, and for a walk from the top the call.
ReadDirectory(m) ==
  LET t == task[m]
      p == Top(m).path
      names == {q[Len(q)] : q \in Children(p)}
      dirs == {Append(p, n) : n \in {x \in names : LStat(Append(p, x)) = "dir"}}
      links == {Append(p, n) : n \in {x \in names : LStat(Append(p, x)) \notin {"dir", "file"}}}
      files == {Append(p, n) : n \in names} \ dirs
      Into(d, f, targets) ==
        [t EXCEPT !.step = "Walk", !.targets = @ \cup targets,
                  !.stack[Len(t.stack)] = [path |-> p, dirs |-> d, files |-> f],
                  !.seen = IF Removes(m) THEN @ ELSE @ \cup {p}]
  IN /\ OnStep(m, "Read")
     /\ IF Stat(p) # "dir" THEN TaskGoes(m, Raised(Into({}, {}, {})))
        ELSE IF Follows(m, links) = {} THEN TaskGoes(m, Into(dirs, files, {}))
        ELSE \E followed \in Follows(m, links) :
               TaskGoes(m, Into(dirs \cup followed, files \ followed,
                            {Resolve(tree, q, TRUE, MaxLinks) : q \in followed}))
     /\ UNCHANGED tree

EnterDirectory(m) == \E d \in (IF OnStep(m, "Walk") THEN Top(m).dirs ELSE {}) :
  /\ TaskGoes(m, [task[m] EXCEPT !.step = "Read",
                !.stack = Append([@ EXCEPT ![Len(@)].dirs = @ \ {d}], Entered(d))])
  /\ UNCHANGED tree

Ready(m) == OnStep(m, "Walk") /\ Top(m).dirs = {}

StepsOut(m, t) ==
  TaskGoes(m, IF Len(t.stack) > 1 THEN [t EXCEPT !.stack = Front(@)]
          ELSE [t EXCEPT !.step = "Done"])

\* The onError bound to Tf_RmTree is the caller's, which may be none.
Fails(m, t) == [t EXCEPT !.errors = @ + 1, !.raised = @ + (IF task[m].call.handler THEN 1 ELSE 0)]

TreeWithout(p) == [x \in DOMAIN tree \ {p} |-> tree[x]]

\* Tf_RmTree: one file after the other, then the directory.
UnlinkFile(m) == \E f \in (IF Ready(m) /\ Removes(m) THEN Top(m).files ELSE {}) :
  LET q == Resolve(tree, f, FALSE, MaxLinks)
      t == [task[m] EXCEPT !.stack[Len(task[m].stack)].files = @ \ {f}]
      ok == q \in DOMAIN tree /\ tree[q].kind # "dir"
  IN /\ TaskGoes(m, IF ok THEN t ELSE Fails(m, t))
     /\ tree' = IF ok THEN TreeWithout(q) ELSE tree

RemoveDirectory(m) ==
  LET p == Top(m).path IN
  /\ Ready(m) /\ Removes(m) /\ Top(m).files = {}
  /\ LET ok == LStat(p) = "dir" /\ Children(p) = {}
     IN /\ StepsOut(m, IF ok THEN task[m] ELSE Fails(m, task[m]))
        /\ tree' = IF ok THEN TreeWithout(Resolve(tree, p, FALSE, MaxLinks)) ELSE tree

LeaveDirectory(m) ==
  /\ Ready(m) /\ ~Removes(m)
  /\ StepsOut(m, task[m])
  /\ UNCHANGED tree

-----------------------------------------------------------------------------

\* TfTouchFile with create, or what any other process may do.
TouchFile(m) ==
  LET p == task[m].call.path
      q == Resolve(tree, p, TRUE, MaxLinks)
  IN /\ OnStep(m, "Start") /\ task[m].call.op = "touch"
     /\ Answers(m, q \in DOMAIN tree \/ Stat(Parent(p)) = "dir")
     /\ tree' = IF q \in DOMAIN tree \/ Stat(Parent(p)) # "dir" THEN tree
                ELSE [x \in DOMAIN tree \cup {q} |-> IF x = q THEN [kind |-> "file"] ELSE tree[x]]

-----------------------------------------------------------------------------
(* TfRealPath with an inaccessible suffix.  A split point is how many names   *)
(* of the path come before it; len of them, after first, are to be searched.  *)

RealStart(m) ==
  /\ OnStep(m, "Start") /\ task[m].call.op = "real"
  /\ TaskGoes(m, [step |-> "Search", call |-> task[m].call, first |-> 0,
                  len |-> Len(task[m].call.path), error |-> FALSE])
  /\ UNCHANGED tree

\* ENOTDIR; TfPathExists clears ENOENT.
BelowAFile(p) == \E k \in 1..(Len(p) - 1) : Stat(SubSeq(p, 1, k)) = "file"
Dangling(p) == LStat(p) = "link" /\ Stat(p) = "none"

\* _Local::Accessible sets the error, and no split point is accessible once it is set.
SetsError(p) == BelowAFile(p) \/ Dangling(p)
Accessible(m, p) == PathExists(p) /\ ~task[m].error /\ ~SetsError(p)

\* A step of std::lower_bound in TfFindLongestAccessiblePrefix.
HalfOf(len) == len \div 2

ProbeSplit(m) ==
  LET half == HalfOf(task[m].len)
      p == UpTo(m, task[m].first + half + 1)
      t == [task[m] EXCEPT !.error = @ \/ SetsError(p)]
  IN /\ OnStep(m, "Search") /\ task[m].len > 0
     /\ TaskGoes(m, IF Accessible(m, p)
                    THEN [t EXCEPT !.first = @ + half + 1, !.len = @ - half - 1]
                    ELSE [t EXCEPT !.len = half])
     /\ UNCHANGED tree

\* realpath of the prefix, which may be gone by now; no path if there is an error.
MakeReal(m) ==
  LET t == task[m]
      prefix == UpTo(m, t.first)
      suffix == SubSeq(t.call.path, t.first + 1, Len(t.call.path))
      fails == t.error \/ (t.first > 0 /\ Stat(prefix) = "none")
  IN /\ OnStep(m, "Search") /\ t.len = 0
     /\ TaskGoes(m, [step |-> "Done", call |-> t.call, first |-> t.first, error |-> fails,
           result |-> IF fails THEN Nowhere ELSE Resolve(tree, prefix, TRUE, MaxLinks) \o suffix])
     /\ UNCHANGED tree

TreeNext == /\ UNCHANGED found
            /\ \E m \in Makers :
                 \/ MakeStart(m) \/ Probe(m) \/ MakeDir(m) \/ CheckDir(m)
                 \/ WalkStart(m) \/ NotADirectory(m) \/ ReadDirectory(m) \/ EnterDirectory(m)
                 \/ UnlinkFile(m) \/ RemoveDirectory(m) \/ LeaveDirectory(m) \/ TouchFile(m)
                 \/ RealStart(m) \/ ProbeSplit(m) \/ MakeReal(m)

TreeSpec == TreeInit /\ [][TreeNext]_treeVars

-----------------------------------------------------------------------------

Asked(op) == {m \in Makers : task[m].call.op = op}
Ended(m) == OnStep(m, "Done")
Inside(p, t) == {q \in DOMAIN t : IsPrefix(p, q)}
\* Every directory a walk from p has to come to, by its own path.
Reachable(p, follow) ==
  LET step(S) == S \cup {q \in DOMAIN found : found[q].kind = "dir" /\ Parent(q) \in S}
                   \cup IF ~follow THEN {}
                        ELSE {Resolve(found, q, TRUE, MaxLinks) :
                                q \in {l \in DOMAIN found : found[l].kind = "link"
                                         /\ Parent(l) \in S
                                         /\ Resolve(found, l, TRUE, MaxLinks) \in DOMAIN found
                                         /\ found[Resolve(found, l, TRUE, MaxLinks)].kind = "dir"}}
      reach[n \in 0..Cardinality(DOMAIN found)] ==
        IF n = 0 THEN {Resolve(found, p, TRUE, MaxLinks)} ELSE step(reach[n - 1])
  IN reach[Cardinality(DOMAIN found)]

FoundAt(p) == Resolve(found, p, TRUE, MaxLinks) \in DOMAIN found

\* Without removals a real path is that of the longest prefix that is there, with
\* the rest of the path after it: one that is there now, and no shorter than at the
\* start.  Without any change it is an error just where that prefix is a file, or
\* the next name is a link to nothing.
RealPathIsRight(m) ==
  LET p == task[m].call.path
      longest == Cardinality({k \in 1..Len(p) : FoundAt(SubSeq(p, 1, k))})
      next == SubSeq(p, 1, longest + 1)
  IN /\ ~task[m].error =>
          /\ task[m].first >= longest
          /\ \A k \in 1..task[m].first : Stat(SubSeq(p, 1, k)) # "none"
          /\ task[m].result = Resolve(tree, UpTo(m, task[m].first), TRUE, MaxLinks)
                                \o SubSeq(p, task[m].first + 1, Len(p))
     /\ Asked("make") \cup Asked("touch") = {} =>
          (task[m].error <=> longest < Len(p) /\ SetsError(next))

\* Whoever makes, removes and walks at the same time: without removals a maker
\* that accepts what exists gets its directory, and of those that do not exactly
\* one is told it made it; without makers a removed tree is gone at the end,
\* however many remove it, and at the end of each that gave a handler and was told
\* of no error; nothing outside a removed tree is touched; and a walk
\* of a tree nobody changes sees every directory, following a link into an outer
\* directory and still ending; and real paths are right (fileUtils.cpp:320-352,
\* :516-570, :596-630, pathUtils.cpp:87-215).
TreesEndAsAsked ==
  /\ \A q \in DOMAIN found :
       (\A m \in Asked("remove") : ~IsPrefix(task[m].call.path, q)) => q \in DOMAIN tree
  /\ Asked("remove") = {} =>
       /\ \A m \in Asked("make") : LET p == task[m].call.path IN
            Ended(m) /\ (\A k \in 1..Len(p) : SubSeq(p, 1, k) \in DOMAIN tree =>
                                                tree[SubSeq(p, 1, k)].kind = "dir") =>
              /\ p \in DOMAIN tree
              /\ task[m].call.existOk => task[m].result
       /\ \A p \in DOMAIN tree \ DOMAIN found :
            LET asked == {m \in Asked("make") : task[m].call.path = p /\ ~task[m].call.existOk}
            IN /\ Cardinality({m \in asked : Ended(m) /\ task[m].result}) <= 1
               /\ asked # {} /\ (\A m \in Asked("make") : m \in asked /\ Ended(m))
                    => \E m \in asked : task[m].result
  /\ Asked("make") \cup Asked("touch") = {} =>
       \A m \in Asked("remove") : LET p == task[m].call.path IN
         (\A n \in Asked("remove") : Ended(n)) /\ p \in DOMAIN found /\ found[p].kind = "dir"
           => Inside(p, tree) = {}
  /\ \A m \in Asked("remove") : LET p == task[m].call.path IN
       Ended(m) /\ task[m].call.handler =>
         /\ task[m].raised = task[m].errors
         /\ /\ Asked("make") \cup Asked("touch") = {} /\ task[m].raised = 0
            /\ p \in DOMAIN found /\ found[p].kind = "dir"
            => Inside(p, tree) = {}
  /\ Asked("remove") = {} => \A m \in Asked("real") : Ended(m) => RealPathIsRight(m)
  /\ Asked("make") \cup Asked("remove") \cup Asked("touch") = {} =>
       \A m \in Asked("walk") : Ended(m) /\ Stat(task[m].call.path) = "dir" =>
         {Resolve(found, q, TRUE, MaxLinks) : q \in task[m].seen}
           = Reachable(task[m].call.path, task[m].call.follow)

\* "Tf runtime errors are raised if any errors are encountered while deleting
\* the specified path" (fileUtils.h:192-193).
RemovalErrorsAreRaised ==
  \A m \in Asked("remove") : Ended(m) => (task[m].errors > 0 => task[m].raised > 0)

=============================================================================
