------------------------------ MODULE FileUtil ------------------------------
(***************************************************************************)
(* FileUtil (src/mylog/util.hpp) and the constructor of FileSinker         *)
(* (src/mylog/sinker.hpp): the directory of a log file is created, step by *)
(* step, before the file is opened.                                        *)
(*                                                                         *)
(* The file system (outside src/) is the set of its directories, each a    *)
(* sequence of names from the root; no plain file is in the way and mkdir  *)
(* is permitted everywhere.  To the code a backslash separates, to the     *)
(* system it is a character like any other.                                *)
(***************************************************************************)
EXTENDS TextUtil

CONSTANT Cwd           \* the working directory of the process

Dot    == <<".">>
DotDot == <<".", ".">>

Missing == <<Dot>>     \* no directory has this name

(* getcwd leads through names only.                                        *)
ASSUME CwdAssumption ==
  Cwd \in Seq(Seq(STRING)) /\ \A i \in DOMAIN Cwd : Cwd[i] # Dot

Parent(dir) == IF dir = <<>> THEN <<>> ELSE Front(dir)

(* Where a name leads to from a directory, and where several do.           *)
Into(dirs, dir, name) ==
  IF dir = Missing \/ name = Dot THEN dir
  ELSE IF name = DotDot THEN Parent(dir)
  ELSE IF Append(dir, name) \in dirs THEN Append(dir, name) ELSE Missing

Walk(dirs, start, names) ==
  LET At[n \in 0 .. Len(names)] ==
        IF n = 0 THEN start ELSE Into(dirs, At[n - 1], names[n])
  IN  At[Len(names)]

Start(path) == IF path # <<>> /\ path[1] = "/" THEN <<>> ELSE Cwd
Names(path) == split(path, <<"/">>)

exists(dirs, path) == Walk(dirs, Start(path), Names(path)) # Missing

mkdir(dirs, path) ==
  LET parent == Walk(dirs, Start(path), Front(Names(path)))
      name   == Last(Names(path))
  IN  IF parent = Missing \/ name \in {Dot, DotDot} THEN dirs
      ELSE dirs \cup {Append(parent, name)}

-----------------------------------------------------------------------------
Separators == {"/", "\\"}

(* All up to the last separator, and with it.                              *)
getPath(file) ==
  LET Ends == {p \in DOMAIN file : file[p] \in Separators}
  IN  IF Ends = {} THEN Dot
      ELSE SubSeq(file, 1, CHOOSE p \in Ends : \A q \in Ends : q <= p)

(* Variant for the mutation runs: it stops at a directory that is there.   *)
createDirOnce(dirs, file) ==
  LET path == getPath(file)
      first == CHOOSE p \in 1 .. Len(path) + 1 :
                 /\ p = Len(path) + 1 \/ path[p] \in Separators
                 /\ \A q \in 1 .. p - 1 : path[q] \notin Separators
  IN  IF exists(dirs, path) \/ first = 1 \/ exists(dirs, SubSeq(path, 1, first - 1))
      THEN dirs ELSE mkdir(dirs, SubSeq(path, 1, first - 1))

(* The loop at place p of the path.  (What follows the last separator      *)
(* would be made too, but getPath leaves only "." without one.)            *)
MakeAt(dirs, path, p) ==
  LET subdir == SubSeq(path, 1, p - 1)
  IN  IF \/ path[p] \notin Separators
         \/ p = 1 \/ path[p - 1] \in Separators
         \/ subdir \in {Dot, DotDot}
         \/ exists(dirs, subdir)
      THEN dirs ELSE mkdir(dirs, subdir)

createDir(dirs, file) ==
  LET path == getPath(file)
      After[p \in 0 .. Len(path)] ==
        IF p = 0 THEN dirs ELSE MakeAt(After[p - 1], path, p)
  IN  IF exists(dirs, path) THEN dirs ELSE After[Len(path)]

(* FileSinker.                                                             *)
FileSinker(dirs, file) ==
  IF exists(dirs, getPath(file)) THEN dirs ELSE createDir(dirs, file)

-----------------------------------------------------------------------------
(* Whether a path is one of a file, by its form.                           *)
NamesFile(file) ==
  /\ file # <<>> /\ Last(file) # "/"
  /\ Last(Names(file)) \notin {Dot, DotDot}

(* The directory the file goes to, and the whole name it has there.        *)
Directory(dirs, file) == Walk(dirs, Start(file), Front(Names(file)))
Target(dirs, file)    == Append(Directory(dirs, file), Last(Names(file)))

(* The system opens a file, there already or not, in a directory that can  *)
(* be reached, unless the name is a directory's.                           *)
HasPlace(dirs, file) == Directory(dirs, file) # Missing
CanOpen(dirs, file)  == HasPlace(dirs, file) /\ Target(dirs, file) \notin dirs

(* The directories a path goes through.                                    *)
OnTheWay(dirs, file) ==
  {Walk(dirs, Start(file), SubSeq(Names(file), 1, n)) : n \in 0 .. Len(Names(file)) - 1}

=============================================================================
