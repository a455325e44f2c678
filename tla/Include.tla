------------------------------ MODULE Include ------------------------------
(***************************************************************************)
(* hcl/ext/include: the files named by the "include" attribute of a body   *)
(* are parsed, their own includes are followed up to a depth, and all the  *)
(* bodies are merged.  A file system is a function from paths (sequences   *)
(* of names) to files; the proper prefixes of a path are directories.  A   *)
(* file has the patterns of its "include" attribute and blocks, which are  *)
(* only passed on; a merged body is the sequence of the paths it consists  *)
(* of.  One turn of one of the loops of Include is a step.                 *)
(***************************************************************************)
EXTENDS Integers, Sequences, SequencesExt

CONSTANTS
  FileNames,     \* the names a path consists of, and "*"
  FileSystems,   \* the possible configurations
  MaxDepths,     \* the possible arguments maxDepth of Include
  Main,          \* the path of the file that is loaded
  Order,         \* names of files, directories and variables, sorted
  NoAttr,        \* a body without an "include" attribute
  BadAttr        \* the attribute is not a list of strings

Path == Seq(FileNames)

HasIncludes(file) == file.include \notin {NoAttr, BadAttr}

\* A pattern may have a name that path.Match refuses; all of these are one.
Pattern == Seq(FileNames \cup {"*["})
Malformed(pattern) == "*[" \in ToSet(pattern)

ASSUME IncludeAssumption ==
  /\ MaxDepths \subseteq Nat
  /\ Main \in Path
  /\ Order \in Seq(FileNames)
  /\ NoAttr # BadAttr /\ "*[" \notin FileNames
  /\ \A files \in FileSystems :
       /\ DOMAIN files \subseteq Path
       /\ \A path \in DOMAIN files :
            HasIncludes(files[path]) => files[path].include \in Seq(Pattern)

VARIABLES
  fs,        \* the file system
  maxDepth,  \* the argument of Include
  calls,     \* the calls of Include that run, the innermost last
  bodies,    \* the files that are merged
  diags,     \* the error Include returns, or "none"
  levels     \* history: how many includes away each of the bodies is

includeVars == <<fs, maxDepth, calls, bodies, diags, levels>>

\* What a call has left to do: the rest of the patterns, and the rest of the
\* paths of the current pattern, in the directory of the file.
Call(dir, patterns, paths) == [dir |-> dir, patterns |-> patterns, paths |-> paths]

IncludeTypeOK ==
  /\ fs \in FileSystems
  /\ maxDepth \in MaxDepths
  /\ calls \in Seq([dir : Path, patterns : Seq(Pattern), paths : Seq(Path)])
  /\ bodies \in Seq(Path)
  /\ diags \in {"none", "parse", "attribute", "depth", "pattern"}
  /\ levels \in Seq(Nat) /\ Len(levels) = Len(bodies)

-----------------------------------------------------------------------------
\* A pattern is a path relative to the file's directory; "*" as its last name
\* stands for everything in a directory.
IsGlob(pattern) == Last(pattern) = "*"

Exists(files, path) ==
  path \in DOMAIN files \/ \E file \in DOMAIN files : IsStrictPrefix(path, file)

\* fs.Glob finds the files and the directories in a directory, sorted.
Glob(files, dir) ==
  LET found[i \in 0..Len(Order)] ==
        IF i = 0 THEN <<>>
        ELSE IF Exists(files, Append(dir, Order[i])) THEN Append(found[i - 1], Append(dir, Order[i]))
        ELSE found[i - 1]
  IN  found[Len(Order)]

glob(files, dir, pattern) ==
  IF IsGlob(pattern) THEN Glob(files, dir \o Front(pattern)) ELSE <<dir \o pattern>>

\* A file can be read and parsed.  A directory cannot be read; it also stands
\* for a file that does not parse.
ParseFileFS(path) == path \in DOMAIN fs

\* Mutant: the depth is checked before the attribute.
TooDeepStrict(file, depth) == depth < 0

\* The check of the depth comes after the attribute is decoded, so that a body
\* without includes is allowed at depth -1.
TooDeep(file, depth) == depth < 0 /\ HasIncludes(file)

-----------------------------------------------------------------------------
\* The caller has parsed Main and calls Include.
IncludeInit ==
  /\ fs \in FileSystems
  /\ maxDepth \in MaxDepths
  /\ calls = <<Call(<<>>, <<>>, <<Main>>)>>
  /\ bodies = <<>>
  /\ diags = "none"
  /\ levels = <<>>

Current == Last(calls)

\* The innermost call goes on.
Continue(call) == [calls EXCEPT ![Len(calls)] = call]

\* The level of the next path, and the depth with which it is included.
NextLevel == Len(calls) - 1
NextDepth == maxDepth - NextLevel

\* for _, pattern := range includes
HasPattern == calls # <<>> /\ Current.paths = <<>> /\ Current.patterns # <<>>

NextPattern ==
  /\ HasPattern /\ ~Malformed(Head(Current.patterns))
  /\ calls' = Continue(Call(Current.dir, Tail(Current.patterns),
                            glob(fs, Current.dir, Head(Current.patterns))))
  /\ UNCHANGED <<fs, maxDepth, bodies, diags, levels>>

\* for _, path := range paths
HasPath == calls # <<>> /\ Current.paths # <<>>
NextPath == Head(Current.paths)
PathDone == Call(Current.dir, Current.patterns, Tail(Current.paths))

\* All calls return an error.
Fail(error) ==
  /\ calls' = <<>>
  /\ bodies' = <<>>
  /\ levels' = <<>>
  /\ diags' = error
  /\ UNCHANGED <<fs, maxDepth>>

PatternFails == HasPattern /\ Malformed(Head(Current.patterns)) /\ Fail("pattern")

ParseFails == HasPath /\ ~ParseFileFS(NextPath) /\ Fail("parse")

AttrFails ==
  /\ HasPath
  /\ ParseFileFS(NextPath) /\ fs[NextPath].include = BadAttr
  /\ Fail("attribute")

DepthFails ==
  /\ HasPath
  /\ ParseFileFS(NextPath) /\ TooDeep(fs[NextPath], NextDepth)
  /\ Fail("depth")

\* The file is merged; it comes before the ones it includes.
MergeBody ==
  /\ bodies' = Append(bodies, NextPath)
  /\ levels' = Append(levels, NextLevel)
  /\ UNCHANGED <<fs, maxDepth, diags>>

\* Include returns a body without the attribute as it is.
IncludeBody ==
  /\ HasPath
  /\ ParseFileFS(NextPath) /\ ~TooDeep(fs[NextPath], NextDepth)
  /\ fs[NextPath].include = NoAttr
  /\ calls' = Continue(PathDone)
  /\ MergeBody

\* Include calls itself, within the directory of the file.  fs.Sub accepts the
\* directory of a path that was read.
IncludeFile ==
  /\ HasPath
  /\ ParseFileFS(NextPath) /\ ~TooDeep(fs[NextPath], NextDepth)
  /\ HasIncludes(fs[NextPath])
  /\ calls' = Append(Continue(PathDone), Call(Front(NextPath), fs[NextPath].include, <<>>))
  /\ MergeBody

\* Include returns what it has merged.
IncludeReturns ==
  /\ calls # <<>> /\ Current.paths = <<>> /\ Current.patterns = <<>>
  /\ calls' = Front(calls)
  /\ UNCHANGED <<fs, maxDepth, bodies, diags, levels>>

IncludeNext ==
  \/ NextPattern \/ IncludeBody \/ IncludeFile \/ IncludeReturns
  \/ PatternFails \/ ParseFails \/ AttrFails \/ DepthFails

IncludeSpec == IncludeInit /\ [][IncludeNext]_includeVars

-----------------------------------------------------------------------------
\* The paths that patterns stand for, and those that a file includes.  A
\* malformed pattern stands for itself, which is no file.
Found(files, dir, pattern) ==
  IF Malformed(pattern) THEN {dir \o pattern} ELSE ToSet(glob(files, dir, pattern))
Matches(files, dir, patterns) ==
  UNION {Found(files, dir, patterns[i]) : i \in DOMAIN patterns}
Includes(files, path) ==
  IF path \in DOMAIN files /\ HasIncludes(files[path])
  THEN Matches(files, Front(path), files[path].include) ELSE {}

\* The files that are n includes away from Main.
Level(files, max) ==
  LET level[n \in 0..max] ==
        IF n = 0 THEN {Main} ELSE UNION {Includes(files, path) : path \in level[n - 1]}
  IN  level

(***************************************************************************)
(* Include fails exactly if it reaches a path that is no file, a malformed *)
(* pattern, an attribute that does not decode, or a file with includes of  *)
(* its own that is more than maxDepth includes away, and says which; a     *)
(* cycle of includes thus always ends in an error, and never are there     *)
(* more calls than the depth allows.  Otherwise every file that is reached *)
(* is merged, and a file comes before the ones it includes.                *)
(***************************************************************************)
IncludeExact ==
  LET level == Level(fs, maxDepth + 1)
      reached == UNION {level[n] : n \in 0..(maxDepth + 1)}
      missing == \E path \in reached \ DOMAIN fs : ~Malformed(path)
      malformed == \E path \in reached : Malformed(path)
      undecoded == \E path \in reached \cap DOMAIN fs : fs[path].include = BadAttr
      deep == \E path \in level[maxDepth + 1] \cap DOMAIN fs : HasIncludes(fs[path])
  IN  /\ Len(calls) =< maxDepth + 2
      /\ calls = <<>> =>
           /\ diags = "parse" => missing
           /\ diags = "pattern" => malformed
           /\ diags = "attribute" => undecoded
           /\ diags = "depth" => deep
           /\ diags = "none" =>
                /\ ~missing /\ ~malformed /\ ~undecoded /\ ~deep
                /\ ToSet(bodies) = reached
                /\ \A f \in reached : \A g \in Includes(fs, f) :
                     \E i, j \in DOMAIN bodies : i < j /\ bodies[i] = f /\ bodies[j] = g

(***************************************************************************)
(* "Find all files matching the glob pattern" (include.go:58): what a      *)
(* pattern with "*" stands for are files, which can be included.           *)
(***************************************************************************)
GlobFindsFiles ==
  [][NextPattern /\ IsGlob(Head(Current.patterns))
       => ToSet(Last(calls').paths) \subseteq DOMAIN fs]_includeVars
=============================================================================
