--------------------------------- MODULE Inert ---------------------------------
(***************************************************************************)
(* Which changed files cannot move a gate that reads Go                    *)
(* (internal/scope/inert.go), beside what the toolchain and the tests of a *)
(* tree really read.                                                       *)
(*                                                                         *)
(* A path is the sequence of its elements, the root of the checkout the    *)
(* empty one.  A source is the Go side of a tree: the directories that     *)
(* hold Go source, those below the root with a go.mod of their own, and    *)
(* each literal and each embed pattern with the directory of its file.  A  *)
(* literal may hold ".." and "."; a pattern's element "*" matches any.     *)
(***************************************************************************)
EXTENDS Naturals, Sequences, FiniteSets, SequencesExt

CONSTANT
  Compiled  \* the files beside Go source that the go command compiles with
            \* the package of their directory: assembly, headers, objects

Root == <<>>

Within(path, dir) == IsPrefix(dir, path)

(* A file itself and every directory on its path but the root. *)
Parts(file) == {SubSeq(file, 1, i) : i \in 1..Len(file)}

-----------------------------------------------------------------------------
(* The code's answer *)

(* Mutant: only the directory a file is in is asked about. *)
InPackage(source, file) ==
  \/ Front(file) \in source.pkgs \ {Root}
  \/ \E m \in source.modules : Within(file, m)

(* A package directory at or above the file's, the root left out, or a nested
   module, as the checkout lists them. *)
UnderPackage(source, file) ==
  \/ \E d \in source.pkgs \ {Root} : Within(Front(file), d)
  \/ \E m \in source.modules : Within(file, m)

(* path.Clean, element by element: "." is dropped, ".." takes away what is
   before it, and stays where nothing is. *)
CleanOne(done, e) ==
  IF e = "." THEN done
  ELSE IF e = ".." /\ done # Root /\ Last(done) # ".." THEN Front(done)
  ELSE Append(done, e)

Clean(path) ==
  LET done[n \in 0..Len(path)] == IF n = 0 THEN Root ELSE CleanOne(done[n - 1], path[n])
  IN  done[Len(path)]

Elements(files) == UNION {ToSet(f) : f \in files}

(* Mutant: a literal names a file by its path alone. *)
NamesByPath(files, literal) == Clean(literal) \in UNION {Parts(f) : f \in files}

(* needles.names: an element of the literal is one of a changed file's, or it
   is the path of one or of a directory above one. *)
Names(files, literal) ==
  \/ ToSet(literal) \cap (Elements(files) \ {"."}) # {}
  \/ Clean(literal) \in UNION {Parts(f) : f \in files}

(* path.Match, element by element. *)
Matches(pattern, path) ==
  /\ Len(pattern) = Len(path)
  /\ \A i \in 1..Len(path) : pattern[i] \in {"*", path[i]}

Below(file, dir) == SubSeq(file, Len(dir) + 1, Len(file))

(* Mutant: a pattern that names a directory matches no file in it. *)
EmbedsFile(files, dir, pattern) ==
  \E f \in files : Within(f, dir) /\ Matches(pattern, Below(f, dir))

(* needles.embeds: a pattern matches a changed file, or a directory above it. *)
Embeds(files, dir, pattern) ==
  \E f \in files : Within(f, dir) /\ \E p \in Parts(Below(f, dir)) : Matches(pattern, p)

(* inert, of changed files none of which is Go source or sends the run back to
   the whole tree; source is the checkout's. *)
Inert(source, files) ==
  /\ \A f \in files : ~UnderPackage(source, f)
  /\ \A l \in source.literals : ~Names(files, l.text)
  /\ \A e \in source.embeds : ~Embeds(files, e.dir, e.text)

-----------------------------------------------------------------------------
(* What is read *)

(* The paths a test of a package in dir puts together from its literals, as
   with filepath.Join: of one, or of two. *)
Spelled(source, dir) ==
  LET texts == {Root} \cup {l.text : l \in {m \in source.literals : m.dir = dir}}
  IN  {Clean(dir \o (a \o b)) : a, b \in texts}

(* A test opens a file it spells, or walks a directory it spells.  One that
   climbs and names nothing walks what is around it: the documented miss. *)
Opens(source, file) ==
  \E d \in source.pkgs : \E p \in Spelled(source, d) :
    Within(file, p) /\ ~Within(d, p)

(* The go command takes the files of a package's directory and below it, of
   the root package's those it compiles and those a pattern names; a nested
   module is a tree of its own. *)
Built(source, file) ==
  \/ \E d \in source.pkgs \ {Root} : Within(file, d)
  \/ file \in Compiled /\ Front(file) \in source.pkgs
  \/ \E m \in source.modules : Within(file, m)
  \/ \E e \in source.embeds : \E i \in 1..Len(file) :
       LET named == SubSeq(file, 1, i)
       IN  Within(named, e.dir) /\ Matches(e.dir \o e.text, named)

ReadByGo(source, file) == Built(source, file) \/ Opens(source, file)
=============================================================================
