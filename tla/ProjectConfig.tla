---------------------------- MODULE ProjectConfig ----------------------------
(***************************************************************************)
(* The projects of a configuration and the one that is current             *)
(* (src/src/testhub.cpp, finalizeProjects and what it calls).              *)
(*                                                                         *)
(* An id is a sequence: a word and the numbers that were appended to it, so*)
(* a configured "a-2" is the same as an "a" that was made unique.  <<>> is *)
(* an id or directory that is left out.                                    *)
(***************************************************************************)
EXTENDS Naturals, Sequences, SequencesExt

None == <<>>

\* A configuration: projects, currentProjectId, specsDir.
Config(projects, current, specsDir) ==
  [projects |-> projects, current |-> current, specsDir |-> specsDir]

Find(projects, id) == {i \in DOMAIN projects : projects[i].id = id}

First(I) == CHOOSE i \in I : \A j \in I : i <= j

\* applyCurrentProject: the directory follows the project, the first one if the
\* current id is nobody's.
ApplyCurrent(c) ==
  LET found == Find(c.projects, c.current)
      p == c.projects[IF found = {} THEN 1 ELSE First(found)]
  IN  [c EXCEPT !.current = p.id, !.specsDir = p.dir]

\* Mutant: a number is appended once.
Uniquified_Once(id, used) == IF id \in used THEN Append(id, 2) ELSE id

\* uniquifyId: the first of id, id-2, id-3, ... that is not taken.
Uniquified(id, used) ==
  IF id \notin used THEN id
  ELSE Append(id, CHOOSE k \in 2..9 : /\ Append(id, k) \notin used
                                      /\ \A j \in 2..(k - 1) : Append(id, j) \in used)

\* slugId: a project without an id gets one from its name or from its place.
Slug(p, i) == IF p.name # "" THEN <<p.name>> ELSE <<"project", i>>

DefaultDir(c) == IF c.specsDir = None THEN <<"specs">> ELSE c.specsDir

\* The ids and directories of the projects, one after the other.
Named(c) ==
  LET name(done, p) ==
        LET id == IF p.id = None THEN Slug(p, Len(done) + 1) ELSE p.id
        IN  Append(done, [p EXCEPT !.id = Uniquified(id, {done[i].id : i \in DOMAIN done}),
                                   !.dir = IF @ = None THEN DefaultDir(c) ELSE @])
  IN  FoldLeft(name, <<>>, c.projects)

\* finalizeProjects: the current project is the one with the current id, else the
\* one with the current directory, else the first.
Finalize(c) ==
  LET projects == IF c.projects = <<>>
                  THEN <<[id |-> <<"default">>, name |-> "default", dir |-> DefaultDir(c)]>>
                  ELSE Named(c)
      byDir == {i \in DOMAIN projects : projects[i].dir = c.specsDir}
  IN  ApplyCurrent([c EXCEPT !.projects = projects,
                             !.current = IF Find(projects, @) # {} THEN @
                                         ELSE projects[IF byDir # {} THEN First(byDir) ELSE 1].id])

\* applySpecsDirOverride (--specs): the project of that directory, else the
\* current project moves there.
Override(c, dir) ==
  LET f == Finalize(c)
      byDir == {i \in DOMAIN f.projects : f.projects[i].dir = dir}
  IN  IF dir = None THEN c
      ELSE IF byDir # {} THEN ApplyCurrent([f EXCEPT !.current = f.projects[First(byDir)].id])
      ELSE ApplyCurrent([f EXCEPT !.projects[First(Find(f.projects, f.current))].dir = dir])

-----------------------------------------------------------------------------
\* Whatever a configuration says, its projects can be told apart and exactly one
\* is current, with the directory that is served; finalizing again, as a saved
\* configuration that is loaded does, changes nothing.
ProjectsSettled(c) ==
  LET f == Finalize(c)
  IN  /\ \A i, j \in DOMAIN f.projects : f.projects[i].id = f.projects[j].id => i = j
      /\ \E p \in {f.projects[i] : i \in DOMAIN f.projects} : p.id = f.current /\ p.dir = f.specsDir
      /\ Finalize(f) = f

\* The project a configuration names stays current, provided that its projects
\* have ids and no two the same, and --specs wins over it.  (Otherwise the id may
\* be given to another project, which is current then.)
ChoiceKept(c, dir) ==
  LET f == Finalize(c)
      ids == [i \in DOMAIN c.projects |-> c.projects[i].id]
  IN  /\ IsInjective(ids) /\ None \notin Range(ids) =>
           \A i \in DOMAIN ids : ids[i] = c.current => f.projects[i].id = f.current
      /\ dir # None => Override(c, dir).specsDir = dir

=============================================================================
