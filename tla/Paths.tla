------------------------------- MODULE Paths -------------------------------
(***************************************************************************)
(* barepath.h: paths as byte sequences, with '/' and '\' as separators.    *)
(***************************************************************************)
EXTENDS Strs

Dot == 46
Sep == {Slash, 92}
Here == <<Dot>>
Parent == <<Dot, Dot>>

\* A path without its trailing separators, but for a first one.
Stripped(p) == IF p = <<>> THEN p ELSE <<p[1]>> \o TrimRight(Tail(p), Sep)
LastName(p) == LastIndexFunc(p, Sep) + 1

PathDir(p) ==
    LET dir == Upto(p, LastName(Stripped(p)))
    IN  IF p = <<>> \/ LastName(Stripped(p)) = 0 THEN Here ELSE Stripped(dir)
PathBase(p) == IF p = <<>> THEN Here ELSE From(Stripped(p), LastName(Stripped(p)))
PathExt(p) ==
    LET dot == LastIndexFunc(PathBase(p), {Dot})
    IN  IF dot <= 0 THEN <<>> ELSE From(PathBase(p), dot)
PathStem(p) == TrimSuffix(PathBase(p), PathExt(p))
PathIsAbs(p) ==
    \/ p # <<>> /\ p[1] \in Sep
    \/ Len(p) >= 3 /\ p[2] = 58 /\ p[3] \in Sep

\* path_is_clean: no backslash, no empty name, no "." and no "..".
PathIsClean(p) ==
    \A i \in DOMAIN p :
        /\ p[i] # 92
        /\ ~(p[i] = Slash /\ i < Len(p) /\ p[i + 1] = Slash)
        /\ p[i] = Dot /\ (i = 1 \/ p[i - 1] = Slash) =>
               /\ i < Len(p) /\ p[i + 1] # Slash
               /\ p[i + 1] = Dot => i + 1 < Len(p) /\ p[i + 2] # Slash

PathJoin(left, right) ==
    LET l == TrimRight(left, Sep)
        r == TrimLeft(right, Sep)
    IN  IF PathIsAbs(right) THEN right
        ELSE IF l = <<>> THEN r ELSE IF r = <<>> THEN l
        ELSE l \o <<Slash>> \o r
PathJoinSlice(parts) ==
    IF parts = <<>> THEN <<>> ELSE FoldLeft(PathJoin, Head(parts), Tail(parts))

\* What path_clean has written, out, after one more name.
Popped(out, rooted) ==
    LET cut == LastIndexFunc(out, {Slash})
    IN  IF rooted THEN Upto(out, Max({1, cut})) ELSE Upto(out, Max({0, cut}))
NameAdded(out, name, rooted) ==
    IF name = Here THEN out
    ELSE IF name = Parent /\ (rooted \/ out # <<>>) THEN Popped(out, rooted)
    ELSE out \o (IF out # <<>> /\ Last(out) # Slash THEN <<Slash>> ELSE <<>>) \o name
PathClean(p) ==
    LET rooted == p # <<>> /\ p[1] \in Sep
        out == FoldLeft(LAMBDA o, name : NameAdded(o, name, rooted),
                        IF rooted THEN <<Slash>> ELSE <<>>, FieldsFunc(p, Sep))
    IN  IF out = <<>> THEN Here ELSE out

PathRel(p, base) ==
    LET cp == PathClean(p)
        cb == PathClean(base)
        rest == From(cp, Len(cb))
    IN  IF HasPrefix(cp, cb) /\ (rest = <<>> \/ rest[1] \in Sep)
        THEN IF rest = <<>> THEN <<>> ELSE Tail(rest)
        ELSE p

PathWithExt(p, new) ==
    LET dot == IF HasPrefix(new, Here) THEN <<>> ELSE Here
    IN  Upto(p, Len(p) - Len(PathExt(p))) \o dot \o new

-----------------------------------------------------------------------------
(* What a path names: how far above its start it goes, and the names below *)
(* that point (".." at the root is the root).                              *)

Step(at, name) ==
    IF name = Here THEN at
    ELSE IF name # Parent THEN [at EXCEPT !.down = Append(@, name)]
    ELSE IF at.down # <<>> THEN [at EXCEPT !.down = Front(@)]
    ELSE [at EXCEPT !.up = IF at.rooted THEN 0 ELSE @ + 1]
Place(p) ==
    FoldLeft(Step, [rooted |-> p # <<>> /\ p[1] \in Sep, up |-> 0, down |-> <<>>],
             FieldsFunc(p, Sep))

\* path_clean leaves what a path names and is stable, for a path that goes at
\* most one directory above its start; a result that names no parent is clean.
\* The directory and the last name of a path joined are the path, for a
\* relative one; what path_rel finds below a base leads from the base to it;
\* a file's extension can be replaced and read back.
PathsAgree(p, Bases) ==
    LET clean == PathClean(p)
        names == SelectSeq(FieldsFunc(p, Sep), LAMBDA n : n # Here)
        above(n) == Place(Upto(p, n)).up
    IN  /\ (\A n \in 0 .. Len(p) : above(n) <= 1) =>
               /\ Place(clean) = Place(p)
               /\ PathClean(clean) = clean
               /\ Place(p).up = 0 /\ clean # Here => PathIsClean(clean)
        /\ PathStem(p) \o PathExt(p) = PathBase(p)
        /\ ~PathIsAbs(p) => Place(PathJoin(PathDir(p), PathBase(p))) = Place(p)
        /\ \A base \in Bases :
               /\ Place(PathJoinSlice(<<base, base, p>>))
                      = Place(PathJoin(base, PathJoin(base, p)))
               /\ LET rel == PathRel(p, base)
                  IN  rel # p /\ ~PathIsAbs(rel) => PathClean(PathJoin(base, rel)) = clean
        /\ p # <<>> /\ Last(p) \notin Sep \cup {Dot} =>
               PathExt(PathWithExt(p, <<97>>)) = <<Dot, 97>>
=============================================================================
