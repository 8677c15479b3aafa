-------------------------------- MODULE Files --------------------------------
(***************************************************************************)
(* bareos.h on POSIX: several processes read, write, create, remove,       *)
(* rename and list files of one tree.  A step is a system call; between    *)
(* two of them the others may change what the first one saw.               *)
(***************************************************************************)
EXTENDS Naturals, FiniteSets, SequencesExt

CONSTANTS
    Procs,
    Paths,      \* the paths a process may name: sequences of names
    Links,      \* symbolic links other programs make: a path, a target
    Contents,   \* what os_write_file writes: sequences
    Inodes,     \* the disk's; bound: one that is freed is not given again
    Null        \* str_null

Names == UNION {Range(p) : p \in Paths \cup {l.path : l \in Links}}
Letters == UNION {Range(c) : c \in Contents}

ASSUME FilesAssumption ==
    /\ 0 \in Inodes
    /\ Paths \cup {l.path : l \in Links} \subseteq Seq(Names) \ {<<>>}
    /\ Contents \subseteq Seq(Letters)

VARIABLES
    dir,      \* the tree: paths to inodes; the root <<>> is inode 0
    node,     \* the inodes made so far: kind, bytes or target
    proc,     \* each process's call: how far it has come, or what it returned
    touched   \* what others changed since each call began (history)

fileVars == <<dir, node, proc, touched>>

Exists(p) == p \in DOMAIN dir
Kind(p) == IF Exists(p) THEN node[dir[p]].kind ELSE "none"
Data(p) == node[dir[p]].data
Children(p) == {q \in DOMAIN dir : Len(q) = Len(p) + 1 /\ IsPrefix(p, q)}
Fresh == Inodes \ DOMAIN node
Node(kind, data) == [kind |-> kind, data |-> data]
NoCall == [call |-> "none"]

FilesInit ==
    /\ dir = [p \in {<<>>} |-> 0]
    /\ node = [i \in {0} |-> Node("dir", <<>>)]
    /\ proc = [x \in Procs |-> NoCall]
    /\ touched = [x \in Procs |-> {}]

Ready(x) == proc[x].call \in {"none", "done"}

\* A result is looked at as it is returned: it is gone with the next step of any
\* process.
Pending(y) == IF proc[y].call = "done" THEN NoCall ELSE proc[y]
Goto(x, call) == proc' = [y \in Procs |-> IF y = x THEN call ELSE Pending(y)]
Answer(x, name, p, result) ==
    Goto(x, [call |-> "done", name |-> name, path |-> p, result |-> result])

\* A call whose result no property looks at.
Forget(x) == Goto(x, NoCall)

Made(p) == <<"made", p>>
Lost(p) == <<"lost", p>>
Written(i) == <<"written", i>>

\* The changes that may excuse the result of a call.
Matters(thing, c) ==
    \/ c.call = "read" /\ thing = Written(c.inode)
    \/ c.call = "mkdir_all" /\ thing[1] = "lost" /\ IsPrefix(thing[2], c.path)
    \/ c.call = "readdir" /\ thing[1] \in {"made", "lost"} /\ Front(thing[2]) = c.path

\* A change by x, in the history of the other processes' calls; the history of x
\* starts again with its call.
Touch(x, things) ==
    touched' = [y \in Procs |-> IF proc'[y] = NoCall \/ (y = x /\ Ready(x)) THEN {}
                                ELSE IF y = x THEN touched[y]
                                ELSE touched[y] \cup {h \in things : Matters(h, proc'[y])}]

With(f, x, y) == [z \in DOMAIN f \cup {x} |-> IF z = x THEN y ELSE f[z]]
Without(f, x) == [z \in DOMAIN f \ {x} |-> f[z]]
HasPlace(p) == ~Exists(p) /\ Kind(Front(p)) = "dir"
DiskFull == Fresh = {}
MayMake(p) == HasPlace(p) /\ ~DiskFull
Make(p, n) ==
    LET i == CHOOSE i \in Fresh : TRUE
    IN  dir' = With(dir, p, i) /\ node' = With(node, i, n)

----------------------------------------------------------------------------
(* Reading and writing *)

\* os_write_file as far as open, which creates or truncates.
WriteOpen(x, p, c) ==
    /\ Ready(x) /\ Kind(p) # "link"
    /\ \/ /\ MayMake(p) /\ Make(p, Node("file", <<>>))
          /\ Goto(x, [call |-> "write", path |-> p, inode |-> dir'[p], data |-> c])
          /\ Touch(x, {Made(p)})
       \/ /\ Kind(p) = "file"
          /\ node' = [node EXCEPT ![dir[p]].data = <<>>]
          /\ Goto(x, [call |-> "write", path |-> p, inode |-> dir[p], data |-> c])
          /\ Touch(x, {Written(dir[p])}) /\ UNCHANGED dir
       \/ /\ ~MayMake(p) /\ Kind(p) # "file"
          /\ Forget(x)
          /\ Touch(x, {}) /\ UNCHANGED <<dir, node>>

\* The one write: a full disk may cut it.
WriteData(x) ==
    /\ proc[x].call = "write"
    /\ \E k \in 0 .. Len(proc[x].data) :
          LET i == proc[x].inode
              old == node[i].data
          IN  /\ node' = [node EXCEPT ![i].data = SubSeq(proc[x].data, 1, k)
                                                    \o SubSeq(old, k + 1, Len(old))]
              /\ Forget(x)
              /\ Touch(x, {Written(i)})
    /\ UNCHANGED dir

\* os_read_file as far as fstat; the code asserts that open succeeds.
ReadOpen(x, p) ==
    /\ Ready(x) /\ Kind(p) = "file"
    /\ IF Data(p) = <<>>
       THEN Goto(x, [call |-> "done", name |-> "read", path |-> p,
                     inode |-> dir[p], result |-> Null])
       ELSE Goto(x, [call |-> "read", path |-> p, inode |-> dir[p],
                     size |-> Len(Data(p))])
    /\ Touch(x, {}) /\ UNCHANGED <<dir, node>>

\* The one read, of the size fstat told.
ReadData(x) ==
    /\ proc[x].call = "read"
    /\ LET bytes == node[proc[x].inode].data
           got == IF Len(bytes) < proc[x].size THEN Len(bytes) ELSE proc[x].size
       IN  Goto(x, [call |-> "done", name |-> "read", path |-> proc[x].path,
                    inode |-> proc[x].inode, result |-> SubSeq(bytes, 1, got)])
    /\ Touch(x, {}) /\ UNCHANGED <<dir, node>>

----------------------------------------------------------------------------
(* The tree *)

\* mkdir of path q within a call of x; "then" is what the call does next.
MkdirAt(x, q) ==
    IF MayMake(q) THEN Make(q, Node("dir", <<>>)) /\ Touch(x, {Made(q)})
                  ELSE UNCHANGED <<dir, node>> /\ Touch(x, {})

OsMkdir(x, p) ==
    /\ Ready(x)
    /\ Forget(x)
    /\ MkdirAt(x, p)

MkdirAll(p, depth, full) ==
    [call |-> "mkdir_all", path |-> p, depth |-> depth, full |-> full]

OsMkdirAll(x, p) ==
    /\ Ready(x)
    /\ Goto(x, MkdirAll(p, 1, FALSE))
    /\ Touch(x, {}) /\ UNCHANGED <<dir, node>>

\* The last mkdir succeeds or finds the path there.
MkdirOk_OnlyMade(p) == MayMake(p)
MkdirOk(p) == MayMake(p) \/ Exists(p)

\* One mkdir of os_mkdir_all: errors on the way are ignored.  A disk that was full
\* is remembered with the result.
MkdirAllStep(x) ==
    /\ proc[x].call = "mkdir_all"
    /\ LET p == proc[x].path
           q == SubSeq(p, 1, proc[x].depth)
           full == proc[x].full \/ (HasPlace(q) /\ DiskFull)
       IN  /\ IF q = p THEN Answer(x, "mkdir_all", p,
                                   [ok |-> MkdirOk(p), full |-> full])
                       ELSE Goto(x, MkdirAll(p, proc[x].depth + 1, full))
           /\ MkdirAt(x, q)

OsRemove(x, p) ==
    /\ Ready(x)
    /\ LET ok == Exists(p) /\ Children(p) = {} IN
       /\ dir' = IF ok THEN Without(dir, p) ELSE dir
       /\ Forget(x)
       /\ Touch(x, IF ok THEN {Lost(p)} ELSE {})
    /\ UNCHANGED node

\* os_rename of anything but a directory, over anything but a directory.
OsRename(x, p, q) ==
    /\ Ready(x) /\ p # q
    /\ Kind(p) \in {"file", "link"} /\ Kind(q) # "dir"
    /\ LET ok == Exists(q) \/ HasPlace(q) IN
       /\ dir' = IF ok THEN With(Without(dir, p), q, dir[p]) ELSE dir
       /\ Forget(x)
       /\ Touch(x, IF ok THEN {Lost(p), Lost(q), Made(q)} ELSE {})
    /\ UNCHANGED node

\* Another program makes a symbolic link: external.
Symlink(p, t) ==
    /\ MayMake(p) /\ Make(p, Node("link", t))
    /\ proc' = [y \in Procs |-> Pending(y)]
    /\ touched' = [y \in Procs |->
                      IF proc'[y] = NoCall THEN {}
                      ELSE touched[y] \cup {h \in {Made(p)} : Matters(h, proc'[y])}]

----------------------------------------------------------------------------
(* Listing *)

Info(q, kind, target) == [path |-> q, kind |-> kind, target |-> target]

\* os_readlink of a path.
ReadLink(q) == IF Kind(q) = "link" THEN Data(q) ELSE Null

\* os_readdir: opendir asserts, "left" are the entries readdir has not given,
\* "link" is the one whose target is still to be read.
Listing(p, left, link, infos) ==
    [call |-> "readdir", path |-> p, left |-> left, link |-> link, infos |-> infos]

OsReaddir(x, p) ==
    /\ Ready(x) /\ Kind(p) = "dir"
    /\ Goto(x, Listing(p, Children(p), {}, {}))
    /\ Touch(x, {}) /\ UNCHANGED <<dir, node>>

\* One entry: skipped if lstat fails.  _stat_to_info fills a link's target in, by
\* the name alone, which is looked up in the current directory.
ReaddirEntry(x) ==
    /\ proc[x].call = "readdir" /\ proc[x].link = {}
    /\ \E q \in proc[x].left :
          LET c == proc[x]
              left == c.left \ {q}
              info == Info(q, Kind(q), IF Kind(q) = "link" THEN ReadLink(<<Last(q)>>)
                                                           ELSE Null)
          IN  Goto(x, IF ~Exists(q) THEN Listing(c.path, left, {}, c.infos)
                      ELSE IF Kind(q) = "link" THEN Listing(c.path, left, {info}, c.infos)
                      ELSE Listing(c.path, left, {}, c.infos \cup {info}))
    /\ Touch(x, {}) /\ UNCHANGED <<dir, node>>

\* The readlink by the full path, which replaces the target unless it fails.
ReaddirLink(x) ==
    /\ proc[x].call = "readdir"
    /\ \E l \in proc[x].link :
          LET c == proc[x]
              info == IF Kind(l.path) = "link" THEN Info(l.path, l.kind, ReadLink(l.path)) ELSE l
          IN  Goto(x, Listing(c.path, c.left, {}, c.infos \cup {info}))
    /\ Touch(x, {}) /\ UNCHANGED <<dir, node>>

ReaddirReturns(x) ==
    /\ proc[x].call = "readdir" /\ proc[x].left = {} /\ proc[x].link = {}
    /\ Answer(x, "readdir", proc[x].path, proc[x].infos)
    /\ Touch(x, {}) /\ UNCHANGED <<dir, node>>

FilesNext ==
    \/ \E x \in Procs :
          \/ WriteData(x) \/ ReadData(x) \/ MkdirAllStep(x)
          \/ ReaddirEntry(x) \/ ReaddirLink(x) \/ ReaddirReturns(x)
          \/ \E p \in Paths :
                \/ \E c \in Contents : WriteOpen(x, p, c)
                \/ ReadOpen(x, p) \/ OsMkdir(x, p) \/ OsMkdirAll(x, p) \/ OsRemove(x, p)
                \/ \E q \in Paths : OsRename(x, p, q)
          \/ \E p \in Paths \cup {<<>>} : OsReaddir(x, p)
    \/ \E l \in Links : Symlink(l.path, l.target)

FilesSpec == FilesInit /\ [][FilesNext]_fileVars

----------------------------------------------------------------------------
(* Properties *)

Returned(x, name) == proc[x].call = "done" /\ proc[x].name = name
Undisturbed(x, p) == Made(p) \notin touched[x] /\ Lost(p) \notin touched[x]

\* os_read_file returns the whole file unless it was written between fstat and
\* now, renamed or removed files included.
ReadIsWhole ==
    \A x \in Procs : Returned(x, "read") /\ Written(proc[x].inode) \notin touched[x] =>
        proc[x].result = LET d == node[proc[x].inode].data
                         IN  IF d = <<>> THEN Null ELSE d

\* Processes that make the same path at the same time do not disturb each other:
\* os_mkdir_all fails only if something that is no directory stands in the way or
\* the disk was full, and after it says true the path exists.
MkdirAllMakes ==
    \A x \in Procs : Returned(x, "mkdir_all") =>
        LET p == proc[x].path IN
        (\A i \in 1 .. Len(p) : Lost(SubSeq(p, 1, i)) \notin touched[x]) =>
            IF proc[x].result.ok
            THEN Exists(p)
            ELSE \/ proc[x].result.full
                 \/ \E i \in 1 .. Len(p) - 1 : Kind(SubSeq(p, 1, i)) \in {"file", "link"}

\* os_readdir lists every entry nobody touched once, as it is, a link with its
\* own target, whatever comes and goes around it.
ListingIsExact ==
    \A x \in Procs : Returned(x, "readdir") =>
        \A q \in {i.path : i \in proc[x].result} \cup Children(proc[x].path) :
            Undisturbed(x, q) =>
                {i \in proc[x].result : i.path = q} = {Info(q, Kind(q), ReadLink(q))}

\* The calls of bareos.h that take several system calls answer what is true of
\* the tree unless someone else changed just that.
FilesSound == ReadIsWhole /\ MkdirAllMakes /\ ListingIsExact
=============================================================================
