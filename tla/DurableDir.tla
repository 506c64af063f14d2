----------------------------- MODULE DurableDir -----------------------------
(***************************************************************************)
(* A directory as the native stores of src/native-control/src/addon.cc     *)
(* depend on it.  The directory in memory is a function from names to      *)
(* objects.  Beside it goes a set of directory states, the ones a loss of  *)
(* power may leave: every change of a name adds a state to the set, and    *)
(* only a successful fsync (FlushFileBuffers on Windows) of the directory  *)
(* reduces the set to what is in memory.  Changes reach the disk in the    *)
(* order they were made, as on a journalling file system; the changes of   *)
(* two different directories are unordered, so every operator takes the    *)
(* set of names that live in the directory it concerns.                    *)
(***************************************************************************)
EXTENDS Naturals, FiniteSets

CONSTANT NoFile     \* the object of a name that does not exist

\* The kernel and its file system, as the calls in addon.cc use them.
Named(dir, n, o) == [dir EXCEPT ![n] = o]
Unlinked(dir, n) == [dir EXCEPT ![n] = NoFile]
Moved(dir, from, to) == [dir EXCEPT ![from] = NoFile, ![to] = dir[from]]

\* The state d with the names of one directory as they are in dir.
Overlaid(d, dir, names) ==
    [n \in DOMAIN dir |-> IF n \in names THEN dir[n] ELSE d[n]]

\* What a power loss may leave after the names of one directory changed to
\* dir, and after a successful fsync of that directory.
Recorded(disk, dir, names) ==
    disk \cup {Overlaid(d, dir, names) : d \in disk}
Flushed(disk, dir, names) == {Overlaid(d, dir, names) : d \in disk}

\* The identities (device and inode, or volume and file id) in use.
Identities(dirs) ==
    UNION {{d[n].id : n \in {m \in DOMAIN d : d[m] # NoFile}} : d \in dirs}
=============================================================================
