------------------------------ MODULE Library ------------------------------
(***************************************************************************)
(* Library facades on disk (library.py): install writes the files of a       *)
(* package one after the other, each atomically and the lock last; remove    *)
(* deletes a tree.  Either may be killed between two steps.  One command     *)
(* runs at a time.  What is rendered into a file is its library and version; *)
(* py.typed, the same for all, is left out.                                  *)
(***************************************************************************)
EXTENDS Naturals, Sequences, SequencesExt

CONSTANTS
    Libraries,      \* the coordinates without a version
    HomeOf,         \* the default path <<publisher, package>> of each library
    Aliases,        \* the one-segment paths that an alias selects
    Versions,
    MaxCommands     \* bound of the commands that are begun

Paths == Aliases \cup {HomeOf[l] : l \in Libraries}

ASSUME LibraryAssumption ==
    /\ \A p \in Aliases : Len(p) = 1
    /\ \A l \in Libraries : Len(HomeOf[l]) = 2
    /\ MaxCommands \in Nat

VARIABLES
    files,          \* [Paths -> [Parts -> what the file holds]]
    command,        \* the running command
    commands,       \* the number of commands begun
    torn            \* history: the paths whose files a command may have left mixed

libraryVars == <<files, command, commands, torn>>

NoFile == [library |-> "none", version |-> 0]
NoCommand == [kind |-> "none"]
Parts == {"source", "stub", "lock"}

LibraryInit ==
    /\ files = [p \in Paths |-> [part \in Parts |-> NoFile]]
    /\ command = NoCommand /\ commands = 0 /\ torn = {}

Lock(p) == files[p]["lock"]

\* The files below a directory include those of the libraries nested in it.
Below(p) == {q \in Paths : IsPrefix(p, q)}

Begin(c, paths) ==
    /\ command = NoCommand /\ commands < MaxCommands
    /\ command' = c /\ commands' = commands + 1
    /\ torn' = torn \cup {q \in paths : Lock(q) # NoFile}
    /\ UNCHANGED files

----------------------------------------------------------------------------
(* install_library()                                                        *)

\* Mutant: any library of the same path may be replaced.
Unowned(p, l) == Lock(p) = NoFile \/ p \in Aliases

\* A path belongs to the library that its lock names.
Owned(p, l) == Lock(p) = NoFile \/ Lock(p).library = l

InstallBegin(l, v, p) ==
    /\ p \in Aliases \cup {HomeOf[l]} /\ Owned(p, l)
    /\ Begin([kind |-> "install", path |-> p, next |-> 1,
              content |-> [library |-> l, version |-> v]], {p})

\* Mutant: the lock is written first.
LockFirst(i) == <<"lock", "source", "stub">>[i]

WriteOrder(i) == <<"source", "stub", "lock">>[i]

\* _atomic_write() of the next file.
Write ==
    /\ command.kind = "install" /\ command.next <= 3
    /\ files' = [files EXCEPT ![command.path][WriteOrder(command.next)] = command.content]
    /\ command' = [command EXCEPT !.next = @ + 1]
    /\ UNCHANGED <<commands, torn>>

InstallEnd ==
    /\ command.kind = "install" /\ command.next = 4
    /\ torn' = torn \ {command.path} /\ command' = NoCommand
    /\ UNCHANGED <<files, commands>>

----------------------------------------------------------------------------
(* remove_library(): rmtree() of the directory of the lock                  *)

RemoveBegin(p) ==
    /\ Lock(p) # NoFile
    /\ Begin([kind |-> "remove", path |-> p], Below(p))

Unlink(p, part) ==
    /\ command.kind = "remove" /\ p \in Below(command.path)
    /\ files[p][part] # NoFile
    /\ files' = [files EXCEPT ![p][part] = NoFile]
    /\ UNCHANGED <<command, commands, torn>>

RemoveEnd ==
    /\ command.kind = "remove"
    /\ \A p \in Below(command.path), part \in Parts : files[p][part] = NoFile
    /\ torn' = torn \ Below(command.path) /\ command' = NoCommand
    /\ UNCHANGED <<files, commands>>

\* The process dies, or a write fails: nothing is rolled back.
Interrupted ==
    /\ command # NoCommand
    /\ command' = NoCommand
    /\ UNCHANGED <<files, commands, torn>>

----------------------------------------------------------------------------
LibraryNext ==
    \/ \E l \in Libraries, v \in Versions, p \in Paths : InstallBegin(l, v, p)
    \/ \E p \in Paths : RemoveBegin(p)
    \/ Write \/ InstallEnd \/ RemoveEnd \/ Interrupted
    \/ \E p \in Paths, part \in Parts : Unlink(p, part)

LibrarySpec == LibraryInit /\ [][LibraryNext]_libraryVars

----------------------------------------------------------------------------
(* Properties                                                               *)

\* What can be imported from a listed path is the library that its lock names, or
\* missing, never the code of another one, whatever was interrupted before and
\* whatever other libraries were installed under the same alias or around it.
ListedIsOwn ==
    \A p \in Paths, part \in Parts :
      Lock(p) # NoFile => files[p][part] = NoFile \/ files[p][part].library = Lock(p).library

\* A listed library is complete and in the version that is listed, unless a command
\* that replaces or removes it is running or was interrupted.
ListedIsWhole ==
    \A p \in Paths \ torn, part \in Parts : Lock(p) # NoFile => files[p][part] = Lock(p)
=============================================================================
