----------------------------- MODULE WatchedFile -----------------------------
(***************************************************************************)
(* What a program promises that keeps a copy of a file others write, and   *)
(* looks at the file again only when its mtime is not the one it           *)
(* remembers: once the mtime is the remembered one, the copy is the file.  *)
(* The daemon watches two files this way, packages.list and rules.json;    *)
(* UserData instantiates this module for each.                             *)
(***************************************************************************)
CONSTANTS Contents,      \* what the file may hold
          Copies,        \* what the program may hold of it
          Readable(_)    \* whether a content can be read at all

VARIABLES file,          \* the file's content
          copy,          \* what the program made of it
          fresh          \* the program believes it need not look again

vars == <<file, copy, fresh>>

Init == file \in Contents /\ copy \in Copies /\ fresh = FALSE

\* Somebody writes the file: the mtime is a new one.
Write == file' \in Contents /\ fresh' = FALSE /\ UNCHANGED copy

\* The copy is taken, and the file is what was copied.
Read == Readable(file) /\ copy' = file /\ fresh' \in BOOLEAN /\ UNCHANGED file

\* A read that a write has overtaken, or a restart: the mtime remembered is an old one.
ReadOld == copy' \in Copies /\ fresh' = FALSE /\ UNCHANGED file

\* The file is no use: the program runs on what it has, until the file changes.
MakeDo == ~Readable(file) /\ copy' \in Copies /\ fresh' \in BOOLEAN /\ UNCHANGED file

Next == Write \/ Read \/ ReadOld \/ MakeDo

Spec == Init /\ [][Next]_vars
==============================================================================
