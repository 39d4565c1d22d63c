--------------------------------- MODULE KeyStore ---------------------------------
(***************************************************************************)
(* storage/auth.py: the file ~/.nelson/openrouter_api_key as the processes *)
(* that save, read and delete it see it, one system call at a time.        *)
(*                                                                         *)
(* A file is an inode; deleting it takes its name away and leaves the      *)
(* inode to whoever has it open.  An inode created by process p is called  *)
(* p, since a process creates at most one; the one that is there from the  *)
(* start is called Old.  The text of key k is Size[k] blocks, and an       *)
(* inode's content is a sequence of blocks, each named by its key.         *)
(***************************************************************************)
EXTENDS Integers, Sequences

CONSTANTS
  Procs, \* processes
  Keys,  \* the keys that are ever saved
  Size,  \* number of blocks of each key
  Junk,  \* a block that is not valid UTF-8, which no command writes
  Old,   \* the inode that may exist at the start
  Absent \* no inode, no text

ASSUME KeyStoreAssumption ==
  /\ Size \in [Keys -> Nat \ {0}]
  /\ Junk \notin Keys
  /\ Old \notin Procs
  /\ Absent \notin Procs \cup {Old}
  /\ Absent \notin Seq(Keys \cup {Junk})

VARIABLES
  key_file, \* the inode the path names, or Absent
  content,  \* what each inode holds
  fd,       \* the inode each process has open, or Absent
  unlinked  \* inodes whose name was removed

storeVars == <<key_file, content, fd, unlinked>>

Inodes == Procs \cup {Old}

Blocks == Keys \cup {Junk}

Text(k) == [i \in 1 .. Size[k] |-> k]

StoreTypeOK ==
  /\ key_file \in Inodes \cup {Absent}
  /\ content \in [Inodes -> Seq(Blocks)]
  /\ fd \in [Procs -> Inodes \cup {Absent}]
  /\ unlinked \subseteq Inodes

(* The path names nothing, a key saved earlier, or a file someone else put *)
(* there.                                                                  *)
StoreInit ==
  /\ key_file \in {Old, Absent}
  /\ content \in [Inodes -> {<<>>} \cup {Text(k) : k \in Keys} \cup {<<Junk>>}]
  /\ \A i \in Inodes : i # key_file <=> content[i] = <<>>
  /\ fd = [p \in Procs |-> Absent]
  /\ unlinked = {}

(* Mutant of OpenTruncate: the file is opened without O_TRUNC.             *)
MutantOpenTruncate(p) ==
  LET i == IF key_file = Absent THEN p ELSE key_file
  IN /\ key_file' = i
     /\ fd' = [fd EXCEPT ![p] = i]
     /\ UNCHANGED <<content, unlinked>>

(* os.open with O_CREAT and O_TRUNC: from here on the old key is gone.     *)
OpenTruncate(p) ==
  LET i == IF key_file = Absent THEN p ELSE key_file
  IN /\ key_file' = i
     /\ content' = [content EXCEPT ![i] = <<>>]
     /\ fd' = [fd EXCEPT ![p] = i]
     /\ UNCHANGED unlinked

(* n blocks of key k over the start of the text, what lies beyond is kept. *)
Overlay(old, k, n) ==
  [i \in 1 .. (IF n > Len(old) THEN n ELSE Len(old)) |-> IF i <= n THEN k ELSE old[i]]

(* One os.write: it may write less than it was given, and nobody looks.    *)
Write(p, k, n) ==
  /\ n \in 1 .. Size[k]
  /\ content' = [content EXCEPT ![fd[p]] = Overlay(@, k, n)]
  /\ UNCHANGED <<key_file, fd, unlinked>>

CloseFile(p) ==
  /\ fd' = [fd EXCEPT ![p] = Absent]
  /\ UNCHANGED <<key_file, content, unlinked>>

(* Path.read_text: the path is opened, then read.                          *)
OpenForReading(p) ==
  /\ fd' = [fd EXCEPT ![p] = key_file]
  /\ UNCHANGED <<key_file, content, unlinked>>

(* Mutant of Decodes: undecodable bytes are let through.                   *)
MutantDecodes(text) == TRUE

Decodes(text) == \A i \in 1 .. Len(text) : text[i] # Junk

(* Path.unlink of a path that names a file.                                *)
Unlink(p) ==
  /\ key_file # Absent
  /\ key_file' = Absent
  /\ unlinked' = unlinked \cup {key_file}
  /\ UNCHANGED <<content, fd>>
================================================================================
