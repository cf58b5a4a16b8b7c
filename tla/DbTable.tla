------------------------------- MODULE DbTable -------------------------------
(***************************************************************************)
(* A table of the database: a directory with one file per key, and the      *)
(* m_dataChanged table that Save writes back (src/Database/DbTable.lua,     *)
(* src/Core/FileSystem/File.lua).                                           *)
(*                                                                         *)
(* Set and Delete go to the files at once.  Every object that was read is   *)
(* kept in m_dataChanged, the first one read of each key only, and stays    *)
(* there until the program ends: each Save writes all of them again.        *)
(* File.Static__WriteAll opens with "w", which empties the file, and writes *)
(* afterwards, so that a computer that stops in between leaves a file that  *)
(* cannot be decoded.                                                       *)
(***************************************************************************)
EXTENDS Naturals, FiniteSets

CONSTANTS
  Keys,     \* the keys of a table, the names of its files
  Objects,  \* the values
  Nil,      \* nil: there is no file, or nothing was read
  Torn,     \* the contents of a file that was emptied and not written
  NoKey

ASSUME ValuesAssumption == Nil \notin Objects /\ Torn \notin Objects /\ Nil # Torn
ASSUME KeysAssumption == NoKey \notin Keys

VARIABLES
  files,        \* the directory
  dataChanged,  \* m_dataChanged
  opened,       \* the key whose file WriteAll has emptied and not written yet
  left          \* the keys Save has yet to write

tableVars == <<files, dataChanged, opened, left>>

TableTypeOK ==
  /\ files \in [Keys -> Objects \cup {Nil, Torn}]
  /\ dataChanged \in [Keys -> Objects \cup {Nil}]
  /\ opened \in Keys \cup {NoKey}
  /\ left \subseteq {k \in Keys : dataChanged[k] # Nil}

TableInit ==
  /\ files = [k \in Keys |-> Nil]
  /\ dataChanged = [k \in Keys |-> Nil]
  /\ opened = NoKey
  /\ left = {}

Read == {k \in Keys : dataChanged[k] # Nil}

-----------------------------------------------------------------------------
(* Get and __pairs: a loop over the files, in no particular order, that ends *)
(* at the first key in `wanted' and has read the files in `reads' by then.   *)
(* Get decodes each file: one that is torn raises an error.                  *)

Exist == {k \in Keys : files[k] # Nil}
Decodable == {k \in Keys : files[k] \in Objects}

Finds(wanted, reads, k) ==
  /\ reads \subseteq Decodable
  /\ reads \cap wanted = {k}

FindsNothing(wanted, reads) ==
  /\ reads = Exist
  /\ reads \subseteq Decodable
  /\ reads \cap wanted = {}

\* A wrong Get that keeps what it read before it is decoded.
BreaksAfterKeeping(wanted, reads) ==
  /\ Exist # Decodable
  /\ reads \subseteq Exist \ wanted

Breaks(wanted, reads) ==
  /\ Exist # Decodable
  /\ reads \subseteq Decodable \ wanted

\* ObjectChanged for each of the objects read.
ObjectsChanged(reads) ==
  [k \in Keys |-> IF k \in reads /\ dataChanged[k] = Nil THEN files[k] ELSE dataChanged[k]]

-----------------------------------------------------------------------------
(* Writing. *)

\* WriteAll up to filesystem.open(path, "w").
Open(k) == files' = [files EXCEPT ![k] = Torn] /\ opened' = k

\* file:write and file:close.
WriteAndClose(value) ==
  /\ opened # NoKey
  /\ files' = [files EXCEPT ![opened] = value]
  /\ opened' = NoKey

\* A wrong Save that opens the next file before the last one is written.
SaveOpensEarly(k) ==
  /\ k \in left
  /\ Open(k)
  /\ left' = left \ {k}
  /\ UNCHANGED dataChanged

\* One turn of Save's loop, in the order of pairs(): any.
SaveOpens(k) ==
  /\ opened = NoKey
  /\ k \in left
  /\ Open(k)
  /\ left' = left \ {k}
  /\ UNCHANGED dataChanged

SaveWrites ==
  /\ opened # NoKey
  /\ WriteAndClose(dataChanged[opened])
  /\ UNCHANGED <<dataChanged, left>>

Delete(k) == files' = [files EXCEPT ![k] = Nil]

\* The computer stops, and the program starts again with a new DbTable.
Restart ==
  /\ dataChanged' = [k \in Keys |-> Nil]
  /\ opened' = NoKey
  /\ left' = {}
  /\ UNCHANGED files
=============================================================================
