----------------------------- MODULE RecordFile -----------------------------
(* One record file of the FilePersistenceManager                           *)
(* (daemon/src/file_persistence_manager.cpp).                              *)
(*                                                                         *)
(* A record's content is its version, a positive number; a line holds a    *)
(* version, or is blanked out.  Blanking keeps the length of a line, so    *)
(* that positions in the file are the numbers of its lines.  Lines end     *)
(* with a newline, the last one too.                                       *)
(*                                                                         *)
(* Of an open file, `written` is what was written through the stream,      *)
(* `positions` the lines of the keys, `nextKey` the next key.  What the    *)
(* operating system has is kept apart (the stream buffers one write: the   *)
(* seek before the next one flushes it).                                   *)
EXTENDS Integers, Sequences, FiniteSets

BLANK == 0

(* KEYTYPE_INVALID_VALUE: the key that a storage without a file hands out. *)
NoKey == -1

NoFile == [written |-> <<>>, positions |-> <<>>, nextKey |-> NoKey]

(* The function f with x mapped to y, and f without x.                     *)
Put(f, x, y) == [z \in DOMAIN f \cup {x} |-> IF z = x THEN y ELSE f[z]]
Drop(f, x) == [z \in DOMAIN f \ {x} |-> f[z]]

RecordLines(lines) == {i \in DOMAIN lines : lines[i] # BLANK}

RecordsBefore(lines, i) == {j \in RecordLines(lines) : j < i}

(* The keys that readRecordsIntoStorage gives the records of a file, and   *)
(* the line of each: consecutive keys from `first`, in file order.         *)
LinesOfKeys(lines, first) ==
  [k \in {first + Cardinality(RecordsBefore(lines, i)) : i \in RecordLines(lines)} |->
     CHOOSE i \in RecordLines(lines) : k = first + Cardinality(RecordsBefore(lines, i))]

RecordsOf(lines, first) ==
  [k \in DOMAIN LinesOfKeys(lines, first) |-> lines[LinesOfKeys(lines, first)[k]]]

(* FilePersistenceManager::openFile and the reading of the whole file.     *)
Opened(lines) ==
  [written |-> lines, positions |-> LinesOfKeys(lines, 0),
   nextKey |-> Cardinality(RecordLines(lines))]

(* Mutant: deleteRecord leaves the old line.                               *)
NotBlanked(file, key) == file

(* deleteRecord: the record's line is overwritten with blanks.             *)
Blanked(file, key) ==
  IF key \in DOMAIN file.positions
  THEN [file EXCEPT !.written[file.positions[key]] = BLANK]
  ELSE file

(* The second half of writeRecord: the record is added at the end.         *)
Appended(file, version) == [file EXCEPT !.written = Append(@, version)]

(* Mutant: the new position does not replace the old one.                  *)
PlacedIfNew(file, key, line) ==
  IF key \in DOMAIN file.positions THEN file
  ELSE [file EXCEPT !.positions = Put(@, key, line)]

(* Its last part: the new position is remembered.                          *)
Placed(file, key, line) == [file EXCEPT !.positions = Put(@, key, line)]

(* compactFile: blank lines are removed (the records that are left, read   *)
(* with keys from 1, are the new lines), and the result is renamed onto    *)
(* the file.                                                               *)
Compacted(lines) == RecordsOf(lines, 1)
=============================================================================
