------------------------------ MODULE FileOps -------------------------------
(***************************************************************************)
(* The file helpers of common/util.cpp, which the containers store objects *)
(* with.  A file's content is a sequence of chunks; a call that the        *)
(* operating system executes in one piece is one operator.                 *)
(***************************************************************************)
EXTENDS Integers, Sequences

CONSTANTS
  NoFile,  (* the file does not exist *)
  Garbage  (* what an uninitialized byte of new char[size] holds *)

(* _writefile: ofstream(filename, out) creates or truncates the file ...   *)
Truncate(file) == <<>>

(* ... and then writes from offset 0: what another writer has put there in *)
(* the meantime is overwritten up to the new content's length only.        *)
WriteAtStart(file, content) ==
  IF Len(file) <= Len(content)
  THEN content
  ELSE content \o SubSeq(file, Len(content) + 1, Len(file))

(* Variant: _appendfile without ios::app. *)
AppendTruncates(file, content) == content

(* _appendfile: ofstream(filename, app) creates the file if need be and    *)
(* adds to its end, wherever that is at the time of the write.             *)
AppendTo(file, content) ==
  IF file = NoFile THEN content ELSE file \o content

(* _readfile: tellg() gives the size, a later read() fills a buffer of     *)
(* that size; what a file that shrank no longer has stays uninitialized.   *)
ReadBuffer(file, size) ==
  [i \in 1 .. size |-> IF i <= Len(file) THEN file[i] ELSE Garbage]
=============================================================================
