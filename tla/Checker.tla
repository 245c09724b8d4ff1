------------------------------ MODULE Checker ------------------------------
(***************************************************************************)
(* check_integrity (data/check-consistency/ccheck.cpp), the tool that      *)
(* reads every replica after a run, as a fold over the tokens of a file,   *)
(* and what it is meant to find out.  A token is like a chunk of           *)
(* RepNoConst, with the host's name, by which the checker keeps its        *)
(* numbers, for the client.  Sequence numbers have six digits, so          *)
(* comparing the strings compares the numbers; the names have no dots.     *)
(***************************************************************************)
EXTENDS Integers, Sequences

CONSTANT Initial  (* the writer of the lines of zeros *)

(* hostname_seqno, t2 (in a sequence of at most one), and what was printed *)
Start == [seqno |-> [h \in {} |-> 0], t2 |-> <<>>, printed |-> {}]

FirstToken(st, x) ==
  [seqno   |-> [h \in DOMAIN st.seqno \cup {x.client} |->
                  IF h = x.client THEN x.n ELSE st.seqno[h]],
   t2      |-> <<x.client, x.n>>,
   printed |-> IF x.client \in DOMAIN st.seqno /\ st.seqno[x.client] >= x.n
               THEN st.printed \cup {"seqno is not increasing"}
               ELSE st.printed]

LaterToken(st, x) ==
  IF st.t2 = <<x.client, x.n>>
  THEN st
  ELSE [st EXCEPT !.printed = @ \cup {"Intermingled"}]

(* Variant: t2 is declared outside of the loop over the lines. *)
TokenAcrossLines(st, x) ==
  IF st.t2 = <<>>
  THEN IF x.client = Initial THEN st ELSE FirstToken(st, x)
  ELSE LaterToken(st, x)

(* One token; t2 is "" again at the next line, a line of zeros is skipped. *)
Token(st, x) ==
  LET next == IF st.t2 # <<>>            THEN LaterToken(st, x)
              ELSE IF x.client = Initial THEN st
              ELSE FirstToken(st, x)
  IN  IF x.eol THEN [next EXCEPT !.t2 = <<>>] ELSE next

(* The loop's variables after the whole file. *)
Scan(file) ==
  LET st[i \in 0 .. Len(file)] ==
        IF i = 0 THEN Start ELSE Token(st[i - 1], file[i])
  IN  st[Len(file)]

Printed(file) == Scan(file).printed

(* The reference: no line mixes writes, and the lines of one host come     *)
(* with increasing numbers.                                                *)
SameLine(file, i, j) == \A k \in i .. j - 1 : ~file[k].eol

Consistent(file) ==
  \A i, j \in 1 .. Len(file) :
    i < j =>
      IF SameLine(file, i, j)
      THEN file[i].client = file[j].client /\ file[i].n = file[j].n
      ELSE file[i].client = file[j].client /\ file[i].client # Initial
             => file[i].n < file[j].n
=============================================================================
