------------------------------ MODULE JsonText ------------------------------
(***************************************************************************)
(* What a file holds while json.dump fills it: a document reaches the disk *)
(* in two pieces, written one after the other through the writer's own     *)
(* handle.  Two writers of one file can leave pieces of two documents.     *)
(***************************************************************************)

\* A piece is missing ({}) or part of a document d of D ({d}).
Piece(D) == {{}} \union {{d} : d \in D}

TextSet(D) == [head: Piece(D), tail: Piece(D)]

Blank == [head |-> {}, tail |-> {}]

TextOf(d) == [head |-> {d}, tail |-> {d}]

\* The documents json.load gets from a text: one, or none if it is malformed.
Parse(x) == x.head \intersect x.tail

=============================================================================
