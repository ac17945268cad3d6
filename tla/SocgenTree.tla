------------------------------- MODULE SocgenTree ------------------------------
(* The trees that design files are read into. A node is a scalar (its text is one  *)
(* value), a mapping (its keys in order), a sequence, a !remove or an !include; a  *)
(* path is the sequence of its names. A tree that cannot be read is a Failure.     *)
EXTENDS Sequences, SequencesExt

Scalar(v) == [k |-> "scalar", v |-> v]
Mapping(pairs) == [k |-> "map", pairs |-> pairs]
List(items) == [k |-> "seq", items |-> items]
Removal == [k |-> "remove"]
Include(path) == [k |-> "include", path |-> path]
Failure(kind) == [k |-> "error", kind |-> kind]

(* mapIndex: the place of a key in a mapping, 0 if it is not there. *)
IndexOf(pairs, key) == SelectInSeq(pairs, LAMBDA p : p[1] = key)

Children(n) == CASE n.k = "map" -> [i \in DOMAIN n.pairs |-> n.pairs[i][2]]
                 [] n.k = "seq" -> n.items
                 [] OTHER -> <<>>
=============================================================================
