----------------------------- MODULE SocgenInclude -----------------------------
(* How socgen reads a board's design: the YAML tree of design.yaml, with every   *)
(* !include replaced by the file it names, every << merged under its mapping and *)
(* every !remove carried out. `files` maps the paths that can be read to the     *)
(* root node of each file.                                                       *)
EXTENDS SocgenTree, Integers, FiniteSetsExt

CONSTANT MaxIncludeDepth
ASSUME DepthAssumption == MaxIncludeDepth \in Nat

(* filepath.Join: a ".." takes back the directory before it. *)
Join(dir, path) ==
    FoldLeft(LAMBDA p, name : IF name = ".." THEN Front(p) ELSE Append(p, name), dir, path)

(* Mutant: the merged mapping wins over the keys beside the <<. *)
RECURSIVE DeepMergeBaseWins(_, _)
DeepMergeBaseWins(dst, base) ==
    FoldLeft(LAMBDA m, p :
        LET i == IndexOf(m.pairs, p[1])
            mine == m.pairs[i][2]
        IN  IF i = 0 THEN Mapping(Append(m.pairs, p))
            ELSE IF mine.k = "remove" THEN Mapping(RemoveAt(m.pairs, i))
            ELSE IF mine.k = "map" /\ p[2].k = "map"
                 THEN Mapping(ReplaceAt(m.pairs, i, <<p[1], DeepMergeBaseWins(mine, p[2])>>))
            ELSE Mapping(ReplaceAt(m.pairs, i, p)),
        dst, base.pairs)

(* deepMergeInto: the keys of base go under those of dst. Two mappings are merged, *)
(* two sequences joined, a !remove of dst deletes the inherited key and is used    *)
(* up; in every other case dst keeps what it has.                                  *)
RECURSIVE DeepMerge(_, _)
DeepMerge(dst, base) ==
    FoldLeft(LAMBDA m, p :
        LET i == IndexOf(m.pairs, p[1])
            mine == m.pairs[i][2]
        IN  IF i = 0 THEN Mapping(Append(m.pairs, p))
            ELSE IF mine.k = "remove" THEN Mapping(RemoveAt(m.pairs, i))
            ELSE IF mine.k = "map" /\ p[2].k = "map"
                 THEN Mapping(ReplaceAt(m.pairs, i, <<p[1], DeepMerge(mine, p[2])>>))
            ELSE IF mine.k = "seq" /\ p[2].k = "seq"
                 THEN Mapping(ReplaceAt(m.pairs, i, <<p[1], List(mine.items \o p[2].items)>>))
            ELSE m,
        dst, base.pairs)

IsMerge(p) == p[1] = "<<"
(* mergeMapping: a mapping is merged over the value of its << key, if it has one. *)
MergeMapping(n) ==
    LET merges == SelectSeq(n.pairs, IsMerge)
        own == Mapping(SelectSeq(n.pairs, LAMBDA p : ~IsMerge(p)))
    IN  CASE Len(merges) = 0 -> own
          [] Len(merges) > 1 -> Failure("multiple <<")
          [] OTHER -> IF merges[1][2].k # "map" THEN Failure("<< value")
                      ELSE DeepMerge(own, merges[1][2])

(* stripRemove: what is left of the !remove marks goes, with its key. *)
RECURSIVE StripRemove(_)
StripRemove(n) ==
    CASE n.k = "map" ->
            LET kept == SelectSeq(n.pairs, LAMBDA p : p[2].k # "remove")
            IN  Mapping([i \in DOMAIN kept |-> <<kept[i][1], StripRemove(kept[i][2])>>])
      [] n.k = "seq" -> List([i \in DOMAIN n.items |-> StripRemove(n.items[i])])
      [] OTHER -> n

WithChildren(n, cs) == IF n.k = "map" THEN Mapping([i \in DOMAIN cs |-> <<n.pairs[i][1], cs[i]>>])
                       ELSE List(cs)

(* resolveIncludes and spliceInclude: the children first, the first error ends it; *)
(* a file is resolved in its own directory, its marks stripped, before it takes    *)
(* the place of the !include. `stack` holds the files being read.                  *)
RECURSIVE Resolve(_, _, _, _)
Splice(files, n, dir, stack) ==
    LET path == Join(dir, n.path)
        root == Resolve(files, files[path], Front(path), Append(stack, path))
    IN  IF Len(stack) >= MaxIncludeDepth THEN Failure("include depth")
        ELSE IF Contains(stack, path) THEN Failure("include cycle")
        ELSE IF path \notin DOMAIN files THEN Failure("include read")
        ELSE StripRemove(root)

Resolve(files, n, dir, stack) ==
    LET cs == Children(n)
        done == [i \in DOMAIN cs |-> Resolve(files, cs[i], dir, stack)]
        failed == {i \in DOMAIN cs : done[i].k = "error"}
    IN  IF n.k = "include" THEN Splice(files, n, dir, stack)
        ELSE IF n.k \notin {"map", "seq"} THEN n
        ELSE IF failed # {} THEN done[Min(failed)]
        ELSE IF n.k = "map" THEN MergeMapping(WithChildren(n, done))
        ELSE WithChildren(n, done)

(* Load: the design is the tree of the board's file, which is not on the stack. *)
LoadTree(files, path) ==
    IF path \notin DOMAIN files THEN Failure("read")
    ELSE StripRemove(Resolve(files, files[path], Front(path), <<>>))

-------------------------------------------------------------------------------
(* The overlay of two documents, with mappings as functions: what include and    *)
(* << are for, whatever the order of keys and of the merges.                     *)
RECURSIVE Tree(_)
Tree(n) ==
    CASE n.k = "map" -> [k |-> "map", f |-> [key \in {n.pairs[i][1] : i \in DOMAIN n.pairs} |->
                            Tree(n.pairs[IndexOf(n.pairs, key)][2])]]
      [] n.k = "seq" -> List([i \in DOMAIN n.items |-> Tree(n.items[i])])
      [] OTHER -> n

RECURSIVE Overlay(_, _)
Overlay(top, base) ==
    IF top.k = "map" /\ base.k = "map"
    THEN [k |-> "map", f |-> [key \in DOMAIN top.f \union DOMAIN base.f |->
            IF key \notin DOMAIN base.f THEN top.f[key]
            ELSE IF key \notin DOMAIN top.f THEN base.f[key]
            ELSE Overlay(top.f[key], base.f[key])]]
    ELSE IF top.k = "seq" /\ base.k = "seq" THEN List(top.items \o base.items)
    ELSE top

RECURSIVE Cleared(_)
Cleared(v) ==
    CASE v.k = "map" -> [k |-> "map", f |->
            [key \in {c \in DOMAIN v.f : v.f[c].k # "remove"} |-> Cleared(v.f[key])]]
      [] v.k = "seq" -> List([i \in DOMAIN v.items |-> Cleared(v.items[i])])
      [] OTHER -> v

(* What the document at `dir` means: each mapping over its <<, each file on its own. *)
RECURSIVE Meant(_, _, _)
Meant(files, n, dir) ==
    CASE n.k = "include" ->
            LET path == Join(dir, n.path) IN Cleared(Meant(files, files[path], Front(path)))
      [] n.k = "map" ->
            LET all == [key \in {n.pairs[i][1] : i \in DOMAIN n.pairs} |->
                    Meant(files, n.pairs[IndexOf(n.pairs, key)][2], dir)]
                own == [k |-> "map", f |-> [key \in DOMAIN all \ {"<<"} |-> all[key]]]
            IN  IF "<<" \in DOMAIN all THEN Overlay(own, all["<<"]) ELSE own
      [] n.k = "seq" -> List([i \in DOMAIN n.items |-> Meant(files, n.items[i], dir)])
      [] OTHER -> n

(* A !remove that an inner << uses up no longer guards its key against an outer  *)
(* one: the overlay of nested merges with such a mark is not what the code does. *)
RECURSIVE HasMark(_)
HasMark(n) == n.k = "remove" \/ \E i \in DOMAIN Children(n) : HasMark(Children(n)[i])
RECURSIVE MarkedMerge(_)
MarkedMerge(n) == \/ n.k = "map" /\ IndexOf(n.pairs, "<<") # 0 /\ HasMark(n)
                  \/ \E i \in DOMAIN Children(n) : MarkedMerge(Children(n)[i])
RECURSIVE MarkUsedTwice(_)
MarkUsedTwice(n) ==
    \E i \in DOMAIN Children(n) :
        \/ MarkUsedTwice(Children(n)[i])
        \/ n.k = "map" /\ IndexOf(n.pairs, "<<") # 0 /\ MarkedMerge(Children(n)[i])
=============================================================================
