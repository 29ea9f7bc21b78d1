------------------------------ MODULE PathScope ------------------------------
(* Which patterns of paths lie within others (framework/path_scope.py).  A       *)
(* pattern is a drive ("" on POSIX), whether it is absolute, and its segments:   *)
(* names (folded to one case where the platform does that), "..", "*" for a      *)
(* segment with a wildcard, "**" for any number of them.                        *)
EXTENDS Naturals, Sequences, SequencesExt

IsWild(seg) == seg \in {"*", "**"}
HasWildcard(parts) == \E i \in DOMAIN parts : IsWild(parts[i])

\* One segment onto those before it.  ".." takes a name away, never a wildcard.
Collapse(acc, seg, absolute) ==
  LET parts == acc.parts
      top == IF parts = <<>> THEN "" ELSE Last(parts)
  IN IF seg # ".." \/ (parts = <<>> /\ ~absolute) THEN [acc EXCEPT !.parts = Append(parts, seg)]
     ELSE IF parts = <<>> THEN [acc EXCEPT !.escaped = TRUE]
     ELSE IF IsWild(top) THEN [acc EXCEPT !.parts = Append(parts, ".."), !.ambiguous = TRUE]
     ELSE [acc EXCEPT !.parts = Front(parts)]

\* parse_path_pattern.
Parse(raw) ==
  LET new == [drive |-> raw.drive, absolute |-> raw.absolute, parts |-> <<>>,
              ambiguous |-> FALSE, escaped |-> FALSE]
      end == FoldLeft(LAMBDA acc, seg : Collapse(acc, seg, raw.absolute), new, raw.parts)
  IN [end EXCEPT !.escaped = @ \/ (raw.absolute /\ \E i \in DOMAIN end.parts : end.parts[i] = "..")]

SegmentMatch(name, pat) == pat \in {name, "*", "**"}

\* _parts_glob_match: "**" is zero or more segments.
GlobMatch(item, pat) ==
  LET n == Len(item)
      m == Len(pat)
      dp[i \in 1..n + 1, j \in 1..m + 1] ==
        IF j > m THEN i > n
        ELSE IF pat[j] = "**" THEN dp[i, j + 1] \/ (i <= n /\ dp[i + 1, j])
        ELSE i <= n /\ SegmentMatch(item[i], pat[j]) /\ dp[i + 1, j + 1]
  IN dp[1, 1]

Universal(parts) == parts \in {<<"**">>, <<"*">>}
\* A tree: names, then "**".
IsTree(parts) == parts # <<>> /\ Last(parts) = "**" /\ ~HasWildcard(Front(parts))

\* A whole tree is in a pattern if its root is.
TreeWithin(root, ceiling) ==
  IF ~HasWildcard(ceiling) THEN IsPrefix(ceiling, root)
  ELSE IF IsTree(ceiling) THEN IsPrefix(Front(ceiling), root)
  ELSE GlobMatch(root, ceiling)

ConcreteWithin(item, ceiling) ==
  IF HasWildcard(ceiling) THEN GlobMatch(item, ceiling) ELSE IsPrefix(ceiling, item)

SameRoot(it, ce) == it.absolute = ce.absolute /\ (it.drive = ce.drive \/ "" \in {it.drive, ce.drive})

\* pattern_covered.  What it cannot prove it refuses.
PatternCovered(item, ceiling) ==
  LET it == Parse(item)
      ce == Parse(ceiling)
  IN /\ ~it.ambiguous /\ ~it.escaped
     /\ \/ it.parts = <<>> /\ ~it.absolute
        \/ Universal(ce.parts)
        \/ /\ SameRoot(it, ce)
           /\ \/ it.parts = ce.parts
              \/ ~HasWildcard(it.parts) /\ ConcreteWithin(it.parts, ce.parts)
              \/ IsTree(it.parts) /\ TreeWithin(Front(it.parts), ce.parts)

\* allow_item_covered, and execution_path_allowed when the item is a path.
AllowItemCovered(item, ceiling) == \E raw \in ceiling : PatternCovered(item, raw)
=============================================================================
