----------------------------- MODULE PathPatterns -----------------------------
(***************************************************************************)
(* Slash-aware matching of repository paths (path_patterns.py), and the    *)
(* patterns a plan's scope is given to the verifier as.  A path is the     *)
(* sequence of its parts as they are written, "./src" with a first part    *)
(* "."; "*" matches one part, "**" any number of them.  Empty parts, a "." *)
(* further on and other wildcards within a part are left out.              *)
(***************************************************************************)
EXTENDS Naturals, Sequences

CONSTANT Dotted    \* parts with a dot in them: names of files, as a rule

LastPart(path) == path[Len(path)]
PartMatches(part, pattern) == pattern = "*" \/ pattern = part

\* _parts: "./src" and "src" are the same to the matcher.
PartsOf(path) == IF path # <<>> /\ path[1] = "." THEN Tail(path) ELSE path

\* Whether the parts after the first i match the pattern's after its first j.
MatchFrom(path, pattern) ==
  LET match[at \in (0..Len(path)) \X (0..Len(pattern))] ==
        LET i == at[1]
            j == at[2]
        IN IF j = Len(pattern) THEN i = Len(path)
           ELSE IF pattern[j + 1] = "**"
                THEN match[<<i, j + 1>>] \/ (i < Len(path) /\ match[<<i + 1, j>>])
                ELSE /\ i < Len(path) /\ PartMatches(path[i + 1], pattern[j + 1])
                     /\ match[<<i + 1, j + 1>>]
  IN match

\* A pattern of one part is compared with the name of the file only.
PartsMatch(parts, pattern) ==
  IF parts = <<>> \/ pattern = <<>> THEN FALSE
  ELSE IF Len(pattern) = 1 /\ pattern # <<"**">> THEN PartMatches(LastPart(parts), pattern[1])
  ELSE MatchFrom(parts, pattern)[<<0, 0>>]

\* Fault: "**" stands for one part.
PathMatches_OnePart(path, pattern) ==
  LET parts == PartsOf(path)
      wanted == PartsOf(pattern)
  IN /\ Len(parts) = Len(wanted)
     /\ \A i \in DOMAIN parts : wanted[i] = "**" \/ PartMatches(parts[i], wanted[i])

PathMatches(path, pattern) == PartsMatch(PartsOf(path), PartsOf(pattern))

\* A likely path without a dot in its name may be a directory.
NamesFile(path) == PartsOf(path) # <<>> /\ LastPart(PartsOf(path)) \in Dotted
ScopePatterns(paths) ==
  paths \cup {Append(path, "**") : path \in {p \in paths : ~NamesFile(p)}}

===============================================================================
