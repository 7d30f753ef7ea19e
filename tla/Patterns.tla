------------------------------ MODULE Patterns ------------------------------
(***************************************************************************)
(* The globs of a configuration file: what Config::validate takes for one  *)
(* (src/src/config.rs, is_valid_repo_pattern and is_valid_owner_pattern),  *)
(* and what matches it (the wildmatch crate, as src/src/service.rs uses    *)
(* it).  Strings are sequences of characters.                              *)
(***************************************************************************)
EXTENDS Sequences, Naturals

(* Character i of the pattern takes what follows cut[i - 1], up to cut[i]: '*' any
   characters, a '/' among them, and '?' just one. *)
Takes(cut, pattern, text) ==
  /\ cut[0] = 0 /\ cut[Len(pattern)] = Len(text)
  /\ \A i \in 1 .. Len(pattern) :
       \/ pattern[i] = "*" /\ cut[i - 1] <= cut[i]
       \/ cut[i] = cut[i - 1] + 1 /\ pattern[i] \in {"?", text[cut[i]]}

(* WildMatch::matches. *)
Matches(pattern, text) ==
  \E cut \in [0 .. Len(pattern) -> 0 .. Len(text)] : Takes(cut, pattern, text)

(* format!("{owner}/{repo}"). *)
FullName(owner, name) == owner \o (<<"/">> \o name)

Slashes(pattern) == {i \in 1 .. Len(pattern) : pattern[i] = "/"}

IsValidOwnerPattern(pattern) == pattern # <<>> /\ Slashes(pattern) = {}

(* Everything, or an owner and a name with one slash in between. *)
IsValidRepoPattern(pattern) ==
  \/ pattern = <<"*">>
  \/ \E i \in 2 .. Len(pattern) - 1 : Slashes(pattern) = {i}

(* A match by part: at one of its slashes the text is cut in two, and a glob of its
   own is matched by each of the parts. *)
MatchesAtASlash(pattern, text) ==
  \/ pattern = <<"*">>
  \/ \E i \in Slashes(pattern), j \in Slashes(text) :
       /\ Matches(SubSeq(pattern, 1, i - 1), SubSeq(text, 1, j - 1))
       /\ Matches(SubSeq(pattern, i + 1, Len(pattern)), SubSeq(text, j + 1, Len(text)))

(* What a pattern is written for: the owner and the name, each by its glob. *)
MatchesByPart(pattern, owner, name) ==
  \/ pattern = <<"*">>
  \/ \E i \in Slashes(pattern) :
       /\ Matches(SubSeq(pattern, 1, i - 1), owner)
       /\ Matches(SubSeq(pattern, i + 1, Len(pattern)), name)

=============================================================================
