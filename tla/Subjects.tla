------------------------------ MODULE Subjects ------------------------------
(***************************************************************************)
(* The NATS subjects idcat publishes webhooks under (src/src/nats.rs,      *)
(* subject_for_github_webhook).  Strings are sequences of characters:      *)
(* those a subject takes over, and those that mean something to NATS.      *)
(***************************************************************************)
EXTENDS Sequences, Naturals, FiniteSets

CONSTANTS
  Letter,   \* a-z, A-Z, 0-9 and '-'
  Special,  \* every other character, but '_' and '.'
  Absent    \* a header or a part of the payload that is not there

Plain == Letter \cup {"_"}

Char == Plain \cup Special \cup {"."}

(* x-github-event, and repository.owner.name and repository.name of the payload:
   both are there and not empty, or none counts. *)
Event == Seq(Char) \cup {Absent}
Repository == (Seq(Char) \X Seq(Char)) \cup {Absent}

ASSUME SubjectsAssumption ==
  /\ Letter \cap Special = {}
  /\ (Letter \cup Special) \cap {"_", "."} = {}
  /\ {"u", "n", "k", "o", "w"} \subseteq Letter
  /\ Absent \notin Seq(Char) \cup (Seq(Char) \X Seq(Char))

Unknown == <<"u", "n", "k", "n", "o", "w", "n">>

(* trim_end_matches('.'). *)
TrimDots(base) ==
  SubSeq(base, 1, CHOOSE n \in 0 .. Len(base) :
                    /\ \A i \in (n + 1) .. Len(base) : base[i] = "."
                    /\ n > 0 => base[n] # ".")

(* Mutant of SubjectToken: dots of a name are left in it. *)
SubjectTokenDotted(value) ==
  IF value = <<>> THEN Unknown
  ELSE [i \in DOMAIN value |-> IF value[i] \in Plain \cup {"."} THEN value[i] ELSE "_"]

SubjectToken(value) ==
  IF value = <<>> THEN Unknown
  ELSE [i \in DOMAIN value |-> IF value[i] \in Plain THEN value[i] ELSE "_"]

(* repository_name. *)
Named(repository) ==
  repository # Absent /\ repository[1] # <<>> /\ repository[2] # <<>>

SubjectFor(base, event, repository) ==
  TrimDots(base)
    \o <<".">> \o SubjectToken(IF event = Absent THEN Unknown ELSE event)
    \o IF Named(repository)
         THEN <<".">> \o SubjectToken(repository[1]) \o <<".">> \o SubjectToken(repository[2])
         ELSE <<>>

(* What NATS routes a message by: a sequence of tokens with dots in between. *)
Dots(string) == {i \in DOMAIN string : string[i] = "."}

Legal(string) ==
  /\ string # <<>>
  /\ \A i \in DOMAIN string : string[i] \notin Special
  /\ \A i \in Dots(string) : i > 1 /\ i < Len(string) /\ i + 1 \notin Dots(string)

=============================================================================
