------------------------------ MODULE MCProcess ------------------------------
(* Small instances of Process for TLC. *)
EXTENDS Process

Letters == {"u", "n", "k", "o", "w", "p"}

Base == <<"n", ".", "w">>

Plainest ==
  [bind_address |-> "socket", tls |-> Nothing, key_source |-> "local",
   private_key_directory |-> "named", keys |-> "relative", nats |-> Nothing,
   bridged |-> FALSE, access |-> "sound"]

Bridged(subject_base) ==
  [Plainest EXCEPT !.bridged = TRUE,
     !.nats = [endpoint |-> "url", token_path |-> "given", subject_base |-> subject_base]]

(* A plain file, and ones that differ from it in what decides on a start. *)
Files ==
  {Plainest, Bridged(Base \o <<".", ".">>), Bridged(<<".">>), Bridged(<<"n", " ">>),
   [Bridged(Base) EXCEPT !.tls = "named"],
   [Bridged(Base) EXCEPT !.nats = Nothing],
   [Bridged(Base) EXCEPT !.nats.endpoint = "malformed"],
   [Plainest EXCEPT !.tls = "unnamed"],
   [Plainest EXCEPT !.bind_address = "name"],
   [Plainest EXCEPT !.key_source = "kms", !.private_key_directory = "empty",
                    !.keys = "absolute"],
   [Plainest EXCEPT !.keys = "absolute"],
   [Plainest EXCEPT !.access = "auth_off"]}

(* Files whose endpoint of NATS parses, if it is used. *)
AnyAddress == {c \in Files : Bridging(c) => c.nats.endpoint = "url"}

(* Names as GitHub sends them, and ones it does not. *)
MCEvents == {Absent, <<>>, <<"p", "_", "k">>, <<"p", ".", "*">>}

MCRepositories ==
  {Absent, <<<<"u">>, <<"p">>>>, <<<<"u">>, <<"n", ".", "o">>>>, <<<<>>, <<"p">>>>}
=============================================================================
