------------------------------ MODULE Process -------------------------------
(***************************************************************************)
(* The idcat process from its launch to its end (run and                   *)
(* serve_until_termination in src/src/main.rs, build_app_state in          *)
(* src/src/service.rs), and --validate-config, the check run of the same   *)
(* program that comes before a file is deployed.                           *)
(*                                                                         *)
(* Of the file only what decides on the start is looked at; roles, Apps    *)
(* and policies are in Authorization.  Check runs and servers are launched *)
(* one at a time, each on whatever the file holds when it is read; NATS,   *)
(* the TLS files and the port come and go meanwhile.                       *)
(***************************************************************************)
EXTENDS Subjects

CONSTANTS
  Config,      \* contents of the configuration file
  Broken,      \* a file that is missing or cannot be parsed
  Nothing,     \* an absent entry
  KmsFeature,  \* idcat is built with the kms feature
  Events,      \* what a delivery says of its event
  Repositories \* and of its repository

(* A malformed endpoint is not empty, and no address of a NATS server. *)
Nats ==
  [endpoint : {"url", "malformed", "empty"}, token_path : {"given", "empty"},
   subject_base : Seq(Char)]

(* `access': the roles, Apps and policies pass anyway, only when authorization is
   disabled, or never. *)
RawConfig ==
  [bind_address : {"socket", "name", "empty"},
   tls : {"named", "unnamed", Nothing},
   key_source : {"local", "kms"},
   private_key_directory : {"named", "empty"},
   keys : {"relative", "absolute", "empty"},  \* how its Apps name their secret-key
   nats : Nats \cup {Nothing},
   bridged : BOOLEAN,                         \* an App with webhook-target = "nats"
   access : {"sound", "auth_off", "unsound"}]

ASSUME ProcessAssumption ==
  /\ Config \subseteq RawConfig
  /\ Broken \notin Config /\ Nothing \notin Config
  /\ KmsFeature \in BOOLEAN
  /\ Events \subseteq Event /\ Repositories \subseteq Repository

VARIABLES
  world,      \* what is there for a start: NATS, the TLS files, the port
  process,    \* the process at work, or the last one
  checked,    \* history: the last check that passed
  lacked,     \* history: what the process has been without, or disturbed by
  subject     \* history: what a server at work has last published under

vars == <<world, process, checked, lacked, subject>>

Thing == {"nats", "tls", "port"}

Proc ==
  [state : {"launched", "building", "securing", "binding", "serving", "down"},
   check : BOOLEAN,                  \* --validate-config
   disable_auth : BOOLEAN,
   config : Config \cup {Nothing},   \* what it has read
   touched : SUBSET Thing,                \* what it has reached for outside of the file
   publisher : BOOLEAN,
   status : {0, 1}]

Launched(check, disable_auth) ==
  [state |-> "launched", check |-> check, disable_auth |-> disable_auth,
   config |-> Nothing, touched |-> {}, publisher |-> FALSE, status |-> 0]

Down(p, status) == [p EXCEPT !.state = "down", !.status = status]

Init ==
  /\ world \in SUBSET Thing
  /\ process = Down(Launched(FALSE, FALSE), 0)
  /\ checked = Nothing
  /\ lacked = {}
  /\ subject = Absent

-----------------------------------------------------------------------------
(* Config::validate. *)

(* Mutant of ValidTls: nothing is asked of the names. *)
ValidTlsUnnamed(c) == TRUE

ValidTls(c) == c.tls # "unnamed"

ValidKeySource(c) == c.key_source = "kms" => KmsFeature

(* Names of files are relative to private-key-directory; for KMS they are aliases. *)
ValidSecretKey(c) ==
  /\ c.keys # "empty"
  /\ c.key_source = "local" => c.private_key_directory = "named" /\ c.keys = "relative"

(* Mutant of ValidNats: nothing asks for the [nats] block. *)
ValidNatsUnasked(c) ==
  c.nats # Nothing =>
    /\ c.nats.endpoint # "empty" /\ c.nats.token_path = "given"
    /\ c.nats.subject_base # <<>>
    /\ \A i \in DOMAIN c.nats.subject_base : c.nats.subject_base[i] # " "

(* None of the entries is empty, and the subject base is without white space; the
   endpoint is not parsed. *)
ValidNats(c) ==
  /\ c.bridged => c.nats # Nothing
  /\ c.nats # Nothing =>
       /\ c.nats.endpoint # "empty" /\ c.nats.token_path = "given"
       /\ c.nats.subject_base # <<>>
       /\ \A i \in DOMAIN c.nats.subject_base : c.nats.subject_base[i] # " "

ValidAccess(c, disable_auth) == c.access = "sound" \/ (c.access = "auth_off" /\ disable_auth)

(* load and validate. *)
Valid(c, disable_auth) ==
  /\ c # Broken
  /\ c.bind_address # "empty"
  /\ ValidTls(c) /\ ValidNats(c)
  /\ ValidKeySource(c) /\ ValidSecretKey(c)
  /\ ValidAccess(c, disable_auth)

-----------------------------------------------------------------------------
(* The steps of run. *)

At(state) == process.state = state

Launch(check, disable_auth) ==
  /\ At("down")
  /\ process' = Launched(check, disable_auth)
  /\ lacked' = Thing \ world
  /\ subject' = Absent
  /\ UNCHANGED <<world, checked>>

Unread == UNCHANGED <<world, lacked, subject>>

(* Mutant of Refuse: what could not be parsed is kept. *)
RefuseKeeping(content) ==
  /\ At("launched")
  /\ ~Valid(content, process.disable_auth)
  /\ process' = Down([process EXCEPT !.config = content], 1)
  /\ UNCHANGED checked
  /\ Unread

(* The file cannot be read, or is not valid. *)
Refuse(content) ==
  /\ At("launched")
  /\ ~Valid(content, process.disable_auth)
  /\ process' = Down(IF content = Broken THEN process ELSE [process EXCEPT !.config = content], 1)
  /\ UNCHANGED checked
  /\ Unread

Passed(content, disable_auth) == [config |-> content, disable_auth |-> disable_auth]

(* A check run ends here. *)
Pass(content) ==
  /\ At("launched") /\ process.check
  /\ Valid(content, process.disable_auth)
  /\ process' = Down([process EXCEPT !.config = content], 0)
  /\ checked' = Passed(content, process.disable_auth)
  /\ Unread

(* bind-address is parsed next, and only by a server. *)
Load(content) ==
  /\ At("launched") /\ ~process.check
  /\ Valid(content, process.disable_auth)
  /\ process' = LET p == [process EXCEPT !.config = content] IN
                IF content.bind_address = "socket" THEN [p EXCEPT !.state = "building"]
                ELSE Down(p, 1)
  /\ UNCHANGED checked
  /\ Unread

Touch(p, thing) == [p EXCEPT !.touched = @ \cup {thing}]

Bridging(c) == c.bridged /\ c.nats # Nothing

(* Mutant of Build: the first connection is tried again and again. *)
BuildRetrying ==
  /\ At("building")
  /\ Bridging(process.config) /\ process.config.nats.endpoint = "url" => "nats" \in world
  /\ process' =
       IF Bridging(process.config) /\ process.config.nats.endpoint # "url" THEN Down(process, 1)
       ELSE [process EXCEPT !.state = "securing", !.publisher = Bridging(process.config)]
  /\ UNCHANGED <<world, checked, lacked, subject>>

(* build_app_state connects to NATS if some App is bridged: the endpoint is parsed,
   then called.  When either fails, so does the start. *)
Build ==
  /\ At("building")
  /\ process' =
       IF ~Bridging(process.config) THEN [process EXCEPT !.state = "securing"]
       ELSE IF process.config.nats.endpoint # "url" THEN Down(process, 1)
       ELSE IF "nats" \in world
         THEN [Touch(process, "nats") EXCEPT !.state = "securing", !.publisher = TRUE]
       ELSE Down(Touch(process, "nats"), 1)
  /\ UNCHANGED <<world, checked, lacked, subject>>

(* RustlsConfig::from_pem_file; no file has an empty name. *)
Secure ==
  /\ At("securing")
  /\ process' =
       IF process.config.tls = Nothing THEN [process EXCEPT !.state = "binding"]
       ELSE IF "tls" \in world /\ process.config.tls = "named"
         THEN [Touch(process, "tls") EXCEPT !.state = "binding"]
       ELSE Down(Touch(process, "tls"), 1)
  /\ UNCHANGED <<world, checked, lacked, subject>>

Bind ==
  /\ At("binding")
  /\ process' = IF "port" \in world THEN [Touch(process, "port") EXCEPT !.state = "serving"]
                ELSE Down(Touch(process, "port"), 1)
  /\ UNCHANGED <<world, checked, lacked, subject>>

(* AppState::signer, for a request: path_for_key checks the name once more, by the
   expression that validate has. *)
Signs(c) == IF c.key_source = "local" THEN c.keys # "absolute" ELSE KmsFeature

(* A delivery of a bridged App goes to the publisher. *)
Publish(event, repository) ==
  /\ At("serving")
  /\ process.publisher
  /\ subject' = SubjectFor(process.config.nats.subject_base, event, repository)
  /\ UNCHANGED <<world, process, checked, lacked>>

(* SIGTERM or SIGINT: a server ends well.  Before it serves nobody listens: the
   signal ends the process, or is lost if that is the first of its container. *)
Signal ==
  /\ ~At("down")
  /\ \/ process' = Down(process, IF At("serving") THEN 0 ELSE 1)
     \/ ~At("serving") /\ UNCHANGED process
  /\ lacked' = lacked \cup {"signal"}
  /\ subject' = Absent
  /\ UNCHANGED <<world, checked>>

(* Something comes, or goes. *)
Turn(thing) ==
  /\ world' = IF thing \in world THEN world \ {thing} ELSE world \cup {thing}
  /\ lacked' = IF At("down") THEN lacked ELSE lacked \cup (Thing \ world')
  /\ UNCHANGED <<process, checked, subject>>

-----------------------------------------------------------------------------
Run == Build \/ Secure \/ Bind

Read(content) == Refuse(content) \/ Pass(content) \/ Load(content)

Next ==
  \/ \E check, disable_auth \in BOOLEAN : Launch(check, disable_auth)
  \/ \E content \in Config \cup {Broken} : Read(content)
  \/ Run
  \/ \E event \in Events, repository \in Repositories : Publish(event, repository)
  \/ Signal
  \/ \E thing \in Thing : Turn(thing)

Spec == Init /\ [][Next]_vars

(***************************************************************************)
(* The program runs.  A connection to NATS comes about or fails within the *)
(* connection timeout of its client.                                       *)
(***************************************************************************)
Fairness ==
  WF_vars(\E content \in Config \cup {Broken} : Read(content)) /\ WF_vars(Run)

FairSpec == Spec /\ Fairness

-----------------------------------------------------------------------------
(* PROPERTIES *)

TypeOK ==
  /\ world \in SUBSET Thing
  /\ process \in Proc
  /\ checked = Nothing \/ checked \in [config : Config, disable_auth : BOOLEAN]
  /\ lacked \subseteq Thing \cup {"signal"}
  /\ subject = Absent \/ subject \in Seq(Char)

(* What the start of c depends on outside of the file. *)
Needs(c) ==
  {"port"} \cup (IF c.tls # Nothing THEN {"tls"} ELSE {})
    \cup (IF c.bridged THEN {"nats"} ELSE {})

Failed == ~process.check /\ At("down") /\ process.status = 1

Approved == checked # Nothing /\ checked = Passed(process.config, process.disable_auth)

(* What a server is the first to parse: bind-address, and the endpoint of NATS if it
   connects. *)
Parses(c) == c.bind_address = "socket" /\ (Bridging(c) => c.nats.endpoint = "url")

(* README.md has a file checked "before a config change reaches a cluster".  Two
   entries are parsed by a server only, bind-address and the endpoint of NATS; where
   they parse, a file that passed under the same flags keeps no server from starting,
   and what fails is out of the file. *)
ApprovedFilesStart ==
  Failed /\ Approved /\ Parses(process.config) =>
    lacked \cap (Needs(process.config) \cup {"signal"}) # {}

(* README.md: a check "exits 0 for a valid config and non-zero with the reason
   otherwise"; taken at its word, no approved file fails by itself. *)
ApprovedFilesAlwaysStart ==
  Failed /\ Approved =>
    lacked \cap (Needs(process.config) \cup {"signal"}) # {}

(* A process does what its arguments and its file say.  README.md: a check run does
   its work "without binding a socket, reaching KMS or contacting GitHub"; it reaches
   for nothing but the file.  A server that is up does all of it: with a bridged App
   there is a publisher, with [tls] the certificate was loaded, what a check does not
   parse was parsed, no key is refused for its name when a request needs it, and
   authorization is off only by the flag. *)
ServesAsConfigured ==
  /\ process.check => process.touched = {} /\ ~process.publisher
  /\ At("serving") =>
       /\ ~process.check
       /\ process.publisher <=> process.config.bridged
       /\ "tls" \in process.touched <=> process.config.tls # Nothing
       /\ Parses(process.config) /\ Signs(process.config)
       /\ process.config.access # "sound" => process.disable_auth

(* A delivery never changes the shape of a subject, whatever its header and its
   payload say: where the configured base is a subject, what idcat publishes under
   is one too, one or three tokens longer, and wild cards stay out. *)
SubjectsAreLegal ==
  subject # Absent /\ Legal(TrimDots(process.config.nats.subject_base)) =>
    LET base == TrimDots(process.config.nats.subject_base) IN
    /\ Legal(subject)
    /\ SubSeq(subject, 1, Len(base)) = base
    /\ Cardinality(Dots(subject)) - Cardinality(Dots(base)) \in {1, 3}

(* Every launch comes to an end, or serves. *)
EveryLaunchSettles == At("launched") ~> At("serving") \/ At("down")

=============================================================================
