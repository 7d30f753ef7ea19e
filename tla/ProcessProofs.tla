---------------------------- MODULE ProcessProofs ----------------------------
(***************************************************************************)
(* Theorems about Process, for every set of configuration files, of events *)
(* and of repositories, with the lemmas on subjects they rest on.          *)
(***************************************************************************)
EXTENDS Process, Extremes, SequenceTheorems, FiniteSetTheorems

-----------------------------------------------------------------------------
(* SUBJECTS *)

(* The characters a subject takes over are neither dots nor special. *)
LEMMA PlainCharacters ==
  /\ Plain \subseteq Char /\ "." \in Char /\ "." \notin Plain /\ "." \notin Special
  /\ Plain \cap Special = {}
BY SubjectsAssumption DEF Plain, Char

(* trim_end_matches ends somewhere: what it leaves is a string. *)
LEMMA TrimDotsType ==
  ASSUME NEW base \in Seq(Char)
  PROVE  TrimDots(base) \in Seq(Char)
<1> DEFINE Stays(n) == /\ \A i \in (n + 1) .. Len(base) : base[i] = "."
                       /\ n > 0 => base[n] # "."
           T == {n \in 0 .. Len(base) : n = 0 \/ base[n] # "."}
<1>1. Len(base) \in Nat
  BY LenProperties
<1>2. PICK n \in T : \A m \in T : m <= n
  <2>1. T \subseteq 0 .. Len(base) /\ T # {}
    BY <1>1
  <2> QED
    BY <1>1, <2>1, GreatestExists
<1>3. Stays(n)
  <2>1. ASSUME NEW i \in (n + 1) .. Len(base) PROVE base[i] = "."
    BY <1>1, <1>2
  <2> QED
    BY <2>1, <1>2
<1>4. PICK m \in 0 .. Len(base) : TrimDots(base) = SubSeq(base, 1, m)
  BY <1>3, <1>2 DEF TrimDots
<1>5. \A i \in 1 .. m : base[i] \in Char
  BY <1>1, ElementOfSeq
<1> QED
  BY <1>4, <1>5, SubSeqProperties, <1>1

(* A function on 1 .. n is a sequence. *)
LEMMA FunctionIsSequence ==
  ASSUME NEW S, NEW n \in Nat, NEW f \in [1 .. n -> S]
  PROVE  f \in Seq(S) /\ Len(f) = n
OBVIOUS

LEMMA UnknownIsPlain == Unknown \in Seq(Plain) /\ Unknown # <<>>
<1>1. /\ "u" \in Plain /\ "n" \in Plain /\ "k" \in Plain
      /\ "o" \in Plain /\ "w" \in Plain
  BY SubjectsAssumption DEF Plain
<1> QED
  BY <1>1 DEF Unknown

(* A token of a subject is made of plain characters, and never empty. *)
LEMMA SubjectTokenType ==
  ASSUME NEW value \in Seq(Char)
  PROVE  SubjectToken(value) \in Seq(Plain) /\ SubjectToken(value) # <<>>
<1>1. CASE value = <<>>
  BY <1>1, UnknownIsPlain DEF SubjectToken
<1>2. CASE value # <<>>
  <2> DEFINE t == [i \in DOMAIN value |-> IF value[i] \in Plain THEN value[i] ELSE "_"]
  <2>1. Len(value) \in Nat /\ Len(value) > 0 /\ DOMAIN value = 1 .. Len(value)
    BY <1>2, LenProperties, EmptySeq
  <2>2. t \in [1 .. Len(value) -> Plain]
    BY <2>1 DEF Plain
  <2> HIDE DEF t
  <2>3. t \in Seq(Plain) /\ Len(t) = Len(value)
    BY <2>1, <2>2, FunctionIsSequence
  <2>4. t # <<>>
    BY <2>1, <2>3
  <2> QED
    BY <1>2, <2>3, <2>4 DEF SubjectToken, t
<1> QED
  BY <1>1, <1>2

Joined(s, token) == (s \o <<".">>) \o token

(* A dot and a token after a subject make a subject with one more dot, which
   begins with the first. *)
LEMMA JoinedIsLegal ==
  ASSUME NEW s \in Seq(Char), Legal(s), IsFiniteSet(Dots(s)),
         NEW token \in Seq(Plain), token # <<>>
  PROVE  LET r == Joined(s, token) IN
         /\ r \in Seq(Char) /\ Legal(r)
         /\ Len(r) > Len(s)
         /\ \A i \in 1 .. Len(s) : r[i] = s[i]
         /\ IsFiniteSet(Dots(r))
         /\ Cardinality(Dots(r)) = Cardinality(Dots(s)) + 1
<1> DEFINE r == Joined(s, token)
           n == Len(s)
<1>1. token \in Seq(Char) /\ <<".">> \in Seq(Char) /\ Len(<<".">>) = 1
  BY PlainCharacters, SeqMonotonic
<1>2. s \o <<".">> \in Seq(Char) /\ Len(s \o <<".">>) = n + 1
      /\ \A i \in 1 .. n + 1 : (s \o <<".">>)[i] = IF i <= n THEN s[i] ELSE "."
  <2>1. \A i \in 1 .. n + 1 : (s \o <<".">>)[i] = IF i <= n THEN s[i] ELSE <<".">>[i - n]
    BY <1>1, ConcatProperties
  <2>2. \A i \in 1 .. n + 1 : i > n => i - n = 1
    BY LenProperties
  <2> QED
    BY <2>1, <2>2, <1>1, ConcatProperties
<1>3. n \in Nat /\ n > 0 /\ Len(token) \in Nat /\ Len(token) > 0
  BY LenProperties, EmptySeq DEF Legal
<1>4. r \in Seq(Char) /\ Len(r) = n + 1 + Len(token)
      /\ \A i \in 1 .. Len(r) : r[i] = IF i <= n THEN s[i]
                                       ELSE IF i = n + 1 THEN "." ELSE token[i - (n + 1)]
  <2>1. r \in Seq(Char) /\ Len(r) = n + 1 + Len(token)
        /\ \A i \in 1 .. n + 1 + Len(token) :
             r[i] = IF i <= n + 1 THEN (s \o <<".">>)[i] ELSE token[i - (n + 1)]
    BY <1>1, <1>2, ConcatProperties DEF Joined
  <2> QED
    BY <2>1, <1>2, <1>3
<1> HIDE DEF r
<1>5. \A i \in 1 .. Len(token) : token[i] \in Plain
  BY ElementOfSeq
<1>6. \A i \in 1 .. Len(r) : i > n + 1 => r[i] \in Plain
  BY <1>3, <1>4, <1>5
<1>7. DOMAIN r = 1 .. Len(r) /\ DOMAIN s = 1 .. n
  BY <1>4, LenProperties
<1>8. Dots(r) = Dots(s) \cup {n + 1}
  BY <1>3, <1>4, <1>6, <1>7, PlainCharacters DEF Dots
<1>9. n + 1 \notin Dots(s)
  BY <1>3, <1>7 DEF Dots
<1>10. IsFiniteSet(Dots(r)) /\ Cardinality(Dots(r)) = Cardinality(Dots(s)) + 1
  BY <1>8, <1>9, FS_AddElement
<1>11. Legal(r)
  <2>1. r # <<>>
    BY <1>3, <1>4
  <2>2. \A i \in DOMAIN r : r[i] \notin Special
    <3> SUFFICES ASSUME NEW i \in 1 .. Len(r) PROVE r[i] \notin Special
      BY <1>7
    <3>1. CASE i <= n
      BY <3>1, <1>4, <1>7, <1>3 DEF Legal
    <3>2. CASE i = n + 1
      BY <3>2, <1>4, <1>3, PlainCharacters
    <3>3. CASE i > n + 1
      BY <3>3, <1>6, PlainCharacters
    <3> QED
      BY <3>1, <3>2, <3>3, <1>3
  <2>3. ASSUME NEW i \in Dots(r)
        PROVE  i > 1 /\ i < Len(r) /\ i + 1 \notin Dots(r)
    <3>1. CASE i = n + 1
      <4>1. Dots(s) \subseteq 1 .. n
        BY <1>7 DEF Dots
      <4> QED
        BY <3>1, <4>1, <1>3, <1>4, <1>8
    <3>2. CASE i \in Dots(s)
      <4>1. i > 1 /\ i < n /\ i + 1 \notin Dots(s)
        BY <3>2 DEF Legal
      <4>2. i \in 1 .. n
        BY <3>2, <1>7 DEF Dots
      <4> QED
        BY <4>1, <4>2, <1>3, <1>4, <1>8
    <3> QED
      BY <3>1, <3>2, <1>8
  <2> QED
    BY <2>1, <2>2, <2>3 DEF Legal
<1> QED
  BY <1>3, <1>4, <1>10, <1>11 DEF r

LEMMA Regrouped ==
  \A s, t, u \in Seq(Char) : s \o (t \o u) = (s \o t) \o u
BY ConcatAssociative

(* What idcat publishes under begins with the base and is one or three tokens
   longer, whatever the header and the payload hold. *)
LEMMA SubjectForIsLegal ==
  ASSUME NEW base \in Seq(Char), NEW event \in Event, NEW repository \in Repository,
         Legal(TrimDots(base))
  PROVE  LET s == SubjectFor(base, event, repository)
             b == TrimDots(base)
         IN /\ s \in Seq(Char) /\ Legal(s)
            /\ SubSeq(s, 1, Len(b)) = b
            /\ Cardinality(Dots(s)) - Cardinality(Dots(b)) \in {1, 3}
<1> DEFINE b == TrimDots(base)
           e == SubjectToken(IF event = Absent THEN Unknown ELSE event)
           short == Joined(b, e)
           s == SubjectFor(base, event, repository)
<1>1. b \in Seq(Char)
  BY TrimDotsType
<1>2. e \in Seq(Plain) /\ e # <<>>
  <2>1. Unknown \in Seq(Char)
    BY UnknownIsPlain, PlainCharacters, SeqMonotonic
  <2>2. event # Absent => event \in Seq(Char)
    BY DEF Event
  <2>3. (IF event = Absent THEN Unknown ELSE event) \in Seq(Char)
    BY <2>1, <2>2
  <2> QED
    BY <2>3, SubjectTokenType
<1>3. IsFiniteSet(Dots(b)) /\ Cardinality(Dots(b)) \in Nat
  <2>1. Len(b) \in Nat /\ DOMAIN b = 1 .. Len(b)
    BY <1>1, LenProperties
  <2>2. IsFiniteSet(1 .. Len(b))
    BY <2>1, FS_Interval
  <2>3. Dots(b) \subseteq 1 .. Len(b)
    BY <2>1 DEF Dots
  <2> QED
    BY <2>2, <2>3, FS_Subset, FS_CardinalityType
<1> HIDE DEF b, e
<1>4. Legal(b)
  BY DEF b
<1>5. /\ short \in Seq(Char) /\ Legal(short)
      /\ Len(short) > Len(b)
      /\ \A i \in 1 .. Len(b) : short[i] = b[i]
      /\ IsFiniteSet(Dots(short))
      /\ Cardinality(Dots(short)) = Cardinality(Dots(b)) + 1
  BY <1>1, <1>2, <1>3, <1>4, JoinedIsLegal
<1> HIDE DEF short
<1>6. SUFFICES /\ s \in Seq(Char) /\ Legal(s) /\ Len(s) >= Len(b)
               /\ \A i \in 1 .. Len(b) : s[i] = b[i]
               /\ Cardinality(Dots(s)) - Cardinality(Dots(b)) \in {1, 3}
  <2>1. ASSUME s \in Seq(Char), Len(s) >= Len(b), \A i \in 1 .. Len(b) : s[i] = b[i]
        PROVE  SubSeq(s, 1, Len(b)) = b
    <3>1. Len(b) \in Nat /\ Len(s) \in Nat
      BY <1>1, <2>1, LenProperties
    <3>2. \A i \in 1 .. Len(b) : s[i] \in Char
      BY <2>1, <1>1, ElementOfSeq
    <3>3. /\ SubSeq(s, 1, Len(b)) \in Seq(Char)
          /\ Len(SubSeq(s, 1, Len(b))) = IF 1 <= Len(b) THEN Len(b) - 1 + 1 ELSE 0
          /\ \A i \in 1 .. (Len(b) - 1 + 1) : SubSeq(s, 1, Len(b))[i] = s[1 + i - 1]
      BY <3>1, <3>2, SubSeqProperties
    <3>4. Len(SubSeq(s, 1, Len(b))) = Len(b)
      BY <3>1, <3>3
    <3>5. \A i \in 1 .. Len(b) : SubSeq(s, 1, Len(b))[i] = b[i]
      BY <3>1, <3>3, <2>1
    <3> QED
      BY <3>3, <3>4, <3>5, <1>1, SeqEqual
  <2> QED
    BY <2>1 DEF b
<1>7. <<".">> \in Seq(Char) /\ e \in Seq(Char) /\ Len(b) \in Nat
  BY <1>1, <1>2, PlainCharacters, SeqMonotonic, LenProperties
<1>8. CASE ~Named(repository)
  <2>1. s = short
    <3>1. s = ((b \o <<".">>) \o e) \o <<>>
      BY <1>8 DEF SubjectFor, b, e
    <3> QED
      BY <3>1, <1>5, ConcatEmptySeq DEF short, Joined
  <2> QED
    BY <2>1, <1>5, <1>3, <1>7, LenProperties
<1>9. CASE Named(repository)
  <2> DEFINE o == SubjectToken(repository[1])
             r == SubjectToken(repository[2])
             longer == Joined(short, o)
             longest == Joined(longer, r)
  <2>1. o \in Seq(Plain) /\ o # <<>> /\ r \in Seq(Plain) /\ r # <<>>
    <3>1. repository[1] \in Seq(Char) /\ repository[2] \in Seq(Char)
      BY <1>9 DEF Named, Repository
    <3> QED
      BY <3>1, SubjectTokenType
  <2> HIDE DEF o, r
  <2>2. /\ longer \in Seq(Char) /\ Legal(longer)
        /\ Len(longer) > Len(short)
        /\ \A i \in 1 .. Len(short) : longer[i] = short[i]
        /\ IsFiniteSet(Dots(longer))
        /\ Cardinality(Dots(longer)) = Cardinality(Dots(short)) + 1
    BY <2>1, <1>5, JoinedIsLegal
  <2>3. /\ longest \in Seq(Char) /\ Legal(longest)
        /\ Len(longest) > Len(longer)
        /\ \A i \in 1 .. Len(longer) : longest[i] = longer[i]
        /\ IsFiniteSet(Dots(longest))
        /\ Cardinality(Dots(longest)) = Cardinality(Dots(longer)) + 1
    <3> HIDE DEF longer
    <3> QED
      BY <2>1, <2>2, JoinedIsLegal
  <2>4. s = longest
    <3>1. o \in Seq(Char) /\ r \in Seq(Char)
      BY <2>1, PlainCharacters, SeqMonotonic
    <3>2. s = short \o (((<<".">> \o o) \o <<".">>) \o r)
      BY <1>9 DEF SubjectFor, short, Joined, b, e, o, r
    <3>3. <<".">> \o o \in Seq(Char) /\ (<<".">> \o o) \o <<".">> \in Seq(Char)
      BY <3>1, <1>7, ConcatProperties
    <3>4. short \o (((<<".">> \o o) \o <<".">>) \o r)
            = (short \o ((<<".">> \o o) \o <<".">>)) \o r
      BY <3>1, <3>3, <1>5, Regrouped
    <3>5. short \o ((<<".">> \o o) \o <<".">>) = (short \o (<<".">> \o o)) \o <<".">>
      BY <3>3, <1>7, <1>5, Regrouped
    <3>6. short \o (<<".">> \o o) = (short \o <<".">>) \o o
      BY <3>1, <1>7, <1>5, Regrouped
    <3> QED
      BY <3>2, <3>4, <3>5, <3>6 DEF Joined
  <2>5. Len(short) \in Nat /\ Len(longer) \in Nat /\ Len(longest) \in Nat
    BY <1>5, <2>2, <2>3, LenProperties
  <2> HIDE DEF longer, longest, s
  <2>6. \A i \in 1 .. Len(b) : s[i] = b[i]
    <3> SUFFICES ASSUME NEW i \in 1 .. Len(b) PROVE s[i] = b[i]
      OBVIOUS
    <3>1. i \in 1 .. Len(short) /\ i \in 1 .. Len(longer)
      BY <1>5, <1>7, <2>2, <2>5
    <3> QED
      BY <3>1, <1>5, <2>2, <2>3, <2>4
  <2>7. Cardinality(Dots(s)) - Cardinality(Dots(b)) \in {1, 3}
    BY <1>3, <1>5, <2>2, <2>3, <2>4
  <2> QED
    BY <1>7, <1>5, <2>2, <2>3, <2>4, <2>5, <2>6, <2>7
<1> QED
  BY <1>8, <1>9

(* The same without a claim on the base. *)
LEMMA SubjectForType ==
  ASSUME NEW base \in Seq(Char), NEW event \in Event, NEW repository \in Repository
  PROVE  SubjectFor(base, event, repository) \in Seq(Char)
<1> DEFINE b == TrimDots(base)
           value == IF event = Absent THEN Unknown ELSE event
           e == SubjectToken(value)
           o == SubjectToken(repository[1])
           r == SubjectToken(repository[2])
<1>1. b \in Seq(Char) /\ <<".">> \in Seq(Char)
  BY TrimDotsType, PlainCharacters
<1>2. e \in Seq(Char)
  <2>1. value \in Seq(Char)
    BY UnknownIsPlain, PlainCharacters, SeqMonotonic DEF Event
  <2> QED
    BY <2>1, SubjectTokenType, PlainCharacters, SeqMonotonic
<1>3. CASE Named(repository)
  <2>1. o \in Seq(Char) /\ r \in Seq(Char)
    <3>1. repository[1] \in Seq(Char) /\ repository[2] \in Seq(Char)
      BY <1>3 DEF Named, Repository
    <3> QED
      BY <3>1, SubjectTokenType, PlainCharacters, SeqMonotonic
  <2>2. SubjectFor(base, event, repository)
          = ((b \o <<".">>) \o e) \o (((<<".">> \o o) \o <<".">>) \o r)
    BY <1>3 DEF SubjectFor
  <2> HIDE DEF b, e, o, r
  <2> QED
    BY <2>1, <2>2, <1>1, <1>2, ConcatProperties
<1>4. CASE ~Named(repository)
  <2>1. SubjectFor(base, event, repository) = ((b \o <<".">>) \o e) \o <<>>
    BY <1>4 DEF SubjectFor
  <2>2. <<>> \in Seq(Char)
    OBVIOUS
  <2> HIDE DEF b, e
  <2> QED
    BY <2>1, <2>2, <1>1, <1>2, ConcatProperties
<1> QED
  BY <1>3, <1>4

-----------------------------------------------------------------------------
(* THE INVARIANT *)

Up == {"building", "securing", "binding", "serving"}

(* A server that got past its file has one that is valid. *)
Loaded ==
  process.state \in Up =>
    /\ ~process.check
    /\ process.config \in Config
    /\ Valid(process.config, process.disable_auth)
    /\ process.config.bind_address = "socket"

(* What the process has reached for by each step of its start. *)
Reached ==
  /\ At("launched") => process.config = Nothing
  /\ process.check => process.state \in {"launched", "down"}
  /\ process.check \/ process.state \in {"launched", "building"} =>
       process.touched = {} /\ ~process.publisher
  /\ process.state \in {"securing", "binding", "serving"} =>
       (process.publisher <=> process.config.bridged) /\ Parses(process.config)
  /\ At("securing") => "tls" \notin process.touched
  /\ process.state \in {"binding", "serving"} =>
       ("tls" \in process.touched <=> process.config.tls # Nothing)

(* What is not there now has been missed. *)
Missed == ~At("down") => Thing \ world \subseteq lacked

Disturbed(c) == lacked \cap (Needs(c) \cup {"signal"}) # {}

(* A server that ended with an error had a cause. *)
Blamed ==
  Failed =>
    \/ process.config = Nothing
    \/ ~Valid(process.config, process.disable_auth)
    \/ ~Parses(process.config)
    \/ Disturbed(process.config)

CheckedIsValid ==
  checked # Nothing => Valid(checked.config, checked.disable_auth)

PublishedLegally == subject # Absent => At("serving")

ProcInv ==
  /\ TypeOK /\ Loaded /\ Reached /\ Missed /\ Blamed /\ CheckedIsValid
  /\ PublishedLegally /\ SubjectsAreLegal

(* A configuration is a record, and never Nothing. *)
LEMMA ConfigIsRecord ==
  ASSUME NEW c \in Config
  PROVE  c \in RawConfig /\ c # Nothing /\ c # Broken
BY ProcessAssumption

(* What the updates of the process change, and what they leave. *)
LEMMA DownIs ==
  ASSUME NEW p \in Proc, NEW status \in {0, 1}
  PROVE  /\ Down(p, status) \in Proc
         /\ Down(p, status).state = "down" /\ Down(p, status).status = status
         /\ Down(p, status).check = p.check /\ Down(p, status).disable_auth = p.disable_auth
         /\ Down(p, status).config = p.config /\ Down(p, status).touched = p.touched
         /\ Down(p, status).publisher = p.publisher
BY DEF Down, Proc

LEMMA MovedIs ==
  ASSUME NEW p \in Proc, NEW state \in Up
  PROVE  LET q == [p EXCEPT !.state = state] IN
         /\ q \in Proc
         /\ q.state = state
         /\ q.check = p.check /\ q.disable_auth = p.disable_auth /\ q.config = p.config
         /\ q.touched = p.touched /\ q.publisher = p.publisher /\ q.status = p.status
BY DEF Proc, Up

LEMMA TouchIs ==
  ASSUME NEW p \in Proc, NEW thing \in Thing
  PROVE  /\ Touch(p, thing) \in Proc
         /\ Touch(p, thing).touched = p.touched \cup {thing}
         /\ Touch(p, thing).state = p.state /\ Touch(p, thing).check = p.check
         /\ Touch(p, thing).disable_auth = p.disable_auth /\ Touch(p, thing).config = p.config
         /\ Touch(p, thing).publisher = p.publisher /\ Touch(p, thing).status = p.status
BY DEF Touch, Proc

LEMMA ConfigIs ==
  ASSUME NEW p \in Proc, NEW c \in Config
  PROVE  LET q == [p EXCEPT !.config = c] IN
         /\ q \in Proc
         /\ q.config = c
         /\ q.state = p.state /\ q.check = p.check /\ q.disable_auth = p.disable_auth
         /\ q.touched = p.touched /\ q.publisher = p.publisher /\ q.status = p.status
BY DEF Proc

LEMMA BridgedIs ==
  ASSUME NEW p \in Proc
  PROVE  LET q == [p EXCEPT !.state = "securing", !.publisher = TRUE] IN
         /\ q \in Proc
         /\ q.state = "securing" /\ q.publisher
         /\ q.check = p.check /\ q.disable_auth = p.disable_auth /\ q.config = p.config
         /\ q.touched = p.touched /\ q.status = p.status
BY DEF Proc

LEMMA LaunchPreserves ==
  ASSUME ProcInv, NEW check \in BOOLEAN, NEW disable_auth \in BOOLEAN, Launch(check, disable_auth)
  PROVE  ProcInv'
<1> USE DEF ProcInv, At
<1>1. TypeOK'
  BY DEF Launch, Launched, TypeOK, Proc
<1>2. Loaded'
  BY DEF Launch, Launched, Loaded, Up, TypeOK, Proc
<1>3. Reached'
  BY DEF Launch, Launched, Reached, TypeOK, Proc, Loaded, Up
<1>4. Missed'
  BY DEF Launch, Launched, Missed, Thing, TypeOK
<1>5. Blamed'
  BY DEF Launch, Launched, Blamed, Failed, Disturbed, Needs, Missed, TypeOK, Proc, Loaded, Up
<1>6. CheckedIsValid'
  BY DEF Launch, Launched, CheckedIsValid, TypeOK, Proc
<1>7. PublishedLegally'
  BY DEF Launch, Launched, PublishedLegally
<1>8. SubjectsAreLegal'
  BY DEF Launch, Launched, SubjectsAreLegal, PublishedLegally
<1> QED
  BY <1>1, <1>2, <1>3, <1>4, <1>5, <1>6, <1>7, <1>8

LEMMA RefusePreserves ==
  ASSUME ProcInv, NEW content \in Config \cup {Broken}, Refuse(content)
  PROVE  ProcInv'
<1> USE DEF ProcInv, At
<1>1. TypeOK'
  BY DEF Refuse, Down, Unread, TypeOK, Proc
<1>2. Loaded'
  BY DEF Refuse, Down, Unread, Loaded, Up, TypeOK, Proc
<1>3. Reached'
  BY DEF Refuse, Down, Unread, Reached, TypeOK, Proc, Loaded, Up
<1>4. Missed'
  BY DEF Refuse, Down, Unread, Missed, Thing, TypeOK
<1>5. Blamed'
  <2>1. process \in Proc /\ process.config = Nothing
    BY DEF Refuse, TypeOK, Reached
  <2>2. CASE content = Broken
    <3>1. process' = Down(process, 1)
      BY <2>2 DEF Refuse
    <3> QED
      BY <2>1, <3>1, DownIs DEF Blamed
  <2>3. CASE content # Broken
    <3> DEFINE p == [process EXCEPT !.config = content]
    <3>1. process' = Down(p, 1) /\ content \in Config
      BY <2>3 DEF Refuse
    <3>2. p \in Proc /\ p.config = content /\ p.disable_auth = process.disable_auth
      BY <2>1, <3>1, ConfigIs
    <3>3. ~Valid(content, process.disable_auth)
      BY DEF Refuse
    <3> HIDE DEF p
    <3> QED
      BY <3>1, <3>2, <3>3, DownIs DEF Blamed
  <2> QED
    BY <2>2, <2>3
<1>6. CheckedIsValid'
  BY DEF Refuse, Down, Unread, CheckedIsValid, TypeOK, Proc
<1>7. PublishedLegally'
  BY DEF Refuse, Down, Unread, PublishedLegally
<1>8. SubjectsAreLegal'
  BY DEF Refuse, Down, Unread, SubjectsAreLegal, PublishedLegally
<1> QED
  BY <1>1, <1>2, <1>3, <1>4, <1>5, <1>6, <1>7, <1>8

LEMMA PassPreserves ==
  ASSUME ProcInv, NEW content \in Config \cup {Broken}, Pass(content)
  PROVE  ProcInv'
<1> USE DEF ProcInv, At
<1>1. TypeOK'
  <2>1. process \in Proc /\ content \in Config
    BY DEF Pass, TypeOK, Valid
  <2>2. process' \in Proc
    BY <2>1, ConfigIs, DownIs DEF Pass
  <2>3. checked' \in [config : Config, disable_auth : BOOLEAN]
    BY <2>1 DEF Pass, Passed, Proc
  <2> QED
    BY <2>2, <2>3 DEF Pass, Unread, TypeOK
<1>2. Loaded'
  BY DEF Pass, Down, Unread, Passed, Loaded, Up, TypeOK, Proc
<1>3. Reached'
  BY DEF Pass, Down, Unread, Passed, Reached, TypeOK, Proc, Loaded, Up
<1>4. Missed'
  BY DEF Pass, Down, Unread, Passed, Missed, Thing, TypeOK
<1>5. Blamed'
  BY DEF Pass, Down, Unread, Passed, Blamed, Failed, Disturbed, Needs, Missed, TypeOK, Proc, Loaded, Up
<1>6. CheckedIsValid'
  BY DEF Pass, Down, Unread, Passed, CheckedIsValid, TypeOK, Proc
<1>7. PublishedLegally'
  BY DEF Pass, Down, Unread, Passed, PublishedLegally
<1>8. SubjectsAreLegal'
  BY DEF Pass, Down, Unread, Passed, SubjectsAreLegal, PublishedLegally
<1> QED
  BY <1>1, <1>2, <1>3, <1>4, <1>5, <1>6, <1>7, <1>8

LEMMA LoadPreserves ==
  ASSUME ProcInv, NEW content \in Config \cup {Broken}, Load(content)
  PROVE  ProcInv'
<1> USE DEF ProcInv, At
<1>1. TypeOK'
  <2>1. process \in Proc /\ content \in Config
    BY DEF Load, TypeOK, Valid
  <2> DEFINE p == [process EXCEPT !.config = content]
  <2>2. p \in Proc /\ p.config = content /\ p.state = process.state
        /\ p.check = process.check /\ p.disable_auth = process.disable_auth
    BY <2>1, ConfigIs
  <2>3. process' = IF content.bind_address = "socket" THEN [p EXCEPT !.state = "building"]
                   ELSE Down(p, 1)
    BY DEF Load
  <2> HIDE DEF p
  <2>4. process' \in Proc
    BY <2>2, <2>3, MovedIs, DownIs DEF Up
  <2> QED
    BY <2>4 DEF Load, Unread, TypeOK
<1>2. Loaded'
  <2>1. process \in Proc /\ content \in Config
    BY DEF Load, TypeOK, Valid
  <2> DEFINE p == [process EXCEPT !.config = content]
  <2>2. p \in Proc /\ p.config = content /\ p.state = process.state
        /\ p.check = process.check /\ p.disable_auth = process.disable_auth
    BY <2>1, ConfigIs
  <2>3. process' = IF content.bind_address = "socket" THEN [p EXCEPT !.state = "building"]
                   ELSE Down(p, 1)
    BY DEF Load
  <2> HIDE DEF p
  <2>4. CASE content.bind_address = "socket"
    <3>1. process' = [p EXCEPT !.state = "building"]
      BY <2>3, <2>4
    <3>2. /\ process'.config = content /\ process'.check = process.check
          /\ process'.disable_auth = process.disable_auth
      BY <2>2, <3>1, MovedIs DEF Up
    <3> QED
      BY <2>1, <2>4, <3>2 DEF Load, Loaded
  <2>5. CASE content.bind_address # "socket"
    <3>1. process' = Down(p, 1)
      BY <2>3, <2>5
    <3>2. process'.state = "down"
      BY <2>2, <3>1, DownIs
    <3> QED
      BY <3>2 DEF Loaded, Up
  <2> QED
    BY <2>4, <2>5
<1>3. Reached'
  BY DEF Load, Down, Unread, Reached, TypeOK, Proc, Loaded, Up
<1>4. Missed'
  BY DEF Load, Down, Unread, Missed, Thing, TypeOK
<1>5. Blamed'
  <2>1. process \in Proc /\ content \in Config
    BY DEF Load, TypeOK, Valid
  <2> DEFINE p == [process EXCEPT !.config = content]
  <2>2. p \in Proc /\ p.config = content
    BY <2>1, ConfigIs
  <2>3. CASE content.bind_address = "socket"
    <3>1. process' = [p EXCEPT !.state = "building"]
      BY <2>3 DEF Load
    <3> HIDE DEF p
    <3>2. process'.state = "building"
      BY <2>2, <3>1, MovedIs DEF Up
    <3> QED
      BY <3>2 DEF Blamed, Failed
  <2>4. CASE content.bind_address # "socket"
    <3>1. process' = Down(p, 1)
      BY <2>4 DEF Load
    <3> HIDE DEF p
    <3>2. process'.config = content
      BY <2>2, <3>1, DownIs
    <3> QED
      BY <2>4, <3>2 DEF Blamed, Parses
  <2> QED
    BY <2>3, <2>4
<1>6. CheckedIsValid'
  BY DEF Load, Down, Unread, CheckedIsValid, TypeOK, Proc
<1>7. PublishedLegally'
  BY DEF Load, Down, Unread, PublishedLegally
<1>8. SubjectsAreLegal'
  BY DEF Load, Down, Unread, SubjectsAreLegal, PublishedLegally
<1> QED
  BY <1>1, <1>2, <1>3, <1>4, <1>5, <1>6, <1>7, <1>8

(* The three steps of the start, by their outcomes. *)
Same ==
  /\ process \in Proc /\ process' \in Proc
  /\ process'.check = process.check /\ process'.config = process.config
  /\ process'.disable_auth = process.disable_auth

Fell(thing) == thing \notin world /\ process'.state = "down"

LEMMA BuildDoes ==
  ASSUME ProcInv, Build
  PROVE  /\ Same
         /\ process'.state = "securing" => Parses(process.config)
         /\ \/ /\ ~process.config.bridged /\ process'.state = "securing"
               /\ process'.touched = process.touched
               /\ process'.publisher = process.publisher
            \/ /\ process.config.bridged /\ process'.state = "securing"
               /\ process'.touched = process.touched \cup {"nats"}
               /\ process'.publisher
            \/ process.config.bridged /\ Fell("nats")
            \/ ~Parses(process.config) /\ process'.state = "down"
<1> DEFINE touched == Touch(process, "nats")
<1>1. process \in Proc /\ process.config \in Config
  BY DEF ProcInv, TypeOK, Loaded, Build, At, Up
<1>2. Bridging(process.config) <=> process.config.bridged
  BY <1>1 DEF ProcInv, Build, At, Up, Loaded, Valid, ValidNats, Bridging
<1>3. /\ touched \in Proc /\ touched.touched = process.touched \cup {"nats"}
      /\ touched.check = process.check /\ touched.config = process.config
      /\ touched.disable_auth = process.disable_auth
  BY <1>1, TouchIs DEF Thing
<1>4. /\ process.config.bind_address = "socket"
      /\ Parses(process.config)
           <=> (Bridging(process.config) => process.config.nats.endpoint = "url")
  BY DEF ProcInv, Build, At, Up, Loaded, Parses
<1>5. CASE ~Bridging(process.config)
  <2>1. process' = [process EXCEPT !.state = "securing"]
    BY <1>5 DEF Build
  <2> QED
    BY <1>1, <1>2, <1>4, <1>5, <2>1, MovedIs DEF Up, Same
<1> HIDE DEF touched
<1>6. CASE Bridging(process.config) /\ process.config.nats.endpoint # "url"
  <2>1. process' = Down(process, 1)
    BY <1>6 DEF Build
  <2> QED
    BY <1>1, <1>4, <1>6, <2>1, DownIs DEF Same
<1>7. CASE Parses(process.config) /\ Bridging(process.config) /\ "nats" \in world
  <2>1. process' = [touched EXCEPT !.state = "securing", !.publisher = TRUE]
    BY <1>4, <1>7 DEF Build, touched
  <2> QED
    BY <1>1, <1>2, <1>3, <1>7, <2>1, BridgedIs DEF Same
<1>8. CASE Parses(process.config) /\ Bridging(process.config) /\ "nats" \notin world
  <2>1. process' = Down(touched, 1)
    BY <1>4, <1>8 DEF Build, touched
  <2> QED
    BY <1>1, <1>2, <1>3, <1>8, <2>1, DownIs DEF Same, Fell
<1> QED
  BY <1>4, <1>5, <1>6, <1>7, <1>8

LEMMA BuildPreserves ==
  ASSUME ProcInv, Build
  PROVE  ProcInv'
<1> USE DEF ProcInv, At
<1>1. TypeOK'
  BY BuildDoes DEF Build, Same, TypeOK
<1>2. Loaded'
  BY DEF Build, Down, Touch, Bridging, Loaded, Up, TypeOK, Proc
<1>3. Reached'
  BY BuildDoes DEF Build, Same, Fell, Reached, TypeOK, Proc
<1>4. Missed'
  BY DEF Build, Down, Touch, Bridging, Missed, Thing, TypeOK
<1>5. Blamed'
  BY BuildDoes
     DEF Build, Same, Fell, Blamed, Failed, Disturbed, Needs, Missed, Thing
<1>6. CheckedIsValid'
  BY DEF Build, Down, Touch, Bridging, CheckedIsValid, TypeOK, Proc
<1>7. PublishedLegally'
  BY DEF Build, Down, Touch, Bridging, PublishedLegally
<1>8. SubjectsAreLegal'
  BY DEF Build, Down, Touch, Bridging, SubjectsAreLegal, PublishedLegally
<1> QED
  BY <1>1, <1>2, <1>3, <1>4, <1>5, <1>6, <1>7, <1>8

LEMMA SecureDoes ==
  ASSUME ProcInv, Secure
  PROVE  /\ Same
         /\ process'.state = "binding" => process'.publisher = process.publisher
         /\ \/ /\ process.config.tls = Nothing /\ process'.state = "binding"
               /\ process'.touched = process.touched
            \/ /\ process.config.tls # Nothing /\ process'.state = "binding"
               /\ process'.touched = process.touched \cup {"tls"}
            \/ process.config.tls # Nothing /\ Fell("tls")
<1> DEFINE touched == Touch(process, "tls")
<1>1. process \in Proc /\ process.config \in Config
  BY DEF ProcInv, TypeOK, Loaded, Secure, At, Up
<1>2. process.config.tls # Nothing => process.config.tls = "named"
  BY <1>1, ConfigIsRecord
     DEF ProcInv, Secure, At, Up, Loaded, Valid, ValidTls, RawConfig
<1>3. /\ touched \in Proc /\ touched.touched = process.touched \cup {"tls"}
      /\ touched.check = process.check /\ touched.config = process.config
      /\ touched.disable_auth = process.disable_auth
      /\ touched.publisher = process.publisher
  BY <1>1, TouchIs DEF Thing
<1>4. CASE process.config.tls = Nothing
  <2>1. process' = [process EXCEPT !.state = "binding"]
    BY <1>4 DEF Secure
  <2> QED
    BY <1>1, <1>4, <2>1, MovedIs DEF Up, Same
<1> HIDE DEF touched
<1>5. CASE process.config.tls # Nothing /\ "tls" \in world
  <2>1. process' = [touched EXCEPT !.state = "binding"]
    BY <1>5, <1>2 DEF Secure, touched
  <2> QED
    BY <1>1, <1>3, <1>5, <2>1, MovedIs DEF Up, Same
<1>6. CASE process.config.tls # Nothing /\ "tls" \notin world
  <2>1. process' = Down(touched, 1)
    BY <1>6 DEF Secure, touched
  <2> QED
    BY <1>1, <1>3, <1>6, <2>1, DownIs DEF Same, Fell
<1> QED
  BY <1>4, <1>5, <1>6

LEMMA SecurePreserves ==
  ASSUME ProcInv, Secure
  PROVE  ProcInv'
<1> USE DEF ProcInv, At
<1>1. TypeOK'
  BY SecureDoes DEF Secure, Same, TypeOK
<1>2. Loaded'
  BY DEF Secure, Down, Touch, Loaded, Up, TypeOK, Proc
<1>3. Reached'
  BY DEF Secure, Down, Touch, Reached, TypeOK, Proc, Loaded, Up
<1>4. Missed'
  BY DEF Secure, Down, Touch, Missed, Thing, TypeOK
<1>5. Blamed'
  BY SecureDoes
     DEF Secure, Same, Fell, Blamed, Failed, Disturbed, Needs, Missed, Thing
<1>6. CheckedIsValid'
  BY DEF Secure, Down, Touch, CheckedIsValid, TypeOK, Proc
<1>7. PublishedLegally'
  BY DEF Secure, Down, Touch, PublishedLegally
<1>8. SubjectsAreLegal'
  BY DEF Secure, Down, Touch, SubjectsAreLegal, PublishedLegally
<1> QED
  BY <1>1, <1>2, <1>3, <1>4, <1>5, <1>6, <1>7, <1>8

LEMMA BindDoes ==
  ASSUME ProcInv, Bind
  PROVE  /\ Same
         /\ process'.state = "serving" \/ Fell("port")
<1> DEFINE touched == Touch(process, "port")
<1>1. process \in Proc
  BY DEF ProcInv, TypeOK
<1>2. /\ touched \in Proc
      /\ touched.check = process.check /\ touched.config = process.config
      /\ touched.disable_auth = process.disable_auth
  BY <1>1, TouchIs DEF Thing
<1> HIDE DEF touched
<1>3. CASE "port" \in world
  <2>1. process' = [touched EXCEPT !.state = "serving"]
    BY <1>3 DEF Bind, touched
  <2> QED
    BY <1>1, <1>2, <2>1, MovedIs DEF Up, Same
<1>4. CASE "port" \notin world
  <2>1. process' = Down(touched, 1)
    BY <1>4 DEF Bind, touched
  <2> QED
    BY <1>1, <1>2, <1>4, <2>1, DownIs DEF Same, Fell
<1> QED
  BY <1>3, <1>4

LEMMA BindPreserves ==
  ASSUME ProcInv, Bind
  PROVE  ProcInv'
<1> USE DEF ProcInv, At
<1>1. TypeOK'
  BY BindDoes DEF Bind, Same, TypeOK
<1>2. Loaded'
  BY DEF Bind, Down, Touch, Loaded, Up, TypeOK, Proc
<1>3. Reached'
  BY DEF Bind, Down, Touch, Reached, TypeOK, Proc, Loaded, Up
<1>4. Missed'
  BY DEF Bind, Down, Touch, Missed, Thing, TypeOK
<1>5. Blamed'
  BY BindDoes
     DEF Bind, Same, Fell, Blamed, Failed, Disturbed, Needs, Missed, Thing
<1>6. CheckedIsValid'
  BY DEF Bind, Down, Touch, CheckedIsValid, TypeOK, Proc
<1>7. PublishedLegally'
  BY DEF Bind, Down, Touch, PublishedLegally
<1>8. SubjectsAreLegal'
  BY DEF Bind, Down, Touch, SubjectsAreLegal, PublishedLegally
<1> QED
  BY <1>1, <1>2, <1>3, <1>4, <1>5, <1>6, <1>7, <1>8

LEMMA PublishPreserves ==
  ASSUME ProcInv, NEW event \in Events, NEW repository \in Repositories, Publish(event, repository)
  PROVE  ProcInv'
<1> USE DEF ProcInv, At
<1>1. TypeOK'
  <2>1. process.config \in Config /\ process.config.bridged
    BY DEF Publish, Loaded, Reached, Up
  <2>2. process.config.nats.subject_base \in Seq(Char)
    BY <2>1, ConfigIsRecord
       DEF Publish, Loaded, Up, Valid, ValidNats, RawConfig, Nats
  <2>3. event \in Event /\ repository \in Repository
    BY ProcessAssumption
  <2>4. subject' \in Seq(Char)
    BY <2>2, <2>3, SubjectForType DEF Publish
  <2> QED
    BY <2>4 DEF Publish, TypeOK
<1>2. Loaded'
  BY DEF Publish, Loaded, Up, TypeOK, Proc
<1>3. Reached'
  BY DEF Publish, Reached, TypeOK, Proc, Loaded, Up
<1>4. Missed'
  BY DEF Publish, Missed, Thing, TypeOK
<1>5. Blamed'
  BY DEF Publish, Blamed, Failed, Disturbed, Needs, Missed, TypeOK, Proc, Loaded, Up
<1>6. CheckedIsValid'
  BY DEF Publish, CheckedIsValid, TypeOK, Proc
<1>7. PublishedLegally'
  BY DEF Publish, PublishedLegally
<1>8. SubjectsAreLegal'
  <2>1. process.config \in Config /\ process.config.bridged
    BY DEF Publish, Loaded, Reached, Up
  <2>2. process.config.nats.subject_base \in Seq(Char)
    BY <2>1, ConfigIsRecord
       DEF Publish, Loaded, Up, Valid, ValidNats, RawConfig, Nats
  <2>3. event \in Event /\ repository \in Repository
    BY ProcessAssumption
  <2> QED
    BY <2>2, <2>3, SubjectForIsLegal DEF Publish, SubjectsAreLegal
<1> QED
  BY <1>1, <1>2, <1>3, <1>4, <1>5, <1>6, <1>7, <1>8

LEMMA SignalPreserves ==
  ASSUME ProcInv, Signal
  PROVE  ProcInv'
<1> USE DEF ProcInv, At
<1>1. TypeOK'
  BY DEF Signal, Down, TypeOK, Proc
<1>2. Loaded'
  BY DEF Signal, Down, Loaded, Up, TypeOK, Proc
<1>3. Reached'
  BY DEF Signal, Down, Reached, TypeOK, Proc, Loaded, Up
<1>4. Missed'
  BY DEF Signal, Down, Missed, Thing, TypeOK
<1>5. Blamed'
  BY DEF Signal, Down, Blamed, Failed, Disturbed, Needs, Missed, TypeOK, Proc, Loaded, Up
<1>6. CheckedIsValid'
  BY DEF Signal, Down, CheckedIsValid, TypeOK, Proc
<1>7. PublishedLegally'
  BY DEF Signal, Down, PublishedLegally
<1>8. SubjectsAreLegal'
  BY DEF Signal, Down, SubjectsAreLegal, PublishedLegally
<1> QED
  BY <1>1, <1>2, <1>3, <1>4, <1>5, <1>6, <1>7, <1>8

LEMMA TurnPreserves ==
  ASSUME ProcInv, NEW thing \in Thing, Turn(thing)
  PROVE  ProcInv'
<1> USE DEF ProcInv, At
<1>1. TypeOK'
  BY DEF Turn, TypeOK, Proc
<1>2. Loaded'
  BY DEF Turn, Loaded, Up, TypeOK, Proc
<1>3. Reached'
  BY DEF Turn, Reached, TypeOK, Proc, Loaded, Up
<1>4. Missed'
  BY DEF Turn, Missed, Thing, TypeOK
<1>5. Blamed'
  BY DEF Turn, Blamed, Failed, Disturbed, Needs, Missed, TypeOK, Proc, Loaded, Up
<1>6. CheckedIsValid'
  BY DEF Turn, CheckedIsValid, TypeOK, Proc
<1>7. PublishedLegally'
  BY DEF Turn, PublishedLegally
<1>8. SubjectsAreLegal'
  BY DEF Turn, SubjectsAreLegal, PublishedLegally
<1> QED
  BY <1>1, <1>2, <1>3, <1>4, <1>5, <1>6, <1>7, <1>8

(* Initially nothing runs. *)
LEMMA InitInv == Init => ProcInv
<1> SUFFICES ASSUME Init PROVE ProcInv
  OBVIOUS
<1> DEFINE p == Launched(FALSE, FALSE)
<1>1. p \in Proc /\ ~p.publisher /\ p.touched = {} /\ p.config = Nothing /\ ~p.check
  BY DEF Launched, Proc
<1> HIDE DEF p
<1>2. process = Down(p, 0)
  BY DEF Init, p
<1>3. /\ process \in Proc /\ process.state = "down" /\ process.status = 0
      /\ ~process.publisher /\ process.touched = {} /\ process.config = Nothing
      /\ ~process.check
  BY <1>1, <1>2, DownIs
<1>4. TypeOK
  BY <1>3 DEF Init, TypeOK, Thing
<1>5. Loaded /\ Reached /\ Missed /\ Blamed
  BY <1>3 DEF Loaded, Up, Reached, Missed, Blamed, Failed, At
<1>6. CheckedIsValid /\ PublishedLegally /\ SubjectsAreLegal
  BY DEF Init, CheckedIsValid, PublishedLegally, SubjectsAreLegal
<1> QED
  BY <1>4, <1>5, <1>6 DEF ProcInv

LEMMA NextInv == ProcInv /\ [Next]_vars => ProcInv'
<1> SUFFICES ASSUME ProcInv, [Next]_vars PROVE ProcInv'
  OBVIOUS
<1>1. ASSUME NEW check \in BOOLEAN, NEW disable_auth \in BOOLEAN, Launch(check, disable_auth)
      PROVE  ProcInv'
  BY <1>1, LaunchPreserves
<1>2. ASSUME NEW content \in Config \cup {Broken}, Read(content)
      PROVE  ProcInv'
  BY <1>2, RefusePreserves, PassPreserves, LoadPreserves DEF Read
<1>3. CASE Run
  BY <1>3, BuildPreserves, SecurePreserves, BindPreserves DEF Run
<1>4. ASSUME NEW event \in Events, NEW repository \in Repositories, Publish(event, repository)
      PROVE  ProcInv'
  BY <1>4, PublishPreserves
<1>5. CASE Signal
  BY <1>5, SignalPreserves
<1>6. ASSUME NEW thing \in Thing, Turn(thing)
      PROVE  ProcInv'
  BY <1>6, TurnPreserves
<1>7. CASE UNCHANGED vars
  BY <1>7
     DEF vars, ProcInv, TypeOK, Loaded, Reached, Missed, Blamed, Failed, Disturbed, At,
         CheckedIsValid, PublishedLegally, SubjectsAreLegal
<1> QED
  BY <1>1, <1>2, <1>3, <1>4, <1>5, <1>6, <1>7 DEF Next

(* The invariant that all of the theorems rest on. *)
LEMMA InvHolds == Spec => []ProcInv
BY InitInv, NextInv, PTL DEF Spec

-----------------------------------------------------------------------------
(* THE THEOREMS *)

(* Every reachable state of the process is well typed. *)
THEOREM TypeCorrect == Spec => []TypeOK
<1>1. ProcInv => TypeOK
  BY DEF ProcInv
<1> QED
  BY <1>1, InvHolds, PTL

(* Of a file that passed a check under the same flags, and in which bind-address and
   the endpoint of NATS parse (main.rs, run; nats.rs, connect), a server only fails by
   what is out of the file. *)
THEOREM ApprovedStart == Spec => []ApprovedFilesStart
<1>1. ProcInv => ApprovedFilesStart
  <2> SUFFICES ASSUME ProcInv, Failed, Approved, Parses(process.config)
               PROVE  Disturbed(process.config)
    BY DEF ApprovedFilesStart, Disturbed
  <2>1. checked.config \in Config /\ Valid(checked.config, checked.disable_auth)
    BY DEF ProcInv, TypeOK, CheckedIsValid, Approved
  <2>2. process.config = checked.config /\ process.disable_auth = checked.disable_auth
    BY DEF Approved, Passed
  <2>3. process.config # Nothing
    BY <2>1, <2>2, ConfigIsRecord
  <2> QED
    BY <2>1, <2>2, <2>3 DEF ProcInv, Blamed
<1> QED
  BY <1>1, InvHolds, PTL

(* A check run (main.rs, validate_config) reaches for nothing but the file; a server
   at work does all its file says: build_app_state has a publisher for it, the
   certificate is loaded, and path_for_key will take the names of its keys. *)
THEOREM RunsAreAsConfigured == Spec => []ServesAsConfigured
<1>1. ProcInv => ServesAsConfigured
  <2> SUFFICES ASSUME ProcInv PROVE ServesAsConfigured
    OBVIOUS
  <2>1. process.check => process.touched = {} /\ ~process.publisher /\ ~At("serving")
    BY DEF ProcInv, Reached, At
  <2>2. ASSUME At("serving")
        PROVE  /\ process.publisher <=> process.config.bridged
               /\ "tls" \in process.touched <=> process.config.tls # Nothing
               /\ Parses(process.config) /\ Signs(process.config)
               /\ process.config.access # "sound" => process.disable_auth
    <3>1. process.config \in RawConfig /\ Valid(process.config, process.disable_auth)
      BY <2>2, ConfigIsRecord DEF ProcInv, Loaded, Up, At
    <3>2. Signs(process.config)
      BY <3>1 DEF RawConfig, Valid, ValidKeySource, ValidSecretKey, Signs
    <3>3. process.config.access # "sound" => process.disable_auth
      BY <3>1 DEF Valid, ValidAccess
    <3> QED
      BY <2>2, <3>2, <3>3 DEF ProcInv, Reached, At
  <2> QED
    BY <2>1, <2>2 DEF ServesAsConfigured
<1> QED
  BY <1>1, InvHolds, PTL

(* What is published under (nats.rs, subject_for_github_webhook) is a subject if
   the base is one, for every header and payload. *)
THEOREM LegalSubjects == Spec => []SubjectsAreLegal
<1>1. ProcInv => SubjectsAreLegal
  BY DEF ProcInv
<1> QED
  BY <1>1, InvHolds, PTL

=============================================================================
