----------------------- MODULE CredentialHelperProofs ------------------------
(***************************************************************************)
(* Theorems about CredentialHelper, for every set of requests git may      *)
(* write and of files and tokens it may find.                              *)
(*                                                                         *)
(* What the helper makes of a request (merging a url into the explicit     *)
(* lines, then taking two components off the path) is shown to be what git *)
(* means by it, AsksFor, in both directions; the theorems about runs       *)
(* follow from there.                                                      *)
(***************************************************************************)
EXTENDS CredentialHelper, Extremes, SequenceTheorems

(* An absent value is no value. *)
LEMMA NothingIsApart ==
  /\ Nothing \notin {"https", "http"} /\ Nothing \notin Host
  /\ Nothing \notin Seq(Component) /\ Nothing \notin Url
  /\ Nothing \notin Repo /\ Nothing \notin InstallationToken /\ Nothing \notin Segment
BY HelperAssumption

-----------------------------------------------------------------------------
(* PATHS *)

(* The iterator over the components finds the next one, and misses none. *)
LEMMA NextComponentIs ==
  ASSUME NEW path \in Seq(Component), NEW n \in Nat
  PROVE  LET m == NextComponent(path, n) IN
         \/ m = 0 /\ \A i \in DOMAIN path : i > n => IsEmpty(path[i])
         \/ /\ m \in DOMAIN path /\ m > n /\ ~IsEmpty(path[m])
            /\ \A i \in DOMAIN path : i > n /\ i < m => IsEmpty(path[i])
<1> DEFINE rest == {i \in DOMAIN path : i > n /\ ~IsEmpty(path[i])}
<1>1. DOMAIN path = 1 .. Len(path) /\ Len(path) \in Nat
  BY LenProperties
<1>2. CASE rest = {}
  BY <1>2 DEF NextComponent
<1>3. CASE rest # {}
  <2>1. rest \subseteq Nat
    BY <1>1
  <2>2. PICK x \in rest : \A y \in rest : x <= y
    BY <1>3, <2>1, LeastExists
  <2>3. NextComponent(path, n) = CHOOSE i \in rest : \A j \in rest : i <= j
    BY <1>3 DEF NextComponent
  <2>4. NextComponent(path, n) \in rest /\ \A j \in rest : NextComponent(path, n) <= j
    BY <2>2, <2>3
  <2> QED
    BY <1>1, <2>4
<1> QED
  BY <1>2, <1>3

(* repo_from_path takes the two components that the path names. *)
LEMMA RepoFromPathIsNamed ==
  ASSUME NEW path \in Seq(Component), RepoFromPath(path) # Nothing
  PROVE  RepoFromPath(path) \in Repo /\ Names(path, RepoFromPath(path))
<1> DEFINE i == NextComponent(path, 0)
           j == NextComponent(path, i)
<1>1. DOMAIN path = 1 .. Len(path) /\ Len(path) \in Nat
  BY LenProperties
<1>2. j # 0 /\ path[j].name # Nothing
      /\ RepoFromPath(path) = [owner |-> path[i], name |-> path[j].name]
  BY DEF RepoFromPath
<1>3. \/ i = 0 /\ \A k \in DOMAIN path : k > 0 => IsEmpty(path[k])
      \/ /\ i \in DOMAIN path /\ i > 0 /\ ~IsEmpty(path[i])
         /\ \A k \in DOMAIN path : k > 0 /\ k < i => IsEmpty(path[k])
  BY NextComponentIs
<1>4. i \in Nat
  BY <1>1, <1>3
<1>5. /\ j \in DOMAIN path /\ j > i /\ ~IsEmpty(path[j])
      /\ \A k \in DOMAIN path : k > i /\ k < j => IsEmpty(path[k])
  BY <1>2, <1>4, NextComponentIs
<1>6. /\ i \in DOMAIN path /\ i > 0 /\ ~IsEmpty(path[i])
      /\ \A k \in DOMAIN path : k > 0 /\ k < i => IsEmpty(path[k])
  BY <1>1, <1>3, <1>5
<1> HIDE DEF i, j
<1>7. path[i] \in Component /\ path[j].name \in Name
  <2>1. path[i] \in Component /\ path[j] \in Component
    BY <1>1, <1>5, <1>6, ElementOfSeq
  <2> QED
    BY <2>1, <1>2 DEF Component
<1>8. \A k \in 1 .. j : k \in {i, j} <=> ~IsEmpty(path[k])
  BY <1>1, <1>5, <1>6
<1>9. \A k \in 1 .. j : ~IsEmpty(path[k]) <=> (path[k].name # Nothing \/ path[k].git)
  <2> SUFFICES ASSUME NEW k \in 1 .. j
               PROVE  ~IsEmpty(path[k]) <=> (path[k].name # Nothing \/ path[k].git)
    OBVIOUS
  <2>1. path[k] \in Component
    BY <1>1, <1>5, ElementOfSeq
  <2> QED
    BY <2>1 DEF IsEmpty, Component
<1> QED
  BY <1>2, <1>5, <1>6, <1>7, <1>8, <1>9 DEF Names, Repo

(* A path that names a repository is not passed over. *)
LEMMA NamedIsFound ==
  ASSUME NEW path \in Seq(Component), NEW repo \in Repo, Names(path, repo)
  PROVE  RepoFromPath(path) # Nothing
<1> DEFINE a == NextComponent(path, 0)
           b == NextComponent(path, a)
<1>1. DOMAIN path = 1 .. Len(path) /\ Len(path) \in Nat
  BY LenProperties
<1>2. PICK i \in DOMAIN path, j \in DOMAIN path :
        /\ i < j
        /\ \A k \in 1 .. j : k \in {i, j} <=> (path[k].name # Nothing \/ path[k].git)
        /\ path[i] = repo.owner
        /\ path[j].name = repo.name
  BY DEF Names
<1>3. \A k \in 1 .. j : k \in {i, j} <=> ~IsEmpty(path[k])
  <2> SUFFICES ASSUME NEW k \in 1 .. j PROVE k \in {i, j} <=> ~IsEmpty(path[k])
    OBVIOUS
  <2>1. path[k] \in Component
    BY <1>1, <1>2, ElementOfSeq
  <2> QED
    BY <2>1, <1>2 DEF IsEmpty, Component
<1>4. a = i
  <2>1. \/ a = 0 /\ \A k \in DOMAIN path : k > 0 => IsEmpty(path[k])
        \/ /\ a \in DOMAIN path /\ a > 0 /\ ~IsEmpty(path[a])
           /\ \A k \in DOMAIN path : k > 0 /\ k < a => IsEmpty(path[k])
    BY NextComponentIs
  <2> HIDE DEF a
  <2> QED
    BY <2>1, <1>1, <1>2, <1>3
<1>5. b = j
  <2>1. \/ b = 0 /\ \A k \in DOMAIN path : k > i => IsEmpty(path[k])
        \/ /\ b \in DOMAIN path /\ b > i /\ ~IsEmpty(path[b])
           /\ \A k \in DOMAIN path : k > i /\ k < b => IsEmpty(path[k])
    BY <1>1, <1>4, NextComponentIs
  <2> HIDE DEF b
  <2> QED
    BY <2>1, <1>1, <1>2, <1>3
<1>6. path[j].name # Nothing
  BY <1>2, HelperAssumption DEF Repo
<1>7. RepoFromPath(path) = [owner |-> path[i], name |-> path[j].name]
  BY <1>1, <1>4, <1>5, <1>6 DEF RepoFromPath
<1>8. path[i] \in Component /\ path[j].name \in Name
  BY <1>2 DEF Repo
<1> QED
  <2>1. RepoFromPath(path) \in Repo
    BY <1>2, <1>7, <1>8 DEF Repo
  <2> QED
    BY <2>1, NothingIsApart

-----------------------------------------------------------------------------
(* TOKENS *)

LEMMA Pairs ==
  ASSUME NEW a, NEW b
  PROVE  /\ <<a>> \o <<b>> = <<a, b>>
         /\ <<a>> \o <<>> = <<a>> /\ <<>> \o <<b>> = <<b>> /\ <<>> \o <<>> = <<>>
<1> DEFINE S == {a, b}
<1>1. <<a>> \in Seq(S) /\ <<b>> \in Seq(S) /\ <<>> \in Seq(S)
  OBVIOUS
<1>2. <<a>> \o <<b>> = <<a, b>>
  <2> DEFINE s == <<a>> \o <<b>>
  <2>1. /\ s \in Seq(S) /\ Len(s) = Len(<<a>>) + Len(<<b>>)
        /\ \A i \in 1 .. Len(<<a>>) + Len(<<b>>) :
             s[i] = IF i <= Len(<<a>>) THEN <<a>>[i] ELSE <<b>>[i - Len(<<a>>)]
    BY <1>1, ConcatProperties
  <2> HIDE DEF s
  <2>2. Len(s) = 2 /\ s[1] = a /\ s[2] = b
    BY <2>1
  <2>3. <<a, b>> \in Seq(S) /\ Len(<<a, b>>) = 2
    OBVIOUS
  <2>4. \A i \in 1 .. 2 : s[i] = <<a, b>>[i]
    BY <2>2
  <2>5. s = <<a, b>>
    BY <2>1, <2>2, <2>3, <2>4, SeqEqual
  <2> QED
    BY <2>5 DEF s
<1> HIDE DEF S
<1> QED
  BY <1>1, <1>2, ConcatEmptySeq

LEMMA Triples ==
  ASSUME NEW a, NEW b, NEW c
  PROVE  /\ <<a, b>> \o <<c>> = <<a, b, c>>
         /\ <<a, b>> \o <<>> = <<a, b>>
<1> DEFINE S == {a, b, c}
<1>1. <<a, b>> \in Seq(S) /\ <<c>> \in Seq(S)
  OBVIOUS
<1>2. <<a, b>> \o <<c>> = <<a, b, c>>
  <2> DEFINE s == <<a, b>> \o <<c>>
  <2>1. /\ s \in Seq(S) /\ Len(s) = Len(<<a, b>>) + Len(<<c>>)
        /\ \A i \in 1 .. Len(<<a, b>>) + Len(<<c>>) :
             s[i] = IF i <= Len(<<a, b>>) THEN <<a, b>>[i] ELSE <<c>>[i - Len(<<a, b>>)]
    BY <1>1, ConcatProperties
  <2> HIDE DEF s
  <2>2. Len(s) = 3 /\ s[1] = a /\ s[2] = b /\ s[3] = c
    BY <2>1
  <2>3. <<a, b, c>> \in Seq(S) /\ Len(<<a, b, c>>) = 3
    OBVIOUS
  <2>4. \A i \in 1 .. 3 : s[i] = <<a, b, c>>[i]
    BY <2>2
  <2>5. s = <<a, b, c>>
    BY <2>1, <2>2, <2>3, <2>4, SeqEqual
  <2> QED
    BY <2>5 DEF s
<1> HIDE DEF S
<1> QED
  BY <1>1, <1>2, ConcatEmptySeq

(* What is issued when the path of the URL holds two segments at least: if it holds
   all three, the token is for the repository, and otherwise for no repository. *)
LEMMA TokenIs ==
  ASSUME NEW github_app \in Name, NEW repo \in Repo, NEW bearer \in Bearer,
         Len(Segments(github_app, repo)) >= 2
  PROVE  LET token == Token(Segments(github_app, repo), bearer) IN
         /\ token \in InstallationToken /\ token.bearer = bearer
         /\ github_app \notin Dots => token.github_app = Plain(github_app)
         /\ IF Shortened(github_app, repo) THEN token.repository = Nothing
            ELSE token.owner = repo.owner /\ token.repository = Plain(repo.name)
<1> DEFINE a == Plain(github_app)
           b == repo.owner
           c == Plain(repo.name)
           segments == Segments(github_app, repo)
           token == Token(segments, bearer)
<1>1. a \in Component /\ b \in Component /\ c \in Component
  BY DEF Plain, Component, Repo
<1>2. github_app \notin Dots => a \in Segment
  <2>1. \A name \in Dots : Plain(name) = Plain(github_app) => name = github_app
    BY DEF Plain
  <2> QED
    BY <1>1, <2>1 DEF Segment, DotComponent
<1>3. Shortened(github_app, repo) <=> ~({a, b, c} \subseteq Segment)
  BY <1>1 DEF Shortened, Segment
<1>4. segments = (Appended(a) \o Appended(b)) \o Appended(c)
  BY DEF Segments
<1> HIDE DEF a, b, c, segments
<1>5. CASE a \in Segment /\ b \in Segment /\ c \in Segment
  <2>1. segments = <<a, b, c>>
    <3>1. Appended(a) = <<a>> /\ Appended(b) = <<b>> /\ Appended(c) = <<c>>
      BY <1>5 DEF Appended
    <3>2. segments = (<<a>> \o <<b>>) \o <<c>>
      BY <1>4, <3>1
    <3>3. segments = <<a, b>> \o <<c>>
      BY <3>2, Pairs
    <3> QED
      BY <3>3, Triples
  <2>2. token = [github_app |-> a, owner |-> b, repository |-> c, bearer |-> bearer]
    BY <2>1 DEF Token
  <2> QED
    BY <1>3, <1>5, <2>2 DEF InstallationToken, a, b, c, segments
<1>6. CASE a \in Segment /\ b \in Segment /\ c \notin Segment
  <2>1. segments = <<a, b>>
    BY <1>4, <1>6, Pairs, Triples DEF Appended
  <2>2. token = [github_app |-> a, owner |-> b, repository |-> Nothing, bearer |-> bearer]
    BY <2>1 DEF Token
  <2> QED
    BY <1>3, <1>6, <2>2 DEF InstallationToken, a, segments
<1>7. CASE a \in Segment /\ b \notin Segment /\ c \in Segment
  <2>1. segments = <<a, c>>
    BY <1>4, <1>7, Pairs, Triples DEF Appended
  <2>2. token = [github_app |-> a, owner |-> c, repository |-> Nothing, bearer |-> bearer]
    BY <2>1 DEF Token
  <2> QED
    BY <1>3, <1>7, <2>2 DEF InstallationToken, a, segments
<1>8. CASE a \notin Segment /\ b \in Segment /\ c \in Segment
  <2>1. segments = <<b, c>>
    BY <1>4, <1>8, Pairs, Triples DEF Appended
  <2>2. token = [github_app |-> b, owner |-> c, repository |-> Nothing, bearer |-> bearer]
    BY <2>1 DEF Token
  <2> QED
    BY <1>2, <1>3, <1>8, <2>2 DEF InstallationToken, segments
<1>9. CASE \/ a \notin Segment /\ b \notin Segment
           \/ a \notin Segment /\ c \notin Segment
           \/ b \notin Segment /\ c \notin Segment
  <2>1. Len(segments) < 2
    BY <1>4, <1>9, Pairs, Triples DEF Appended
  <2>2. Len(segments) >= 2
    BY DEF segments
  <2>3. Len(segments) \in Nat
    BY <1>4, <1>9, Pairs, Triples DEF Appended
  <2> QED
    BY <2>1, <2>2, <2>3
<1> QED
  BY <1>5, <1>6, <1>7, <1>8, <1>9

-----------------------------------------------------------------------------
(* LINES *)

Key == {"protocol", "host", "path"}

(* The values a key may have. *)
Value(key) ==
  IF key = "protocol" THEN {"https", "http"}
  ELSE IF key = "host" THEN Host ELSE Seq(Component)

(* A line says one thing. *)
LEMMA LineIs ==
  ASSUME NEW line \in Line, NEW key \in Key, key \in DOMAIN line
  PROVE  line = [x \in {key} |-> line[key]] /\ line[key] \in Value(key)
<1>1. CASE line \in [protocol : {"https", "http"}]
  BY <1>1 DEF Key, Value
<1>2. CASE line \in [host : Host]
  BY <1>2 DEF Key, Value
<1>3. CASE line \in [path : Seq(Component)]
  BY <1>3 DEF Key, Value
<1>4. CASE line \in [url : Url \cup {Broken}]
  BY <1>4 DEF Key
<1>5. CASE line \in [other : {Nothing}]
  BY <1>5 DEF Key
<1>6. CASE line = <<>>
  BY <1>6 DEF Key
<1> QED
  BY <1>1, <1>2, <1>3, <1>4, <1>5, <1>6 DEF Line

LEMMA UrlLineIs ==
  ASSUME NEW line \in Line, "url" \in DOMAIN line
  PROVE  line.url \in Url \cup {Broken}
<1>1. CASE line \in [protocol : {"https", "http"}]
  BY <1>1
<1>2. CASE line \in [host : Host]
  BY <1>2
<1>3. CASE line \in [path : Seq(Component)]
  BY <1>3
<1>4. CASE line \in [url : Url \cup {Broken}]
  BY <1>4
<1>5. CASE line \in [other : {Nothing}]
  BY <1>5
<1>6. CASE line = <<>>
  BY <1>6
<1> QED
  BY <1>1, <1>2, <1>3, <1>4, <1>5, <1>6 DEF Line

(* The last line of a key exists, and is the one that parse_credential keeps. *)
LEMMA LastIs ==
  ASSUME NEW lines \in Seq(Line), NEW key, Said(lines, key) # {}
  PROVE  \E m \in Said(lines, key) :
           /\ \A j \in Said(lines, key) : j <= m
           /\ m = CHOOSE i \in Said(lines, key) : \A j \in Said(lines, key) : j <= i
           /\ Explicit(lines, key) = lines[m][key]
<1>1. Said(lines, key) \subseteq 0 .. Len(lines) /\ Len(lines) \in Nat
  BY LenProperties DEF Said
<1>2. PICK x \in Said(lines, key) : \A y \in Said(lines, key) : y <= x
  BY <1>1, GreatestExists
<1> QED
  BY <1>2 DEF Explicit

(* What parse_credential keeps of the explicit lines is what they say. *)
LEMMA ExplicitIsSaid ==
  ASSUME NEW lines \in Seq(Line), NEW key \in Key, NEW value
  PROVE  Says(lines, key, value) <=> Said(lines, key) # {} /\ Explicit(lines, key) = value
<1>1. DOMAIN lines = 1 .. Len(lines) /\ Len(lines) \in Nat
  BY LenProperties
<1>2. ASSUME Says(lines, key, value)
      PROVE  Said(lines, key) # {} /\ Explicit(lines, key) = value
  <2>1. PICK i \in DOMAIN lines :
          /\ lines[i] = [x \in {key} |-> value]
          /\ \A j \in (i + 1) .. Len(lines) : key \notin DOMAIN lines[j]
    BY <1>2 DEF Says
  <2>2. i \in Said(lines, key) /\ lines[i][key] = value
    BY <2>1 DEF Said
  <2>3. PICK m \in Said(lines, key) :
          /\ \A j \in Said(lines, key) : j <= m
          /\ Explicit(lines, key) = lines[m][key]
    BY <2>2, LastIs
  <2>4. m = i
    BY <1>1, <2>1, <2>2, <2>3 DEF Said
  <2> QED
    BY <2>2, <2>3, <2>4
<1>3. ASSUME Said(lines, key) # {}, Explicit(lines, key) = value
      PROVE  Says(lines, key, value)
  <2>1. PICK m \in Said(lines, key) :
          /\ \A j \in Said(lines, key) : j <= m
          /\ Explicit(lines, key) = lines[m][key]
    BY <1>3, LastIs
  <2>2. m \in DOMAIN lines /\ key \in DOMAIN lines[m] /\ lines[m] \in Line
    BY <1>1, ElementOfSeq DEF Said
  <2>3. lines[m] = [x \in {key} |-> value]
    BY <1>3, <2>1, <2>2, LineIs
  <2>4. \A j \in (m + 1) .. Len(lines) : key \notin DOMAIN lines[j]
    BY <1>1, <2>1, <2>2 DEF Said
  <2> QED
    BY <2>2, <2>3, <2>4 DEF Says
<1> QED
  BY <1>2, <1>3

LEMMA ExplicitType ==
  ASSUME NEW lines \in Seq(Line), NEW key \in Key, Said(lines, key) # {}
  PROVE  Explicit(lines, key) \in Value(key) /\ Explicit(lines, key) # Nothing
<1>1. PICK m \in Said(lines, key) : Explicit(lines, key) = lines[m][key]
  BY LastIs
<1>2. lines[m] \in Line /\ key \in DOMAIN lines[m]
  BY LenProperties, ElementOfSeq DEF Said
<1> QED
  <2>1. Explicit(lines, key) \in Value(key)
    BY <1>1, <1>2, LineIs
  <2>2. Nothing \notin Value(key)
    BY NothingIsApart DEF Value
  <2> QED
    BY <2>1, <2>2

(* Of two requests one after the other the second goes first. *)
LEMMA SaysAfter ==
  ASSUME NEW a \in Seq(Line), NEW b \in Seq(Line), NEW key \in Key, NEW value
  PROVE  Says(a \o b, key, value)
           <=> IF Said(b, key) # {} THEN Says(b, key, value) ELSE Says(a, key, value)
<1> DEFINE c == a \o b
           n == Len(a)
<1>1. /\ DOMAIN a = 1 .. n /\ n \in Nat
      /\ DOMAIN b = 1 .. Len(b) /\ Len(b) \in Nat
  BY LenProperties
<1>2. /\ c \in Seq(Line) /\ Len(c) = n + Len(b) /\ DOMAIN c = 1 .. n + Len(b)
      /\ \A i \in 1 .. n + Len(b) : c[i] = IF i <= n THEN a[i] ELSE b[i - n]
  BY ConcatProperties, LenProperties
<1> HIDE DEF c, n
<1>3. \A i \in 1 .. n : c[i] = a[i]
  BY <1>1, <1>2
<1>4. \A i \in 1 .. Len(b) : i + n \in 1 .. n + Len(b) /\ c[i + n] = b[i]
  BY <1>1, <1>2
<1>5. CASE Said(b, key) # {}
  <2>1. PICK k \in 1 .. Len(b) : key \in DOMAIN b[k]
    BY <1>1, <1>5 DEF Said
  <2>2. ASSUME Says(c, key, value) PROVE Says(b, key, value)
    <3>1. PICK i \in DOMAIN c :
            /\ c[i] = [x \in {key} |-> value]
            /\ \A j \in (i + 1) .. Len(c) : key \notin DOMAIN c[j]
      BY <2>2 DEF Says
    <3>2. i > n
      <4>1. k + n \in 1 .. Len(c) /\ key \in DOMAIN c[k + n]
        BY <1>2, <1>4, <2>1
      <4>2. ~(k + n \in (i + 1) .. Len(c))
        BY <3>1, <4>1
      <4>3. i \in Nat /\ k \in Nat /\ k >= 1
        BY <1>2, <2>1, <3>1
      <4> QED
        BY <1>1, <1>2, <4>1, <4>2, <4>3
    <3>3. i - n \in DOMAIN b /\ b[i - n] = [x \in {key} |-> value]
      BY <1>1, <1>2, <3>1, <3>2
    <3>4. ASSUME NEW j \in (i - n + 1) .. Len(b) PROVE key \notin DOMAIN b[j]
      <4>1. j + n \in (i + 1) .. Len(c) /\ c[j + n] = b[j]
        BY <1>1, <1>2, <1>4, <3>2, <3>3
      <4> QED
        BY <4>1, <3>1
    <3> QED
      BY <3>3, <3>4 DEF Says
  <2>3. ASSUME Says(b, key, value) PROVE Says(c, key, value)
    <3>1. PICK i \in DOMAIN b :
            /\ b[i] = [x \in {key} |-> value]
            /\ \A j \in (i + 1) .. Len(b) : key \notin DOMAIN b[j]
      BY <2>3 DEF Says
    <3>2. i + n \in DOMAIN c /\ c[i + n] = [x \in {key} |-> value]
      BY <1>1, <1>2, <1>4, <3>1
    <3>3. ASSUME NEW j \in (i + n + 1) .. Len(c) PROVE key \notin DOMAIN c[j]
      <4>1. j - n \in (i + 1) .. Len(b) /\ c[j] = b[j - n]
        BY <1>1, <1>2, <3>1
      <4> QED
        BY <4>1, <3>1
    <3> QED
      BY <3>2, <3>3 DEF Says
  <2> QED
    BY <1>5, <2>2, <2>3 DEF c
<1>6. CASE Said(b, key) = {}
  <2>1. \A i \in 1 .. Len(b) : key \notin DOMAIN b[i]
    BY <1>1, <1>6 DEF Said
  <2>2. \A i \in 1 .. Len(c) : i > n => key \notin DOMAIN c[i]
    BY <1>1, <1>2, <2>1
  <2>3. ASSUME Says(c, key, value) PROVE Says(a, key, value)
    <3>1. PICK i \in DOMAIN c :
            /\ c[i] = [x \in {key} |-> value]
            /\ \A j \in (i + 1) .. Len(c) : key \notin DOMAIN c[j]
      BY <2>3 DEF Says
    <3>2. key \in DOMAIN c[i]
      BY <3>1
    <3>3. i \in DOMAIN a
      BY <1>1, <1>2, <2>2, <3>2
    <3>4. \A j \in (i + 1) .. n : key \notin DOMAIN a[j]
      BY <1>1, <1>2, <1>3, <3>1, <3>3
    <3> QED
      BY <1>1, <1>3, <3>1, <3>3, <3>4 DEF Says, n
  <2>4. ASSUME Says(a, key, value) PROVE Says(c, key, value)
    <3>1. PICK i \in DOMAIN a :
            /\ a[i] = [x \in {key} |-> value]
            /\ \A j \in (i + 1) .. n : key \notin DOMAIN a[j]
      BY <2>4 DEF Says, n
    <3>2. i \in DOMAIN c /\ c[i] = [x \in {key} |-> value]
      BY <1>1, <1>2, <1>3, <3>1
    <3>3. ASSUME NEW j \in (i + 1) .. Len(c) PROVE key \notin DOMAIN c[j]
      BY <1>1, <1>2, <1>3, <2>2, <3>1
    <3> QED
      BY <3>2, <3>3 DEF Says
  <2> QED
    BY <1>6, <2>3, <2>4 DEF c
<1> QED
  BY <1>5, <1>6

-----------------------------------------------------------------------------
(* URLS *)

LEMMA UrlIs ==
  ASSUME NEW url \in Url
  PROVE  /\ url.protocol \in {"https", "http"} /\ url.host \in Host
         /\ url.path \in Seq(Component)
<1>1. Segment \subseteq Component
  BY DEF Segment
<1>2. url.path \in Seq(Segment)
  BY DEF Url
<1>3. url.path \in Seq(Component)
  BY <1>1, <1>2, SeqMonotonic
<1> QED
  BY <1>3 DEF Url

(* A url is two lines, or three if it has a path. *)
LEMMA UrlLinesAre ==
  ASSUME NEW url \in Url
  PROVE  LET lines == UrlLines(url) IN
         /\ lines \in Seq(Line)
         /\ Len(lines) = IF url.path = <<>> THEN 2 ELSE 3
         /\ lines[1] = [protocol |-> url.protocol]
         /\ lines[2] = [host |-> url.host]
         /\ url.path # <<>> => lines[3] = [path |-> url.path]
<1> DEFINE a == [protocol |-> url.protocol]
           b == [host |-> url.host]
           c == [path |-> url.path]
<1>1. a \in Line /\ b \in Line /\ c \in Line
  BY UrlIs DEF Line
<1> HIDE DEF a, b, c
<1>2. <<a, b>> \in Seq(Line) /\ <<c>> \in Seq(Line) /\ <<>> \in Seq(Line)
  BY <1>1
<1>3. CASE url.path = <<>>
  <2>1. UrlLines(url) = <<a, b>>
    BY <1>2, <1>3, ConcatEmptySeq DEF UrlLines, a, b
  <2> QED
    BY <1>2, <1>3, <2>1 DEF a, b
<1>4. CASE url.path # <<>>
  <2>1. UrlLines(url) = <<a, b>> \o <<c>>
    BY <1>4 DEF UrlLines, a, b, c
  <2>2. /\ <<a, b>> \o <<c>> \in Seq(Line)
        /\ Len(<<a, b>> \o <<c>>) = Len(<<a, b>>) + Len(<<c>>)
        /\ \A i \in 1 .. Len(<<a, b>>) + Len(<<c>>) :
             (<<a, b>> \o <<c>>)[i]
               = IF i <= Len(<<a, b>>) THEN <<a, b>>[i] ELSE <<c>>[i - Len(<<a, b>>)]
    BY <1>2, ConcatProperties
  <2>3. Len(<<a, b>>) = 2 /\ Len(<<c>>) = 1
    OBVIOUS
  <2> QED
    BY <1>4, <2>1, <2>2, <2>3 DEF a, b, c
<1> QED
  BY <1>3, <1>4

LEMMA UrlSays ==
  ASSUME NEW url \in Url, NEW key \in Key, NEW value
  PROVE  Says(UrlLines(url), key, value)
           <=> (key = "path" => url.path # <<>>) /\ value = url[key]
<1> DEFINE lines == UrlLines(url)
<1>1. /\ lines \in Seq(Line)
      /\ Len(lines) = IF url.path = <<>> THEN 2 ELSE 3
      /\ lines[1] = [protocol |-> url.protocol]
      /\ lines[2] = [host |-> url.host]
      /\ url.path # <<>> => lines[3] = [path |-> url.path]
  BY UrlLinesAre
<1> HIDE DEF lines
<1>2. DOMAIN lines = 1 .. Len(lines)
  BY <1>1, LenProperties
<1>3. /\ lines[1] = [x \in {"protocol"} |-> url.protocol]
      /\ lines[2] = [x \in {"host"} |-> url.host]
      /\ url.path # <<>> => lines[3] = [x \in {"path"} |-> url.path]
  BY <1>1
<1>4. CASE key = "protocol"
  <2>1. Says(lines, key, url.protocol)
    BY <1>1, <1>2, <1>3, <1>4 DEF Says
  <2>2. Says(lines, key, value) => value = url.protocol
    BY <1>1, <1>2, <1>3, <1>4 DEF Says
  <2> QED
    BY <1>4, <2>1, <2>2 DEF lines
<1>5. CASE key = "host"
  <2>1. Says(lines, key, url.host)
    BY <1>1, <1>2, <1>3, <1>5 DEF Says
  <2>2. Says(lines, key, value) => value = url.host
    BY <1>1, <1>2, <1>3, <1>5 DEF Says
  <2> QED
    BY <1>5, <2>1, <2>2 DEF lines
<1>6. CASE key = "path"
  <2>1. url.path # <<>> => Says(lines, key, url.path)
    BY <1>1, <1>2, <1>3, <1>6 DEF Says
  <2>2. Says(lines, key, value) => url.path # <<>> /\ value = url.path
    BY <1>1, <1>2, <1>3, <1>6 DEF Says
  <2> QED
    BY <1>6, <2>1, <2>2 DEF lines
<1> QED
  BY <1>4, <1>5, <1>6 DEF Key

(* What merge_url_credential leaves for a key is what the request says, url and
   explicit lines taken together. *)
LEMMA AttributeIsSaid ==
  ASSUME NEW lines \in Seq(Line), NEW key \in Key, NEW value
  PROVE  Says(Spelled(lines), key, value)
           <=> value # Nothing /\ Attribute(lines, key) = value
<1> DEFINE url == Explicit(lines, "url")
           urls == {i \in DOMAIN lines : "url" \in DOMAIN lines[i]}
           last == CHOOSE i \in urls : \A j \in urls : j <= i
<1>1. urls = Said(lines, "url")
  BY DEF Said
<1>2. Explicit(lines, key) # Nothing <=> Said(lines, key) # {}
  BY ExplicitType DEF Explicit
<1>3. Says(lines, key, value) <=> Said(lines, key) # {} /\ Explicit(lines, key) = value
  BY ExplicitIsSaid
<1>4. urls # {} => url = lines[last].url /\ url \in Url \cup {Broken}
  <2> SUFFICES ASSUME urls # {}
               PROVE  url = lines[last].url /\ url \in Url \cup {Broken}
    OBVIOUS
  <2>1. PICK m \in Said(lines, "url") :
          /\ m = CHOOSE i \in Said(lines, "url") : \A j \in Said(lines, "url") : j <= i
          /\ url = lines[m]["url"]
    BY <1>1, LastIs
  <2>2. m = last
    BY <1>1, <2>1
  <2>3. lines[m] \in Line /\ "url" \in DOMAIN lines[m]
    BY <2>1, LenProperties, ElementOfSeq DEF Said
  <2> QED
    BY <2>1, <2>2, <2>3, UrlLineIs
<1>5. CASE urls = {} \/ url = Broken
  <2>1. Spelled(lines) = lines
    BY <1>4, <1>5 DEF Spelled
  <2>2. url \in {Nothing, Broken}
    BY <1>1, <1>5 DEF Explicit
  <2>3. Attribute(lines, key) = Explicit(lines, key)
    BY <2>2 DEF Attribute
  <2> QED
    BY <1>2, <1>3, <2>1, <2>3
<1>6. CASE urls # {} /\ url # Broken
  <2>1. url \in Url /\ url # Nothing
    BY <1>4, <1>6, NothingIsApart
  <2>2. Spelled(lines) = UrlLines(url) \o lines
    <3>1. lines[last].url # Broken
      BY <1>4, <1>6
    <3> QED
      BY <1>4, <1>6, <3>1 DEF Spelled
  <2>3. Says(Spelled(lines), key, value)
          <=> IF Said(lines, key) # {} THEN Says(lines, key, value)
              ELSE Says(UrlLines(url), key, value)
    <3>1. UrlLines(url) \in Seq(Line)
      BY <2>1, UrlLinesAre
    <3> HIDE DEF url
    <3> QED
      BY <2>2, <3>1, SaysAfter
  <2>4. Says(UrlLines(url), key, value)
          <=> (key = "path" => url.path # <<>>) /\ value = url[key]
    BY <2>1, UrlSays
  <2>5. url[key] # Nothing
    BY <2>1, UrlIs, NothingIsApart DEF Key
  <2>6. Attribute(lines, key) = IF Said(lines, key) # {} THEN Explicit(lines, key)
                                ELSE IF key = "path" /\ url.path = <<>> THEN Nothing
                                ELSE url[key]
    BY <1>2, <1>6, <2>1 DEF Attribute
  <2> HIDE DEF url
  <2> QED
    BY <1>2, <1>3, <2>3, <2>4, <2>5, <2>6
<1> QED
  BY <1>5, <1>6

LEMMA AttributeType ==
  ASSUME NEW lines \in Seq(Line), NEW key \in Key
  PROVE  Attribute(lines, key) \in Value(key) \cup {Nothing}
<1> DEFINE url == Explicit(lines, "url")
<1>1. CASE Explicit(lines, key) # Nothing
  <2>1. Said(lines, key) # {}
    BY <1>1 DEF Explicit
  <2> QED
    BY <1>1, <2>1, ExplicitType DEF Attribute
<1>2. CASE Explicit(lines, key) = Nothing /\ url \notin {Nothing, Broken}
  <2>1. PICK m \in Said(lines, "url") : url = lines[m]["url"]
    BY <1>2, LastIs DEF Explicit
  <2>2. lines[m] \in Line /\ "url" \in DOMAIN lines[m]
    BY LenProperties, ElementOfSeq DEF Said
  <2>3. url \in Url
    BY <1>2, <2>1, <2>2, UrlLineIs
  <2>4. url[key] \in Value(key)
    BY <2>3, UrlIs DEF Key, Value
  <2> QED
    BY <1>2, <2>4 DEF Attribute
<1>3. CASE Explicit(lines, key) = Nothing /\ url \in {Nothing, Broken}
  BY <1>3 DEF Attribute
<1> QED
  BY <1>1, <1>2, <1>3

-----------------------------------------------------------------------------
(* REQUESTS *)

Answerable(lines) == IsGithubHttpsRequest(lines) /\ RepoFromCredential(lines) # Nothing

(* The helper answers for the repository a request asks for ... *)
LEMMA AnswerableIsAsked ==
  ASSUME NEW lines \in Seq(Line), Answerable(lines)
  PROVE  RepoFromCredential(lines) \in Repo /\ AsksFor(lines, RepoFromCredential(lines))
<1> DEFINE path == Attribute(lines, "path")
           host == Attribute(lines, "host")
           repo == RepoFromCredential(lines)
<1>1. path # Nothing /\ repo = RepoFromPath(path) /\ repo # Nothing
  BY DEF Answerable, RepoFromCredential
<1>2. path \in Seq(Component)
  BY <1>1, AttributeType DEF Key, Value
<1>3. repo \in Repo /\ Names(path, repo)
  BY <1>1, <1>2, RepoFromPathIsNamed
<1>4. Says(Spelled(lines), "path", path)
  BY <1>1, AttributeIsSaid DEF Key
<1>5. Says(Spelled(lines), "protocol", "https")
  BY NothingIsApart, AttributeIsSaid DEF Key, Answerable, IsGithubHttpsRequest
<1>6. host \in {"github.com", "GitHub.com"} /\ Says(Spelled(lines), "host", host)
  BY NothingIsApart, AttributeIsSaid
     DEF Key, Answerable, IsGithubHttpsRequest, IsGithub, Host
<1> HIDE DEF path, host, repo
<1>7. PICK i \in DOMAIN Spelled(lines) : Spelled(lines)[i] = [x \in {"path"} |-> path]
  BY <1>4 DEF Says
<1>8. "path" \in DOMAIN Spelled(lines)[i] /\ Spelled(lines)[i].path = path
  BY <1>7
<1>9. AsksFor(lines, repo)
  BY <1>3, <1>4, <1>5, <1>6, <1>8 DEF AsksFor
<1> QED
  BY <1>3, <1>9 DEF repo

(* ... and for each that asks for one. *)
LEMMA AskedIsAnswerable ==
  ASSUME NEW lines \in Seq(Line), NEW repo \in Repo, AsksFor(lines, repo)
  PROVE  Answerable(lines)
<1>1. PICK host \in {"github.com", "GitHub.com"} : Says(Spelled(lines), "host", host)
  BY DEF AsksFor
<1>2. Attribute(lines, "host") = host
  BY <1>1, AttributeIsSaid DEF Key
<1>3. Attribute(lines, "protocol") = "https"
  BY AttributeIsSaid DEF Key, AsksFor
<1>4. PICK path : Says(Spelled(lines), "path", path) /\ Names(path, repo)
  BY DEF AsksFor
<1>5. Attribute(lines, "path") = path /\ path # Nothing
  BY <1>4, AttributeIsSaid DEF Key
<1>6. path \in Seq(Component)
  BY <1>5, AttributeType DEF Key, Value
<1>7. RepoFromPath(path) # Nothing
  BY <1>4, <1>6, NamedIsFound
<1> QED
  BY <1>1, <1>2, <1>3, <1>5, <1>7
     DEF Answerable, IsGithubHttpsRequest, IsGithub, RepoFromCredential

(* So the requests it passes over are those to ignore. *)
LEMMA IgnorableIs ==
  ASSUME NEW lines \in Seq(Line)
  PROVE  Ignorable(lines) <=> ~Answerable(lines)
<1>1. ASSUME Answerable(lines) PROVE ~Ignorable(lines)
  <2>1. /\ RepoFromCredential(lines) \in Repo
        /\ AsksFor(lines, RepoFromCredential(lines))
    BY <1>1, AnswerableIsAsked
  <2>2. PICK owner \in Component, name \in Name :
          RepoFromCredential(lines) = AsRepo(owner, name)
    BY <2>1 DEF Repo, AsRepo
  <2> QED
    BY <2>1, <2>2 DEF Ignorable
<1>2. ASSUME ~Ignorable(lines) PROVE Answerable(lines)
  <2>1. PICK owner \in Component, name \in Name :
          AsksFor(lines, AsRepo(owner, name))
    BY <1>2 DEF Ignorable
  <2>2. AsRepo(owner, name) \in Repo
    BY DEF Repo, AsRepo
  <2> QED
    BY <2>1, <2>2, AskedIsAnswerable
<1> QED
  BY <1>1, <1>2

-----------------------------------------------------------------------------
(* RUNS *)

(* What the run has by each of its steps. *)
Progress(r) ==
  /\ r.step \in {"read", "token", "stuck", "post"} => r.config \in ConfigFile
  /\ r.step \in {"token", "stuck", "post"} => r.repo # Nothing
  /\ r.step = "post" => r.bearer # Nothing
  /\ r.step \in {"start", "load", "read"} => r.repo = Nothing
  /\ r.step \in {"start", "load", "read", "token", "stuck"} => r.bearer = Nothing
  /\ r.step # "exited" => r.password = Nothing /\ ~r.asked /\ r.status = 0
  /\ r.step # "exited" /\ r.step # "start" => r.action = "get"

(* What it has was come by in this order, each from the one before. *)
Earned(r) ==
  /\ r.repo # Nothing => Answerable(r.lines) /\ r.repo = RepoFromCredential(r.lines)
  /\ r.bearer # Nothing => r.repo # Nothing
  /\ r.asked \/ r.password # Nothing => r.bearer # Nothing
  /\ r.password # Nothing =>
       /\ r.config \in ConfigFile /\ r.repo \in Repo /\ r.bearer \in Bearer
       /\ Len(Segments(r.config.github_app, r.repo)) >= 2
       /\ r.password = Issued(r)
       /\ r.status = 0

(* A `get' that is silent has nothing to say. *)
Excused(r) ==
  r.step = "exited" /\ r.action = "get" /\ r.status = 0 =>
    r.password # Nothing \/ ~Answerable(r.lines)

(* The bearer, and what may become one, was yielded by the source in force. *)
Watched ==
  /\ run.bearer # Nothing => run.bearer \in window
  /\ run.step \in {"read", "token"} => offered[TokenSource(run.config)] \in window

HelperInv ==
  /\ TypeOK /\ Progress(run) /\ Earned(run) /\ Excused(run) /\ Watched

LEMMA BearersArePresent == Nothing \notin Bearer
BY HelperAssumption

LEMMA RequestsAreLines == Request \subseteq Seq(Line)
BY HelperAssumption

(* A repository taken from a request is one. *)
LEMMA RepoType ==
  ASSUME NEW lines \in Request, Answerable(lines)
  PROVE  RepoFromCredential(lines) \in Repo
BY RequestsAreLines, AnswerableIsAsked

LEMMA ExitedIs ==
  ASSUME NEW r \in Run, NEW status \in {0, 1}
  PROVE  LET e == Exited(r, status) IN
         /\ e \in Run /\ e.step = "exited" /\ e.status = status
         /\ e.action = r.action /\ e.lines = r.lines /\ e.config = r.config
         /\ e.repo = r.repo /\ e.bearer = r.bearer /\ e.asked = r.asked
         /\ e.password = r.password
BY DEF Exited, Run

LEMMA InitInv == Init => HelperInv
<1> SUFFICES ASSUME Init PROVE HelperInv
  OBVIOUS
<1>1. PICK action \in Action, lines \in Request : run = Fresh(action, lines)
  BY HelperAssumption DEF Init, Action
<1>2. /\ run \in Run /\ run.step = "start" /\ run.config = Nothing /\ run.repo = Nothing
      /\ run.bearer = Nothing /\ ~run.asked /\ run.password = Nothing /\ run.status = 0
  BY <1>1 DEF Fresh, Run
<1>3. TypeOK
  BY <1>2 DEF Init, TypeOK
<1>4. Progress(run) /\ Earned(run) /\ Excused(run) /\ Watched
  BY <1>2 DEF Progress, Earned, Excused, Watched
<1> QED
  BY <1>3, <1>4 DEF HelperInv

LEMMA StartPreserves == HelperInv /\ Start => HelperInv'
<1> SUFFICES ASSUME HelperInv, Start PROVE HelperInv'
  OBVIOUS
<1> USE DEF HelperInv
<1>1. run \in Run /\ run.step = "start"
  BY DEF TypeOK, Start, At
<1>2. CASE run.action = "get"
  <2>1. run' = [run EXCEPT !.step = "load"]
    BY <1>2 DEF Start
  <2>2. /\ run' \in Run /\ run'.step = "load" /\ run'.repo = Nothing
        /\ run'.bearer = Nothing /\ ~run'.asked /\ run'.password = Nothing
        /\ run'.status = 0 /\ run'.action = "get"
    BY <1>1, <1>2, <2>1 DEF Run, Progress
  <2> QED
    BY <2>2 DEF Start, TypeOK, Progress, Earned, Excused, Watched
<1>3. CASE run.action # "get"
  <2>1. PICK status \in {0, 1} : run' = Exited(run, status)
    BY <1>3 DEF Start
  <2>2. /\ run' \in Run /\ run'.step = "exited" /\ run'.repo = Nothing
        /\ run'.bearer = Nothing /\ ~run'.asked /\ run'.password = Nothing
        /\ run'.action # "get"
    BY <1>1, <1>3, <2>1, ExitedIs DEF Progress
  <2> QED
    BY <2>2 DEF Start, TypeOK, Progress, Earned, Excused, Watched
<1> QED
  BY <1>2, <1>3

LEMMA LoadConfigPreserves == HelperInv /\ LoadConfig => HelperInv'
<1> SUFFICES ASSUME HelperInv, LoadConfig PROVE HelperInv'
  OBVIOUS
<1> USE DEF HelperInv
<1>1. run \in Run /\ run.step = "load"
  BY DEF TypeOK, LoadConfig, At
<1>2. CASE ValidConfig(file)
  <2>1. /\ run' = [run EXCEPT !.step = "read", !.config = file]
        /\ window' = {offered[TokenSource(file)]}
        /\ file \in ConfigFile
    BY <1>2 DEF LoadConfig, ValidConfig, TypeOK
  <2>2. /\ run' \in Run /\ run'.step = "read" /\ run'.config = file
        /\ run'.repo = Nothing /\ run'.bearer = Nothing /\ ~run'.asked
        /\ run'.password = Nothing /\ run'.status = 0 /\ run'.action = "get"
    BY <1>1, <2>1 DEF Run, Progress
  <2>3. TokenSource(file) \in Source
    BY <1>2, <2>1, HelperAssumption DEF RawConfig, ValidConfig, TokenSource
  <2>4. window' \subseteq Yield
    BY <2>1, <2>3 DEF TypeOK
  <2> QED
    BY <2>1, <2>2, <2>4 DEF LoadConfig, TypeOK, Progress, Earned, Excused, Watched
<1>3. CASE ~ValidConfig(file)
  <2>1. run' = Exited(run, 1) /\ window' = window
    BY <1>3 DEF LoadConfig
  <2>2. /\ run' \in Run /\ run'.step = "exited" /\ run'.repo = Nothing
        /\ run'.bearer = Nothing /\ ~run'.asked /\ run'.password = Nothing
        /\ run'.status = 1
    BY <1>1, <2>1, ExitedIs DEF Progress
  <2> QED
    BY <2>1, <2>2 DEF LoadConfig, TypeOK, Progress, Earned, Excused, Watched
<1> QED
  BY <1>2, <1>3

(* The request decides whether to go on, and for which repository. *)
LEMMA ReadRequestPreserves == HelperInv /\ ReadRequest => HelperInv'
<1> SUFFICES ASSUME HelperInv, ReadRequest PROVE HelperInv'
  OBVIOUS
<1> USE DEF HelperInv
<1>1. run \in Run /\ run.step = "read" /\ run.lines \in Request
  BY DEF TypeOK, ReadRequest, At, Run
<1>4. RepoOf[run.lines] = RepoFromCredential(run.lines)
  BY <1>1 DEF RepoOf
<1>2. CASE Malformed(run.lines) \/ ~Answerable(run.lines)
  <2>1. PICK status \in {0, 1} :
          run' = Exited(run, status) /\ (status = 0 => ~Answerable(run.lines))
    BY <1>4, <1>2 DEF ReadRequest, Answerable
  <2>2. /\ run' \in Run /\ run'.step = "exited" /\ run'.repo = Nothing
        /\ run'.bearer = Nothing /\ ~run'.asked /\ run'.password = Nothing
        /\ run'.lines = run.lines /\ run'.status = status
    BY <1>1, <2>1, ExitedIs DEF Progress
  <2> QED
    BY <2>1, <2>2 DEF ReadRequest, TypeOK, Progress, Earned, Excused, Watched
<1>3. CASE ~Malformed(run.lines) /\ Answerable(run.lines)
  <2> DEFINE repo == RepoFromCredential(run.lines)
  <2>1. run' = [run EXCEPT !.step = "token", !.repo = repo]
    BY <1>4, <1>3 DEF ReadRequest, Answerable
  <2>2. repo \in Repo /\ repo # Nothing
    BY <1>1, <1>3, RepoType DEF Answerable
  <2> HIDE DEF repo
  <2>3. /\ run' \in Run /\ run'.step = "token" /\ run'.repo = repo
        /\ run'.lines = run.lines /\ run'.config = run.config
        /\ run'.bearer = Nothing /\ ~run'.asked /\ run'.password = Nothing
        /\ run'.status = 0 /\ run'.action = "get"
    BY <1>1, <2>1, <2>2 DEF Run, Progress
  <2> QED
    BY <1>4, <1>1, <1>3, <2>2, <2>3
       DEF ReadRequest, TypeOK, Progress, Earned, Excused, Watched, repo
<1> QED
  BY <1>2, <1>3

LEMMA ReadTokenPreserves == HelperInv /\ ReadToken => HelperInv'
<1> SUFFICES ASSUME HelperInv, ReadToken PROVE HelperInv'
  OBVIOUS
<1> USE DEF HelperInv
<1> DEFINE yield == offered[TokenSource(run.config)]
<1>1. run \in Run /\ run.step = "token" /\ run' = Read(run, yield)
  BY DEF TypeOK, ReadToken, At
<1>2. yield \in window /\ yield \in Yield
  BY <1>1 DEF Watched, TypeOK
<1> HIDE DEF yield
<1>3. CASE yield \in Bearer
  <2>1. run' = [run EXCEPT !.step = "post", !.bearer = yield]
    BY <1>1, <1>3 DEF Read
  <2>2. /\ run' \in Run /\ run'.step = "post" /\ run'.repo = run.repo
        /\ run'.lines = run.lines /\ run'.config = run.config
        /\ run'.bearer = yield /\ ~run'.asked /\ run'.password = Nothing
        /\ run'.status = 0 /\ run'.action = "get"
    BY <1>1, <1>3, <2>1 DEF Run, Progress
  <2> QED
    BY <1>1, <1>2, <1>3, <2>2, BearersArePresent
       DEF ReadToken, TypeOK, Progress, Earned, Excused, Watched
<1>4. CASE yield = Hanging /\ yield \notin Bearer
  <2>1. run' = [run EXCEPT !.step = "stuck"]
    BY <1>1, <1>4 DEF Read
  <2>2. /\ run' \in Run /\ run'.step = "stuck" /\ run'.repo = run.repo
        /\ run'.lines = run.lines /\ run'.config = run.config
        /\ run'.bearer = Nothing /\ ~run'.asked /\ run'.password = Nothing
        /\ run'.status = 0 /\ run'.action = "get"
    BY <1>1, <2>1 DEF Run, Progress
  <2> QED
    BY <1>1, <2>2 DEF ReadToken, TypeOK, Progress, Earned, Excused, Watched
<1>5. CASE yield # Hanging /\ yield \notin Bearer
  <2>1. run' = Exited(run, 1)
    BY <1>1, <1>5 DEF Read
  <2>2. /\ run' \in Run /\ run'.step = "exited" /\ run'.repo = run.repo
        /\ run'.lines = run.lines /\ run'.bearer = Nothing /\ ~run'.asked
        /\ run'.password = Nothing /\ run'.status = 1
    BY <1>1, <2>1, ExitedIs DEF Progress
  <2> QED
    BY <1>1, <2>2 DEF ReadToken, TypeOK, Progress, Earned, Excused, Watched
<1> QED
  BY <1>3, <1>4, <1>5

LEMMA PostPreserves == HelperInv /\ Post => HelperInv'
<1> SUFFICES ASSUME HelperInv, Post PROVE HelperInv'
  OBVIOUS
<1> USE DEF HelperInv
<1>1. run \in Run /\ run.step = "post"
  BY DEF TypeOK, Post, At
<1> DEFINE token == Issued(run)
           r == [run EXCEPT !.asked = TRUE, !.password = token]
<1>2. /\ run.config \in ConfigFile /\ run.repo \in Repo /\ run.bearer \in Bearer
      /\ run.bearer # Nothing /\ run.repo # Nothing
  BY <1>1 DEF Progress, Run
<1>3. /\ token \in InstallationToken /\ token # Nothing
      /\ Len(Segments(run.config.github_app, run.repo)) >= 2
  <2>1. run.config.github_app \in Name
    BY <1>2, HelperAssumption DEF RawConfig
  <2>2. Len(Segments(run.config.github_app, run.repo)) >= 2
    BY DEF Post
  <2> QED
    BY <1>2, <2>1, <2>2, TokenIs, NothingIsApart DEF Issued
<1>4. token = Token(Segments(run.config.github_app, run.repo), run.bearer)
  BY DEF Issued
<1>5. run' = Exited(r, 0)
  BY DEF Post
<1> HIDE DEF token
<1>6. /\ r \in Run /\ r.password = token /\ r.asked /\ r.lines = run.lines
      /\ r.config = run.config /\ r.repo = run.repo /\ r.bearer = run.bearer
  BY <1>1, <1>3 DEF Run
<1> HIDE DEF r
<1>7. /\ run' \in Run /\ run'.step = "exited" /\ run'.status = 0 /\ run'.password = token
      /\ run'.asked /\ run'.lines = run.lines /\ run'.config = run.config
      /\ run'.repo = run.repo /\ run'.bearer = run.bearer
  BY <1>5, <1>6, ExitedIs
<1>8. Earned(run)'
  BY <1>2, <1>3, <1>4, <1>7 DEF Earned, Issued
<1> QED
  BY <1>3, <1>7, <1>8 DEF Post, TypeOK, Progress, Excused, Watched

LEMMA PostFailsPreserves == HelperInv /\ PostFails => HelperInv'
<1> SUFFICES ASSUME HelperInv, PostFails PROVE HelperInv'
  OBVIOUS
<1> USE DEF HelperInv
<1> DEFINE r == [run EXCEPT !.asked = run.config.endpoint # Broken]
<1>1. run \in Run /\ run.step = "post" /\ run' = Exited(r, 1)
  BY DEF TypeOK, PostFails, At
<1>2. /\ r \in Run /\ r.password = Nothing /\ r.lines = run.lines
      /\ r.repo = run.repo /\ r.bearer = run.bearer
  BY <1>1 DEF Run, Progress
<1> HIDE DEF r
<1>3. /\ run' \in Run /\ run'.step = "exited" /\ run'.status = 1
      /\ run'.password = Nothing /\ run'.lines = run.lines
      /\ run'.repo = run.repo /\ run'.bearer = run.bearer /\ run.bearer # Nothing
  BY <1>1, <1>2, ExitedIs DEF Progress
<1> QED
  BY <1>3 DEF PostFails, TypeOK, Progress, Earned, Excused, Watched

LEMMA KillPreserves == HelperInv /\ Kill => HelperInv'
<1> SUFFICES ASSUME HelperInv, Kill PROVE HelperInv'
  OBVIOUS
<1> USE DEF HelperInv
<1>1. run \in Run /\ run.step # "exited" /\ run' = Exited(run, 1)
  BY DEF TypeOK, Kill, At
<1>2. /\ run' \in Run /\ run'.step = "exited" /\ run'.status = 1
      /\ run'.password = Nothing /\ ~run'.asked /\ run'.lines = run.lines
      /\ run'.repo = run.repo /\ run'.bearer = run.bearer
  BY <1>1, ExitedIs DEF Progress
<1> QED
  BY <1>2 DEF Kill, TypeOK, Progress, Earned, Excused, Watched

(* What a source yields next is noted while the run may still ask for it. *)
LEMMA OfferPreserves ==
  ASSUME HelperInv, NEW source \in Source, NEW yield \in Yield, Offer(source, yield)
  PROVE  HelperInv'
<1> USE DEF HelperInv
<1>1. TypeOK'
  BY DEF TypeOK, Offer
<1>2. window \subseteq window'
  BY DEF Offer
<1>3. run.step \in {"read", "token"} => offered'[TokenSource(run.config)] \in window'
  <2> SUFFICES ASSUME run.step \in {"read", "token"}
               PROVE  offered'[TokenSource(run.config)] \in window'
    OBVIOUS
  <2>1. run.config # Nothing
    BY HelperAssumption DEF Progress
  <2>2. CASE TokenSource(run.config) = source
    BY <2>1, <2>2 DEF Offer, TypeOK
  <2>3. CASE TokenSource(run.config) # source
    BY <1>2, <2>3 DEF Offer, TypeOK, Watched
  <2> QED
    BY <2>2, <2>3
<1> QED
  BY <1>1, <1>2, <1>3 DEF Offer, Watched

LEMMA NextInv == HelperInv /\ [Next]_vars => HelperInv'
<1> SUFFICES ASSUME HelperInv, [Next]_vars PROVE HelperInv'
  OBVIOUS
<1>1. ASSUME NEW content \in ConfigFile \cup {Broken}, WriteFile(content)
      PROVE  HelperInv'
  BY <1>1 DEF WriteFile, HelperInv, TypeOK, Watched
<1>2. ASSUME NEW source \in Source, NEW yield \in Yield, Offer(source, yield)
      PROVE  HelperInv'
  BY <1>2, OfferPreserves
<1>3. CASE UNCHANGED vars
  BY <1>3 DEF vars, HelperInv, TypeOK, Watched
<1> QED
  BY <1>1, <1>2, <1>3, StartPreserves, LoadConfigPreserves, ReadRequestPreserves,
     ReadTokenPreserves, PostPreserves, PostFailsPreserves, KillPreserves DEF Next

LEMMA InvHolds == Spec => []HelperInv
BY InitInv, NextInv, PTL DEF Spec

-----------------------------------------------------------------------------
(* THE THEOREMS *)

(* Every reachable state of a run is well typed; no repository has an empty name. *)
THEOREM TypeCorrect == Spec => []TypeOK
<1>1. HelperInv => TypeOK
  BY DEF HelperInv
<1> QED
  BY <1>1, InvHolds, PTL

LEMMA PasswordIs ==
  ASSUME HelperInv, run.password # Nothing
  PROVE  /\ run.config.github_app \in Name /\ run.repo \in Repo /\ run.bearer \in Bearer
         /\ Len(Segments(run.config.github_app, run.repo)) >= 2
         /\ run.password = Token(Segments(run.config.github_app, run.repo), run.bearer)
BY HelperAssumption DEF HelperInv, Earned, Issued, RawConfig

(* A credential is for the repository git asks for, however the request spells it
   (credential.rs), and if App, owner or repository is named "." or "..", for none
   (idcat.rs, installation_token_url). *)
THEOREM CredentialsFit == Spec => []RightRepository
<1>1. HelperInv => RightRepository
  <2> SUFFICES ASSUME HelperInv, run.password # Nothing
               PROVE  \E owner \in Component, name \in Name :
                        /\ AsksFor(run.lines, AsRepo(owner, name))
                        /\ IF Shortened(run.config.github_app, AsRepo(owner, name))
                             THEN run.password.repository = Nothing
                             ELSE /\ run.password.owner = owner
                                  /\ run.password.repository = Plain(name)
    BY DEF RightRepository
  <2>1. run.repo = RepoFromCredential(run.lines) /\ Answerable(run.lines)
    BY BearersArePresent, NothingIsApart DEF HelperInv, Earned
  <2>2. run.lines \in Seq(Line)
    BY RequestsAreLines DEF HelperInv, TypeOK, Run
  <2>3. AsksFor(run.lines, run.repo) /\ run.repo \in Repo
    BY <2>1, <2>2, AnswerableIsAsked
  <2>4. PICK owner \in Component, name \in Name : run.repo = AsRepo(owner, name)
    BY <2>3 DEF Repo, AsRepo
  <2>5. IF Shortened(run.config.github_app, run.repo) THEN run.password.repository = Nothing
        ELSE /\ run.password.owner = run.repo.owner
             /\ run.password.repository = Plain(run.repo.name)
    BY PasswordIs, TokenIs
  <2>6. run.repo.owner = owner /\ run.repo.name = name
    BY <2>4 DEF AsRepo
  <2> QED
    BY <2>3, <2>4, <2>5, <2>6
<1> QED
  BY <1>1, InvHolds, PTL

(* The bearer is from the source that the version of the file names which also names
   the App, whatever is rewritten during the run (main.rs, get). *)
THEOREM BearersFit == Spec => []RightBearer
<1>1. HelperInv => RightBearer
  <2> SUFFICES ASSUME HelperInv, run.password # Nothing
               PROVE  /\ run.config.github_app \notin Dots =>
                           run.password.github_app = Plain(run.config.github_app)
                      /\ run.password.bearer \in window
    BY DEF RightBearer
  <2>1. /\ run.config.github_app \notin Dots =>
             run.password.github_app = Plain(run.config.github_app)
        /\ run.password.bearer = run.bearer
    BY PasswordIs, TokenIs
  <2>2. run.bearer \in window
    BY PasswordIs, BearersArePresent DEF HelperInv, Watched
  <2> QED
    BY <2>1, <2>2
<1> QED
  BY <1>1, InvHolds, PTL

(* A request to ignore costs no token and no call. *)
THEOREM OthersIgnored == Spec => []OthersAreIgnored
<1>1. HelperInv => OthersAreIgnored
  <2> SUFFICES ASSUME HelperInv, Ignorable(run.lines)
               PROVE  ~run.asked /\ run.bearer = Nothing /\ run.password = Nothing
    BY DEF OthersAreIgnored
  <2>1. ~Answerable(run.lines)
    BY RequestsAreLines, IgnorableIs DEF HelperInv, TypeOK, Run
  <2> QED
    BY <2>1 DEF HelperInv, Earned
<1> QED
  BY <1>1, InvHolds, PTL

(* Silence with status 0 means that the request was one to ignore. *)
THEOREM SilenceIntended == Spec => []SilenceIsIntended
<1>1. HelperInv => SilenceIsIntended
  <2>1. HelperInv => (Ignorable(run.lines) <=> ~Answerable(run.lines))
    BY RequestsAreLines, IgnorableIs DEF HelperInv, TypeOK, Run
  <2> QED
    BY <2>1 DEF HelperInv, Excused, Earned, SilenceIsIntended, At
<1> QED
  BY <1>1, InvHolds, PTL
=============================================================================
