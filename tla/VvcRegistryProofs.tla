-------------------------- MODULE VvcRegistryProofs --------------------------
(***************************************************************************)
(* Whatever VVCs a testbench registers, each is served as it was reported: *)
(* the strings that cross the foreign interface, and then the register.    *)
(***************************************************************************)
EXTENDS VvcRegistry, SequenceTheorems, FiniteSetTheorems, TLAPS

-----------------------------------------------------------------------------
\* Strings

\* Min and Max of the sets of positions that strings are cut at
LEMMA MinIs ==
    ASSUME NEW S \in SUBSET Nat, NEW n \in S, \A x \in S : n <= x
    PROVE  Min(S) = n
<1> DEFINE m == CHOOSE x \in S : \A y \in S : x <= y
<1>1. \E x \in S : \A y \in S : x <= y
  OBVIOUS
<1>2. m \in S /\ \A y \in S : m \in Nat /\ y \in Nat /\ m <= y
  BY <1>1
<1>3. m = n
  <2> HIDE DEF m
  <2> QED BY <1>2
<1> QED BY <1>3 DEF Min

LEMMA MaxIs ==
    ASSUME NEW S \in SUBSET Nat, NEW n \in S, \A x \in S : x <= n
    PROVE  Max(S) = n
<1> DEFINE m == CHOOSE x \in S : \A y \in S : x >= y
<1>1. \E x \in S : \A y \in S : x >= y
  OBVIOUS
<1>2. m \in S /\ \A y \in S : m \in Nat /\ y \in Nat /\ m >= y
  BY <1>1
<1>3. m = n
  <2> HIDE DEF m
  <2> QED BY <1>2
<1> QED BY <1>3 DEF Max

\* A string without a NUL crosses as it is.
LEMMA NoNul ==
    ASSUME NEW Word, NEW s \in Seq(Word), \A i \in DOMAIN s : s[i] # Nul
    PROVE  get_string(s) = s
<1> DEFINE ends == {i \in 1..Len(s) + 1 : i = Len(s) + 1 \/ s[i] = Nul}
<1>1. Len(s) \in Nat /\ DOMAIN s = 1..Len(s)
  BY LenProperties
<1>2. ends \in SUBSET Nat /\ Len(s) + 1 \in ends /\ \A x \in ends : Len(s) + 1 <= x
  BY <1>1
<1>3. Min(ends) = Len(s) + 1
  <2> HIDE DEF ends
  <2> QED BY <1>2, MinIs
<1>4. get_string(s) = SubSeq(s, 1, Len(s))
  <2>1. get_string(s) = SubSeq(s, 1, Min(ends) - 1)
    BY DEF get_string
  <2> HIDE DEF ends
  <2> QED BY <1>1, <1>3, <2>1
<1>5. SubSeq(s, 1, Len(s)) = s
  BY SubSeqFull
<1> QED BY <1>4, <1>5

\* The name of a served VVC crosses without its padding.
LEMMA Padded ==
    ASSUME NEW Word, NEW s \in Seq(Word), s # <<>>, NEW w, w # Nul, strcmp(<<w>>, s),
           \A c \in Len(<<w>>) + 1..Len(s) : s[c] = Nul
    PROVE  get_string(s) = <<w>>
<1> DEFINE ends == {i \in 1..Len(s) + 1 : i = Len(s) + 1 \/ s[i] = Nul}
<1>1. Len(s) \in Nat /\ Len(s) # 0
  BY LenProperties, EmptySeq
<1>2. Len(<<w>>) = 1 /\ <<w>>[1] = w
  OBVIOUS
<1>3. s[1] = w
  <2>1. SubSeq(s, 1, 1) = <<w>>
    BY <1>2 DEF strcmp
  <2>2. SubSeq(s, 1, 1)[1] = s[1]
    BY <1>1, SubSeqProperties
  <2> QED BY <1>2, <2>1, <2>2
<1>4. ends \in SUBSET Nat /\ 2 \in ends /\ \A x \in ends : 2 <= x
  <2>1. \A c \in 2..Len(s) : s[c] = Nul
    BY <1>2
  <2>2. ends \in SUBSET Nat
    BY <1>1
  <2>3. 2 \in ends
    BY <1>1, <2>1
  <2>4. 1 \notin ends
    BY <1>1, <1>3
  <2>5. \A x \in ends : x \in Nat /\ x # 0 /\ x # 1
    <3>1. \A x \in ends : x \in Nat /\ x # 0
      BY <1>1
    <3> HIDE DEF ends
    <3> QED BY <3>1, <2>4
  <2> HIDE DEF ends
  <2> QED BY <2>2, <2>3, <2>5
<1>5. Min(ends) = 2
  <2> HIDE DEF ends
  <2> QED BY <1>4, MinIs
<1>6. get_string(s) = SubSeq(s, 1, 1)
  <2>1. get_string(s) = SubSeq(s, 1, Min(ends) - 1)
    BY DEF get_string
  <2> HIDE DEF ends
  <2> QED BY <1>5, <2>1
<1> QED BY <1>2, <1>6 DEF strcmp

\* Where the parts of a text begin and where each ends, as split_str has them
Starts(str, delim) == {i \in DOMAIN str : str[i] # delim /\ (i = 1 \/ str[i - 1] = delim)}
End(str, delim, i) == Min({j \in i..Len(str) + 1 : j = Len(str) + 1 \/ str[j] = delim})

LEMMA Split ==
    ASSUME NEW str, NEW delim
    PROVE  split_str(str, delim) =
               [i \in Starts(str, delim) |-> SubSeq(str, i, End(str, delim, i) - 1)]
BY DEF split_str, Starts, End

\* From a on, b is the next delimiter or the end of the text.
EndsPart(str, delim, a, b) ==
    /\ Len(str) \in Nat /\ a \in 1..Len(str) /\ b \in a..Len(str) + 1
    /\ \A j \in a..b - 1 : str[j] # delim
    /\ b = Len(str) + 1 \/ str[b] = delim

LEMMA EndsAt ==
    ASSUME NEW str, NEW delim, NEW a, NEW b, EndsPart(str, delim, a, b)
    PROVE  End(str, delim, a) = b
<1> USE DEF EndsPart
<1> DEFINE ends == {j \in a..Len(str) + 1 : j = Len(str) + 1 \/ str[j] = delim}
<1>1. ends \in SUBSET Nat
  OBVIOUS
<1>2. b \in ends
  OBVIOUS
<1>3. \A x \in ends : b <= x
  <2> SUFFICES ASSUME NEW x \in ends, x < b PROVE FALSE
    OBVIOUS
  <2>1. x \in a..b - 1 /\ x # Len(str) + 1
    OBVIOUS
  <2> QED BY <2>1
<1>4. Min(ends) = b
  <2> HIDE DEF ends
  <2> QED BY <1>1, <1>2, <1>3, MinIs
<1> QED BY <1>4 DEF End

\* One word of a text, and three
LEMMA OneWord ==
    ASSUME NEW str, NEW i \in Nat
    PROVE  SubSeq(str, i, i) = <<str[i]>>
<1> DEFINE w == str[i]  p == SubSeq(str, i, i)
<1>1. \A j \in i..i : str[j] \in {w}
  OBVIOUS
<1>2. p \in Seq({w}) /\ Len(p) = 1 /\ p[1] = w
  <2> HIDE DEF w
  <2>1. p \in Seq({w}) /\ Len(p) = 1 /\ \A j \in 1..1 : p[j] = str[i + j - 1]
    BY <1>1, SubSeqProperties
  <2> QED BY <2>1 DEF w
<1> HIDE DEF w, p
<1>3. <<w>> \in Seq({w}) /\ Len(<<w>>) = 1 /\ <<w>>[1] = w
  OBVIOUS
<1>4. \A j \in 1..Len(p) : p[j] = <<w>>[j]
  BY <1>2, <1>3
<1>5. p = <<w>>
  BY <1>2, <1>3, <1>4, SeqEqual
<1> QED BY <1>5 DEF p, w

LEMMA ThreeWords ==
    ASSUME NEW str, NEW i \in Nat, NEW j \in Nat, j = i + 2
    PROVE  SubSeq(str, i, j) = <<str[i], str[i + 1], str[j]>>
<1> DEFINE u == str[i]  v == str[i + 1]  w == str[j]  p == SubSeq(str, i, j)  Word == {u, v, w}
<1>1. \A n \in i..j : str[n] \in Word
  BY i..j = {i, i + 1, j}
<1>2. p \in Seq(Word) /\ Len(p) = 3 /\ p[1] = u /\ p[2] = v /\ p[3] = w
  <2> HIDE DEF Word
  <2>1. p \in Seq(Word) /\ Len(p) = 3 /\ \A n \in 1..3 : p[n] = str[i + n - 1]
    BY <1>1, SubSeqProperties
  <2> QED BY <2>1
<1> HIDE DEF u, v, w, p
<1>3. LET q == <<u, v, w>>
      IN  q \in Seq(Word) /\ Len(q) = 3 /\ q[1] = u /\ q[2] = v /\ q[3] = w
  OBVIOUS
<1> HIDE DEF Word
<1>4. \A n \in 1..Len(p) : p[n] = <<u, v, w>>[n]
  BY <1>2, <1>3
<1>5. p = <<u, v, w>>
  BY <1>2, <1>3, <1>4, SeqEqual
<1> QED BY <1>5 DEF p, u, v, w

\* key=value
LEMMA SplitOption ==
    ASSUME NEW k, NEW v, NEW eq, eq \notin {k, v}
    PROVE  LET kv == split_str(<<k, eq, v>>, eq)
           IN  DOMAIN kv = {1, 3} /\ kv[1] = <<k>> /\ kv[3] = <<v>>
<1> DEFINE str == <<k, eq, v>>
<1>1. Len(str) = 3 /\ DOMAIN str = 1..3
      /\ str[1] = k /\ str[2] = eq /\ str[3] = v
  OBVIOUS
<1> HIDE DEF str
<1>2. Starts(str, eq) = {1, 3}
  BY <1>1 DEF Starts
<1>3. End(str, eq, 1) = 2
  <2>1. EndsPart(str, eq, 1, 2)
    BY <1>1 DEF EndsPart
  <2> QED BY <2>1, EndsAt
<1>4. End(str, eq, 3) = 4
  <2>1. EndsPart(str, eq, 3, 4)
    BY <1>1 DEF EndsPart
  <2> QED BY <2>1, EndsAt
<1>5. SubSeq(str, 1, 1) = <<k>> /\ SubSeq(str, 3, 3) = <<v>>
  BY <1>1, OneWord
<1>6. split_str(str, eq) = [i \in {1, 3} |-> SubSeq(str, i, End(str, eq, i) - 1)]
  BY <1>2, Split
<1>7. split_str(str, eq)[1] = <<k>> /\ split_str(str, eq)[3] = <<v>>
      /\ DOMAIN split_str(str, eq) = {1, 3}
  BY <1>3, <1>4, <1>5, <1>6
<1> QED BY <1>7 DEF str

\* The texts of the two lengths that bfm_cfg_to_string writes
LEMMA SplitOne ==
    ASSUME NEW k, NEW eq, NEW v, NEW comma, comma \notin {k, eq, v}
    PROVE  LET items == split_str(<<k, eq, v, comma>>, comma)
           IN  DOMAIN items = {1} /\ items[1] = <<k, eq, v>>
<1> DEFINE str == <<k, eq, v, comma>>
<1>1. Len(str) = 4 /\ DOMAIN str = 1..4
      /\ str[1] = k /\ str[2] = eq /\ str[3] = v /\ str[4] = comma
  OBVIOUS
<1> HIDE DEF str
<1>2. Starts(str, comma) = {1}
  BY <1>1 DEF Starts
<1>3. End(str, comma, 1) = 4
  <2>1. EndsPart(str, comma, 1, 4)
    BY <1>1 DEF EndsPart
  <2> QED BY <2>1, EndsAt
<1>4. SubSeq(str, 1, 3) = <<k, eq, v>>
  BY <1>1, ThreeWords
<1>5. split_str(str, comma) = [i \in {1} |-> SubSeq(str, i, End(str, comma, i) - 1)]
  BY <1>2, Split
<1>6. split_str(str, comma)[1] = <<k, eq, v>> /\ DOMAIN split_str(str, comma) = {1}
  BY <1>3, <1>4, <1>5
<1> QED BY <1>6 DEF str

LEMMA SplitTwo ==
    ASSUME NEW k, NEW eq, NEW v, NEW l, NEW w, NEW comma, comma \notin {k, eq, v, l, w}
    PROVE  LET items == split_str(<<k, eq, v, comma, l, eq, w, comma>>, comma)
           IN  DOMAIN items = {1, 5} /\ items[1] = <<k, eq, v>> /\ items[5] = <<l, eq, w>>
<1> DEFINE str == <<k, eq, v, comma, l, eq, w, comma>>
<1>1. Len(str) = 8 /\ DOMAIN str = 1..8
      /\ str[1] = k /\ str[2] = eq /\ str[3] = v /\ str[4] = comma
      /\ str[5] = l /\ str[6] = eq /\ str[7] = w /\ str[8] = comma
  OBVIOUS
<1> HIDE DEF str
<1>2. Starts(str, comma) = {1, 5}
  BY <1>1 DEF Starts
<1>3. End(str, comma, 1) = 4
  <2>1. EndsPart(str, comma, 1, 4)
    BY <1>1 DEF EndsPart
  <2> QED BY <2>1, EndsAt
<1>4. End(str, comma, 5) = 8
  <2>1. EndsPart(str, comma, 5, 8)
    BY <1>1 DEF EndsPart
  <2> QED BY <2>1, EndsAt
<1>5. SubSeq(str, 1, 3) = <<k, eq, v>> /\ SubSeq(str, 5, 7) = <<l, eq, w>>
  <2>1. SubSeq(str, 1, 3) = <<k, eq, v>>
    BY <1>1, ThreeWords
  <2>2. SubSeq(str, 5, 7) = <<l, eq, w>>
    BY <1>1, ThreeWords
  <2> QED BY <2>1, <2>2
<1>6. split_str(str, comma) = [i \in {1, 5} |-> SubSeq(str, i, End(str, comma, i) - 1)]
  BY <1>2, Split
<1>7. split_str(str, comma)[1] = SubSeq(str, 1, End(str, comma, 1) - 1)
      /\ split_str(str, comma)[5] = SubSeq(str, 5, End(str, comma, 5) - 1)
      /\ DOMAIN split_str(str, comma) = {1, 5}
  BY <1>6
<1>8. split_str(str, comma)[1] = <<k, eq, v>> /\ split_str(str, comma)[5] = <<l, eq, w>>
  <2>1. End(str, comma, 1) - 1 = 3 /\ End(str, comma, 5) - 1 = 7
    BY <1>3, <1>4
  <2> QED BY <1>5, <1>7, <2>1
<1> QED BY <1>7, <1>8 DEF str

\* A text whose items are all options with keys of their own gives each key its
\* number.
Options(str, P, K, V) ==
    /\ P \in SUBSET Nat
    /\ DOMAIN split_str(str, Comma) = P
    /\ \A n \in P : /\ split_str(str, Comma)[n] = <<K[n], "=", V[n]>>
                    /\ K[n] # "=" /\ V[n] \in {"0", "1"}
    /\ \A n, m \in P : K[n] = K[m] => n = m

LEMMA ParseOptions ==
    ASSUME NEW str, NEW P, NEW K, NEW V, Options(str, P, K, V)
    PROVE  /\ \A k : k \in DOMAIN parse_bfm_cfg_str(str) <=> \E n \in P : k = K[n]
           /\ \A n \in P : parse_bfm_cfg_str(str)[K[n]] = Numbers[V[n]]
<1> USE DEF Options
<1> DEFINE items    == split_str(str, Comma)
           kv(n)    == split_str(items[n], "=")
           key(n)   == kv(n)[Min(DOMAIN kv(n))][1]
           value(n) == kv(n)[Max(DOMAIN kv(n))]
           pairs    == {n \in DOMAIN items : Cardinality(DOMAIN kv(n)) = 2}
           bad      == {n \in pairs : value(n) \notin {<<text>> : text \in DOMAIN Numbers}}
           parsed   == {n \in pairs : \A b \in bad : n < b}
           cfg      == [k \in {key(n) : n \in parsed} |->
                          Numbers[value(Min({n \in parsed : key(n) = k}))[1]]]
<1>1. parse_bfm_cfg_str(str) = cfg
  BY DEF parse_bfm_cfg_str
<1>2. Min({1, 3}) = 1 /\ Max({1, 3}) = 3 /\ Cardinality({1, 3}) = 2
  <2>1. Min({1, 3}) = 1
    BY MinIs
  <2>2. Max({1, 3}) = 3
    BY MaxIs
  <2>3. Cardinality({1} \cup {3}) = 2
    <3>1. IsFiniteSet({1}) /\ Cardinality({1}) = 1
      BY FS_Singleton
    <3>2. Cardinality({1} \cup {3}) = IF 3 \in {1} THEN Cardinality({1}) ELSE Cardinality({1}) + 1
      BY <3>1, FS_AddElement
    <3> QED BY <3>1, <3>2
  <2>4. {1} \cup {3} = {1, 3}
    OBVIOUS
  <2> QED BY <2>1, <2>2, <2>3, <2>4
<1>3. \A n \in P : DOMAIN kv(n) = {1, 3} /\ kv(n)[1] = <<K[n]>> /\ kv(n)[3] = <<V[n]>>
  <2> SUFFICES ASSUME NEW n \in P
               PROVE  DOMAIN kv(n) = {1, 3} /\ kv(n)[1] = <<K[n]>> /\ kv(n)[3] = <<V[n]>>
    OBVIOUS
  <2>1. items[n] = <<K[n], "=", V[n]>> /\ "=" \notin {K[n], V[n]}
    OBVIOUS
  <2> DEFINE a == K[n]  b == V[n]
  <2> HIDE DEF a, b, items
  <2>2. items[n] = <<a, "=", b>> /\ "=" \notin {a, b}
    BY <2>1 DEF a, b
  <2>3. DOMAIN kv(n) = {1, 3} /\ kv(n)[1] = <<a>> /\ kv(n)[3] = <<b>>
    BY <2>2, SplitOption
  <2> QED BY <2>3 DEF a, b
<1> HIDE DEF kv
<1>4. ASSUME NEW n \in P PROVE key(n) = K[n] /\ value(n) = <<V[n]>>
  <2>1. Min(DOMAIN kv(n)) = 1 /\ Max(DOMAIN kv(n)) = 3
    BY <1>2, <1>3
  <2>2. key(n) = kv(n)[1][1] /\ value(n) = kv(n)[3]
    BY <2>1
  <2> QED BY <1>3, <2>2
<1>5. pairs = P
  BY <1>2, <1>3
<1> HIDE DEF items, key, value, pairs
<1>6. bad = {}
  <2>1. \A n \in P : value(n) \in {<<text>> : text \in {"0", "1"}}
    BY <1>4
  <2>2. DOMAIN Numbers = {"0", "1"}
    BY DEF Numbers
  <2> QED BY <1>5, <2>1, <2>2
<1> HIDE DEF bad
<1>7. parsed = P
  BY <1>5, <1>6
<1> HIDE DEF parsed
<1>8. {key(n) : n \in parsed} = {K[n] : n \in P}
  BY <1>4, <1>7
<1>9. ASSUME NEW n \in P PROVE cfg[K[n]] = Numbers[V[n]]
  <2>1. K[n] \in {key(m) : m \in parsed}
    BY <1>8
  <2>2. {m \in parsed : key(m) = K[n]} = {n}
    BY <1>4, <1>7
  <2>3. Min({n}) = n
    BY MinIs
  <2>4. cfg[K[n]] = Numbers[value(Min({m \in parsed : key(m) = K[n]}))[1]]
    BY <2>1
  <2>5. value(n)[1] = V[n]
    BY <1>4
  <2> QED BY <2>2, <2>3, <2>4, <2>5
<1>10. DOMAIN cfg = {K[n] : n \in P}
  BY <1>8
<1> QED BY <1>1, <1>9, <1>10

LEMMA FourAndFour ==
    ASSUME NEW a, NEW b, NEW c, NEW d, NEW e, NEW f, NEW g, NEW h
    PROVE  <<a, b, c, d>> \o <<e, f, g, h>> = <<a, b, c, d, e, f, g, h>>
<1> DEFINE Word == {a, b, c, d, e, f, g, h}
           s == <<a, b, c, d>>  t == <<e, f, g, h>>  r == <<a, b, c, d, e, f, g, h>>
<1>1. s \in Seq(Word) /\ Len(s) = 4 /\ s[1] = a /\ s[2] = b /\ s[3] = c /\ s[4] = d
  OBVIOUS
<1>2. t \in Seq(Word) /\ Len(t) = 4 /\ t[1] = e /\ t[2] = f /\ t[3] = g /\ t[4] = h
  OBVIOUS
<1>3. r \in Seq(Word) /\ Len(r) = 8
      /\ r[1] = a /\ r[2] = b /\ r[3] = c /\ r[4] = d
      /\ r[5] = e /\ r[6] = f /\ r[7] = g /\ r[8] = h
  OBVIOUS
<1> HIDE DEF Word, s, t, r
<1>4. s \o t \in Seq(Word) /\ Len(s \o t) = 8
      /\ \A i \in 1..8 : (s \o t)[i] = IF i <= 4 THEN s[i] ELSE t[i - 4]
  <2>1. s \o t \in Seq(Word) /\ Len(s \o t) = Len(s) + Len(t)
        /\ \A i \in 1..Len(s) + Len(t) : (s \o t)[i] = IF i <= Len(s) THEN s[i] ELSE t[i - Len(s)]
    BY <1>1, <1>2, ConcatProperties
  <2> QED BY <1>1, <1>2, <2>1
<1>5. \A i \in 1..8 : (s \o t)[i] = r[i]
  BY <1>1, <1>2, <1>3, <1>4
<1>6. s \o t = r
  BY <1>3, <1>4, <1>5, SeqEqual
<1> QED BY <1>6 DEF s, t, r

\* The words that have a meaning differ from each other and from NUL.
LEMMA Words ==
    /\ Comma \notin {"cosim_support", "packet_based", "=", "0", "1"}
    /\ Nul \notin {"UART_VVC", "AXISTREAM_VVC", "TX", "RX", "NA",
                  "cosim_support", "packet_based", "=", Comma, "0", "1"}
<1>1. Comma # "cosim_support" BY Zenon DEF Comma
<1>2. Comma # "packet_based" BY Zenon DEF Comma
<1>3. Comma # "=" BY Zenon DEF Comma
<1>4. Comma # "0" /\ Comma # "1" BY Zenon DEF Comma
<1> QED BY <1>1, <1>2, <1>3, <1>4, NulAssumption

LEMMA KnownOptions ==
    ASSUME NEW bfm_cfg
    PROVE  /\ VvcConfig(bfm_cfg).cosim_support = IsSet(bfm_cfg, "cosim_support")
           /\ VvcConfig(bfm_cfg).packet_based = IsSet(bfm_cfg, "packet_based")
           /\ VvcConfig(bfm_cfg).listen_enable = FALSE
BY DEF VvcConfig

\* The configuration that comes out of a text of one option, and of two
LEMMA OneOption ==
    ASSUME NEW v \in {"0", "1"}
    PROVE  LET text == <<"cosim_support", "=", v, Comma>>
               cfg  == VvcConfig(parse_bfm_cfg_str(text))
           IN  /\ get_string(text) = text
               /\ cfg.cosim_support <=> v = "1"
               /\ ~cfg.packet_based
<1> DEFINE text == <<"cosim_support", "=", v, Comma>>
           Word == {"cosim_support", "=", "0", "1", Comma}
           cfg  == parse_bfm_cfg_str(text)
           K    == [n \in {1} |-> "cosim_support"]
           V    == [n \in {1} |-> v]
<1>1. get_string(text) = text
  <2>1. text \in Seq(Word) /\ DOMAIN text = 1..4
    OBVIOUS
  <2>2. Nul \notin Word
    BY Words
  <2> HIDE DEF text, Word
  <2>3. \A i \in DOMAIN text : text[i] \in Word
    BY <2>1, ElementOfSeq, LenProperties
  <2> QED BY <2>1, <2>2, <2>3, NoNul
<1>2. DOMAIN split_str(text, Comma) = {1}
      /\ split_str(text, Comma)[1] = <<"cosim_support", "=", v>>
  BY Words, SplitOne
<1> HIDE DEF text
<1>3. \A n \in {1} : /\ split_str(text, Comma)[n] = <<K[n], "=", V[n]>>
                     /\ K[n] # "=" /\ V[n] \in {"0", "1"}
  BY <1>2
<1>4. Options(text, {1}, K, V)
  BY <1>2, <1>3 DEF Options
<1>5. K[1] = "cosim_support" /\ V[1] = v
  OBVIOUS
<1> HIDE DEF K, V, cfg
<1>6. /\ \A k : k \in DOMAIN cfg <=> \E n \in {1} : k = K[n]
      /\ \A n \in {1} : cfg[K[n]] = Numbers[V[n]]
  BY <1>4, ParseOptions DEF cfg
<1>7. DOMAIN cfg = {"cosim_support"} /\ cfg["cosim_support"] = Numbers[v]
  BY <1>5, <1>6
<1>8. VvcConfig(cfg).cosim_support <=> v = "1"
  <2>1. IsSet(cfg, "cosim_support") <=> v = "1"
    BY <1>7 DEF IsSet, Numbers
  <2> QED BY <2>1, KnownOptions
<1>9. ~VvcConfig(cfg).packet_based
  <2>1. ~IsSet(cfg, "packet_based")
    BY <1>7 DEF IsSet
  <2> QED BY <2>1, KnownOptions
<1> QED BY <1>1, <1>8, <1>9 DEF text, cfg

LEMMA TwoOptions ==
    ASSUME NEW v \in {"0", "1"}, NEW w \in {"0", "1"}
    PROVE  LET text == <<"cosim_support", "=", v, Comma, "packet_based", "=", w, Comma>>
               cfg  == VvcConfig(parse_bfm_cfg_str(text))
           IN  /\ get_string(text) = text
               /\ cfg.cosim_support <=> v = "1"
               /\ cfg.packet_based <=> w = "1"
<1> DEFINE text == <<"cosim_support", "=", v, Comma, "packet_based", "=", w, Comma>>
           Word == {"cosim_support", "packet_based", "=", "0", "1", Comma}
           cfg  == parse_bfm_cfg_str(text)
           K    == [n \in {1, 5} |-> IF n = 1 THEN "cosim_support" ELSE "packet_based"]
           V    == [n \in {1, 5} |-> IF n = 1 THEN v ELSE w]
<1>1. get_string(text) = text
  <2>1. text \in Seq(Word) /\ DOMAIN text = 1..8
    OBVIOUS
  <2>2. Nul \notin Word
    BY Words
  <2> HIDE DEF text, Word
  <2>3. \A i \in DOMAIN text : text[i] \in Word
    BY <2>1, ElementOfSeq, LenProperties
  <2> QED BY <2>1, <2>2, <2>3, NoNul
<1>2. /\ DOMAIN split_str(text, Comma) = {1, 5}
      /\ split_str(text, Comma)[1] = <<"cosim_support", "=", v>>
      /\ split_str(text, Comma)[5] = <<"packet_based", "=", w>>
  BY Words, SplitTwo
<1> HIDE DEF text
<1>3. K[1] = "cosim_support" /\ K[5] = "packet_based" /\ V[1] = v /\ V[5] = w
  OBVIOUS
<1> HIDE DEF K, V, cfg
<1>4. Options(text, {1, 5}, K, V)
  <2>1. \A n \in {1, 5} : /\ split_str(text, Comma)[n] = <<K[n], "=", V[n]>>
                          /\ K[n] # "=" /\ V[n] \in {"0", "1"}
    BY <1>2, <1>3
  <2>2. \A n, m \in {1, 5} : K[n] = K[m] => n = m
    BY <1>3
  <2> QED BY <1>2, <2>1, <2>2 DEF Options
<1>5. /\ \A k : k \in DOMAIN cfg <=> \E n \in {1, 5} : k = K[n]
      /\ \A n \in {1, 5} : cfg[K[n]] = Numbers[V[n]]
  BY <1>4, ParseOptions DEF cfg
<1>6. /\ DOMAIN cfg = {"cosim_support", "packet_based"}
      /\ cfg["cosim_support"] = Numbers[v] /\ cfg["packet_based"] = Numbers[w]
  BY <1>3, <1>5
<1>7. IsSet(cfg, "cosim_support") <=> v = "1"
  BY <1>6 DEF IsSet, Numbers
<1>8. IsSet(cfg, "packet_based") <=> w = "1"
  BY <1>6 DEF IsSet, Numbers
<1>9. /\ VvcConfig(cfg).cosim_support <=> v = "1"
      /\ VvcConfig(cfg).packet_based <=> w = "1"
  BY <1>7, <1>8, KnownOptions
<1> QED BY <1>1, <1>9 DEF text, cfg

\* What the server makes of the configuration a VVC of each kind is reported
\* with: co-simulation is supported but for an unknown kind, and packets are used
\* by an AXI-Stream VVC that checks their length.
LEMMA Configuration ==
    ASSUME NEW type \in {UART_VVC, AXISTREAM_VVC, <<"VOID">>}, NEW check \in BOOLEAN
    PROVE  LET text == bfm_cfg_to_string(type, check)
               cfg  == VvcConfig(parse_bfm_cfg_str(text))
           IN  /\ get_string(text) = text
               /\ cfg.cosim_support <=> type # <<"VOID">>
               /\ cfg.packet_based <=> type = AXISTREAM_VVC /\ check
<1> DEFINE text == bfm_cfg_to_string(type, check)
           v    == IF type \in {UART_VVC, AXISTREAM_VVC} THEN "1" ELSE "0"
           w    == IF check THEN "1" ELSE "0"
<1>1. UART_VVC # AXISTREAM_VVC /\ UART_VVC # <<"VOID">> /\ AXISTREAM_VVC # <<"VOID">>
  BY DEF UART_VVC, AXISTREAM_VVC
<1>2. v \in {"0", "1"} /\ w \in {"0", "1"} /\ (v = "1" <=> type # <<"VOID">>) /\ (w = "1" <=> check)
  BY <1>1
<1>3. CASE type # AXISTREAM_VVC
  <2>1. text = <<"cosim_support", "=", v, Comma>> \o <<>>
    BY <1>3 DEF bfm_cfg_to_string
  <2> HIDE DEF v, w, text
  <2>2. text = <<"cosim_support", "=", v, Comma>>
    BY <2>1
  <2>3. /\ get_string(text) = text
        /\ VvcConfig(parse_bfm_cfg_str(text)).cosim_support <=> v = "1"
        /\ ~VvcConfig(parse_bfm_cfg_str(text)).packet_based
    BY <1>2, <2>2, OneOption
  <2> QED BY <1>2, <1>3, <2>3 DEF text
<1>4. CASE type = AXISTREAM_VVC
  <2>1. text = <<"cosim_support", "=", v, Comma>> \o <<"packet_based", "=", w, Comma>>
    BY <1>4 DEF bfm_cfg_to_string
  <2> HIDE DEF v, w, text
  <2>2. text = <<"cosim_support", "=", v, Comma, "packet_based", "=", w, Comma>>
    BY <2>1, FourAndFour
  <2>3. /\ get_string(text) = text
        /\ VvcConfig(parse_bfm_cfg_str(text)).cosim_support <=> v = "1"
        /\ VvcConfig(parse_bfm_cfg_str(text)).packet_based <=> w = "1"
    BY <1>2, <2>2, TwoOptions
  <2> QED BY <1>2, <1>4, <2>3 DEF text
<1> QED BY <1>3, <1>4

-----------------------------------------------------------------------------
\* Foreign calls

\* The names of the served VVCs are strings without a NUL.
LEMMA ServedNames == \A name \in {UART_VVC, AXISTREAM_VVC} : get_string(name) = name
<1> SUFFICES ASSUME NEW w \in {"UART_VVC", "AXISTREAM_VVC"} PROVE get_string(<<w>>) = <<w>>
  BY DEF UART_VVC, AXISTREAM_VVC
<1>1. <<w>> \in Seq({w}) /\ \A i \in DOMAIN <<w>> : <<w>>[i] = w
  OBVIOUS
<1>2. w # Nul
  BY Words
<1> QED BY <1>1, <1>2, NoNul

\* The calls of a controller on every cycle: the same access by VHPI and by FLI.
LEMMA PolledCalls ==
    ASSUME interface \in {"VHPI", "FLI"}, NEW name \in {UART_VVC, AXISTREAM_VVC}, NEW id
    PROVE  /\ ForeignCall("vvc_listen_enable", <<name, id>>) =
                 GetVvcListenEnable(vvc_map,
                     VvcKey(name, IF name = UART_VVC THEN <<"RX">> ELSE <<"NA">>, id))
           /\ ForeignCall("transmit_byte_queue_empty", <<name, id>>) =
                 byte_queue_empty(vvc_map, "TRANSMIT",
                     VvcKey(name, IF name = UART_VVC THEN <<"TX">> ELSE <<"NA">>, id))
           /\ ForeignCall("transmit_packet_queue_empty", <<name, id>>) =
                 packet_queue_empty(vvc_map, "TRANSMIT", VvcKey(name, <<"NA">>, id))
<1>1. ASSUME NEW call \in {"vvc_listen_enable", "transmit_byte_queue_empty",
                           "transmit_packet_queue_empty"}
      PROVE  LET x == Arguments(call, <<name, id>>)
             IN  x.vvc_type = name /\ x.vvc_instance_id = id
  BY ServedNames DEF Arguments, VhpiArguments, FliArguments
<1>2. ForeignCall("vvc_listen_enable", <<name, id>>) =
        GetVvcListenEnable(vvc_map,
            VvcKey(name, IF name = UART_VVC THEN <<"RX">> ELSE <<"NA">>, id))
  <2> DEFINE x == Arguments("vvc_listen_enable", <<name, id>>)
  <2>1. x.vvc_type = name /\ x.vvc_instance_id = id
    BY <1>1
  <2> HIDE DEF x
  <2>2. ServerAccess("vvc_listen_enable", x) = [op |-> "GetVvcListenEnable", vvc |-> RxKey(x)]
    BY DEF ServerAccess
  <2>3. Perform(vvc_map, [op |-> "GetVvcListenEnable", vvc |-> RxKey(x)]) =
          GetVvcListenEnable(vvc_map, RxKey(x))
    BY DEF Perform
  <2> QED BY <2>1, <2>2, <2>3 DEF ForeignCall, x, RxKey
<1>3. ForeignCall("transmit_byte_queue_empty", <<name, id>>) =
        byte_queue_empty(vvc_map, "TRANSMIT",
            VvcKey(name, IF name = UART_VVC THEN <<"TX">> ELSE <<"NA">>, id))
  <2> DEFINE x == Arguments("transmit_byte_queue_empty", <<name, id>>)
             a == [op |-> "byte_queue_empty", qid |-> "TRANSMIT", vvc |-> TxKey(x)]
  <2>1. x.vvc_type = name /\ x.vvc_instance_id = id
    BY <1>1
  <2> HIDE DEF x
  <2>2. ServerAccess("transmit_byte_queue_empty", x) = a
    BY DEF ServerAccess
  <2>3. Perform(vvc_map, a) = byte_queue_empty(vvc_map, "TRANSMIT", TxKey(x))
    BY DEF Perform
  <2> QED BY <2>1, <2>2, <2>3 DEF ForeignCall, x, TxKey
<1>4. ForeignCall("transmit_packet_queue_empty", <<name, id>>) =
        packet_queue_empty(vvc_map, "TRANSMIT", VvcKey(name, <<"NA">>, id))
  <2> DEFINE x == Arguments("transmit_packet_queue_empty", <<name, id>>)
             a == [op |-> "packet_queue_empty", qid |-> "TRANSMIT", vvc |-> PacketKey(x)]
  <2>1. x.vvc_type = name /\ x.vvc_instance_id = id
    BY <1>1
  <2> HIDE DEF x
  <2>2. ServerAccess("transmit_packet_queue_empty", x) = a
    BY DEF ServerAccess
  <2>3. Perform(vvc_map, a) = packet_queue_empty(vvc_map, "TRANSMIT", PacketKey(x))
    BY DEF Perform
  <2> QED BY <2>1, <2>2, <2>3 DEF ForeignCall, x, PacketKey
<1> QED BY <1>2, <1>3, <1>4

\* The key a VVC of the register is reported under, and its configuration
Key(i) == VvcKey(get_string(Register[i].name), Register[i].channel, Register[i].id)

Packets(i) ==
    BfmType(Register[i]) = AXISTREAM_VVC /\ check_packet_length[Register[i].id]

Reported(i) == parse_bfm_cfg_str(bfm_cfg_to_string(BfmType(Register[i]), Packets(i)))

\* What is known of a VVC of the register: it is served exactly when its BFM is
\* one of the two, and then its key is one that controllers and clients build.
LEMMA OfTheRegister ==
    ASSUME NEW i \in DOMAIN Register
    PROVE  LET vvc == Register[i]
           IN  /\ get_string(vvc.channel) = vvc.channel
               /\ BfmType(vvc) \in {UART_VVC, AXISTREAM_VVC, <<"VOID">>}
               /\ BfmType(vvc) = UART_VVC =>
                     get_string(vvc.name) = UART_VVC /\ vvc.channel \in {<<"TX">>, <<"RX">>}
               /\ BfmType(vvc) = AXISTREAM_VVC =>
                     get_string(vvc.name) = AXISTREAM_VVC /\ vvc.channel = <<"NA">>
               /\ Marks(vvc) # {} <=> BfmType(vvc) # <<"VOID">>
<1> DEFINE vvc == Register[i]
<1>1. vvc.name \in Seq(STRING) /\ vvc.name # <<>> /\ vvc.channel \in Seq(STRING)
  <2> DEFINE Vvc == [name: Seq(STRING) \ {<<>>}, channel: Seq(STRING), id: Nat]
  <2>1. Register \in Seq(Vvc)
    BY RegisterAssumption
  <2>2. vvc \in Vvc
    <3> HIDE DEF Vvc
    <3> QED BY <2>1, ElementOfSeq, LenProperties
  <2> QED BY <2>2
<1>2. get_string(vvc.channel) = vvc.channel
  BY <1>1, RegisterAssumption, NoNul
<1>3. UART_VVC # AXISTREAM_VVC /\ UART_VVC # <<"VOID">> /\ AXISTREAM_VVC # <<"VOID">>
  BY DEF UART_VVC, AXISTREAM_VVC
<1>4. BfmType(vvc) \in {UART_VVC, AXISTREAM_VVC, <<"VOID">>}
  BY DEF BfmType
<1>5. \A type \in {UART_VVC, AXISTREAM_VVC} : BfmType(vvc) = type => strcmp(type, vvc.name)
  BY <1>3 DEF BfmType
<1>6. \A type \in {UART_VVC, AXISTREAM_VVC} : strcmp(type, vvc.name) => get_string(vvc.name) = type
  <2> SUFFICES ASSUME NEW w \in {"UART_VVC", "AXISTREAM_VVC"}, strcmp(<<w>>, vvc.name)
               PROVE  get_string(vvc.name) = <<w>>
    BY DEF UART_VVC, AXISTREAM_VVC
  <2>1. \A c \in Len(<<w>>) + 1..Len(vvc.name) : vvc.name[c] = Nul
    BY RegisterAssumption DEF UART_VVC, AXISTREAM_VVC
  <2>2. w # Nul
    BY Words
  <2> QED BY <1>1, <2>1, <2>2, Padded
<1>7. BfmType(vvc) = UART_VVC => vvc.channel \in {<<"TX">>, <<"RX">>}
  BY <1>5, RegisterAssumption
<1>8. BfmType(vvc) = AXISTREAM_VVC => vvc.channel = <<"NA">>
  BY <1>3, <1>5, RegisterAssumption
<1>9. Marks(vvc) # {} <=> BfmType(vvc) # <<"VOID">>
  BY <1>3, <1>4, <1>7 DEF Marks
<1> HIDE DEF vvc
<1>10. QED BY <1>2, <1>4, <1>5, <1>6, <1>7, <1>8, <1>9 DEF vvc

\* The report of a VVC adds it under its key with the configuration of its kind.
LEMMA ReportCall ==
    ASSUME interface \in {"VHPI", "FLI"}, NEW i \in DOMAIN Register
    PROVE  ForeignCall("report_vvc_info", ReportArgs(Register[i])) =
               AddVvc(vvc_map, Key(i), Reported(i))
<1> DEFINE vvc  == Register[i]
           args == ReportArgs(vvc)
           x    == Arguments("report_vvc_info", args)
           a    == [op |-> "AddVvc", vvc |-> Key(i), bfm_cfg |-> Reported(i)]
           text == bfm_cfg_to_string(BfmType(vvc), Packets(i))
<1>1. args = <<vvc.name, vvc.channel, vvc.id, text>>
  BY DEF ReportArgs, Packets
<1>2. get_string(vvc.channel) = vvc.channel /\ get_string(text) = text
  <2>1. Packets(i) \in BOOLEAN
    BY DEF Packets
  <2> QED BY <2>1, OfTheRegister, Configuration
<1> HIDE DEF args, text
<1>3. x = [vvc_type |-> get_string(vvc.name), vvc_channel |-> vvc.channel,
           vvc_instance_id |-> vvc.id, bfm_cfg_str |-> text]
  BY <1>1, <1>2 DEF Arguments, VhpiArguments, FliArguments
<1> HIDE DEF x
<1>4. ServerAccess("report_vvc_info", x) =
        [op |-> "AddVvc", vvc |-> VvcKey(x.vvc_type, x.vvc_channel, x.vvc_instance_id),
         bfm_cfg |-> parse_bfm_cfg_str(x.bfm_cfg_str)]
  BY DEF ServerAccess
<1>5. ServerAccess("report_vvc_info", x) = a
  BY <1>3, <1>4 DEF Key, Reported, text
<1>6. Perform(vvc_map, a) = AddVvc(vvc_map, Key(i), Reported(i))
  BY DEF Perform
<1> QED BY <1>5, <1>6 DEF ForeignCall, x, args

-----------------------------------------------------------------------------
\* The register

\* What the server keeps of a VVC of the register; l is whether it listens.
Instance(i, l) == NewInstance([VvcConfig(Reported(i)) EXCEPT !.listen_enable = l])

LEMMA InstanceFacts ==
    ASSUME NEW i \in DOMAIN Register, NEW l \in BOOLEAN
    PROVE  /\ NewInstance(VvcConfig(Reported(i))) = Instance(i, FALSE)
           /\ \A e : [Instance(i, l) EXCEPT !.cfg.listen_enable = e] = Instance(i, e)
           /\ Instance(i, l).cfg.listen_enable = l
           /\ Instance(i, l).cfg.cosim_support <=> Marks(Register[i]) # {}
           /\ Instance(i, l).cfg.packet_based <=> Packets(i)
<1> DEFINE s    == VvcConfig(Reported(i)).cosim_support
           p    == VvcConfig(Reported(i)).packet_based
           rest == VvcConfig(Reported(i)).bfm_cfg
           bqs  == [qid \in QueueIds |-> <<>>]
           pqs  == [qid \in QueueIds |-> EmptyPacketQueue]
           Cfg(e) == [listen_enable |-> e, cosim_support |-> s, packet_based |-> p, bfm_cfg |-> rest]
           Inst(e) == [cfg |-> Cfg(e), byte_queues |-> bqs, packet_queues |-> pqs]
<1>1. VvcConfig(Reported(i)) = Cfg(FALSE)
  BY DEF VvcConfig
<1> HIDE DEF s, p, rest, bqs, pqs
<1>2. \A e : Instance(i, e) = Inst(e)
  BY <1>1 DEF Instance, NewInstance, bqs, pqs
<1>3. NewInstance(VvcConfig(Reported(i))) = Inst(FALSE)
  BY <1>1 DEF NewInstance, bqs, pqs
<1>6. \A e : [Inst(l) EXCEPT !.cfg.listen_enable = e] = Inst(e)
  OBVIOUS
<1>7. Inst(l).cfg.listen_enable = l /\ Inst(l).cfg.cosim_support = s /\ Inst(l).cfg.packet_based = p
  OBVIOUS
<1> HIDE DEF Inst
<1>4. Packets(i) \in BOOLEAN /\ (Packets(i) => BfmType(Register[i]) = AXISTREAM_VVC)
  BY DEF Packets
<1>5. /\ VvcConfig(Reported(i)).cosim_support <=> Marks(Register[i]) # {}
      /\ VvcConfig(Reported(i)).packet_based <=> Packets(i)
  BY <1>4, OfTheRegister, Configuration DEF Reported
<1> QED BY <1>2, <1>3, <1>5, <1>6, <1>7 DEF s, p

\* The VVCs reported so far, and those alone, are in the map, as they were
\* reported.
MapAsReported ==
    /\ \A k : k \in DOMAIN vvc_map <=> \E i \in 1..idx - 1 : k = Key(i)
    /\ \A i \in 1..idx - 1 : \E l \in BOOLEAN : vvc_map[Key(i)] = Instance(i, l)

MarkedAsReported ==
    \A mark : mark \in indexes_in_use <=> \E i \in 1..idx - 1 : mark \in Marks(Register[i])

\* The reports come after the configuration and before the end of the process.
ReportsInTime ==
    /\ idx > 1 => vvc_config_done
    /\ init_done => idx = Len(Register) + 1

\* What was asked for a target is what the VVC it names as a receiver has.
AskedIsListening ==
    \A t \in Targets : asked[t] <=> /\ RxKey(t) \in DOMAIN vvc_map
                                   /\ vvc_map[RxKey(t)].cfg.listen_enable

RegistryInv ==
    /\ TypeOK
    /\ IsFiniteSet(DOMAIN vvc_map)
    /\ MapAsReported
    /\ MarkedAsReported
    /\ ReportsInTime
    /\ AskedIsListening
    /\ ListsEveryVvc

\* The positions of the register, and that no two have one key
LEMMA Positions ==
    /\ Len(Register) \in Nat /\ DOMAIN Register = 1..Len(Register)
    /\ \A i, j \in DOMAIN Register : Key(i) = Key(j) => i = j
<1>1. Len(Register) \in Nat /\ DOMAIN Register = 1..Len(Register)
  BY RegisterAssumption, LenProperties
<1>2. ASSUME NEW i \in DOMAIN Register, NEW j \in DOMAIN Register, Key(i) = Key(j)
      PROVE  i = j
  <2>1. /\ get_string(Register[i].name) = get_string(Register[j].name)
        /\ Register[i].channel = Register[j].channel /\ Register[i].id = Register[j].id
    BY <1>2 DEF Key, VvcKey
  <2> QED BY <2>1, RegisterAssumption
<1> QED BY <1>1, <1>2

LEMMA RegistryInit == Init => RegistryInv
<1> SUFFICES ASSUME Init PROVE RegistryInv
  OBVIOUS
<1> USE DEF Init
<1>1. DOMAIN vvc_map = {} /\ IsFiniteSet({}) /\ Cardinality({}) = 0
  BY FS_EmptySet
<1>2. TypeOK
  <2>1. Cardinality(DOMAIN vvc_map) = idx - 1
    BY <1>1
  <2>2. idx \in 1..Len(Register) + 1 /\ asked \in [Targets -> BOOLEAN]
    BY Positions
  <2> QED BY <2>1, <2>2 DEF TypeOK
<1>3. MapAsReported /\ MarkedAsReported
  BY <1>1 DEF MapAsReported, MarkedAsReported
<1>4. ReportsInTime
  BY DEF ReportsInTime
<1>5. AskedIsListening
  BY <1>1 DEF AskedIsListening
<1>6. ListsEveryVvc
  BY DEF ListsEveryVvc
<1> QED BY <1>1, <1>2, <1>3, <1>4, <1>5, <1>6 DEF RegistryInv

\* The loop of p_uvvm_cosim_init: AddVvc has not seen the key yet, and the new
\* VVC does not listen, as nobody can have asked it to.
LEMMA ReportStep == RegistryInv /\ ReportVvc => RegistryInv'
<1> SUFFICES ASSUME RegistryInv, ReportVvc PROVE RegistryInv'
  OBVIOUS
<1> DEFINE D == DOMAIN vvc_map  new == Key(idx)
<1>1. /\ vvc_config_done /\ idx \in DOMAIN Register /\ idx' = idx + 1
      /\ UNCHANGED <<interface, check_packet_length, vvc_config_done, init_done, asked, list>>
      /\ indexes_in_use' = indexes_in_use \cup Marks(Register[idx])
      /\ vvc_map' = ForeignCall("report_vvc_info", ReportArgs(Register[idx])).map
  BY DEF ReportVvc
<1>2. /\ idx \in 1..Len(Register) /\ Len(Register) \in Nat
      /\ \A i \in 1..idx - 1 : i \in DOMAIN Register /\ Key(i) # new
  BY <1>1, Positions
<1>3. new \notin D
  BY <1>2 DEF RegistryInv, MapAsReported
<1>4. vvc_map' = [k \in D \cup {new} |-> IF k = new THEN Instance(idx, FALSE) ELSE vvc_map[k]]
  <2>1. NewInstance(VvcConfig(Reported(idx))) = Instance(idx, FALSE)
    BY <1>1, InstanceFacts
  <2>2. ForeignCall("report_vvc_info", ReportArgs(Register[idx])) =
          AddVvc(vvc_map, new, Reported(idx))
    BY <1>1, ReportCall DEF RegistryInv, TypeOK
  <2> DEFINE m == [k \in D \cup {new} |-> IF k = new THEN NewInstance(VvcConfig(Reported(idx)))
                                                   ELSE vvc_map[k]]
  <2>3. AddVvc(vvc_map, new, Reported(idx)) = Returns(m, "none")
    BY <1>3 DEF AddVvc
  <2> HIDE DEF m, new, D
  <2>4. vvc_map' = m
    BY <1>1, <2>2, <2>3 DEF Returns
  <2> QED BY <2>1, <2>4 DEF m
<1>5. DOMAIN vvc_map' = D \cup {new} /\ vvc_map'[new] = Instance(idx, FALSE)
      /\ \A k \in D : vvc_map'[k] = vvc_map[k]
  BY <1>3, <1>4
<1>6. \A i, l : Instance(i, l)' = Instance(i, l)
  BY <1>1 DEF Instance, Reported, Packets
<1> HIDE DEF D, new
<1>7. TypeOK' /\ IsFiniteSet(DOMAIN vvc_map)'
  <2>1. IsFiniteSet(D \cup {new}) /\ Cardinality(D \cup {new}) = Cardinality(D) + 1
    BY <1>3, FS_AddElement DEF RegistryInv, D
  <2>2. Cardinality(D) = idx - 1
    BY DEF RegistryInv, TypeOK, D
  <2>3. DOMAIN vvc_map' = D \cup {new}
    BY <1>5
  <2>4. IsFiniteSet(DOMAIN vvc_map') /\ Cardinality(DOMAIN vvc_map') = (idx - 1) + 1
    BY <2>1, <2>2, <2>3
  <2>5. (idx - 1) + 1 = idx' - 1 /\ idx' \in 1..Len(Register) + 1
    BY <1>1, <1>2
  <2> QED BY <1>1, <2>4, <2>5 DEF RegistryInv, TypeOK
<1>8. MapAsReported'
  <2>1. \A k : k \in DOMAIN vvc_map' <=> \E i \in 1..idx : k = Key(i)
    BY <1>2, <1>5 DEF RegistryInv, MapAsReported, D, new
  <2>2. ASSUME NEW i \in 1..idx PROVE \E l \in BOOLEAN : vvc_map'[Key(i)] = Instance(i, l)
    <3>1. CASE i = idx
      BY <1>5, <3>1 DEF new
    <3>2. CASE i # idx
      <4>1. i \in 1..idx - 1
        BY <1>2, <3>2
      <4>2. Key(i) \in D /\ \E l \in BOOLEAN : vvc_map[Key(i)] = Instance(i, l)
        BY <4>1 DEF RegistryInv, MapAsReported, D
      <4> QED BY <1>5, <4>2
    <3> QED BY <3>1, <3>2
  <2>3. idx' - 1 = idx
    BY <1>1, <1>2
  <2> QED BY <1>6, <2>1, <2>2, <2>3 DEF MapAsReported
<1>9. MarkedAsReported'
  <2>1. \A mark : mark \in indexes_in_use' <=> \E i \in 1..idx : mark \in Marks(Register[i])
    BY <1>1, <1>2 DEF RegistryInv, MarkedAsReported
  <2> QED BY <1>1, <1>2, <2>1 DEF MarkedAsReported
<1>10. ReportsInTime'
  BY <1>1, <1>2 DEF RegistryInv, ReportsInTime
<1>11. AskedIsListening'
  <2>1. ~Instance(idx, FALSE).cfg.listen_enable
    BY <1>1, InstanceFacts
  <2>2. \A t \in Targets : asked[t] <=> RxKey(t) \in D /\ vvc_map[RxKey(t)].cfg.listen_enable
    BY DEF RegistryInv, AskedIsListening, D
  <2>3. \A t \in Targets : asked[t] <=> /\ RxKey(t) \in DOMAIN vvc_map'
                                       /\ vvc_map'[RxKey(t)].cfg.listen_enable
    BY <1>3, <1>5, <2>1, <2>2
  <2> QED BY <1>1, <2>3 DEF AskedIsListening
<1>12. ListsEveryVvc'
  BY <1>1 DEF RegistryInv, ListsEveryVvc
<1> QED BY <1>7, <1>8, <1>9, <1>10, <1>11, <1>12 DEF RegistryInv

\* Two targets name two receivers.
LEMMA TargetsApart == \A t, u \in Targets : RxKey(t) = RxKey(u) => t = u
<1> SUFFICES ASSUME NEW t \in Targets, NEW u \in Targets, RxKey(t) = RxKey(u) PROVE t = u
  OBVIOUS
<1>1. t.vvc_type = u.vvc_type /\ t.vvc_instance_id = u.vvc_instance_id
  BY DEF RxKey, VvcKey
<1> QED BY <1>1, TargetsAssumption

\* A client's request changes the flag of the one VVC it names, or throws and
\* changes nothing.
LEMMA ListenStep ==
    ASSUME RegistryInv, NEW t \in Targets, NEW enable \in BOOLEAN,
           SetVvcListenEnableRequest(t, enable)
    PROVE  RegistryInv'
<1> DEFINE v == RxKey(t)
<1>1. UNCHANGED <<interface, check_packet_length, vvc_config_done, idx, indexes_in_use,
                  init_done, list>>
  BY DEF SetVvcListenEnableRequest
<1>2. \A i, l : Instance(i, l)' = Instance(i, l)
  BY <1>1 DEF Instance, Reported, Packets
<1>3. CASE v \notin DOMAIN vvc_map
  <2>1. vvc_map' = vvc_map /\ asked' = asked
    BY <1>3 DEF SetVvcListenEnableRequest, SetVvcListenEnable, Throws
  <2> QED BY <1>1, <1>2, <2>1
          DEF RegistryInv, TypeOK, MapAsReported, MarkedAsReported, ReportsInTime,
              AskedIsListening, ListsEveryVvc
<1>4. CASE v \in DOMAIN vvc_map
  <2>1. vvc_map' = [vvc_map EXCEPT ![v].cfg.listen_enable = enable]
        /\ asked' = [asked EXCEPT ![t] = enable]
    BY <1>4 DEF SetVvcListenEnableRequest, SetVvcListenEnable, Returns
  <2>2. PICK n \in 1..idx - 1 : v = Key(n)
    BY <1>4 DEF RegistryInv, MapAsReported
  <2>3. PICK l \in BOOLEAN : vvc_map[v] = Instance(n, l)
    BY <2>2 DEF RegistryInv, MapAsReported
  <2>4. n \in DOMAIN Register
    BY <2>2, Positions DEF RegistryInv, TypeOK
  <2>5. DOMAIN vvc_map' = DOMAIN vvc_map /\ vvc_map'[v] = Instance(n, enable)
        /\ \A k \in DOMAIN vvc_map \ {v} : vvc_map'[k] = vvc_map[k]
    <3>1. vvc_map'[v] = [vvc_map[v] EXCEPT !.cfg.listen_enable = enable]
      BY <1>4, <2>1
    <3>2. [Instance(n, l) EXCEPT !.cfg.listen_enable = enable] = Instance(n, enable)
      <4>1. \A e : [Instance(n, l) EXCEPT !.cfg.listen_enable = e] = Instance(n, e)
        BY <2>3, <2>4, InstanceFacts
      <4> QED BY <4>1, Zenon
    <3> QED BY <1>4, <2>1, <2>3, <3>1, <3>2
  <2> HIDE DEF v
  <2>6. TypeOK' /\ IsFiniteSet(DOMAIN vvc_map)'
    <3>1. asked' \in [Targets -> BOOLEAN]
      BY <2>1 DEF RegistryInv, TypeOK
    <3> QED BY <1>1, <2>5, <3>1 DEF RegistryInv, TypeOK
  <2>7. MapAsReported'
    <3>1. \A k : k \in DOMAIN vvc_map' <=> \E i \in 1..idx - 1 : k = Key(i)
      BY <2>5 DEF RegistryInv, MapAsReported
    <3>2. ASSUME NEW i \in 1..idx - 1
          PROVE  \E e \in BOOLEAN : vvc_map'[Key(i)] = Instance(i, e)
      <4>1. i \in DOMAIN Register
        BY Positions DEF RegistryInv, TypeOK
      <4>2. CASE i = n
        BY <2>2, <2>5, <4>2
      <4>3. CASE i # n
        <5>1. Key(i) # v
          BY <2>2, <2>4, <4>1, <4>3, Positions
        <5>2. Key(i) \in DOMAIN vvc_map /\ \E e \in BOOLEAN : vvc_map[Key(i)] = Instance(i, e)
          BY DEF RegistryInv, MapAsReported
        <5> QED BY <2>5, <5>1, <5>2
      <4> QED BY <4>2, <4>3
    <3> QED BY <1>1, <1>2, <3>1, <3>2 DEF MapAsReported
  <2>8. AskedIsListening'
    <3>1. Instance(n, enable).cfg.listen_enable = enable
      BY <2>4, InstanceFacts
    <3>2. ASSUME NEW u \in Targets
          PROVE  asked'[u] <=> RxKey(u) \in DOMAIN vvc_map' /\ vvc_map'[RxKey(u)].cfg.listen_enable
      <4>1. CASE u = t
        <5>1. asked'[u] = enable
          BY <2>1, <4>1 DEF RegistryInv, TypeOK
        <5>2. RxKey(u) \in DOMAIN vvc_map' /\ vvc_map'[RxKey(u)].cfg.listen_enable = enable
          BY <1>4, <2>5, <3>1, <4>1 DEF v
        <5> QED BY <5>1, <5>2
      <4>2. CASE u # t
        <5>1. asked'[u] = asked[u]
          BY <2>1, <4>2 DEF RegistryInv, TypeOK
        <5>2. RxKey(u) # v
          BY <4>2, TargetsApart DEF v
        <5>3. asked[u] <=> RxKey(u) \in DOMAIN vvc_map /\ vvc_map[RxKey(u)].cfg.listen_enable
          BY DEF RegistryInv, AskedIsListening
        <5> QED BY <2>5, <5>1, <5>2, <5>3
      <4> QED BY <4>1, <4>2
    <3> QED BY <3>2 DEF AskedIsListening
  <2>9. MarkedAsReported' /\ ReportsInTime' /\ ListsEveryVvc'
    BY <1>1 DEF RegistryInv, MarkedAsReported, ReportsInTime, ListsEveryVvc
  <2> QED BY <2>6, <2>7, <2>8, <2>9 DEF RegistryInv
<1> QED BY <1>3, <1>4

\* A list asked for after the end of the process has every VVC of the register.
LEMMA ListStep == RegistryInv /\ GetVvcListRequest => RegistryInv'
<1> SUFFICES ASSUME RegistryInv, GetVvcListRequest PROVE RegistryInv'
  OBVIOUS
<1>1. UNCHANGED <<interface, check_packet_length, vvc_config_done, idx, indexes_in_use,
                  init_done, vvc_map, asked>>
  BY DEF GetVvcListRequest
<1>2. \A i, l : Instance(i, l)' = Instance(i, l)
  BY <1>1 DEF Instance, Reported, Packets
<1>3. ListsEveryVvc'
  <2> SUFFICES ASSUME init_done
               PROVE  {from_json(j).key : j \in list'.answer} = {Key(i) : i \in DOMAIN Register}
    BY DEF GetVvcListRequest, ListsEveryVvc, Key
  <2>1. \A k : k \in DOMAIN vvc_map <=> \E i \in DOMAIN Register : k = Key(i)
    <3>1. idx - 1 = Len(Register)
      BY Positions DEF RegistryInv, ReportsInTime
    <3> QED BY <3>1, Positions DEF RegistryInv, MapAsReported
  <2> DEFINE Entry(k) == [key |-> k, cfg |-> vvc_map[k].cfg]
  <2>2. list'.answer = {to_json(v) : v \in {Entry(k) : k \in DOMAIN vvc_map}}
    BY DEF GetVvcListRequest, GetVvcList, Returns
  <2>3. \A i \in DOMAIN Register : from_json(to_json(Entry(Key(i)))).key = Key(i)
    BY DEF from_json, to_json, Key, VvcKey
  <2> HIDE DEF Entry
  <2> QED BY <2>1, <2>2, <2>3
<1> QED BY <1>1, <1>2, <1>3
    DEF RegistryInv, TypeOK, MapAsReported, MarkedAsReported, ReportsInTime, AskedIsListening

LEMMA RegistryNext == RegistryInv /\ [Next]_vars => RegistryInv'
<1> SUFFICES ASSUME RegistryInv, [Next]_vars PROVE RegistryInv'
  OBVIOUS
<1> USE DEF RegistryInv, TypeOK, MapAsReported, MarkedAsReported, ReportsInTime,
            AskedIsListening, ListsEveryVvc
<1>1. CASE UNCHANGED vars
  <2>1. \A i, l : Instance(i, l)' = Instance(i, l)
    BY <1>1 DEF vars, Instance, Reported, Packets
  <2> QED BY <1>1, <2>1 DEF vars
<1>2. ASSUME NEW id \in AxisIds, Configure(id) PROVE RegistryInv'
  <2>1. idx = 1 /\ check_packet_length' \in [AxisIds -> BOOLEAN]
    BY <1>2, Positions DEF Configure
  <2>2. UNCHANGED <<interface, vvc_config_done, idx, indexes_in_use, init_done, vvc_map,
                    asked, list>>
    BY <1>2 DEF Configure
  <2>3. \A i \in 1..idx - 1 : FALSE
    BY <2>1
  <2>4. MapAsReported'
    BY <2>2, <2>3
  <2>5. TypeOK' /\ IsFiniteSet(DOMAIN vvc_map)'
    BY <2>1, <2>2
  <2>6. MarkedAsReported' /\ ReportsInTime' /\ AskedIsListening' /\ ListsEveryVvc'
    BY <2>2
  <2> HIDE DEF TypeOK, MapAsReported, MarkedAsReported, ReportsInTime, AskedIsListening,
               ListsEveryVvc
  <2> QED BY <2>4, <2>5, <2>6
<1>3. CASE ConfigDone
  <2>1. \A i, l : Instance(i, l)' = Instance(i, l)
    BY <1>3 DEF ConfigDone, Instance, Reported, Packets
  <2> QED BY <1>3, <2>1 DEF ConfigDone
<1>4. CASE ReportVvc
  BY <1>4, ReportStep
<1>5. CASE InitDone
  <2>1. \A i, l : Instance(i, l)' = Instance(i, l)
    BY <1>5 DEF InitDone, Instance, Reported, Packets
  <2>2. idx = Len(Register) + 1
    BY <1>5, Positions DEF InitDone
  <2> QED BY <1>5, <2>1, <2>2 DEF InitDone
<1>6. ASSUME NEW t \in Targets, NEW enable \in BOOLEAN, SetVvcListenEnableRequest(t, enable)
      PROVE  RegistryInv'
  BY <1>6, ListenStep
<1>7. CASE GetVvcListRequest
  BY <1>7, ListStep
<1> QED BY <1>1, <1>2, <1>3, <1>4, <1>5, <1>6, <1>7 DEF Next

LEMMA RegistryInvariant == Spec => []RegistryInv
BY RegistryInit, RegistryNext, PTL DEF Spec

-----------------------------------------------------------------------------
\* The properties

\* Every value keeps its kind, and the map has one VVC for each report.
THEOREM TypeCorrect == Spec => []TypeOK
BY RegistryInvariant, PTL DEF RegistryInv

\* "All detected VVCs are included in this list."
THEOREM AllVvcsListed == Spec => []ListsEveryVvc
BY RegistryInvariant, PTL DEF RegistryInv

\* The key a controller's mark leads to is that of a VVC that was reported, and
\* its instance has the configuration of its kind.
LEMMA MarkedIsServed ==
    ASSUME RegistryInv, NEW mark \in indexes_in_use
    PROVE  \/ /\ mark.controller = "uart_tx"
              /\ HasByteQueue(vvc_map, VvcKey(UART_VVC, <<"TX">>, mark.id))
           \/ /\ mark.controller = "uart_rx"
              /\ VvcKey(UART_VVC, <<"RX">>, mark.id) \in DOMAIN vvc_map
           \/ /\ mark.controller = "axis"
              /\ IF check_packet_length[mark.id]
                 THEN HasPacketQueue(vvc_map, VvcKey(AXISTREAM_VVC, <<"NA">>, mark.id))
                 ELSE HasByteQueue(vvc_map, VvcKey(AXISTREAM_VVC, <<"NA">>, mark.id))
<1>1. PICK i \in 1..idx - 1 : mark \in Marks(Register[i])
  BY DEF RegistryInv, MarkedAsReported
<1>2. i \in DOMAIN Register
  BY Positions DEF RegistryInv, TypeOK
<1> DEFINE vvc == Register[i]
<1>3. PICK l \in BOOLEAN : Key(i) \in DOMAIN vvc_map /\ vvc_map[Key(i)] = Instance(i, l)
  BY DEF RegistryInv, MapAsReported
<1>4. Key(i) \in DOMAIN vvc_map /\ (vvc_map[Key(i)].cfg.packet_based <=> Packets(i))
  BY <1>2, <1>3, InstanceFacts
<1>5. UART_VVC # AXISTREAM_VVC /\ UART_VVC # <<"VOID">> /\ AXISTREAM_VVC # <<"VOID">>
  BY DEF UART_VVC, AXISTREAM_VVC
<1>6. BfmType(vvc) \in {UART_VVC, AXISTREAM_VVC}
  BY <1>1, <1>2, OfTheRegister
<1>7. CASE BfmType(vvc) = UART_VVC
  <2>1. get_string(vvc.name) = UART_VVC /\ vvc.channel \in {<<"TX">>, <<"RX">>} /\ ~Packets(i)
    BY <1>2, <1>5, <1>7, OfTheRegister DEF Packets
  <2>2. CASE vvc.channel = <<"TX">>
    <3>1. mark = [controller |-> "uart_tx", id |-> vvc.id]
      BY <1>1, <1>7, <2>2 DEF Marks
    <3> QED BY <1>4, <2>1, <2>2, <3>1 DEF Key, HasByteQueue
  <2>3. CASE vvc.channel = <<"RX">>
    <3>1. mark = [controller |-> "uart_rx", id |-> vvc.id]
      BY <1>1, <1>7, <2>3 DEF Marks
    <3> QED BY <1>4, <2>1, <2>3, <3>1 DEF Key
  <2> QED BY <2>1, <2>2, <2>3
<1>8. CASE BfmType(vvc) = AXISTREAM_VVC
  <2>1. get_string(vvc.name) = AXISTREAM_VVC /\ vvc.channel = <<"NA">>
    BY <1>2, <1>8, OfTheRegister
  <2>2. mark = [controller |-> "axis", id |-> vvc.id]
    BY <1>1, <1>5, <1>8 DEF Marks
  <2>3. Packets(i) <=> check_packet_length[mark.id]
    BY <1>8, <2>2 DEF Packets
  <2> QED BY <1>4, <2>1, <2>2, <2>3 DEF Key, HasByteQueue, HasPacketQueue
<1> QED BY <1>6, <1>7, <1>8

\* No exception leaves the report of a VVC, nor any call a controller makes once
\* the initialization is done.
THEOREM NothingThrows == Spec => []NoForeignException
<1>1. RegistryInv => NoForeignException
  <2> SUFFICES ASSUME RegistryInv PROVE NoForeignException
    OBVIOUS
  <2>1. ASSUME vvc_config_done, idx \in DOMAIN Register
        PROVE  ~ForeignCall("report_vvc_info", ReportArgs(Register[idx])).throws
    <3>1. Key(idx) \notin DOMAIN vvc_map
      <4>1. \A i \in 1..idx - 1 : i \in DOMAIN Register /\ Key(i) # Key(idx)
        BY <2>1, Positions
      <4> QED BY <4>1 DEF RegistryInv, MapAsReported
    <3>2. ~AddVvc(vvc_map, Key(idx), Reported(idx)).throws
      BY <3>1 DEF AddVvc, Returns
    <3> QED BY <2>1, <3>2, ReportCall DEF RegistryInv, TypeOK
  <2>2. ASSUME NEW mark \in indexes_in_use, NEW c \in ControllerCalls(mark)
        PROVE  ~ForeignCall(c[1], c[2]).throws
    <3> DEFINE id == mark.id
    <3>1. interface \in {"VHPI", "FLI"}
      BY DEF RegistryInv, TypeOK
    <3>2. UART_VVC # AXISTREAM_VVC
      BY DEF UART_VVC, AXISTREAM_VVC
    <3>3. CASE mark.controller = "uart_tx"
      <4>1. c = <<"transmit_byte_queue_empty", <<UART_VVC, id>>>>
        BY <3>3 DEF ControllerCalls
      <4>2. ForeignCall(c[1], c[2]) =
              byte_queue_empty(vvc_map, "TRANSMIT", VvcKey(UART_VVC, <<"TX">>, id))
        BY <3>1, <4>1, PolledCalls
      <4>3. HasByteQueue(vvc_map, VvcKey(UART_VVC, <<"TX">>, id))
        BY <3>3, MarkedIsServed
      <4> QED BY <4>2, <4>3 DEF byte_queue_empty, AccessBytes, Returns
    <3>4. CASE mark.controller = "uart_rx"
      <4>1. c = <<"vvc_listen_enable", <<UART_VVC, id>>>>
        BY <3>4 DEF ControllerCalls
      <4>2. ForeignCall(c[1], c[2]) =
              GetVvcListenEnable(vvc_map, VvcKey(UART_VVC, <<"RX">>, id))
        BY <3>1, <4>1, PolledCalls
      <4>3. VvcKey(UART_VVC, <<"RX">>, id) \in DOMAIN vvc_map
        BY <3>4, MarkedIsServed
      <4> QED BY <4>2, <4>3 DEF GetVvcListenEnable, Returns
    <3>5. CASE mark.controller = "axis"
      <4> DEFINE v == VvcKey(AXISTREAM_VVC, <<"NA">>, id)
      <4>1. IF check_packet_length[id] THEN HasPacketQueue(vvc_map, v)
                                       ELSE HasByteQueue(vvc_map, v)
        BY <3>5, MarkedIsServed
      <4>2. v \in DOMAIN vvc_map
        BY <4>1 DEF HasPacketQueue, HasByteQueue
      <4>3. CASE c = <<"vvc_listen_enable", <<AXISTREAM_VVC, id>>>>
        <5>1. ForeignCall(c[1], c[2]) = GetVvcListenEnable(vvc_map, v)
          BY <3>1, <3>2, <4>3, PolledCalls
        <5> QED BY <4>2, <5>1 DEF GetVvcListenEnable, Returns
      <4>4. CASE check_packet_length[id]
                 /\ c = <<"transmit_packet_queue_empty", <<AXISTREAM_VVC, id>>>>
        <5>1. ForeignCall(c[1], c[2]) = packet_queue_empty(vvc_map, "TRANSMIT", v)
          BY <3>1, <4>4, PolledCalls
        <5> QED BY <4>1, <4>4, <5>1 DEF packet_queue_empty, AccessPackets, Returns
      <4>5. CASE ~check_packet_length[id]
                 /\ c = <<"transmit_byte_queue_empty", <<AXISTREAM_VVC, id>>>>
        <5>1. ForeignCall(c[1], c[2]) = byte_queue_empty(vvc_map, "TRANSMIT", v)
          BY <3>1, <3>2, <4>5, PolledCalls
        <5> QED BY <4>1, <4>5, <5>1 DEF byte_queue_empty, AccessBytes, Returns
      <4> QED BY <3>5, <4>3, <4>4, <4>5 DEF ControllerCalls
    <3> QED BY <3>3, <3>4, <3>5, MarkedIsServed
  <2> QED BY <2>1, <2>2 DEF NoForeignException
<1> QED BY <1>1, RegistryInvariant, PTL

\* A receive controller polls the flag of the last request for its VVC.
THEOREM PollsWhatWasAsked == Spec => []ListensAsAsked
<1>1. RegistryInv => ListensAsAsked
  <2> SUFFICES ASSUME RegistryInv, NEW t \in Targets, NEW mark \in indexes_in_use,
                      mark.id = t.vvc_instance_id,
                      \/ mark.controller = "uart_rx" /\ t.vvc_type = UART_VVC
                      \/ mark.controller = "axis" /\ t.vvc_type = AXISTREAM_VVC
               PROVE  LET r == ForeignCall("vvc_listen_enable",
                                           <<t.vvc_type, t.vvc_instance_id>>)
                      IN  /\ ~r.throws
                          /\ ForeignResult("vvc_listen_enable", r.value) = AsInt(asked[t])
    BY DEF ListensAsAsked
  <2>1. UART_VVC # AXISTREAM_VVC
    BY DEF UART_VVC, AXISTREAM_VVC
  <2>2. t.vvc_type \in {UART_VVC, AXISTREAM_VVC} /\ interface \in {"VHPI", "FLI"}
    BY DEF RegistryInv, TypeOK
  <2>3. ForeignCall("vvc_listen_enable", <<t.vvc_type, t.vvc_instance_id>>) =
          GetVvcListenEnable(vvc_map, RxKey(t))
    BY <2>2, PolledCalls DEF RxKey
  <2>4. RxKey(t) \in DOMAIN vvc_map
    BY <2>1, MarkedIsServed DEF RxKey, HasByteQueue, HasPacketQueue
  <2>5. PICK i \in 1..idx - 1, l \in BOOLEAN :
          i \in DOMAIN Register /\ vvc_map[RxKey(t)] = Instance(i, l)
    BY <2>4, Positions DEF RegistryInv, TypeOK, MapAsReported
  <2>6. vvc_map[RxKey(t)].cfg.listen_enable = l
    BY <2>5, InstanceFacts
  <2>7. asked[t] = l
    <3>1. asked[t] <=> vvc_map[RxKey(t)].cfg.listen_enable
      BY <2>4 DEF RegistryInv, AskedIsListening
    <3>2. asked[t] \in BOOLEAN
      BY DEF RegistryInv, TypeOK
    <3> QED BY <2>6, <3>1, <3>2
  <2>8. GetVvcListenEnable(vvc_map, RxKey(t)) = Returns(vvc_map, l)
    BY <2>4, <2>6 DEF GetVvcListenEnable
  <2>9. ForeignResult("vvc_listen_enable", l) = AsInt(l)
    BY DEF ForeignResult
  <2> QED BY <2>3, <2>7, <2>8, <2>9 DEF Returns
<1> QED BY <1>1, RegistryInvariant, PTL

\* The server supports co-simulation for the VVCs that a controller serves, and
\* for no other.
THEOREM SupportsTheServed == Spec => []SupportedIffServed
<1>1. RegistryInv => SupportedIffServed
  <2> SUFFICES ASSUME RegistryInv, NEW i \in 1..idx - 1
               PROVE  /\ Key(i) \in DOMAIN vvc_map
                      /\ vvc_map[Key(i)].cfg.cosim_support <=> Marks(Register[i]) # {}
                      /\ Marks(Register[i]) \subseteq indexes_in_use
    BY DEF SupportedIffServed, Key
  <2>1. PICK l \in BOOLEAN : Key(i) \in DOMAIN vvc_map /\ vvc_map[Key(i)] = Instance(i, l)
    BY DEF RegistryInv, MapAsReported
  <2>2. i \in DOMAIN Register
    BY Positions DEF RegistryInv, TypeOK
  <2>3. vvc_map[Key(i)].cfg.cosim_support <=> Marks(Register[i]) # {}
    BY <2>1, <2>2, InstanceFacts
  <2>4. Marks(Register[i]) \subseteq indexes_in_use
    BY DEF RegistryInv, MarkedAsReported
  <2> QED BY <2>1, <2>3, <2>4
<1> QED BY <1>1, RegistryInvariant, PTL
=============================================================================
