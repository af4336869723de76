------------------------- MODULE StandardMessageProofs -------------------------
(***************************************************************************)
(* What packing a word and unpacking the field it makes returns, for every  *)
(* word the packer accepts; from it, that a message that was accepted says   *)
(* what was given and that its canonical text encodes to the same message.   *)
(***************************************************************************)
EXTENDS StandardMessage, SequenceTheorems, TLAPS

\* A short text is the tuple of its words.
LEMMA AsTuple ==
    ASSUME NEW S, NEW s \in Seq(S)
    PROVE  /\ Len(s) = 1 => s = <<s[1]>>
           /\ Len(s) = 2 => s = <<s[1], s[2]>>
           /\ Len(s) = 3 => s = <<s[1], s[2], s[3]>>
           /\ Len(s) = 4 => s = <<s[1], s[2], s[3], s[4]>>
           /\ Len(s) = 5 => s = <<s[1], s[2], s[3], s[4], s[5]>>
  BY LenProperties

\* Short texts put together.
LEMMA Joined ==
    /\ \A a, b : <<a>> \o <<b>> = <<a, b>>
    /\ \A a, b, c : <<a, b>> \o <<c>> = <<a, b, c>>
    /\ \A a, b, c, d : <<a, b, c>> \o <<d>> = <<a, b, c, d>>
    /\ \A a, b, c, d, e : <<a, b, c, d>> \o <<e>> = <<a, b, c, d, e>>
    /\ \A a, b, c : <<a>> \o <<b, c>> = <<a, b, c>>
    /\ \A a, b, c, d : <<a, b>> \o <<c, d>> = <<a, b, c, d>>
    /\ \A a, b, c, d, e : <<a, b, c>> \o <<d, e>> = <<a, b, c, d, e>>
    /\ \A a, b, c, d : <<a>> \o <<b, c, d>> = <<a, b, c, d>>
<1>1. ASSUME NEW a, NEW b PROVE <<a>> \o <<b>> = <<a, b>>
  <2> DEFINE u == <<a>> \o <<b>>
  <2>1. u \in Seq({a, b}) /\ Len(u) = 2 /\ u[1] = a /\ u[2] = b
    OBVIOUS
  <2> HIDE DEF u
  <2>2. u = <<a, b>>
    BY <2>1, AsTuple
  <2> QED BY <2>2 DEF u
<1>2. ASSUME NEW a, NEW b, NEW c PROVE <<a, b>> \o <<c>> = <<a, b, c>>
  <2> DEFINE u == <<a, b>> \o <<c>>
  <2>1. u \in Seq({a, b, c}) /\ Len(u) = 3 /\ u[1] = a /\ u[2] = b /\ u[3] = c
    OBVIOUS
  <2> HIDE DEF u
  <2>2. u = <<a, b, c>>
    BY <2>1, AsTuple
  <2> QED BY <2>2 DEF u
<1>3. ASSUME NEW a, NEW b, NEW c, NEW d PROVE <<a, b, c>> \o <<d>> = <<a, b, c, d>>
  <2> DEFINE u == <<a, b, c>> \o <<d>>
  <2>1. u \in Seq({a, b, c, d}) /\ Len(u) = 4 /\ u[1] = a /\ u[2] = b /\ u[3] = c /\ u[4] = d
    OBVIOUS
  <2> HIDE DEF u
  <2>2. u = <<a, b, c, d>>
    BY <2>1, AsTuple
  <2> QED BY <2>2 DEF u
<1>4. ASSUME NEW a, NEW b, NEW c, NEW d, NEW e PROVE <<a, b, c, d>> \o <<e>> = <<a, b, c, d, e>>
  <2> DEFINE u == <<a, b, c, d>> \o <<e>>
  <2>1. u \in Seq({a, b, c, d, e}) /\ Len(u) = 5 /\ u[1] = a /\ u[2] = b /\ u[3] = c /\ u[4] = d /\ u[5] = e
    OBVIOUS
  <2> HIDE DEF u
  <2>2. u = <<a, b, c, d, e>>
    BY <2>1, AsTuple
  <2> QED BY <2>2 DEF u
<1>5. ASSUME NEW a, NEW b, NEW c PROVE <<a>> \o <<b, c>> = <<a, b, c>>
  <2> DEFINE u == <<a>> \o <<b, c>>
  <2>1. u \in Seq({a, b, c}) /\ Len(u) = 3 /\ u[1] = a /\ u[2] = b /\ u[3] = c
    OBVIOUS
  <2> HIDE DEF u
  <2>2. u = <<a, b, c>>
    BY <2>1, AsTuple
  <2> QED BY <2>2 DEF u
<1>6. ASSUME NEW a, NEW b, NEW c, NEW d PROVE <<a, b>> \o <<c, d>> = <<a, b, c, d>>
  <2> DEFINE u == <<a, b>> \o <<c, d>>
  <2>1. u \in Seq({a, b, c, d}) /\ Len(u) = 4 /\ u[1] = a /\ u[2] = b /\ u[3] = c /\ u[4] = d
    OBVIOUS
  <2> HIDE DEF u
  <2>2. u = <<a, b, c, d>>
    BY <2>1, AsTuple
  <2> QED BY <2>2 DEF u
<1>7. ASSUME NEW a, NEW b, NEW c, NEW d, NEW e PROVE <<a, b, c>> \o <<d, e>> = <<a, b, c, d, e>>
  <2> DEFINE u == <<a, b, c>> \o <<d, e>>
  <2>1. u \in Seq({a, b, c, d, e}) /\ Len(u) = 5 /\ u[1] = a /\ u[2] = b /\ u[3] = c /\ u[4] = d /\ u[5] = e
    OBVIOUS
  <2> HIDE DEF u
  <2>2. u = <<a, b, c, d, e>>
    BY <2>1, AsTuple
  <2> QED BY <2>2 DEF u
<1>8. ASSUME NEW a, NEW b, NEW c, NEW d PROVE <<a>> \o <<b, c, d>> = <<a, b, c, d>>
  <2> DEFINE u == <<a>> \o <<b, c, d>>
  <2>1. u \in Seq({a, b, c, d}) /\ Len(u) = 4 /\ u[1] = a /\ u[2] = b /\ u[3] = c /\ u[4] = d
    OBVIOUS
  <2> HIDE DEF u
  <2>2. u = <<a, b, c, d>>
    BY <2>1, AsTuple
  <2> QED BY <2>2 DEF u
<1> QED BY <1>1, <1>2, <1>3, <1>4, <1>5, <1>6, <1>7, <1>8, Zenon

\* What is left of a text without its first two words.
LEMMA FromThird ==
    /\ \A a, b, c : SubSeq(<<a, b, c>>, 3, 3) = <<c>>
    /\ \A a, b, c, d : SubSeq(<<a, b, c, d>>, 3, 4) = <<c, d>>
    /\ \A a, b, c, d, e : SubSeq(<<a, b, c, d, e>>, 3, 5) = <<c, d, e>>
<1>1. ASSUME NEW a, NEW b, NEW c PROVE SubSeq(<<a, b, c>>, 3, 3) = <<c>>
  <2> DEFINE u == SubSeq(<<a, b, c>>, 3, 3)
  <2>1. u \in Seq({a, b, c}) /\ Len(u) = 1 /\ u[1] = c
    OBVIOUS
  <2> HIDE DEF u
  <2>2. u = <<c>>
    BY <2>1, AsTuple
  <2> QED BY <2>2 DEF u
<1>2. ASSUME NEW a, NEW b, NEW c, NEW d PROVE SubSeq(<<a, b, c, d>>, 3, 4) = <<c, d>>
  <2> DEFINE u == SubSeq(<<a, b, c, d>>, 3, 4)
  <2>1. u \in Seq({a, b, c, d}) /\ Len(u) = 2 /\ u[1] = c /\ u[2] = d
    OBVIOUS
  <2> HIDE DEF u
  <2>2. u = <<c, d>>
    BY <2>1, AsTuple
  <2> QED BY <2>2 DEF u
<1>3. ASSUME NEW a, NEW b, NEW c, NEW d, NEW e PROVE SubSeq(<<a, b, c, d, e>>, 3, 5) = <<c, d, e>>
  <2> DEFINE u == SubSeq(<<a, b, c, d, e>>, 3, 5)
  <2>1. u \in Seq({a, b, c, d, e}) /\ Len(u) = 3 /\ u[1] = c /\ u[2] = d /\ u[3] = e
    OBVIOUS
  <2> HIDE DEF u
  <2>2. u = <<c, d, e>>
    BY <2>1, AsTuple
  <2> QED BY <2>2 DEF u
<1> QED BY <1>1, <1>2, <1>3, Zenon

\* A text of two to five words as it is shown: word after word.
LEMMA SpokenInOrder ==
    ASSUME NEW S, NEW text \in Seq(S), Len(text) \in 2..5
    PROVE  LET two   == Shown(text[1]) \o Shown(text[2])
               three == two \o Shown(text[3])
               four  == three \o Shown(text[4])
           IN  /\ Len(text) = 2 => Spoken(text) = two
               /\ Len(text) = 3 => Spoken(text) = three
               /\ Len(text) = 4 => Spoken(text) = four
               /\ Len(text) = 5 => Spoken(text) = four \o Shown(text[5])
<1> DEFINE s == [i \in DOMAIN text |-> Shown(text[i])]
           n == Len(text)
           one == s[1]
           two == one \o s[2]
           three == two \o s[3]
           four == three \o s[4]
           five == four \o s[5]
           Flattens(f) == f = [i \in 1..n |-> IF i = 1 THEN s[i] ELSE f[i-1] \o s[i]]
           f == CHOOSE f : Flattens(f)
<1>1. DOMAIN text = 1..n /\ n \in 2..5
  BY LenProperties
<1>2. s \in Seq({s[i] : i \in 1..n}) /\ Len(s) = n
  BY <1>1
<1>3. \A i \in 1..n : s[i] = Shown(text[i])
  BY <1>1
<1>4. Spoken(text) = f[n]
  <2>1. Len(s) # 0
    BY <1>1, <1>2
  <2> QED BY <1>2, <2>1 DEF Spoken, FlattenSeq
<1> HIDE DEF s, n
<1>5. \E g : Flattens(g)
  <2> DEFINE g == [i \in 1..n |-> CASE i = 1 -> one [] i = 2 -> two [] i = 3 -> three
                                    [] i = 4 -> four [] OTHER -> five]
  <2> HIDE DEF one, two, three, four, five
  <2>1. \A i \in 1..n : i \in {1, 2, 3, 4, 5}
    BY <1>1
  <2>2. \A i \in 1..n : g[i] = IF i = 1 THEN s[i] ELSE g[i-1] \o s[i]
    <3> TAKE i \in 1..n
    <3>1. i # 1 => i - 1 \in 1..n
      BY <1>1
    <3>2. CASE i = 1
      BY <3>2 DEF one
    <3>3. CASE i = 2
      BY <3>1, <3>3 DEF two
    <3>4. CASE i = 3
      BY <3>1, <3>4 DEF three
    <3>5. CASE i = 4
      BY <3>1, <3>5 DEF four
    <3>6. CASE i = 5
      BY <3>1, <3>6 DEF five
    <3> QED BY <2>1, <3>2, <3>3, <3>4, <3>5, <3>6
  <2>3. g = [i \in 1..n |-> g[i]]
    OBVIOUS
  <2> HIDE DEF g
  <2> QED BY <2>2, <2>3
<1>6. Flattens(f)
  BY <1>5
<1> HIDE DEF f, one, two, three, four, five
<1> DEFINE Joint(i) == f[i-1] \o s[i]
<1>7. \A i \in 1..n : f[i] = IF i = 1 THEN s[i] ELSE Joint(i)
  BY <1>6, Zenon
<1> HIDE DEF Joint
<1>8. f[1] = one /\ f[2] = Joint(2) /\ (n >= 3 => f[3] = Joint(3))
      /\ (n >= 4 => f[4] = Joint(4)) /\ (n >= 5 => f[5] = Joint(5))
  BY <1>1, <1>7 DEF one
<1>9. 2 - 1 = 1 /\ 3 - 1 = 2 /\ 4 - 1 = 3 /\ 5 - 1 = 4
  OBVIOUS
<1>10. /\ Joint(2) = f[1] \o s[2] /\ Joint(3) = f[2] \o s[3]
       /\ Joint(4) = f[3] \o s[4] /\ Joint(5) = f[4] \o s[5]
  BY <1>9, Zenon DEF Joint
<1>11. f[2] = f[1] \o s[2] /\ (n >= 3 => f[3] = f[2] \o s[3])
      /\ (n >= 4 => f[4] = f[3] \o s[4]) /\ (n >= 5 => f[5] = f[4] \o s[5])
  BY <1>8, <1>10, Zenon
<1>12. /\ s[1] = Shown(text[1]) /\ s[2] = Shown(text[2])
       /\ (n >= 3 => s[3] = Shown(text[3])) /\ (n >= 4 => s[4] = Shown(text[4]))
       /\ (n >= 5 => s[5] = Shown(text[5]))
  BY <1>1, <1>3
<1>13. /\ f[2] = Shown(text[1]) \o Shown(text[2])
       /\ n >= 3 => f[3] = f[2] \o Shown(text[3])
       /\ n >= 4 => f[4] = f[3] \o Shown(text[4])
       /\ n >= 5 => f[5] = f[4] \o Shown(text[5])
  BY <1>8, <1>11, <1>12, Zenon DEF one
<1>14. /\ n = 3 => n >= 3
       /\ n = 4 => n >= 3 /\ n >= 4
       /\ n = 5 => n >= 3 /\ n >= 4 /\ n >= 5
  OBVIOUS
<1> QED BY <1>4, <1>13, <1>14, Zenon DEF n

------------------------------------------------------------------------------
\* The numbers of each kind of field, and what it is to be one of them.
LettersEnd == 27*27*27*27
CharsEnd == 37*36*10*27*27*27
Below(n, limit) == n \in Nat /\ n < limit

\* The 27-letter alphabet of directed CQs, four letters deep: packed and taken apart.
LEMMA FourLetters ==
    ASSUME NEW a \in 0..26, NEW b \in 0..26, NEW c \in 0..26, NEW d \in 0..26
    PROVE  /\ Below(PackLetters(<<a, b, c, d>>), LettersEnd)
           /\ UnpackLetters(PackLetters(<<a, b, c, d>>)) = <<a, b, c, d>>
<1> DEFINE n == 19683 * a + 729 * b + 27 * c + d
<1>1. PackLetters(<<a, b, c, d>>) = n
  BY SMT DEF PackLetters
<1>2. Below(n, LettersEnd)
  BY SMT DEF Below, LettersEnd
<1>3. n \div 19683 = a /\ n % 19683 = 729 * b + 27 * c + d
  BY SMT
<1>4. n % 729 = 27 * c + d /\ n % 27 = d
  BY SMT
<1>5. (n % 19683) \div 729 = b /\ (n % 729) \div 27 = c
  BY <1>3, <1>4, SMT
<1> HIDE DEF n
<1>6. UnpackLetters(n) = <<a, b, c, d>>
  BY <1>2, <1>3, <1>4, <1>5, SMT DEF UnpackLetters, Below
<1> QED BY <1>1, <1>2, <1>6, SMT

\* The same of a word of four letters: what follows "CQ_" comes back from its field.
LEMMA LettersReturn ==
    ASSUME NEW l \in Seq(0..26), Len(l) = 4
    PROVE  Below(PackLetters(l), LettersEnd) /\ UnpackLetters(PackLetters(l)) = l
<1>1. \A i \in 1..4 : l[i] \in 0..26
  BY LenProperties
<1>2. l = <<l[1], l[2], l[3], l[4]>>
  BY LenProperties, SMT
<1>3. l[1] \in 0..26 /\ l[2] \in 0..26 /\ l[3] \in 0..26 /\ l[4] \in 0..26
  BY <1>1, SMT
<1>4. /\ Below(PackLetters(<<l[1], l[2], l[3], l[4]>>), LettersEnd)
      /\ UnpackLetters(PackLetters(<<l[1], l[2], l[3], l[4]>>)) = <<l[1], l[2], l[3], l[4]>>
  BY <1>3, FourLetters, Zenon
<1> QED BY <1>2, <1>4, Zenon

\* The six characters of a callsign, each in its own alphabet.
LEMMA SixChars ==
    ASSUME NEW a \in 0..36, NEW b \in 0..35, NEW c \in 0..9,
           NEW d \in 0..26, NEW e \in 0..26, NEW f \in 0..26
    PROVE  /\ Below(PackChars(<<a, b, c, d, e, f>>), CharsEnd)
           /\ UnpackChars(PackChars(<<a, b, c, d, e, f>>)) = <<a, b, c, d, e, f>>
<1> DEFINE n == 7085880 * a + 196830 * b + 19683 * c + 729 * d + 27 * e + f
<1>1. PackChars(<<a, b, c, d, e, f>>) = n
  BY SMT DEF PackChars
<1>2. Below(n, CharsEnd)
  BY SMT DEF Below, CharsEnd
<1>3. /\ n \div 7085880 = a
      /\ n % 7085880 = 196830 * b + 19683 * c + 729 * d + 27 * e + f
  BY SMT
<1>4. n % 196830 = 19683 * c + 729 * d + 27 * e + f
  BY SMT
<1>5. n % 19683 = 729 * d + 27 * e + f
  BY SMT
<1>6. n % 729 = 27 * e + f /\ n % 27 = f
  BY SMT
<1>7. /\ (n % 7085880) \div 196830 = b /\ (n % 196830) \div 19683 = c
      /\ (n % 19683) \div 729 = d /\ (n % 729) \div 27 = e
  BY <1>3, <1>4, <1>5, <1>6, SMT
<1> HIDE DEF n
<1>8. UnpackChars(n) = <<a, b, c, d, e, f>>
  BY <1>2, <1>3, <1>6, <1>7, SMT DEF UnpackChars, Below
<1> QED BY <1>1, <1>2, <1>8, SMT

\* The same of every callsign callOK accepts.
LEMMA CharsReturn ==
    ASSUME NEW c \in Seq(0..36), IsCallsign(c)
    PROVE  Below(PackChars(c), CharsEnd) /\ UnpackChars(PackChars(c)) = c
<1>1. Len(c) = 6
  BY SMT DEF IsCallsign
<1>2. \A i \in 1..6 : c[i] \in 0..36
  BY <1>1, LenProperties
<1>3. c = <<c[1], c[2], c[3], c[4], c[5], c[6]>>
  BY <1>1, LenProperties, SMT
<1>4. /\ c[1] \in 0..36 /\ c[2] \in 0..35 /\ c[3] \in 0..9
      /\ c[4] \in 0..26 /\ c[5] \in 0..26 /\ c[6] \in 0..26
  <2>1. /\ c[1] \in 0..36 /\ c[2] \in 0..36 /\ c[3] \in 0..36
        /\ c[4] \in 0..36 /\ c[5] \in 0..36 /\ c[6] \in 0..36
    BY <1>2, SMT
  <2>2. c[2] < 36 /\ c[3] < 10 /\ \A i \in 4..6 : c[i] < 27
    BY Zenon DEF IsCallsign
  <2>3. c[4] < 27 /\ c[5] < 27 /\ c[6] < 27
    BY <2>2, SMT
  <2>4. c[2] < 36 /\ c[3] < 10
    BY <2>2
  <2>5. \A x \in 0..36 : /\ (x < 36 => x \in 0..35)
                        /\ (x < 10 => x \in 0..9)
                        /\ (x < 27 => x \in 0..26)
    BY SMT
  <2> QED BY <2>1, <2>3, <2>4, <2>5, Zenon
<1>5. /\ Below(PackChars(<<c[1], c[2], c[3], c[4], c[5], c[6]>>), CharsEnd)
      /\ UnpackChars(PackChars(<<c[1], c[2], c[3], c[4], c[5], c[6]>>)) = <<c[1], c[2], c[3], c[4], c[5], c[6]>>
  BY <1>4, SixChars, Zenon
<1> QED BY <1>3, <1>5, Zenon

\* Two letters of eighteen and two digits.
LEMMA FourGridChars ==
    ASSUME NEW a \in 0..17, NEW b \in 0..17, NEW c \in 0..9, NEW d \in 0..9
    PROVE  /\ Below(Grid4Index(<<a, b, c, d>>), MaxGrid4)
           /\ ToGrid4(Grid4Index(<<a, b, c, d>>)) = <<a, b, c, d>>
<1> DEFINE n == 1800 * a + 100 * b + 10 * c + d
<1>1. Grid4Index(<<a, b, c, d>>) = n
  BY SMT DEF Grid4Index
<1>2. Below(n, MaxGrid4)
  BY SMT DEF Below, MaxGrid4
<1>3. /\ n \div 1800 = a /\ n % 1800 = 100 * b + 10 * c + d
      /\ n % 100 = 10 * c + d /\ n % 10 = d
  BY SMT
<1>4. (n % 1800) \div 100 = b /\ (n % 100) \div 10 = c
  BY <1>3, SMT
<1> HIDE DEF n
<1>5. ToGrid4(n) = <<a, b, c, d>>
  BY <1>2, <1>3, <1>4, SMT DEF ToGrid4, Below
<1> QED BY <1>1, <1>2, <1>5, SMT

\* The same of every locator isGrid4 accepts.
LEMMA GridsReturn ==
    ASSUME NEW g \in Seq(0..17), IsGrid(g)
    PROVE  Below(Grid4Index(g), MaxGrid4) /\ ToGrid4(Grid4Index(g)) = g
<1>1. Len(g) = 4
  BY SMT DEF IsGrid
<1>2. \A i \in 1..4 : g[i] \in 0..17
  BY <1>1, LenProperties
<1>3. g = <<g[1], g[2], g[3], g[4]>>
  BY <1>1, LenProperties, SMT
<1>4. g[1] \in 0..17 /\ g[2] \in 0..17 /\ g[3] \in 0..9 /\ g[4] \in 0..9
  BY <1>2, SMT DEF IsGrid
<1>5. /\ Below(Grid4Index(<<g[1], g[2], g[3], g[4]>>), MaxGrid4)
      /\ ToGrid4(Grid4Index(<<g[1], g[2], g[3], g[4]>>)) = <<g[1], g[2], g[3], g[4]>>
  BY <1>4, FourGridChars, Zenon
<1> QED BY <1>3, <1>5, Zenon

\* The twenty reports below -30 are put after the others and taken from there.
LEMMA ReportsReturn ==
    ASSUME NEW snr \in -50..49
    PROVE  PackReport(snr) \in 5..105 /\ UnpackReport(PackReport(snr)) = snr
BY SMT DEF PackReport, UnpackReport

Field15 == 2^15
Field28 == 2^28

\* The fields of 28 and of 15 bits hold what is written into them.
LEMMA BitsHold ==
    ASSUME NEW n
    PROVE  /\ Below(n, Field28) => Bits(n, 28) = n
           /\ Below(n, Field15) => Bits(n, 15) = n
BY SMT DEF Bits, Below, Field15, Field28
------------------------------------------------------------------------------
\* A plain word is what its kind says it is.
LEMMA PlainWordKinds ==
    ASSUME NEW w, IsPlainWord(w)
    PROVE  /\ w.kind # "directed"
           /\ w.kind = "letters" => /\ w \in [kind : {"letters"}, letters : Seq(0..26)]
                                    /\ IsLetters(w.letters)
           /\ w.kind = "call" =>
                /\ w \in [kind : {"call"}, chars : Seq(0..36), portable : BOOLEAN]
                /\ IsCallsign(w.chars)
           /\ w.kind = "grid" => w \in [kind : {"grid"}, chars : Seq(0..17)] /\ IsGrid(w.chars)
           /\ w.kind = "digits" => w \in [kind : {"digits"}, n : 0..999]
           /\ w.kind = "report" =>
                w \in [kind : {"report"}, snr : -99..99, response : BOOLEAN]
BY SMT DEF IsPlainWord

\* The word a callsign field holds: its "/P" has a bit of its own.
Bare(word) == IF word.kind = "call"
              THEN [kind |-> "call", chars |-> word.chars, portable |-> FALSE] ELSE word

\* What unpack28WithHashes makes of each part of the field's range.
LEMMA FieldParts ==
    ASSUME NEW n \in Nat
    PROVE  /\ n < 1000 => Unpack28(3 + n) = Directed([kind |-> "digits", n |-> n])
           /\ Below(n, LettersEnd) => Unpack28(1003 + n)
                                        = Directed([kind |-> "letters", letters |-> UnpackLetters(n)])
           /\ Unpack28(NTokens + Max22 + n)
                = [kind |-> "call", chars |-> UnpackChars(n), portable |-> FALSE]
<1>1. n < 1000 => Unpack28(3 + n) = Directed([kind |-> "digits", n |-> n])
  <2>1. 3 + n - 3 = n
    BY SMT
  <2> QED BY <2>1, SMT DEF Unpack28, NTokens, Max22
<1>2. Below(n, LettersEnd) => Unpack28(1003 + n)
                                = Directed([kind |-> "letters", letters |-> UnpackLetters(n)])
  <2>1. 1003 + n - 1003 = n
    BY SMT
  <2> QED BY <2>1, SMT DEF Unpack28, NTokens, Max22, Below, LettersEnd
<1>3. Unpack28(NTokens + Max22 + n)
        = [kind |-> "call", chars |-> UnpackChars(n), portable |-> FALSE]
  <2> SUFFICES ASSUME NEW m, m = NTokens + Max22 + n
               PROVE  Unpack28(m) = [kind |-> "call", chars |-> UnpackChars(n), portable |-> FALSE]
    BY Zenon
  <2>1. m - NTokens - Max22 = n
    BY SMT DEF NTokens, Max22
  <2>2. Unpack28(m) = [kind |-> "call", chars |-> UnpackChars(m - NTokens - Max22),
                       portable |-> FALSE]
    <3>1. m \in Nat /\ m > 532443 /\ ~(m < NTokens + Max22)
      BY SMT DEF NTokens, Max22
    <3> QED BY <3>1, SMT DEF Unpack28
  <2> QED BY <2>1, <2>2, Zenon
<1> QED BY <1>1, <1>2, <1>3, Zenon

\* Every word pack28 accepts fits the 28 bits of its field and is what
\* unpack28WithHashes reads there; in particular two words never share a field,
\* and none is taken for a reference to the callsign table.
THEOREM CallFieldsReturn ==
    ASSUME NEW word, IsWord(word), Pack28(word) # Refused
    PROVE  /\ Below(Pack28(word), Field28)
           /\ Unpack28(Bits(Pack28(word), 28)) = Bare(word)
<1> SUFFICES Below(Pack28(word), Field28) /\ Unpack28(Pack28(word)) = Bare(word)
  BY BitsHold, Zenon
<1>1. CASE word \in {DE, QRZ, CQ}
  <2>1. /\ DE # QRZ /\ DE # CQ /\ QRZ # CQ
        /\ DE.kind = "letters" /\ QRZ.kind = "letters" /\ CQ.kind = "letters"
    BY SMT DEF DE, QRZ, CQ, Spell
  <2>2. Pack28(DE) = 0 /\ Pack28(QRZ) = 1 /\ Pack28(CQ) = 2
    BY <2>1, SMT DEF Pack28
  <2>3. Unpack28(0) = DE /\ Unpack28(1) = QRZ /\ Unpack28(2) = CQ
    BY SMT DEF Unpack28, NTokens, Max22
  <2>4. Bare(word) = word
    BY <1>1, SMT DEF Bare, DE, QRZ, CQ, Spell
  <2>5. Below(0, Field28) /\ Below(1, Field28) /\ Below(2, Field28)
    BY SMT DEF Below, Field28
  <2> QED BY <1>1, <2>2, <2>3, <2>4, <2>5, Zenon
<1>2. CASE word.kind = "directed" /\ word = Directed(word.suffix)
  <2>1. word \notin {DE, QRZ, CQ}
    BY <1>2, SMT DEF DE, QRZ, CQ, Spell
  <2>2. Bare(word) = word
    BY <1>2, SMT DEF Bare
  <2>3. IsPlainWord(word.suffix)
    <3>1. IsPlainWord(word) => word.kind # "directed"
      BY PlainWordKinds
    <3> QED BY <1>2, <3>1 DEF IsWord
  <2>4. CASE word.suffix.kind = "digits"
    <3> DEFINE w == word.suffix
    <3>1. w = [kind |-> "digits", n |-> w.n] /\ w.n \in 0..999
      <4>1. w \in [kind : {"digits"}, n : 0..999]
        BY <2>4, <2>3, PlainWordKinds
      <4> HIDE DEF w
      <4> QED BY <4>1
    <3>2. Pack28(word) = 3 + word.suffix.n
      BY <1>2, <2>1, <2>4, SMT DEF Pack28
    <3>3. word.suffix.n \in Nat /\ word.suffix.n < 1000
      BY <3>1, SMT
    <3>4. Below(3 + word.suffix.n, Field28)
      BY <3>3, SMT DEF Below, Field28
    <3>5. Unpack28(3 + word.suffix.n) = Directed(word.suffix)
      BY <3>1, <3>3, FieldParts, Zenon
    <3> QED BY <1>2, <2>2, <3>2, <3>4, <3>5, Zenon
  <2>5. CASE word.suffix.kind = "letters"
    <3> DEFINE l == word.suffix.letters
    <3>1. word.suffix = [kind |-> "letters", letters |-> l] /\ l \in Seq(0..26) /\ Len(l) = 4
      <4>1. word.suffix \in [kind : {"letters"}, letters : Seq(0..26)] /\ IsLetters(l)
        BY <2>5, <2>3, PlainWordKinds
      <4> QED BY <4>1 DEF IsLetters
    <3>2. Pack28(word) = 1003 + PackLetters(l)
      BY <1>2, <2>1, <2>5, SMT DEF Pack28
    <3> HIDE DEF l
    <3>3. Below(PackLetters(l), LettersEnd) /\ UnpackLetters(PackLetters(l)) = l
      BY <3>1, LettersReturn, Zenon
    <3>4. PackLetters(l) \in Nat /\ Below(1003 + PackLetters(l), Field28)
      BY <3>3, SMT DEF Below, LettersEnd, Field28
    <3>5. Unpack28(1003 + PackLetters(l)) = Directed(word.suffix)
      <4>1. Unpack28(1003 + PackLetters(l))
              = Directed([kind |-> "letters", letters |-> UnpackLetters(PackLetters(l))])
        BY <3>3, <3>4, FieldParts, Zenon
      <4> QED BY <3>1, <3>3, <4>1, Zenon
    <3> QED BY <1>2, <2>2, <3>2, <3>4, <3>5, Zenon
  <2> QED BY <1>2, <2>1, <2>4, <2>5, SMT DEF Pack28
<1>3. CASE word.kind = "call"
  <2> DEFINE c == word.chars
  <2>1. word \notin {DE, QRZ, CQ}
    BY <1>3, SMT DEF DE, QRZ, CQ, Spell
  <2>2. /\ word \in [kind : {"call"}, chars : Seq(0..36), portable : BOOLEAN]
        /\ IsCallsign(c)
    <3>1. word = Directed(word.suffix) => word.kind = "directed"
      BY DEF Directed
    <3> QED BY <1>3, <3>1, PlainWordKinds, Zenon DEF IsWord
  <2>3. Pack28(word) = NTokens + Max22 + PackChars(c)
    BY <1>3, <2>1, SMT DEF Pack28
  <2>4. c \in Seq(0..36) /\ Bare(word) = [kind |-> "call", chars |-> c, portable |-> FALSE]
    BY <1>3, <2>2 DEF Bare
  <2> HIDE DEF c
  <2>5. Below(PackChars(c), CharsEnd) /\ UnpackChars(PackChars(c)) = c
    BY <2>2, <2>4, CharsReturn, Zenon
  <2>6. PackChars(c) \in Nat /\ Below(NTokens + Max22 + PackChars(c), Field28)
    BY <2>5, SMT DEF Below, CharsEnd, NTokens, Max22, Field28
  <2>7. Unpack28(NTokens + Max22 + PackChars(c)) = Bare(word)
    BY <2>4, <2>5, <2>6, FieldParts, Zenon
  <2> QED BY <2>3, <2>6, <2>7, Zenon
<1>4. word \in {DE, QRZ, CQ} \/ word.kind = "directed" \/ word.kind = "call"
  BY SMT DEF Pack28
<1>5. word.kind = "directed" => word = Directed(word.suffix)
  BY PlainWordKinds DEF IsWord
<1> QED BY <1>1, <1>2, <1>3, <1>4, <1>5

\* Whatever the packer accepts after the calls fits fifteen bits and is the last
\* word shown, after the R of the bit before it if it is a grid; no report is taken
\* for a grid or one of the four endings (packReportToken, unpackStandardMessage).
THEOREM TailsReturn ==
    ASSUME NEW word, IsWord(word), TailNumber(word) # Refused,
           NEW ir \in {0, 1}, word.kind = "report" => (ir = 1 <=> word.response)
    PROVE  /\ Below(TailNumber(word), Field15) /\ word.kind # "directed"
           /\ word.kind = "grid" => TailNumber(word) < MaxGrid4
           /\ word.kind # "grid" => TailNumber(word) >= MaxGrid4 + 2
           /\ UnpackTail(Bits(TailNumber(word), 15), ir)
                = IF word.kind = "grid" /\ ir = 1 THEN <<R, word>> ELSE <<word>>
<1> DEFINE Comes(w) == IF w.kind = "grid" /\ ir = 1 THEN <<R, w>> ELSE <<w>>
<1> SUFFICES /\ Below(TailNumber(word), Field15) /\ word.kind # "directed"
             /\ word.kind = "grid" => TailNumber(word) < MaxGrid4
             /\ word.kind # "grid" => TailNumber(word) >= MaxGrid4 + 2
             /\ UnpackTail(TailNumber(word), ir) = Comes(word)
  BY BitsHold, Zenon
<1>1. word.kind # "directed" => IsPlainWord(word)
  <2>1. word = Directed(word.suffix) => word.kind = "directed"
    BY DEF Directed
  <2> QED BY <2>1, Zenon DEF IsWord
<1>2. /\ RRR # Final /\ RRR.kind \notin {"grid", "report", "directed"}
      /\ Final.kind \notin {"grid", "report", "directed"}
  BY SMT DEF RRR, Final, Spell
<1>3. CASE word.kind = "grid"
  <2>1. word \in [kind : {"grid"}, chars : Seq(0..17)] /\ IsGrid(word.chars)
    BY <1>1, <1>3, PlainWordKinds
  <2>2. TailNumber(word) = Grid4Index(word.chars)
    BY <1>2, <1>3, Zenon DEF TailNumber
  <2>3. word = [kind |-> "grid", chars |-> word.chars] /\ word.chars \in Seq(0..17)
    BY <2>1
  <2>4. Below(TailNumber(word), MaxGrid4) /\ ToGrid4(TailNumber(word)) = word.chars
    BY <2>1, <2>2, <2>3, GridsReturn, Zenon
  <2>5. /\ TailNumber(word) - MaxGrid4 < 0 /\ TailNumber(word) < MaxGrid4
        /\ Below(TailNumber(word), Field15)
    BY <2>4, SMT DEF Below, MaxGrid4, Field15
  <2>6. UnpackTail(TailNumber(word), ir) = (IF ir = 1 THEN <<R>> ELSE <<>>) \o <<word>>
    BY <2>3, <2>4, <2>5, SMT DEF UnpackTail
  <2>7. <<>> \o <<word>> = <<word>>
    <3>1. <<word>> \in Seq({word})
      OBVIOUS
    <3> QED BY <3>1, ConcatEmptySeq
  <2>8. <<R>> \o <<word>> = <<R, word>>
    BY Joined, Zenon
  <2>9. (IF ir = 1 THEN <<R>> ELSE <<>>) \o <<word>> = Comes(word)
    BY <1>3, <2>7, <2>8, Zenon
  <2>10. word.kind # "directed"
    BY <1>3, SMT
  <2> HIDE DEF Comes
  <2> QED BY <1>3, <2>5, <2>6, <2>9, <2>10, Zenon
<1>4. CASE word \in {RRR, Final}
  <2>1. TailNumber(RRR) = MaxGrid4 + 2 /\ TailNumber(Final) = MaxGrid4 + 4
    BY <1>2, SMT DEF TailNumber
  <2>2. UnpackTail(MaxGrid4 + 2, ir) = <<RRR>> /\ UnpackTail(MaxGrid4 + 4, ir) = <<Final>>
    BY SMT DEF UnpackTail, MaxGrid4
  <2>3. /\ Below(MaxGrid4 + 2, Field15) /\ Below(MaxGrid4 + 4, Field15)
        /\ MaxGrid4 + 2 >= MaxGrid4 + 2 /\ MaxGrid4 + 4 >= MaxGrid4 + 2
    BY SMT DEF Below, MaxGrid4, Field15
  <2> QED BY <1>2, <1>4, <2>1, <2>2, <2>3, Zenon
<1>5. CASE word.kind = "report" /\ word.snr \in -50..49
  <2> DEFINE irpt == PackReport(word.snr)
  <2>1. word = [kind |-> "report", snr |-> word.snr, response |-> ir = 1]
    <3>1. word \in [kind : {"report"}, snr : -99..99, response : BOOLEAN]
      BY <1>1, <1>5, PlainWordKinds
    <3> QED BY <1>5, <3>1
  <2>2. word.kind # "grid" /\ word \notin {RRR, Final} /\ word.kind # "directed"
    BY <1>2, <1>5, Zenon
  <2>3. TailNumber(word) = MaxGrid4 + irpt
    BY <1>5, <2>2, Zenon DEF TailNumber
  <2>4. irpt \in 5..105 /\ UnpackReport(irpt) = word.snr
    BY <1>5, ReportsReturn, Zenon
  <2> HIDE DEF irpt
  <2>5. /\ TailNumber(word) - MaxGrid4 = irpt /\ TailNumber(word) >= MaxGrid4 + 2
        /\ Below(TailNumber(word), Field15)
    BY <2>3, <2>4, SMT DEF Below, MaxGrid4, Field15
  <2>6. ~(irpt < 0) /\ irpt # 1 /\ irpt # 2 /\ irpt # 3 /\ irpt # 4
    BY <2>4, SMT
  <2>7. UnpackTail(TailNumber(word), ir)
          = <<[kind |-> "report", snr |-> word.snr, response |-> ir = 1]>>
    BY <2>4, <2>5, <2>6, Zenon DEF UnpackTail
  <2> QED BY <2>1, <2>2, <2>5, <2>7, Zenon
<1> QED BY <1>3, <1>4, <1>5, Zenon DEF TailNumber

LastOf(fields) == fields[Len(fields)]

\* The bits of a standard message, and what it takes to have them.
LEMMA StandardFields ==
    ASSUME NEW f, PackStandard(f) # NotPacked
    PROVE  LET p == PackStandard(f)
               tail == IF Len(f) = 2 THEN MaxGrid4 + 1 ELSE TailNumber(LastOf(f))
           IN  /\ Len(f) \in 2..4 /\ Pack28(f[1]) # Refused /\ Pack28(f[2]) # Refused
               /\ Len(f) # 2 => TailNumber(LastOf(f)) # Refused
               /\ p.type = "standard"
               /\ p.n28a = Bits(Pack28(f[1]), 28) /\ p.n28b = Bits(Pack28(f[2]), 28)
               /\ p.ipa = PortableBit(f[1]) /\ p.ipb = PortableBit(f[2])
               /\ p.i3 = (IF PortableBit(f[1]) + PortableBit(f[2]) > 0 THEN 2 ELSE 1)
               /\ p.ir = Response(f) /\ p.igrid4 = Bits(tail, 15)
  BY SMT DEF PackStandard, LastOf

\* The callsign fields and their bits show the two words they were made from.
LEMMA CallsShown ==
    ASSUME NEW word, IsWord(word), Pack28(word) # Refused,
           NEW i3, PortableBit(word) = 1 => i3 = 2
    PROVE  WithSuffix(Unpack28(Bits(Pack28(word), 28)), PortableBit(word), i3) = word
<1> DEFINE shown == Unpack28(Bits(Pack28(word), 28))
<1>1. shown = Bare(word)
  BY CallFieldsReturn
<1> HIDE DEF shown
<1>2. CASE word.kind # "call"
  BY <1>1, <1>2, Zenon DEF WithSuffix, Bare, shown
<1>3. CASE word.kind = "call"
  <2>1. word \in [kind : {"call"}, chars : Seq(0..36), portable : BOOLEAN]
    <3>1. word = Directed(word.suffix) => word.kind = "directed"
      BY DEF Directed
    <3>2. IsPlainWord(word)
      BY <1>3, <3>1, Zenon DEF IsWord
    <3> QED BY <1>3, <3>2, PlainWordKinds
  <2>2. shown = [kind |-> "call", chars |-> word.chars, portable |-> FALSE]
    BY <1>1, <1>3, Zenon DEF Bare
  <2>3. CASE word.portable
    <3>1. PortableBit(word) = 1 /\ i3 = 2
      BY <1>3, <2>3, Zenon DEF PortableBit
    <3>2. WithSuffix(shown, 1, 2) = [shown EXCEPT !.portable = TRUE]
      BY <2>2 DEF WithSuffix
    <3>3. [shown EXCEPT !.portable = TRUE] = word
      BY <2>1, <2>2, <2>3
    <3> QED BY <3>1, <3>2, <3>3 DEF shown
  <2>4. CASE ~word.portable
    <3>1. PortableBit(word) = 0
      BY <2>4, Zenon DEF PortableBit
    <3>2. WithSuffix(shown, 0, i3) = shown
      BY Zenon DEF WithSuffix
    <3>3. shown = word
      BY <2>1, <2>2, <2>4
    <3> QED BY <3>1, <3>2, <3>3 DEF shown
  <2> QED BY <2>3, <2>4
<1> QED BY <1>2, <1>3

\* What a standard message shows after its calls.
TailShown(f) == IF Len(f) = 2 THEN <<>>
                ELSE IF LastOf(f).kind = "grid" /\ Response(f) = 1 THEN <<R, LastOf(f)>>
                ELSE <<LastOf(f)>>

\* The tail of a standard message comes back, with the R of a grid or a report.
LEMMA TailReturns ==
    ASSUME NEW f, PackStandard(f) # NotPacked, Len(f) # 2 => IsWord(LastOf(f))
    PROVE  LET p == PackStandard(f)
           IN  /\ UnpackTail(p.igrid4, p.ir) = TailShown(f)
               /\ p.ir = Response(f) /\ p.igrid4 \in Nat \ {MaxGrid4}
               /\ Len(f) # 2 => /\ LastOf(f).kind # "directed"
                                /\ LastOf(f).kind = "grid" => p.igrid4 < MaxGrid4
                                /\ LastOf(f).kind # "grid" => p.igrid4 >= MaxGrid4 + 2
<1> DEFINE p == PackStandard(f)
           word == LastOf(f)
<1>1. /\ Len(f) # 2 => TailNumber(word) # Refused
      /\ p.ir = Response(f)
      /\ p.igrid4 = Bits(IF Len(f) = 2 THEN MaxGrid4 + 1 ELSE TailNumber(word), 15)
  BY StandardFields, Zenon
<1> HIDE DEF p
<1>2. CASE Len(f) = 2
  <2>1. Bits(MaxGrid4 + 1, 15) = MaxGrid4 + 1
    BY SMT DEF Bits, MaxGrid4
  <2>2. UnpackTail(MaxGrid4 + 1, p.ir) = <<>> /\ MaxGrid4 + 1 \in Nat \ {MaxGrid4}
    BY SMT DEF UnpackTail, MaxGrid4
  <2> QED BY <1>1, <1>2, <2>1, <2>2, Zenon DEF TailShown, p
<1>3. CASE Len(f) # 2
  <2>1. p.igrid4 = Bits(TailNumber(word), 15) /\ TailNumber(word) # Refused /\ IsWord(word)
    BY <1>1, <1>3, Zenon
  <2>2. Response(f) \in {0, 1} /\ (word.kind = "report" => (Response(f) = 1 <=> word.response))
    BY DEF Response, LastOf
  <2>3. /\ Below(TailNumber(word), Field15) /\ word.kind # "directed"
        /\ word.kind = "grid" => TailNumber(word) < MaxGrid4
        /\ word.kind # "grid" => TailNumber(word) >= MaxGrid4 + 2
        /\ UnpackTail(Bits(TailNumber(word), 15), Response(f))
             = IF word.kind = "grid" /\ Response(f) = 1 THEN <<R, word>> ELSE <<word>>
    <3> HIDE DEF word
    <3> QED BY <2>1, <2>2, TailsReturn, Zenon
  <2>4. p.igrid4 = TailNumber(word)
    BY <2>1, <2>3, BitsHold, Zenon
  <2>5. TailNumber(word) \in Nat \ {MaxGrid4}
    BY <2>3, SMT DEF Below, MaxGrid4
  <2> QED BY <1>1, <1>3, <2>1, <2>3, <2>4, <2>5, Zenon DEF TailShown, p
<1> QED BY <1>2, <1>3

\* What a standard message shows: its two calls and its tail; a directed CQ is
\* shown with nothing but a grid (unpackStandardMessage, unpack.go).
LEMMA StandardShown ==
    ASSUME NEW f, PackStandard(f) # NotPacked, UnpackStandard(PackStandard(f)).ok,
           IsWord(f[1]), IsWord(f[2]), Len(f) # 2 => IsWord(LastOf(f))
    PROVE  /\ UnpackStandard(PackStandard(f)).text = Shown(f[1]) \o Shown(f[2]) \o TailShown(f)
           /\ f[1].kind = "directed" /\ Len(f) # 2 => LastOf(f).kind = "grid" /\ Response(f) # 1
<1> DEFINE p == PackStandard(f)
           call1 == WithSuffix(Unpack28(p.n28a), p.ipa, p.i3)
           call2 == WithSuffix(Unpack28(p.n28b), p.ipb, p.i3)
           bad == /\ call1.kind = "directed"
                  /\ IF p.igrid4 < MaxGrid4 THEN p.ir = 1 ELSE p.igrid4 >= MaxGrid4 + 2
<1>1. call1 = f[1] /\ call2 = f[2]
  <2>1. /\ Pack28(f[1]) # Refused /\ Pack28(f[2]) # Refused
        /\ p.n28a = Bits(Pack28(f[1]), 28) /\ p.n28b = Bits(Pack28(f[2]), 28)
        /\ p.ipa = PortableBit(f[1]) /\ p.ipb = PortableBit(f[2])
        /\ p.i3 = (IF PortableBit(f[1]) + PortableBit(f[2]) > 0 THEN 2 ELSE 1)
    BY StandardFields, Zenon
  <2> HIDE DEF p
  <2>2. PortableBit(f[1]) = 1 \/ PortableBit(f[2]) = 1 => p.i3 = 2
    <3>1. PortableBit(f[1]) \in {0, 1} /\ PortableBit(f[2]) \in {0, 1}
      BY DEF PortableBit
    <3> QED BY <2>1, <3>1
  <2>3. \A word, i3 : IsWord(word) /\ Pack28(word) # Refused /\ (PortableBit(word) = 1 => i3 = 2)
          => WithSuffix(Unpack28(Bits(Pack28(word), 28)), PortableBit(word), i3) = word
    BY CallsShown, Zenon
  <2>4. WithSuffix(Unpack28(Bits(Pack28(f[1]), 28)), PortableBit(f[1]), p.i3) = f[1]
    BY <2>1, <2>2, <2>3, Zenon
  <2>5. WithSuffix(Unpack28(Bits(Pack28(f[2]), 28)), PortableBit(f[2]), p.i3) = f[2]
    BY <2>1, <2>2, <2>3, Zenon
  <2> QED BY <2>1, <2>4, <2>5
<1>2. /\ UnpackTail(p.igrid4, p.ir) = TailShown(f) /\ p.ir = Response(f)
      /\ Len(f) # 2 => /\ LastOf(f).kind = "grid" => p.igrid4 < MaxGrid4
                       /\ LastOf(f).kind # "grid" => p.igrid4 >= MaxGrid4 + 2
  BY TailReturns, Zenon
<1>3. UnpackStandard(p) = IF p.igrid4 = MaxGrid4 \/ bad THEN Failed
        ELSE Unpacked(Shown(call1) \o Shown(call2) \o UnpackTail(p.igrid4, p.ir))
  BY Zenon DEF UnpackStandard
<1>4. ~Failed.ok
  BY Zenon DEF Failed
<1>5. ~bad /\ UnpackStandard(p).text = Shown(call1) \o Shown(call2) \o UnpackTail(p.igrid4, p.ir)
  <2> HIDE DEF call1, call2, bad
  <2>1. ~(p.igrid4 = MaxGrid4 \/ bad)
    BY <1>3, <1>4, Zenon
  <2>2. \A text : Unpacked(text).text = text
    BY DEF Unpacked
  <2> QED BY <1>3, <2>1, <2>2, Zenon
<1> HIDE DEF p
<1>6. f[1].kind = "directed" /\ Len(f) # 2 => LastOf(f).kind = "grid" /\ Response(f) # 1
  <2> SUFFICES ASSUME f[1].kind = "directed", Len(f) # 2
               PROVE  LastOf(f).kind = "grid" /\ Response(f) # 1
    OBVIOUS
  <2>1. ~(IF p.igrid4 < MaxGrid4 THEN p.ir = 1 ELSE p.igrid4 >= MaxGrid4 + 2)
    BY <1>1, <1>5, Zenon
  <2>2. p.igrid4 >= MaxGrid4 + 2 => ~(p.igrid4 < MaxGrid4)
    <3>1. p.igrid4 \in Nat
      BY TailReturns DEF p
    <3> QED BY <3>1, SMT DEF MaxGrid4
  <2> QED BY <1>2, <2>1, <2>2, Zenon
<1> QED BY <1>1, <1>2, <1>5, <1>6, Zenon DEF p

\* A text without its last word but one.
LEMMA WithoutLastButOne ==
    /\ \A a, b, c, d : RemoveAt(<<a, b, c, d>>, 3) = <<a, b, d>>
    /\ \A a, b, c, d, e : RemoveAt(<<a, b, c, d, e>>, 4) = <<a, b, c, e>>
<1>1. ASSUME NEW a, NEW b, NEW c, NEW d PROVE RemoveAt(<<a, b, c, d>>, 3) = <<a, b, d>>
  <2>1. RemoveAt(<<a, b, c, d>>, 3) = SubSeq(<<a, b, c, d>>, 1, 2) \o SubSeq(<<a, b, c, d>>, 4, 4)
    <3>1. 3 - 1 = 2 /\ 3 + 1 = 4 /\ Len(<<a, b, c, d>>) = 4
      OBVIOUS
    <3> QED BY <3>1, Zenon DEF RemoveAt
  <2> DEFINE u == SubSeq(<<a, b, c, d>>, 1, 2)
             v == SubSeq(<<a, b, c, d>>, 4, 4)
  <2>2. u \in Seq({a, b}) /\ Len(u) = 2 /\ u[1] = a /\ u[2] = b
    OBVIOUS
  <2>3. v \in Seq({d}) /\ Len(v) = 1 /\ v[1] = d
    OBVIOUS
  <2> HIDE DEF u, v
  <2>4. u = <<a, b>> /\ v = <<d>>
    BY <2>2, <2>3, AsTuple
  <2>5. <<a, b>> \o <<d>> = <<a, b, d>>
    BY Joined, SMT
  <2> QED BY <2>1, <2>4, <2>5, Zenon DEF u, v
<1>2. ASSUME NEW a, NEW b, NEW c, NEW d, NEW e
      PROVE  RemoveAt(<<a, b, c, d, e>>, 4) = <<a, b, c, e>>
  <2>1. RemoveAt(<<a, b, c, d, e>>, 4)
          = SubSeq(<<a, b, c, d, e>>, 1, 3) \o SubSeq(<<a, b, c, d, e>>, 5, 5)
    <3>1. 4 - 1 = 3 /\ 4 + 1 = 5 /\ Len(<<a, b, c, d, e>>) = 5
      OBVIOUS
    <3> QED BY <3>1, Zenon DEF RemoveAt
  <2> DEFINE u == SubSeq(<<a, b, c, d, e>>, 1, 3)
             v == SubSeq(<<a, b, c, d, e>>, 5, 5)
  <2>2. u \in Seq({a, b, c}) /\ Len(u) = 3 /\ u[1] = a /\ u[2] = b /\ u[3] = c
    OBVIOUS
  <2>3. v \in Seq({e}) /\ Len(v) = 1 /\ v[1] = e
    OBVIOUS
  <2> HIDE DEF u, v
  <2>4. u = <<a, b, c>> /\ v = <<e>>
    BY <2>2, <2>3, AsTuple
  <2>5. <<a, b, c>> \o <<e>> = <<a, b, c, e>>
    BY Joined, SMT
  <2> QED BY <2>1, <2>4, <2>5, Zenon DEF u, v
<1> QED BY <1>1, <1>2, Zenon

\* The tokens are different words; none of them is directed, and R is none of them.
LEMMA Tokens ==
    /\ DE # CQ /\ QRZ # CQ /\ R # DE /\ R # QRZ /\ R # CQ /\ RRR # DE /\ RRR # QRZ /\ RRR # CQ
    /\ \A w \in {DE, QRZ, CQ, R, RRR} : w.kind = "letters"
<1>1. /\ DE.letters[3] = 4 /\ QRZ.letters[3] = 18 /\ CQ.letters[3] = 3 /\ R.letters[3] = 0
      /\ RRR.letters[3] = 18 /\ QRZ.letters[2] = 17 /\ RRR.letters[2] = 18
  BY SMT DEF DE, QRZ, CQ, R, RRR, Spell
<1>2. \A w \in {DE, QRZ, CQ, R, RRR} : w.kind = "letters"
  BY SMT DEF DE, QRZ, CQ, R, RRR, Spell
<1> QED BY <1>1, <1>2, SMT

\* What kinds of words a callsign field and the end of a standard message take.
LEMMA FieldKinds ==
    ASSUME NEW word, Pack28(word) # Refused
    PROVE  /\ word \in {DE, QRZ, CQ} \/ word.kind \in {"directed", "call"}
           /\ word.kind = "directed" => word.suffix.kind \in {"digits", "letters"}
<1>1. word \in {DE, QRZ, CQ} => word.kind = "letters"
  BY Tokens
<1> QED BY <1>1, Zenon DEF Pack28

\* The fields of a standard message are words, and show what was said: a directed
\* CQ is shown as the two words it was made of.
SaysJoined(w, f) ==
    /\ IsWord(f[1]) /\ IsWord(f[2]) /\ (Len(f) # 2 => IsWord(LastOf(f)))
    /\ Len(f) = 2 => Spoken(w) = Shown(f[1]) \o Shown(f[2])
    /\ Len(f) = 3 => Spoken(w) = (Shown(f[1]) \o Shown(f[2])) \o Shown(f[3])
    /\ Len(f) = 4 =>
         /\ Spoken(w) = ((Shown(f[1]) \o Shown(f[2])) \o Shown(f[3])) \o Shown(f[4])
         /\ Spoken(RemoveAt(w, Len(w) - 1)) = (Shown(f[1]) \o Shown(f[2])) \o Shown(f[4])
    /\ (\A i \in 2..Len(w) : w[i].kind # "directed") => f[2].kind # "directed"

LEMMA FieldsSay ==
    ASSUME NEW S, NEW w \in Seq(S), \A i \in 1..Len(w) : IsWord(w[i]),
           PackStandard(JoinCQ(w)) # NotPacked
    PROVE  SaysJoined(w, JoinCQ(w))
<1> DEFINE f == JoinCQ(w)
           Joins == Len(w) >= 3 /\ w[1] = CQ /\ Pack28(w[3]) # Refused
<1>1. Len(f) \in 2..4 /\ Pack28(f[1]) # Refused /\ Pack28(f[2]) # Refused
  BY StandardFields, Zenon
<1>2. Len(w) \in Nat
  BY LenProperties
<1>3. CASE ~Joins
  <2>1. f = w
    BY <1>3, Zenon DEF JoinCQ
  <2> HIDE DEF f
  <2>2. IsWord(w[1]) /\ IsWord(w[2]) /\ IsWord(w[Len(w)])
    BY <1>1, <2>1
  <2>3. Len(w) = 4 => Spoken(RemoveAt(w, Len(w) - 1)) = (Shown(w[1]) \o Shown(w[2])) \o Shown(w[4])
    <3> SUFFICES ASSUME Len(w) = 4
                 PROVE  Spoken(RemoveAt(w, 3)) = (Shown(w[1]) \o Shown(w[2])) \o Shown(w[4])
      BY 4 - 1 = 3, Zenon
    <3> DEFINE u == <<w[1], w[2], w[4]>>
    <3>1. w = <<w[1], w[2], w[3], w[4]>>
      BY AsTuple
    <3>2. RemoveAt(w, 3) = u
      BY <3>1, WithoutLastButOne, Zenon
    <3>3. u \in Seq({w[1], w[2], w[4]}) /\ Len(u) = 3 /\ u[1] = w[1] /\ u[2] = w[2] /\ u[3] = w[4]
      OBVIOUS
    <3> HIDE DEF u
    <3>4. Len(u) \in 2..5
      BY <3>3
    <3>5. Spoken(u) = (Shown(u[1]) \o Shown(u[2])) \o Shown(u[3])
      BY <3>3, <3>4, SpokenInOrder, Zenon
    <3> QED BY <3>2, <3>3, <3>5, Zenon
  <2>4. Len(w) \in 2..5 /\ 2 \in 2..Len(w)
    BY <1>1, <2>1
  <2>5. /\ Len(w) = 2 => Spoken(w) = Shown(w[1]) \o Shown(w[2])
        /\ Len(w) = 3 => Spoken(w) = (Shown(w[1]) \o Shown(w[2])) \o Shown(w[3])
        /\ Len(w) = 4 => Spoken(w) = ((Shown(w[1]) \o Shown(w[2])) \o Shown(w[3])) \o Shown(w[4])
    BY <2>4, SpokenInOrder, Zenon
  <2>6. SaysJoined(w, w)
    BY <2>2, <2>3, <2>4, <2>5, Zenon DEF SaysJoined, LastOf
  <2> QED BY <2>1, <2>6, Zenon DEF f
<1>4. CASE Joins
  <2> DEFINE d == Directed(w[2])
  <2>1. f = <<d>> \o SubSeq(w, 3, Len(w))
    BY <1>4, Zenon DEF JoinCQ
  <2>2. Len(w) \in 3..5 /\ Len(f) = Len(w) - 1
    <3> DEFINE rest == SubSeq(w, 3, Len(w))
    <3>1. rest \in Seq(S) /\ Len(rest) = Len(w) - 2
      BY <1>2, <1>4
    <3> HIDE DEF rest
    <3>2. Len(<<d>> \o rest) = Len(w) - 1
      <4>1. <<d>> \in Seq(S \cup {d}) /\ rest \in Seq(S \cup {d}) /\ Len(<<d>>) = 1
        BY <3>1
      <4> HIDE DEF d
      <4> QED BY <1>2, <3>1, <4>1, ConcatProperties
    <3>3. Len(f) = Len(w) - 1
      BY <2>1, <3>2, Zenon DEF rest
    <3> QED BY <1>1, <1>2, <1>4, <3>3
  <2> HIDE DEF d, f
  <2>3. /\ Len(w) = 3 => w = <<w[1], w[2], w[3]>> /\ f = <<d, w[3]>>
        /\ Len(w) = 4 => w = <<w[1], w[2], w[3], w[4]>> /\ f = <<d, w[3], w[4]>>
        /\ Len(w) = 5 => w = <<w[1], w[2], w[3], w[4], w[5]>> /\ f = <<d, w[3], w[4], w[5]>>
    <3>1. CASE Len(w) = 3
      <4>1. w = <<w[1], w[2], w[3]>>
        BY <3>1, AsTuple
      <4>2. SubSeq(<<w[1], w[2], w[3]>>, 3, 3) = <<w[3]>>
        BY FromThird, SMT
      <4>3. SubSeq(w, 3, 3) = <<w[3]>>
        BY <4>1, <4>2, Zenon
      <4>4. <<d>> \o <<w[3]>> = <<d, w[3]>>
        BY Joined, SMT
      <4>5. f = <<d, w[3]>>
        BY <2>1, <3>1, <4>3, <4>4, Zenon
      <4>6. Len(w) # 4 /\ Len(w) # 5
        BY <3>1
      <4> QED BY <3>1, <4>1, <4>5, <4>6, Zenon
    <3>2. CASE Len(w) = 4
      <4>1. w = <<w[1], w[2], w[3], w[4]>>
        BY <3>2, AsTuple
      <4>2. SubSeq(<<w[1], w[2], w[3], w[4]>>, 3, 4) = <<w[3], w[4]>>
        BY FromThird, SMT
      <4>3. SubSeq(w, 3, 4) = <<w[3], w[4]>>
        BY <4>1, <4>2, Zenon
      <4>4. <<d>> \o <<w[3], w[4]>> = <<d, w[3], w[4]>>
        BY Joined, SMT
      <4>5. f = <<d, w[3], w[4]>>
        BY <2>1, <3>2, <4>3, <4>4, Zenon
      <4>6. Len(w) # 3 /\ Len(w) # 5
        BY <3>2
      <4> QED BY <3>2, <4>1, <4>5, <4>6, Zenon
    <3>3. CASE Len(w) = 5
      <4>1. w = <<w[1], w[2], w[3], w[4], w[5]>>
        BY <3>3, AsTuple
      <4>2. SubSeq(<<w[1], w[2], w[3], w[4], w[5]>>, 3, 5) = <<w[3], w[4], w[5]>>
        BY FromThird, SMT
      <4>3. SubSeq(w, 3, 5) = <<w[3], w[4], w[5]>>
        BY <4>1, <4>2, Zenon
      <4>4. <<d>> \o <<w[3], w[4], w[5]>> = <<d, w[3], w[4], w[5]>>
        BY Joined, SMT
      <4>5. f = <<d, w[3], w[4], w[5]>>
        BY <2>1, <3>3, <4>3, <4>4, Zenon
      <4>6. Len(w) # 3 /\ Len(w) # 4
        BY <3>3
      <4> QED BY <3>3, <4>1, <4>5, <4>6, Zenon
    <3> QED BY <2>2, <3>1, <3>2, <3>3
  <2>4. f[1] = d /\ f[2] = w[3] /\ (Len(w) >= 4 => f[3] = w[4]) /\ (Len(w) = 5 => f[4] = w[5])
    BY <2>2, <2>3
  <2>5. w[2].kind # "directed" /\ IsPlainWord(w[2])
    <3>1. d.kind = "directed" /\ d.suffix = w[2]
      BY SMT DEF d, Directed
    <3>2. d \notin {DE, QRZ, CQ}
      BY <3>1, Tokens, SMT
    <3>3. w[2].kind \in {"digits", "letters"}
      BY <1>1, <2>4, <3>1, <3>2, FieldKinds, Zenon
    <3>4. w[2] = Directed(w[2].suffix) => w[2].kind = "directed"
      BY DEF Directed
    <3>5. IsWord(w[2])
      BY <2>2
    <3> QED BY <3>3, <3>4, <3>5 DEF IsWord
  <2>6. Shown(d) = Shown(w[1]) \o Shown(w[2])
    <3>1. d.kind = "directed" /\ d.suffix = w[2] /\ CQ.kind # "directed"
      BY Tokens, SMT DEF d, Directed
    <3>2. Shown(d) = <<CQ, w[2]>> /\ Shown(w[1]) = <<CQ>> /\ Shown(w[2]) = <<w[2]>>
      BY <1>4, <2>5, <3>1, Zenon DEF Shown
    <3> QED BY <3>2, Joined, Zenon
  <2>7. IsWord(d)
    <3>1. d = Directed(d.suffix) /\ d.suffix = w[2]
      BY DEF d, Directed
    <3> QED BY <2>5, <3>1, Zenon DEF IsWord
  <2>8. Len(w) = 5 => Spoken(RemoveAt(w, Len(w) - 1)) = (Shown(d) \o Shown(w[3])) \o Shown(w[5])
    <3> SUFFICES ASSUME Len(w) = 5
                 PROVE  Spoken(RemoveAt(w, 4)) = (Shown(d) \o Shown(w[3])) \o Shown(w[5])
      BY 5 - 1 = 4, Zenon
    <3> DEFINE u == <<w[1], w[2], w[3], w[5]>>
    <3>1. RemoveAt(w, 4) = u
      <4>1. w = <<w[1], w[2], w[3], w[4], w[5]>>
        BY <2>3, Zenon
      <4>2. RemoveAt(<<w[1], w[2], w[3], w[4], w[5]>>, 4) = u
        BY WithoutLastButOne, SMT
      <4> HIDE DEF u
      <4> QED BY <4>1, <4>2, Zenon
    <3>2. /\ u \in Seq({w[1], w[2], w[3], w[5]}) /\ Len(u) = 4
          /\ u[1] = w[1] /\ u[2] = w[2] /\ u[3] = w[3] /\ u[4] = w[5]
      OBVIOUS
    <3> HIDE DEF u
    <3>3. Len(u) \in 2..5
      BY <3>2
    <3>4. Spoken(u) = ((Shown(u[1]) \o Shown(u[2])) \o Shown(u[3])) \o Shown(u[4])
      BY <3>2, <3>3, SpokenInOrder, Zenon
    <3> QED BY <2>6, <3>1, <3>2, <3>4, Zenon
  <2>9. Len(w) \in 2..5
    BY <2>2
  <2>10. /\ Len(w) = 3 => Spoken(w) = Shown(d) \o Shown(w[3])
         /\ Len(w) = 4 => Spoken(w) = (Shown(d) \o Shown(w[3])) \o Shown(w[4])
         /\ Len(w) = 5 => Spoken(w) = ((Shown(d) \o Shown(w[3])) \o Shown(w[4])) \o Shown(w[5])
    BY <2>6, <2>9, SpokenInOrder, Zenon
  <2>11. /\ Len(f) = 2 <=> Len(w) = 3
         /\ Len(f) = 3 <=> Len(w) = 4
         /\ Len(f) = 4 <=> Len(w) = 5
         /\ LastOf(f) = w[Len(w)] /\ Len(w) >= 3 /\ (Len(w) = 5 => Len(w) >= 4) /\ (Len(w) = 4 => Len(w) >= 4)
    BY <2>2, <2>4 DEF LastOf
  <2>12. IsWord(w[3]) /\ IsWord(w[Len(w)]) /\ 3 \in 2..Len(w)
    BY <2>2
  <2>13. SaysJoined(w, f)
    BY <2>4, <2>7, <2>8, <2>10, <2>11, <2>12, Zenon DEF SaysJoined
  <2> QED BY <2>13 DEF f
<1> QED BY <1>3, <1>4, Zenon

\* The conditions of a Field Day message.
FieldDayWords(fields) ==
    LET exchange == fields[Len(fields) - 1]
    IN  /\ Len(fields) = 4 \/ (Len(fields) = 5 /\ fields[3] = R)
        /\ \A i \in 1..2 : fields[i].kind = "call" /\ ~fields[i].portable
        /\ exchange.kind = "exchange" /\ exchange.ntx \in 1..32 /\ exchange.class \in 0..7
        /\ {i \in DOMAIN Sections : Sections[i] = fields[Len(fields)]} # {}

\* The bits of a Field Day message.
FieldDayBits(p, fields) ==
    LET exchange == fields[Len(fields) - 1]
        intx == exchange.ntx - 1
    IN  /\ p.n3 = (IF intx >= 16 THEN 4 ELSE 3)
        /\ p.n28a = Bits(Pack28(fields[1]), 28) /\ p.n28b = Bits(Pack28(fields[2]), 28)
        /\ p.ir = Len(fields) - 4 /\ p.intx = Bits(IF intx >= 16 THEN intx - 16 ELSE intx, 4)
        /\ p.nclass = Bits(exchange.class, 3)
        /\ \E i \in DOMAIN Sections : Sections[i] = fields[Len(fields)] /\ p.isec = Bits(i, 7)

LEMMA FieldDayPacked ==
    ASSUME NEW f
    PROVE  /\ ~FieldDayWords(f) => PackFieldDay(f) = NotPacked
           /\ FieldDayWords(f) => /\ PackFieldDay(f) # NotPacked
                                  /\ PackFieldDay(f).type # "standard"
                                  /\ FieldDayBits(PackFieldDay(f), f)
<1> DEFINE exchange == f[Len(f) - 1]
           sections == {i \in DOMAIN Sections : Sections[i] = f[Len(f)]}
           intx == exchange.ntx - 1
           p == [type |-> "field day", n3 |-> IF intx >= 16 THEN 4 ELSE 3,
                 n28a |-> Bits(Pack28(f[1]), 28), n28b |-> Bits(Pack28(f[2]), 28),
                 ir |-> Len(f) - 4, intx |-> Bits(IF intx >= 16 THEN intx - 16 ELSE intx, 4),
                 nclass |-> Bits(exchange.class, 3),
                 isec |-> Bits(CHOOSE i \in sections : TRUE, 7)]
<1>1. PackFieldDay(f) = IF FieldDayWords(f) THEN p ELSE NotPacked
  BY Zenon DEF PackFieldDay, FieldDayWords
<1>2. p.type # "standard" /\ NotPacked.type # p.type
  BY Zenon DEF NotPacked
<1>3. /\ p.n3 = (IF intx >= 16 THEN 4 ELSE 3)
      /\ p.n28a = Bits(Pack28(f[1]), 28) /\ p.n28b = Bits(Pack28(f[2]), 28)
      /\ p.ir = Len(f) - 4 /\ p.intx = Bits(IF intx >= 16 THEN intx - 16 ELSE intx, 4)
      /\ p.nclass = Bits(exchange.class, 3)
      /\ p.isec = Bits(CHOOSE i \in sections : TRUE, 7)
  BY Zenon
<1> HIDE DEF p
<1>4. FieldDayWords(f) => FieldDayBits(p, f)
  <2> SUFFICES ASSUME FieldDayWords(f) PROVE FieldDayBits(p, f)
    OBVIOUS
  <2> DEFINE i == CHOOSE i \in sections : TRUE
  <2>1. i \in sections
    <3>1. sections # {}
      BY Zenon DEF FieldDayWords
    <3> HIDE DEF sections
    <3> QED BY <3>1, Zenon
  <2>2. i \in DOMAIN Sections /\ Sections[i] = f[Len(f)] /\ p.isec = Bits(i, 7)
    BY <1>3, <2>1, Zenon
  <2> HIDE DEF i
  <2> QED BY <1>3, <2>2, Zenon DEF FieldDayBits
<1> QED BY <1>1, <1>2, <1>4, Zenon

\* The word before the last comes back from its two fields.
LEMMA ExchangesReturn ==
    ASSUME NEW w, IsWord(w), w.kind = "exchange", w.ntx \in 1..32, w.class \in 0..7
    PROVE  LET intx == w.ntx - 1
               n == Bits(IF intx >= 16 THEN intx - 16 ELSE intx, 4)
               n3 == IF intx >= 16 THEN 4 ELSE 3
           IN  [kind |-> "exchange", class |-> Bits(w.class, 3),
                ntx |-> n + 1 + (IF n3 = 4 THEN 16 ELSE 0)] = w
<1> DEFINE intx == w.ntx - 1
           n == Bits(IF intx >= 16 THEN intx - 16 ELSE intx, 4)
           n3 == IF intx >= 16 THEN 4 ELSE 3
<1>1. w \in [kind : {"exchange"}, ntx : 0..99, class : 0..25]
  <2>1. w = Directed(w.suffix) => w.kind = "directed"
    BY DEF Directed
  <2>2. IsPlainWord(w)
    BY <2>1, Zenon DEF IsWord
  <2> QED BY <2>2, SMT DEF IsPlainWord
<1>2. n + 1 + (IF n3 = 4 THEN 16 ELSE 0) = w.ntx
  <2>1. \A m \in 0..15 : Bits(m, 4) = m
    BY SMT DEF Bits
  <2> QED BY <2>1, SMT
<1>3. Bits(w.class, 3) = w.class
  BY SMT DEF Bits
<1>4. w = [kind |-> "exchange", class |-> w.class, ntx |-> w.ntx]
  BY <1>1
<1> HIDE DEF n, n3, intx
<1> QED BY <1>2, <1>3, <1>4, Zenon DEF n, n3, intx

\* Every callsign has a field.
LEMMA CallsArePacked ==
    ASSUME NEW word, IsWord(word), word.kind = "call"
    PROVE  Pack28(word) # Refused
<1> DEFINE c == word.chars
<1>1. word \in [kind : {"call"}, chars : Seq(0..36), portable : BOOLEAN] /\ IsCallsign(c)
  <2>1. word = Directed(word.suffix) => word.kind = "directed"
    BY DEF Directed
  <2>2. IsPlainWord(word)
    BY <2>1, Zenon DEF IsWord
  <2> QED BY <2>2, PlainWordKinds
<1>2. c \in Seq(0..36)
  BY <1>1
<1>3. word \notin {DE, QRZ, CQ}
  BY Tokens, SMT
<1>4. Pack28(word) = NTokens + Max22 + PackChars(c)
  BY <1>3, SMT DEF Pack28
<1> HIDE DEF c
<1>5. Below(PackChars(c), CharsEnd)
  BY <1>1, <1>2, CharsReturn, Zenon
<1> QED BY <1>4, <1>5, SMT DEF Below, NTokens, Max22, Refused

\* A Field Day message comes back word for word (unpackFieldDay).
LEMMA FieldDayShown ==
    ASSUME NEW S, NEW w \in Seq(S), \A i \in 1..Len(w) : IsWord(w[i]), FieldDayWords(w),
           UnpackFieldDay(PackFieldDay(w)).ok
    PROVE  UnpackFieldDay(PackFieldDay(w)).text = w
<1> DEFINE p == PackFieldDay(w)
           exchange == w[Len(w) - 1]
           shown == [kind |-> "exchange", class |-> p.nclass,
                     ntx |-> p.intx + 1 + (IF p.n3 = 4 THEN 16 ELSE 0)]
           text == <<Unpack28(p.n28a), Unpack28(p.n28b)>>
                     \o (IF p.ir = 1 THEN <<R>> ELSE <<>>) \o <<shown, Sections[p.isec]>>
           Bad == p.isec \notin DOMAIN Sections \/ p.n28a <= 2 \/ p.n28b <= 2
<1>1. FieldDayBits(p, w)
  BY FieldDayPacked
<1>2. Len(w) \in {4, 5}
  BY DEF FieldDayWords
<1>3. UnpackFieldDay(p) = IF Bad THEN Failed ELSE Unpacked(text)
  BY Zenon DEF UnpackFieldDay
<1> HIDE DEF p
<1>4. UnpackFieldDay(p).text = text
  <2>1. ~Failed.ok
    BY Zenon DEF Failed
  <2>2. \A t : Unpacked(t).text = t
    BY DEF Unpacked
  <2> HIDE DEF Bad, text
  <2> QED BY <1>3, <2>1, <2>2, Zenon DEF p
<1>5. Unpack28(p.n28a) = w[1] /\ Unpack28(p.n28b) = w[2]
  <2>1. ASSUME NEW word, IsWord(word), word.kind = "call", ~word.portable
        PROVE  Unpack28(Bits(Pack28(word), 28)) = word
    <3>1. Pack28(word) # Refused
      BY <2>1, CallsArePacked
    <3>2. WithSuffix(Unpack28(Bits(Pack28(word), 28)), PortableBit(word), 2) = word
      BY <2>1, <3>1, CallsShown
    <3>3. PortableBit(word) = 0
      BY <2>1, Zenon DEF PortableBit
    <3> QED BY <3>2, <3>3, Zenon DEF WithSuffix
  <2>2. /\ w[1].kind = "call" /\ ~w[1].portable /\ IsWord(w[1])
        /\ w[2].kind = "call" /\ ~w[2].portable /\ IsWord(w[2])
    BY <1>2 DEF FieldDayWords
  <2>3. p.n28a = Bits(Pack28(w[1]), 28) /\ p.n28b = Bits(Pack28(w[2]), 28)
    BY <1>1, Zenon DEF FieldDayBits
  <2> QED BY <2>1, <2>2, <2>3, Zenon
<1>6. shown = exchange
  <2>1. /\ exchange.kind = "exchange" /\ exchange.ntx \in 1..32 /\ exchange.class \in 0..7
    BY Zenon DEF FieldDayWords
  <2>2. IsWord(exchange)
    <3>1. \A n \in {4, 5} : n - 1 \in 1..n
      OBVIOUS
    <3>2. Len(w) - 1 \in 1..Len(w)
      BY <1>2, <3>1, Zenon
    <3> QED BY <3>2, Zenon
  <2> HIDE DEF exchange
  <2>3. LET intx == exchange.ntx - 1
        IN  /\ p.n3 = (IF intx >= 16 THEN 4 ELSE 3)
            /\ p.intx = Bits(IF intx >= 16 THEN intx - 16 ELSE intx, 4)
            /\ p.nclass = Bits(exchange.class, 3)
    BY <1>1, Zenon DEF FieldDayBits, exchange
  <2>4. LET intx == exchange.ntx - 1
            n == Bits(IF intx >= 16 THEN intx - 16 ELSE intx, 4)
            n3 == IF intx >= 16 THEN 4 ELSE 3
        IN  [kind |-> "exchange", class |-> Bits(exchange.class, 3),
             ntx |-> n + 1 + (IF n3 = 4 THEN 16 ELSE 0)] = exchange
    BY <2>1, <2>2, ExchangesReturn, Zenon
  <2> QED BY <2>3, <2>4, Zenon
<1>7. Sections[p.isec] = w[Len(w)]
  <2>1. PICK i \in DOMAIN Sections : Sections[i] = w[Len(w)] /\ p.isec = Bits(i, 7)
    BY <1>1, Zenon DEF FieldDayBits
  <2>2. Bits(i, 7) = i
    <3>1. i \in 1..Len(Sections) /\ Len(Sections) \in Nat /\ Len(Sections) < 128
      BY WordsAssumption, SMT DEF WordsAssumption
    <3> QED BY <3>1, SMT DEF Bits
  <2> QED BY <2>1, <2>2, Zenon
<1>8. p.ir = Len(w) - 4
  BY <1>1, Zenon DEF FieldDayBits
<1> HIDE DEF shown, exchange
<1>9. CASE Len(w) = 4
  <2>1. p.ir # 1 /\ Len(w) - 1 = 3
    BY <1>8, <1>9
  <2>2. <<w[1], w[2]>> \o <<>> = <<w[1], w[2]>>
    OBVIOUS
  <2>3. <<w[1], w[2]>> \o <<w[3], w[4]>> = <<w[1], w[2], w[3], w[4]>>
    BY Joined, SMT
  <2>4. w = <<w[1], w[2], w[3], w[4]>>
    BY <1>9, AsTuple
  <2>5. text = (<<w[1], w[2]>> \o <<>>) \o <<w[3], w[4]>>
    BY <1>5, <1>6, <1>7, <1>9, <2>1, Zenon DEF exchange
  <2> HIDE DEF text
  <2> QED BY <1>4, <2>2, <2>3, <2>4, <2>5, Zenon DEF p
<1>10. CASE Len(w) = 5
  <2>1. p.ir = 1 /\ Len(w) - 1 = 4 /\ w[3] = R
    BY <1>8, <1>10 DEF FieldDayWords
  <2>2. <<w[1], w[2]>> \o <<w[3]>> = <<w[1], w[2], w[3]>>
    BY Joined, SMT
  <2>3. <<w[1], w[2], w[3]>> \o <<w[4], w[5]>> = <<w[1], w[2], w[3], w[4], w[5]>>
    BY Joined, SMT
  <2>4. w = <<w[1], w[2], w[3], w[4], w[5]>>
    BY <1>10, AsTuple
  <2>5. text = (<<w[1], w[2]>> \o <<w[3]>>) \o <<w[4], w[5]>>
    BY <1>5, <1>6, <1>7, <1>10, <2>1, Zenon DEF exchange
  <2> HIDE DEF text
  <2> QED BY <1>4, <2>2, <2>3, <2>4, <2>5, Zenon DEF p
<1> QED BY <1>2, <1>9, <1>10

\* What TextSaysWhatWasGiven says of an encoding's text.
SaysGiven(w, text) ==
    \/ text = Spoken(w)
    \/ Len(JoinCQ(w)) = 4 /\ text = Spoken(RemoveAt(w, Len(w) - 1))

LEMMA FieldDaySays ==
    ASSUME NEW S, NEW w \in Seq(S), FieldDayWords(w)
    PROVE  Spoken(w) = w
<1>1. \A i \in {1, 2} : w[i].kind # "directed"
  <2>1. \A i \in 1..2 : w[i].kind = "call"
    BY Zenon DEF FieldDayWords
  <2> QED BY <2>1
<1>2. Len(w) \in {4, 5} /\ (Len(w) = 5 => w[3] = R) /\ w[Len(w) - 1].kind = "exchange"
  <2>1. Len(w) = 4 \/ (Len(w) = 5 /\ w[3] = R)
    BY Zenon DEF FieldDayWords
  <2>2. w[Len(w) - 1].kind = "exchange"
    BY Zenon DEF FieldDayWords
  <2>3. Len(w) = 5 => ~(Len(w) = 4)
    OBVIOUS
  <2> QED BY <2>1, <2>2, <2>3, Zenon
<1>3. w[Len(w)].kind # "directed"
  <2>1. \E i \in DOMAIN Sections : Sections[i] = w[Len(w)]
    BY Zenon DEF FieldDayWords
  <2> QED BY <2>1, WordsAssumption, SMT DEF WordsAssumption
<1>4. R.kind # "directed"
  BY Tokens
<1>5. \A x : x.kind # "directed" => Shown(x) = <<x>>
  BY Zenon DEF Shown
<1>6. Shown(w[1]) = <<w[1]>> /\ Shown(w[2]) = <<w[2]>>
  BY <1>1, <1>5
<1>7. Len(w) \in 2..5
  BY <1>2
<1>8. CASE Len(w) = 4
  <2>1. 4 - 1 = 3 /\ w[3].kind # "directed"
    BY <1>2, <1>8
  <2>2. Shown(w[3]) = <<w[3]>> /\ Shown(w[4]) = <<w[4]>>
    BY <1>3, <1>5, <1>8, <2>1, Zenon
  <2>3. Spoken(w) = ((<<w[1]>> \o <<w[2]>>) \o <<w[3]>>) \o <<w[4]>>
    BY <1>6, <1>7, <1>8, <2>2, SpokenInOrder, Zenon
  <2>4. /\ <<w[1]>> \o <<w[2]>> = <<w[1], w[2]>>
        /\ <<w[1], w[2]>> \o <<w[3]>> = <<w[1], w[2], w[3]>>
        /\ <<w[1], w[2], w[3]>> \o <<w[4]>> = <<w[1], w[2], w[3], w[4]>>
    BY Joined, SMT
  <2>5. w = <<w[1], w[2], w[3], w[4]>>
    BY <1>8, AsTuple
  <2> QED BY <2>3, <2>4, <2>5, Zenon
<1>9. CASE Len(w) = 5
  <2>1. w[4].kind # "directed" /\ w[3] = R
    BY <1>2, <1>9
  <2>2. Shown(w[3]) = <<w[3]>> /\ Shown(w[4]) = <<w[4]>> /\ Shown(w[5]) = <<w[5]>>
    BY <1>3, <1>4, <1>5, <1>9, <2>1, Zenon
  <2>3. Spoken(w) = (((<<w[1]>> \o <<w[2]>>) \o <<w[3]>>) \o <<w[4]>>) \o <<w[5]>>
    BY <1>6, <1>7, <1>9, <2>2, SpokenInOrder, Zenon
  <2>4. /\ <<w[1]>> \o <<w[2]>> = <<w[1], w[2]>>
        /\ <<w[1], w[2]>> \o <<w[3]>> = <<w[1], w[2], w[3]>>
        /\ <<w[1], w[2], w[3]>> \o <<w[4]>> = <<w[1], w[2], w[3], w[4]>>
        /\ <<w[1], w[2], w[3], w[4]>> \o <<w[5]>> = <<w[1], w[2], w[3], w[4], w[5]>>
    BY Joined, SMT
  <2>5. w = <<w[1], w[2], w[3], w[4], w[5]>>
    BY <1>9, AsTuple
  <2> QED BY <2>3, <2>4, <2>5, Zenon
<1> QED BY <1>2, <1>8, <1>9

\* A standard message says its words, or all but the third of its four fields.
LEMMA StandardSays ==
    ASSUME NEW S, NEW w \in Seq(S), \A i \in 1..Len(w) : IsWord(w[i]),
           PackStandard(JoinCQ(w)) # NotPacked, UnpackStandard(PackStandard(JoinCQ(w))).ok
    PROVE  SaysGiven(w, UnpackStandard(PackStandard(JoinCQ(w))).text)
<1> DEFINE f == JoinCQ(w)
           head == Shown(f[1]) \o Shown(f[2])
           text == UnpackStandard(PackStandard(f)).text
<1>1. SaysJoined(w, f)
  BY FieldsSay
<1>2. Len(f) \in 2..4
  BY StandardFields, Zenon
<1>3. text = head \o TailShown(f)
  BY <1>1, StandardShown, Zenon DEF SaysJoined
<1>4. Len(f) # 2 => LastOf(f).kind # "directed"
  BY <1>1, TailReturns, Zenon DEF SaysJoined
<1>5. \E U : head \in Seq(U)
  <2> DEFINE U == {CQ, f[1], f[1].suffix, f[2], f[2].suffix}
  <2> HIDE DEF f
  <2>1. Shown(f[1]) \in Seq(U) /\ Shown(f[2]) \in Seq(U)
    <3>1. \A x, V : {CQ, x, x.suffix} \subseteq V => Shown(x) \in Seq(V)
      BY DEF Shown
    <3> QED BY <3>1, Zenon
  <2>2. head \in Seq(U)
    <3> HIDE DEF U
    <3> QED BY <2>1
  <2> QED BY <2>2, Zenon
<1> HIDE DEF f, head, text
<1>6. \A x : x.kind # "directed" => Shown(x) = <<x>>
  BY Zenon DEF Shown
<1>7. CASE Len(f) = 2
  <2>1. head \o <<>> = head
    BY <1>5, ConcatEmptySeq
  <2>2. text = Spoken(w)
    BY <1>1, <1>3, <1>7, <2>1, Zenon DEF SaysJoined, TailShown, head
  <2> QED BY <2>2, Zenon DEF SaysGiven, text, f
<1>8. CASE Len(f) = 3
  <2>1. LastOf(f) = f[3] /\ 3 # 2 /\ 3 # 4
    BY <1>8 DEF LastOf
  <2>2. ~(f[3].kind = "grid" /\ Response(f) = 1)
    <3>1. f[3].kind = "grid" => Response(f) = 0
      BY <1>8, SMT DEF Response
    <3> QED BY <3>1
  <2>3. TailShown(f) = Shown(f[3])
    BY <1>4, <1>6, <1>8, <2>1, <2>2, Zenon DEF TailShown
  <2>4. text = Spoken(w)
    BY <1>1, <1>3, <1>8, <2>3, Zenon DEF SaysJoined, head
  <2> QED BY <2>4, Zenon DEF SaysGiven, text, f
<1>9. CASE Len(f) = 4
  <2>1. LastOf(f) = f[4] /\ 4 # 2
    BY <1>9 DEF LastOf
  <2>2. Shown(f[4]) = <<f[4]>>
    BY <1>4, <1>6, <1>9, <2>1, Zenon
  <2>3. CASE f[4].kind = "grid" /\ Response(f) = 1
    <3>1. f[3] = R
      BY <1>9, <2>3, SMT DEF Response
    <3>2. Shown(f[3]) = <<R>>
      BY <1>6, <3>1, Tokens
    <3>3. TailShown(f) = <<R, f[4]>>
      BY <1>9, <2>1, <2>3, Zenon DEF TailShown
    <3>4. (head \o <<R>>) \o <<f[4]>> = head \o <<R, f[4]>>
      <4>1. PICK U : head \in Seq(U)
        BY <1>5
      <4> DEFINE V == U \cup {R, f[4]}
                 last == f[4]
      <4>2. head \in Seq(V) /\ <<R>> \in Seq(V) /\ <<last>> \in Seq(V)
        BY <4>1
      <4> HIDE DEF V, last
      <4>3. (head \o <<R>>) \o <<last>> = head \o (<<R>> \o <<last>>)
        <5>1. \A s, t, u \in Seq(V) : (s \o t) \o u = s \o (t \o u)
          BY ConcatAssociative
        <5> QED BY <4>2, <5>1, Zenon
      <4>4. <<R>> \o <<last>> = <<R, last>>
        BY Joined, SMT
      <4> QED BY <4>3, <4>4, Zenon DEF last
    <3>5. text = Spoken(w)
      BY <1>1, <1>3, <1>9, <2>2, <3>2, <3>3, <3>4, Zenon DEF SaysJoined, head
    <3> QED BY <3>5, Zenon DEF SaysGiven, text, f
  <2>4. CASE ~(f[4].kind = "grid" /\ Response(f) = 1)
    <3>1. TailShown(f) = Shown(f[4])
      BY <1>9, <2>1, <2>2, <2>4, Zenon DEF TailShown
    <3>2. text = Spoken(RemoveAt(w, Len(w) - 1))
      BY <1>1, <1>3, <1>9, <3>1, Zenon DEF SaysJoined, head
    <3> QED BY <1>9, <3>2, Zenon DEF SaysGiven, text, f
  <2> QED BY <2>3, <2>4, Zenon
<1> QED BY <1>2, <1>7, <1>8, <1>9

\* The words typed are words, and what was made of them is what the encoder makes.
Typed ==
    /\ \E S : words \in Seq(S)
    /\ \A i \in 1..Len(words) : IsWord(words[i])
    /\ Len(words) <= MaxWords
    /\ encoded = NotEncoded \/ encoded = EncodeStandardMessage(words)

\* Whatever way the words are packed, what is shown says what was given.
LEMMA EncodingSays ==
    ASSUME Typed, Succeeded
    PROVE  /\ Pack77(words) # NotPacked /\ Unpack77(Pack77(words)).ok
           /\ encoded.text = Unpack77(Pack77(words)).text
           /\ encoded = EncodeStandardMessage(words)
<1>1. NotEncoded.error # ""
  BY Zenon DEF NotEncoded, Encoded
<1>2. encoded = EncodeStandardMessage(words) /\ encoded.error = ""
  BY <1>1, Zenon DEF Typed, Succeeded
<1>3. \A e, p, t : Encoded(e, p, t).error = e /\ Encoded(e, p, t).text = t
  BY Zenon DEF Encoded
<1>4. "unsupported" # "" /\ "no round trip" # ""
  BY Zenon
<1> DEFINE payload == Pack77(words)
           canonical == Unpack77(payload)
<1>5. encoded = IF payload = NotPacked THEN Encoded("unsupported", NotPacked, <<>>)
                ELSE IF ~canonical.ok THEN Encoded("no round trip", NotPacked, <<>>)
                ELSE Encoded("", payload, canonical.text)
  BY <1>2, Zenon DEF EncodeStandardMessage
<1> HIDE DEF payload, canonical
<1>6. payload # NotPacked
  BY <1>2, <1>3, <1>4, <1>5, Zenon
<1>7. canonical.ok
  BY <1>2, <1>3, <1>4, <1>5, <1>6, Zenon
<1>8. encoded.text = canonical.text
  <2> DEFINE text == canonical.text
  <2>1. encoded = Encoded("", payload, text)
    BY <1>5, <1>6, <1>7, Zenon
  <2> HIDE DEF text
  <2>2. encoded.text = text
    BY <1>3, <2>1, Zenon
  <2> QED BY <2>2, Zenon DEF text
<1> QED BY <1>2, <1>6, <1>7, <1>8, Zenon DEF payload, canonical

LEMMA TypedAlways == Spec => []Typed
<1>1. Init => Typed
  <2> SUFFICES ASSUME Init PROVE Typed
    OBVIOUS
  <2>1. words = <<>> /\ encoded = NotEncoded
    BY DEF Init
  <2>2. words \in Seq({}) /\ Len(words) = 0
    BY <2>1
  <2>3. MaxWords \in Nat
    BY WordsAssumption, SMT DEF WordsAssumption
  <2>4. Len(words) <= MaxWords /\ \A i \in 1..Len(words) : IsWord(words[i])
    BY <2>2, <2>3
  <2> QED BY <2>1, <2>2, <2>4, Zenon DEF Typed
<1>2. Typed /\ [Next]_vars => Typed'
  <2> SUFFICES ASSUME Typed, [Next]_vars PROVE Typed'
    OBVIOUS
  <2>1. CASE AddWord
    <3>1. PICK word \in WordsAt[Len(words) + 1] : words' = Append(words, word)
      BY <2>1, Zenon DEF AddWord
    <3>2. encoded = NotEncoded /\ encoded' = NotEncoded /\ Len(words) < MaxWords
      BY <2>1, Zenon DEF AddWord
    <3>3. PICK S : words \in Seq(S)
      BY Zenon DEF Typed
    <3>4. /\ \A i \in 1..Len(words) : IsWord(words[i])
          /\ \A i \in 1..MaxWords : \A w \in WordsAt[i] : IsWord(w)
          /\ MaxWords \in Nat /\ Len(words) \in Nat
      BY <3>3, WordsAssumption, LenProperties, Zenon DEF Typed, WordsAssumption
    <3>5. IsWord(word)
      <4>1. Len(words) + 1 \in 1..MaxWords
        BY <3>2, <3>4
      <4> QED BY <3>1, <3>4, <4>1, Zenon
    <3>6. /\ words' \in Seq(S \cup {word}) /\ Len(words') = Len(words) + 1
          /\ \A i \in 1..Len(words) : words'[i] = words[i]
          /\ words'[Len(words) + 1] = word
      <4>1. words \in Seq(S \cup {word})
        BY <3>3
      <4> QED BY <3>1, <4>1, AppendProperties
    <3>7. \A i \in 1..Len(words') : i \in 1..Len(words) \/ i = Len(words) + 1
      BY <3>4, <3>6
    <3>8. \A i \in 1..Len(words') : IsWord(words'[i])
      BY <3>4, <3>5, <3>6, <3>7, Zenon
    <3>9. Len(words') <= MaxWords
      BY <3>2, <3>4, <3>6
    <3> QED BY <3>2, <3>6, <3>8, <3>9, Zenon DEF Typed
  <2>2. CASE Encode
    BY <2>2, Zenon DEF Encode, Typed
  <2>3. CASE UNCHANGED vars
    <3>1. words' = words /\ encoded' = encoded
      BY <2>3 DEF vars
    <3> QED BY <3>1, Zenon DEF Typed
  <2> QED BY <2>1, <2>2, <2>3 DEF Next
<1> QED BY <1>1, <1>2, PTL DEF Spec

\* What is sent says what was given, whatever words the caller typed.
THEOREM TextAlwaysSays == Spec => []TextSaysWhatWasGiven
<1>1. Typed => TextSaysWhatWasGiven
  <2> SUFFICES ASSUME Typed, Succeeded PROVE SaysGiven(words, encoded.text)
    BY Zenon DEF TextSaysWhatWasGiven, SaysGiven
  <2>1. /\ Pack77(words) # NotPacked /\ Unpack77(Pack77(words)).ok
        /\ encoded.text = Unpack77(Pack77(words)).text
    BY EncodingSays, Zenon
  <2>2. PICK S : words \in Seq(S)
    BY Zenon DEF Typed
  <2>3. \A i \in 1..Len(words) : IsWord(words[i])
    BY Zenon DEF Typed
  <2>4. CASE FieldDayWords(words)
    <3>1. /\ Pack77(words) = PackFieldDay(words)
          /\ Unpack77(Pack77(words)) = UnpackFieldDay(PackFieldDay(words))
      BY <2>4, FieldDayPacked, Zenon DEF Pack77, Unpack77
    <3>2. encoded.text = words
      BY <2>1, <2>2, <2>3, <2>4, <3>1, FieldDayShown, Zenon
    <3>3. Spoken(words) = words
      BY <2>2, <2>4, FieldDaySays, Zenon
    <3> QED BY <3>2, <3>3, Zenon DEF SaysGiven
  <2>5. CASE ~FieldDayWords(words)
    <3> DEFINE p == PackStandard(JoinCQ(words))
    <3>1. Pack77(words) = p
      BY <2>5, FieldDayPacked, Zenon DEF Pack77
    <3>2. p # NotPacked /\ p.type = "standard"
      BY <2>1, <3>1, StandardFields, Zenon
    <3>3. Unpack77(p) = UnpackStandard(p)
      BY <3>2, Zenon DEF Unpack77
    <3> HIDE DEF p
    <3>4. UnpackStandard(p).ok /\ encoded.text = UnpackStandard(p).text
      BY <2>1, <3>1, <3>3, Zenon
    <3> QED BY <2>2, <2>3, <3>2, <3>4, StandardSays, Zenon DEF p
  <2> QED BY <2>4, <2>5
<1> QED BY <1>1, TypedAlways, PTL

\* The bits of a standard message depend on its calls, its last word and the R.
LEMMA SameBits ==
    ASSUME NEW f, NEW g, Len(f) \in 2..4, Len(g) \in 2..4, Len(g) = 2 <=> Len(f) = 2,
           g[1] = f[1], g[2] = f[2], LastOf(g) = LastOf(f), Response(g) = Response(f)
    PROVE  PackStandard(g) = PackStandard(f)
<1>1. Len(g) = 2 => Len(f) = 2
  OBVIOUS
<1>2. Len(f) = 2 => Len(g) = 2
  OBVIOUS
<1> QED BY <1>1, <1>2, Zenon DEF PackStandard, LastOf

\* No word that ends a standard message goes into a callsign field, and R does not.
LEMMA TailsAreNoCalls ==
    /\ Pack28(R) = Refused
    /\ \A word : TailNumber(word) # Refused => Pack28(word) = Refused
<1>1. ASSUME NEW word, word \notin {DE, QRZ, CQ}, word.kind \notin {"directed", "call"}
      PROVE  Pack28(word) = Refused
  BY <1>1, FieldKinds, Zenon
<1>2. Pack28(R) = Refused
  BY <1>1, Tokens
<1>3. ASSUME NEW word, TailNumber(word) # Refused PROVE Pack28(word) = Refused
  <2>1. word.kind \in {"grid", "report"} \/ word \in {RRR, Final}
    BY <1>3, Zenon DEF TailNumber
  <2>2. Final.kind = "73"
    BY DEF Final
  <2>3. word.kind \in {"grid", "report", "73"} \/ word = RRR
    BY <2>1, <2>2, Zenon
  <2>4. word \notin {DE, QRZ, CQ} /\ word.kind \notin {"directed", "call"}
    BY <2>3, Tokens, SMT
  <2> QED BY <1>1, <2>4, Zenon
<1> QED BY <1>2, <1>3, Zenon

\* Whether the R of a text is the one of the fields it was made from.
LEMMA ResponseOfPair ==
    ASSUME NEW f, NEW g, Len(f) = 2, Len(g) = 2, LastOf(f) = LastOf(g)
    PROVE  Response(f) = Response(g)
<1> DEFINE c == LastOf(f)
           v == IF c.kind = "report" /\ c.response THEN 1 ELSE 0
<1>1. ~(Len(f) = 4) /\ ~(Len(g) = 4)
  BY SMT
<1>2. Response(f) = v
  BY <1>1, Zenon DEF Response, LastOf
<1>3. Response(g) = v
  BY <1>1, Zenon DEF Response, LastOf
<1> HIDE DEF v
<1> QED BY <1>2, <1>3, Zenon

LEMMA ResponseOfGrid ==
    ASSUME NEW t, Len(t) = 4, t[3] = R, t[4].kind = "grid"
    PROVE  Response(t) = 1
BY Zenon DEF Response

LEMMA ResponseOfThree ==
    ASSUME NEW f, NEW t, Len(t) = 3, t[3] = LastOf(f),
           ~(LastOf(f).kind = "grid" /\ Response(f) = 1)
    PROVE  Response(t) = Response(f)
<1> DEFINE c == LastOf(f)
           v == IF c.kind = "report" /\ c.response THEN 1 ELSE 0
<1>1. ~(Len(t) = 4) /\ t[Len(t)] = c
  BY SMT
<1>2. Response(t) = v
  BY <1>1, Zenon DEF Response
<1>3. Response(f) = v
  BY Zenon DEF Response, LastOf
<1> HIDE DEF v
<1> QED BY <1>2, <1>3, Zenon

\* Packing what a standard message shows gives the same bits.
LEMMA StandardStays ==
    ASSUME NEW S, NEW w \in Seq(S), \A i \in 1..Len(w) : IsWord(w[i]),
           \A i \in 2..Len(w) : w[i].kind # "directed",
           PackStandard(JoinCQ(w)) # NotPacked, UnpackStandard(PackStandard(JoinCQ(w))).ok
    PROVE  LET text == UnpackStandard(PackStandard(JoinCQ(w))).text
           IN  ~FieldDayWords(text) /\ PackStandard(JoinCQ(text)) = PackStandard(JoinCQ(w))
<1> DEFINE f == JoinCQ(w)
           text == UnpackStandard(PackStandard(f)).text
           a == f[1]
           b == f[2]
           c == LastOf(f)
<1>1. SaysJoined(w, f) /\ b.kind # "directed"
  BY FieldsSay, Zenon DEF SaysJoined
<1>2. /\ Len(f) \in 2..4 /\ Pack28(b) # Refused
      /\ Len(f) # 2 => TailNumber(c) # Refused
  BY StandardFields, Zenon
<1>3. text = (Shown(a) \o Shown(b)) \o TailShown(f)
  BY <1>1, StandardShown, Zenon DEF SaysJoined
<1>4. a.kind = "directed" /\ Len(f) # 2 => c.kind = "grid" /\ Response(f) # 1
  BY <1>1, StandardShown, Zenon DEF SaysJoined
<1>5. IsWord(a)
  BY <1>1, Zenon DEF SaysJoined
<1> HIDE DEF f, text, a, b, c
<1>6. Shown(b) = <<b>>
  BY <1>1, Zenon DEF Shown
<1>7. TailShown(f) = IF Len(f) = 2 THEN <<>>
                     ELSE IF c.kind = "grid" /\ Response(f) = 1 THEN <<R, c>> ELSE <<c>>
  BY Zenon DEF TailShown, c
<1>8. Len(f) = 2 => c = b
  BY Zenon DEF c, b, LastOf
<1>9. ASSUME NEW g, Len(g) = 2 <=> Len(f) = 2, Len(g) \in 2..4,
             g[1] = a, g[2] = b, LastOf(g) = c, Response(g) = Response(f)
      PROVE  PackStandard(g) = PackStandard(f)
  BY <1>2, <1>9, SameBits, Zenon DEF a, b, c
<1>10. CASE a.kind # "directed"
  <2>1. Shown(a) \o Shown(b) = <<a, b>>
    <3>1. Shown(a) = <<a>>
      BY <1>10, Zenon DEF Shown
    <3>2. <<a>> \o <<b>> = <<a, b>>
      BY Joined, SMT
    <3> QED BY <1>6, <3>1, <3>2, Zenon
  <2>2. CASE Len(f) = 2
    <3> DEFINE t == <<a, b>>
    <3>1. t \o <<>> = t /\ Len(t) = 2 /\ t[1] = a /\ t[2] = b
      OBVIOUS
    <3> HIDE DEF t
    <3>2. text = t
      BY <1>3, <1>7, <2>1, <2>2, <3>1, Zenon DEF t
    <3>3. JoinCQ(t) = t /\ ~FieldDayWords(t)
      BY <3>1 DEF JoinCQ, FieldDayWords
    <3>4. LastOf(t) = c /\ Len(t) \in 2..4
      BY <1>8, <2>2, <3>1 DEF LastOf
    <3>5. Response(t) = Response(f)
      BY <2>2, <3>1, <3>4, ResponseOfPair, Zenon DEF c
    <3>6. PackStandard(t) = PackStandard(f)
      BY <1>9, <2>2, <3>1, <3>5, <3>4, Zenon
    <3> QED BY <3>2, <3>3, <3>6, Zenon DEF text, f
  <2>3. CASE Len(f) # 2 /\ c.kind = "grid" /\ Response(f) = 1
    <3> DEFINE t == <<a, b, R, c>>
    <3>1. <<a, b>> \o <<R, c>> = t
      BY Joined, SMT
    <3>2. Len(t) = 4 /\ t[1] = a /\ t[2] = b /\ t[3] = R /\ t[4] = c
      OBVIOUS
    <3> HIDE DEF t
    <3>3. Response(t) = 1
      BY <2>3, <3>2, ResponseOfGrid, Zenon
    <3>4. text = t
      BY <1>3, <1>7, <2>1, <2>3, <3>1, Zenon
    <3>5. JoinCQ(t) = t
      BY <3>2, TailsAreNoCalls, Zenon DEF JoinCQ
    <3>6. ~FieldDayWords(t)
      <4>1. R.kind # "exchange" /\ Len(t) - 1 = 3
        BY <3>2, Tokens
      <4> QED BY <3>2, <4>1, Zenon DEF FieldDayWords
    <3>7. LastOf(t) = c /\ Len(t) \in 2..4 /\ Len(t) # 2
      BY <3>2 DEF LastOf
    <3>8. PackStandard(t) = PackStandard(f)
      BY <1>9, <2>3, <3>3, <3>2, <3>7, Zenon
    <3> QED BY <3>4, <3>5, <3>6, <3>8, Zenon DEF text, f
  <2>4. CASE Len(f) # 2 /\ ~(c.kind = "grid" /\ Response(f) = 1)
    <3> DEFINE t == <<a, b, c>>
    <3>1. <<a, b>> \o <<c>> = t
      BY Joined, SMT
    <3>2. Len(t) = 3 /\ t[1] = a /\ t[2] = b /\ t[3] = c
      OBVIOUS
    <3> HIDE DEF t
    <3>3. Response(t) = Response(f)
      BY <2>4, <3>2, ResponseOfThree, Zenon DEF c
    <3>4. text = t
      BY <1>3, <1>7, <2>1, <2>4, <3>1, Zenon
    <3>5. JoinCQ(t) = t
      BY <1>2, <2>4, <3>2, TailsAreNoCalls, Zenon DEF JoinCQ
    <3>6. ~FieldDayWords(t)
      BY <3>2 DEF FieldDayWords
    <3>7. LastOf(t) = c /\ Len(t) \in 2..4 /\ Len(t) # 2
      BY <3>2 DEF LastOf
    <3>8. PackStandard(t) = PackStandard(f)
      BY <1>9, <2>4, <3>3, <3>2, <3>7, Zenon
    <3> QED BY <3>4, <3>5, <3>6, <3>8, Zenon DEF text, f
  <2> QED BY <2>2, <2>3, <2>4, Zenon
<1>11. CASE a.kind = "directed"
  <2> DEFINE s == a.suffix
  <2>1. Shown(a) \o Shown(b) = <<CQ, s, b>>
    <3>1. Shown(a) = <<CQ, s>>
      BY <1>11, Zenon DEF Shown
    <3>2. <<CQ, s>> \o <<b>> = <<CQ, s, b>>
      BY Joined, SMT
    <3> QED BY <1>6, <3>1, <3>2, Zenon
  <2>2. a = Directed(s)
    <3>1. IsPlainWord(a) => a.kind # "directed"
      BY PlainWordKinds, Zenon
    <3> QED BY <1>5, <1>11, <3>1, Zenon DEF IsWord
  <2> HIDE DEF s
  <2>3. CASE Len(f) = 2
    <3> DEFINE t == <<CQ, s, b>>
               g == <<a, b>>
    <3>1. t \o <<>> = t /\ Len(t) = 3 /\ t[1] = CQ /\ t[2] = s /\ t[3] = b /\ Len(t) >= 3
      OBVIOUS
    <3>2. SubSeq(t, 3, 3) = <<b>> /\ <<a>> \o <<b>> = g
      BY FromThird, Joined, SMT
    <3>3. Len(g) = 2 /\ g[1] = a /\ g[2] = b
      OBVIOUS
    <3> HIDE DEF t, g
    <3>4. text = t
      BY <1>3, <1>7, <2>1, <2>3, <3>1, Zenon DEF t
    <3>5. JoinCQ(t) = g
      BY <1>2, <2>2, <3>1, <3>2, Zenon DEF JoinCQ
    <3>6. ~FieldDayWords(t)
      BY <3>1 DEF FieldDayWords
    <3>7. LastOf(g) = c /\ Len(g) \in 2..4
      BY <1>8, <2>3, <3>3 DEF LastOf
    <3>8. Response(g) = Response(f)
      BY <2>3, <3>3, <3>7, ResponseOfPair, Zenon DEF c
    <3>9. PackStandard(g) = PackStandard(f)
      BY <1>9, <2>3, <3>3, <3>7, <3>8, Zenon
    <3> QED BY <3>4, <3>5, <3>6, <3>9, Zenon DEF text, f
  <2>4. CASE Len(f) # 2
    <3> DEFINE t == <<CQ, s, b, c>>
               g == <<a, b, c>>
    <3>1. Len(t) = 4 /\ t[1] = CQ /\ t[2] = s /\ t[3] = b /\ t[4] = c /\ Len(t) >= 3
      OBVIOUS
    <3>2. <<CQ, s, b>> \o <<c>> = t
      BY Joined, SMT
    <3>3. SubSeq(t, 3, 4) = <<b, c>>
      BY FromThird, SMT
    <3>4. <<a>> \o <<b, c>> = g
      BY Joined, SMT
    <3>5. Len(g) = 3 /\ g[1] = a /\ g[2] = b /\ g[3] = c
      OBVIOUS
    <3> HIDE DEF t, g
    <3>6. Response(g) = Response(f)
      BY <1>4, <1>11, <2>4, <3>5, ResponseOfThree, Zenon DEF c
    <3>7. text = t
      BY <1>3, <1>4, <1>7, <1>11, <2>1, <2>4, <3>2, Zenon
    <3>8. JoinCQ(t) = g
      BY <1>2, <2>2, <3>1, <3>3, <3>4, Zenon DEF JoinCQ
    <3>9. ~FieldDayWords(t)
      <4>1. CQ.kind # "call" /\ 1 \in 1..2
        BY Tokens
      <4> QED BY <3>1, <4>1, Zenon DEF FieldDayWords
    <3>10. LastOf(g) = c /\ Len(g) \in 2..4 /\ Len(g) # 2
      BY <3>5 DEF LastOf
    <3>11. PackStandard(g) = PackStandard(f)
      BY <1>9, <2>4, <3>5, <3>6, <3>10, Zenon
    <3> QED BY <3>7, <3>8, <3>9, <3>11, Zenon DEF text, f
  <2> QED BY <2>3, <2>4, Zenon
<1> QED BY <1>10, <1>11, Zenon

\* The canonical text encodes to the same payload and the same text again, whatever
\* was typed (EncodeStandardMessage, encode.go).
THEOREM CanonicalTextAlwaysStays == Spec => []CanonicalTextStays
<1>1. Typed => CanonicalTextStays
  <2> SUFFICES ASSUME Typed, Succeeded, \A i \in 2..Len(words) : words[i].kind # "directed"
               PROVE  EncodeStandardMessage(encoded.text) = encoded
    BY Zenon DEF CanonicalTextStays
  <2>1. /\ Pack77(words) # NotPacked /\ Unpack77(Pack77(words)).ok
        /\ encoded.text = Unpack77(Pack77(words)).text
        /\ encoded = EncodeStandardMessage(words)
    BY EncodingSays, Zenon
  <2>2. PICK S : words \in Seq(S)
    BY Zenon DEF Typed
  <2>3. \A i \in 1..Len(words) : IsWord(words[i])
    BY Zenon DEF Typed
  <2>4. CASE FieldDayWords(words)
    <3>1. /\ Pack77(words) = PackFieldDay(words)
          /\ Unpack77(Pack77(words)) = UnpackFieldDay(PackFieldDay(words))
      BY <2>4, FieldDayPacked, Zenon DEF Pack77, Unpack77
    <3>2. encoded.text = words
      BY <2>1, <2>2, <2>3, <2>4, <3>1, FieldDayShown, Zenon
    <3> QED BY <2>1, <3>2, Zenon
  <2>5. CASE ~FieldDayWords(words)
    <3> DEFINE p == PackStandard(JoinCQ(words))
               text == encoded.text
    <3>1. Pack77(words) = p
      BY <2>5, FieldDayPacked, Zenon DEF Pack77
    <3>2. p # NotPacked /\ p.type = "standard"
      BY <2>1, <3>1, StandardFields, Zenon
    <3>3. Unpack77(p) = UnpackStandard(p)
      BY <3>2, Zenon DEF Unpack77
    <3> HIDE DEF p
    <3>4. UnpackStandard(p).ok /\ text = UnpackStandard(p).text
      BY <2>1, <3>1, <3>3, Zenon
    <3>5. ~FieldDayWords(text) /\ PackStandard(JoinCQ(text)) = p
      BY <2>2, <2>3, <3>2, <3>4, StandardStays, Zenon DEF p
    <3> HIDE DEF text
    <3>6. Pack77(text) = Pack77(words)
      BY <3>1, <3>5, FieldDayPacked, Zenon DEF Pack77
    <3>7. EncodeStandardMessage(text) = EncodeStandardMessage(words)
      BY <3>6, Zenon DEF EncodeStandardMessage
    <3> QED BY <2>1, <3>7, Zenon DEF text
  <2> QED BY <2>4, <2>5
<1> QED BY <1>1, TypedAlways, PTL
=============================================================================
