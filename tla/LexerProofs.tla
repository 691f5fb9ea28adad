----------------------------- MODULE LexerProofs -----------------------------
(* Proofs about get_next_token in module Lexer, for every text: what it cuts off
   is a piece of the text, nothing but blanks and comments is passed over, and
   every token brings the lexer nearer to the end of the text. *)
EXTENDS Tokens, SequenceTheorems, FiniteSetTheorems, TLAPS, WellFoundedInduction

(* A text, and what is left of it. *)
Text == Seq(STRING)

LEMMA Least ==
  ASSUME NEW T \in SUBSET Int, NEW b \in Nat, T # {}, \A j \in T : b <= j
  PROVE  Min(T) \in T /\ \A j \in T : Min(T) <= j
<1> DEFINE less == OpToRel(<, Nat)
<1>1. \A a, c \in Nat : <<a, c>> \in less <=> a < c
  BY DEF OpToRel
<1>2. IsWellFoundedOn(less, Nat)
  BY NatLessThanWellFounded
<1> HIDE DEF less
<1>3. T \in SUBSET Nat
  OBVIOUS
<1>4. PICK m \in T : \A j \in T : <<j, m>> \notin less
  BY <1>2, <1>3, WFMin
<1>5. \A j \in T : m <= j
  <2> TAKE j \in T
  <2>1. m \in Nat /\ j \in Nat
    BY <1>3
  <2>2. ~(j < m)
    BY <2>1, <1>1, <1>4
  <2> QED BY <2>1, <2>2
<1> QED BY <1>5 DEF Min

(* A loop over the characters of S passes characters of S only and stops at the
   first other one or at the end. *)
LEMMA RunEnds ==
  ASSUME NEW s \in Text, NEW S, NEW i \in 1 .. Len(s) + 1
  PROVE  /\ RunEnd(s, i, S) \in i .. Len(s) + 1
         /\ \A j \in i .. RunEnd(s, i, S) - 1 : s[j] \in S
         /\ RunEnd(s, i, S) \in DOMAIN s => s[RunEnd(s, i, S)] \notin S
<1> DEFINE T == {j \in i .. Len(s) + 1 : j \in DOMAIN s => s[j] \notin S}
<1>1. Len(s) \in Nat /\ DOMAIN s = 1 .. Len(s)
  BY DEF Text
<1>2. Len(s) + 1 \in T /\ T \in SUBSET Int /\ \A j \in T : i <= j
  BY <1>1
<1>4. RunEnd(s, i, S) = Min(T)
  BY DEF RunEnd
<1> HIDE DEF T
<1>3. Min(T) \in T /\ \A j \in T : Min(T) <= j
  <2>1. i \in Nat /\ T # {}
    BY <1>1, <1>2
  <2> QED BY <1>2, <2>1, Least
<1> USE DEF T
<1> DEFINE e == Min(T)
<1>5. e \in i .. Len(s) + 1 /\ (e \in DOMAIN s => s[e] \notin S)
  BY <1>3
<1>6. ASSUME NEW j \in i .. e - 1 PROVE s[j] \in S
  <2>1. j \in Int /\ e \in Int /\ ~(e <= j)
    BY <1>1, <1>5
  <2>2. j \notin T
    BY <1>3, <2>1
  <2>3. j \in i .. Len(s) + 1
    BY <1>1, <1>5, <2>1
  <2> QED BY <2>2, <2>3
<1> QED BY <1>4, <1>5, <1>6

-----------------------------------------------------------------------------
(* What a token is cut off: the first n characters of a text, and the text
   behind the first m. *)
Piece(t, s, n, m) == t.text = SubSeq(s, 1, n) /\ t.rest = Drop(s, m)

LEMMA CutPiece ==
  ASSUME NEW k, NEW s, NEW n
  PROVE  Cut(k, s, n).kind = k /\ Piece(Cut(k, s, n), s, n, n)
BY DEF Cut, Piece

(* The lexer stops behind the first character, within the text. *)
Behind(s) == {n \in Nat : 1 <= n /\ n <= Len(s)}

LEMMA NumberBehind ==
  ASSUME NEW s \in Text, NEW i \in 1 .. Len(s), Digit(s[i])
  PROVE  /\ NumberEnd(s, i) - 1 \in i .. Len(s)
         /\ NumberEnd(s, i) \in Int
         /\ NumberEnd(s, i) \in DOMAIN s => s[NumberEnd(s, i)] \notin Numerals
<1>0. Len(s) \in Nat /\ DOMAIN s = 1 .. Len(s)
  BY DEF Text
<1> DEFINE a == RunEnd(s, i, Numerals)
           b == FractionEnd(s, a)
           c == ExponentEnd(s, b)
<1>1. a \in i + 1 .. Len(s) + 1 /\ (a \in DOMAIN s => s[a] \notin Numerals)
  <2>1. /\ a \in i .. Len(s) + 1
        /\ a \in DOMAIN s => s[a] \notin Numerals
    BY <1>0, RunEnds
  <2>2. a # i
    BY <1>0, <2>1 DEF Digit
  <2> QED BY <1>0, <2>1, <2>2
<1> HIDE DEF a
<1>2. b \in a .. Len(s) + 1 /\ (b \in DOMAIN s => s[b] \notin Numerals)
  <2>1. CASE At(s, a) # "."
    BY <1>0, <1>1, <2>1 DEF FractionEnd
  <2>2. CASE At(s, a) = "."
    <3>1. a \in 1 .. Len(s)
      BY <1>0, <2>2 DEF At
    <3>2. a + 1 \in 1 .. Len(s) + 1
      BY <1>0, <3>1
    <3> DEFINE r == RunEnd(s, a + 1, Numerals)
    <3>3. r \in a + 1 .. Len(s) + 1 /\ (r \in DOMAIN s => s[r] \notin Numerals)
      BY <3>2, RunEnds
    <3>4. b = r
      BY <2>2 DEF FractionEnd
    <3> HIDE DEF r, b
    <3> QED BY <1>0, <3>1, <3>3, <3>4
  <2> QED BY <2>1, <2>2
<1> HIDE DEF b
<1>3. c \in b .. Len(s) + 1 /\ (c \in DOMAIN s => s[c] \notin Numerals)
  <2>1. CASE At(s, b) # "e"
    BY <1>0, <1>1, <1>2, <2>1 DEF ExponentEnd
  <2>2. CASE At(s, b) = "e"
    <3> DEFINE d == IF At(s, b + 1) \in {"+", "-"} THEN b + 2 ELSE b + 1
    <3>1. b \in 1 .. Len(s)
      BY <1>0, <2>2 DEF At
    <3>2. d \in b + 1 .. Len(s) + 1
      BY <1>0, <3>1 DEF At
    <3> HIDE DEF d
    <3>3. d \in 1 .. Len(s) + 1
      BY <1>0, <3>1, <3>2
    <3> DEFINE r == RunEnd(s, d, Numerals)
    <3>4. r \in d .. Len(s) + 1 /\ (r \in DOMAIN s => s[r] \notin Numerals)
      BY <3>3, RunEnds
    <3>5. c = r
      BY <2>2 DEF ExponentEnd, d
    <3> HIDE DEF r, c
    <3> QED BY <1>0, <3>1, <3>2, <3>4, <3>5
  <2> QED BY <2>1, <2>2
<1> HIDE DEF c
<1>4. NumberEnd(s, i) = c
  BY DEF NumberEnd, a, b, c
<1> QED BY <1>0, <1>1, <1>2, <1>3, <1>4


(* A token, and where it was cut off: only behind a "-" is the next character
   lost as well. *)
CutOff(t, s) ==
  /\ t.kind # "EOF"
  /\ \E n \in Behind(s), m \in Nat :
       /\ Piece(t, s, n, m)
       /\ m = n \/ (m = n + 1 /\ t.kind = "-")

LEMMA PieceCutOff ==
  ASSUME NEW s \in Text, NEW k, k # "EOF", NEW n \in Behind(s)
  PROVE  CutOff(Cut(k, s, n), s)
<1>1. n \in Nat
  BY DEF Behind
<1> QED BY <1>1, CutPiece DEF CutOff

LEMMA WordCutOff ==
  ASSUME NEW s \in Text, s # <<>>, s[1] \in Letters
  PROVE  CutOff(Word(s), s)
<1>1. Len(s) \in Nat /\ Len(s) >= 1 /\ DOMAIN s = 1 .. Len(s)
  BY DEF Text
<1> DEFINE e == RunEnd(s, 1, Letters \cup Numerals)
           k == IF e - 1 = 1 /\ s[1] \in Keywords THEN s[1] ELSE "ID"
<1>2. /\ e \in 1 .. Len(s) + 1
      /\ e \in DOMAIN s => s[e] \notin Letters \cup Numerals
  BY <1>1, RunEnds
<1>3. e # 1
  BY <1>1, <1>2
<1>4. e - 1 \in Behind(s)
  BY <1>1, <1>2, <1>3 DEF Behind
<1>5. k # "EOF"
  BY DEF Keywords
<1>6. Word(s) = Cut(k, s, e - 1)
  BY DEF Word
<1> HIDE DEF e, k
<1> QED BY <1>4, <1>5, <1>6, PieceCutOff

LEMMA MinusCutOff ==
  ASSUME NEW s \in Text, s # <<>>
  PROVE  CutOff(Minus(s), s)
<1>1. Len(s) \in Nat /\ Len(s) >= 1 /\ DOMAIN s = 1 .. Len(s)
  BY DEF Text
<1>2. CASE Digit(At(s, 2)) /\ 2 \in DOMAIN s
  <2>1. NumberEnd(s, 2) - 1 \in 2 .. Len(s)
    BY <1>1, <1>2, NumberBehind DEF At
  <2>2. NumberEnd(s, 2) - 1 \in Behind(s)
    BY <1>1, <2>1 DEF Behind
  <2>3. Minus(s) = Cut("NUM", s, NumberEnd(s, 2) - 1)
    BY <1>2 DEF Minus
  <2> QED BY <2>2, <2>3, PieceCutOff
<1>3. CASE Digit(At(s, 2)) /\ 2 \notin DOMAIN s
  <2>1. At(s, 2) = "EOF"
    BY <1>3 DEF At
  <2> QED BY <1>3, <2>1, LexerAssumption DEF Digit, LexerAssumption
<1>4. CASE ~Digit(At(s, 2))
  <2>1. Minus(s) = [Cut("-", s, 1) EXCEPT !.rest = Drop(s, 2)]
    BY <1>4 DEF Minus
  <2>2. Minus(s).kind = "-" /\ Piece(Minus(s), s, 1, 2)
    BY <2>1 DEF Cut, Piece
  <2>3. 1 \in Behind(s)
    BY <1>1 DEF Behind
  <2> QED BY <2>2, <2>3 DEF CutOff
<1> QED BY <1>2, <1>3, <1>4

LEMMA PairCutOff ==
  ASSUME NEW s \in Text, s # <<>>, s[1] \in DOMAIN PairOf
  PROVE  CutOff(Pair(s), s)
<1>1. Len(s) \in Nat /\ Len(s) >= 1 /\ DOMAIN s = 1 .. Len(s)
  BY DEF Text
<1>2. s[1] \in {"!", "&", "|", "=", ">", "<"}
  BY DEF PairOf
<1>3. CASE At(s, 2) = SecondOf(s[1])
  <2>1. SecondOf(s[1]) # "EOF"
    BY <1>2 DEF SecondOf
  <2>2. 2 \in Behind(s)
    BY <1>1, <1>3, <2>1 DEF At, Behind
  <2>3. PairOf[s[1]] # "EOF"
    BY <1>2 DEF PairOf
  <2>4. Pair(s) = Cut(PairOf[s[1]], s, 2)
    BY <1>3 DEF Pair
  <2> QED BY <2>2, <2>3, <2>4, PieceCutOff
<1>4. CASE At(s, 2) # SecondOf(s[1])
  <2> DEFINE k == IF s[1] \in {"&", "|"} THEN "UNKNOWN" ELSE s[1]
  <2>1. k # "EOF" /\ 1 \in Behind(s)
    BY <1>1, <1>2 DEF Behind
  <2>2. Pair(s) = Cut(k, s, 1)
    BY <1>4 DEF Pair
  <2> HIDE DEF k
  <2> QED BY <2>1, <2>2, PieceCutOff
<1> QED BY <1>3, <1>4

LEMMA StringCut ==
  ASSUME NEW s \in Text, s # <<>>, String(s).kind # "ENDLESS"
  PROVE  \E n \in Behind(s) : \E k \in {"UNKNOWN", "STR"} : String(s) = Cut(k, s, n)
<1>1. Len(s) \in Nat /\ DOMAIN s = 1 .. Len(s)
  BY DEF Text
<1> DEFINE ends == {j \in 2 .. Len(s) : s[j] = "\n" \/ (j > 2 /\ s[j] = "\"")}
           n == Min(ends)
<1>2. /\ ends = {} => String(s) = Endless
      /\ ends # {} => String(s) = IF s[n] = "\n" THEN Cut("UNKNOWN", s, n - 1)
                                  ELSE Cut("STR", s, n)
  BY DEF String
<1>3. ends # {}
  <2>1. Endless.kind = "ENDLESS"
    BY DEF Endless
  <2> HIDE DEF ends
  <2> QED BY <1>2, <2>1
<1>5. ends \subseteq 2 .. Len(s)
  OBVIOUS
<1> HIDE DEF ends
<1>4. ends \in SUBSET Int /\ \A j \in ends : 2 <= j
  BY <1>1, <1>5
<1>6. n \in 2 .. Len(s)
  BY <1>3, <1>4, <1>5, Least
<1> HIDE DEF n
<1>7. n \in Behind(s) /\ n - 1 \in Behind(s)
  BY <1>1, <1>6 DEF Behind
<1> QED BY <1>2, <1>3, <1>7

LEMMA StringCutOff ==
  ASSUME NEW s \in Text, s # <<>>, String(s).kind # "ENDLESS"
  PROVE  CutOff(String(s), s)
BY StringCut, PieceCutOff

(* Token has an arm for every text. *)
LEMMA TokenCutOff ==
  ASSUME NEW s \in Text, s # <<>>, Token(s).kind # "ENDLESS"
  PROVE  CutOff(Token(s), s)
<1>1. Len(s) \in Nat /\ Len(s) >= 1 /\ DOMAIN s = 1 .. Len(s)
  BY DEF Text
<1>2. \/ s[1] \in Letters /\ Token(s) = Word(s)
      \/ Digit(s[1]) /\ Token(s) = Cut("NUM", s, NumberEnd(s, 1) - 1)
      \/ Token(s) = Minus(s)
      \/ Token(s) = String(s)
      \/ Token(s) = Cut("EOL", s, 1)
      \/ s[1] \in Singles /\ Token(s) = Cut(s[1], s, 1)
      \/ s[1] \in DOMAIN PairOf /\ Token(s) = Pair(s)
      \/ Token(s) = Cut("UNKNOWN", s, 1)
  BY DEF Token, Digit
<1>3. 1 \in Behind(s)
  BY <1>1 DEF Behind
<1>4. CASE Digit(s[1]) /\ Token(s) = Cut("NUM", s, NumberEnd(s, 1) - 1)
  <2>1. NumberEnd(s, 1) - 1 \in 1 .. Len(s)
    BY <1>1, <1>4, NumberBehind
  <2>2. NumberEnd(s, 1) - 1 \in Behind(s)
    BY <1>1, <2>1 DEF Behind
  <2> QED BY <1>4, <2>2, PieceCutOff
<1>5. CASE s[1] \in Singles /\ Token(s) = Cut(s[1], s, 1)
  <2>1. s[1] # "EOF"
    BY <1>5 DEF Singles
  <2> QED BY <1>3, <1>5, <2>1, PieceCutOff
<1>6. CASE Token(s) = Cut("EOL", s, 1) \/ Token(s) = Cut("UNKNOWN", s, 1)
  BY <1>3, <1>6, PieceCutOff
<1> QED BY <1>2, <1>4, <1>5, <1>6, WordCutOff, MinusCutOff, StringCutOff, PairCutOff


-----------------------------------------------------------------------------
(* Parts of a text and of what is left of it. *)
LEMMA SubSeqEqual ==
  ASSUME NEW s \in Text, NEW u \in Text, NEW i \in Int, NEW j \in Int, NEW m \in Int,
         NEW n \in Int, j - i = n - m, 1 <= i, 1 <= m, j <= Len(s), n <= Len(u),
         \A k \in 1 .. j - i + 1 : s[i + k - 1] = u[m + k - 1]
  PROVE  SubSeq(s, i, j) = SubSeq(u, m, n)
<1>1. /\ Len(s) \in Nat /\ DOMAIN s = 1 .. Len(s) /\ \A k \in 1 .. Len(s) : s[k] \in STRING
      /\ Len(u) \in Nat /\ DOMAIN u = 1 .. Len(u) /\ \A k \in 1 .. Len(u) : u[k] \in STRING
  BY DEF Text
<1>2. /\ \A k \in i .. j : s[k] \in STRING
      /\ \A k \in m .. n : u[k] \in STRING
  BY <1>1
<1>3. /\ SubSeq(s, i, j) \in Seq(STRING)
      /\ Len(SubSeq(s, i, j)) = IF i <= j THEN j - i + 1 ELSE 0
      /\ \A k \in 1 .. j - i + 1 : SubSeq(s, i, j)[k] = s[i + k - 1]
  BY <1>2, SubSeqProperties
<1>4. /\ SubSeq(u, m, n) \in Seq(STRING)
      /\ Len(SubSeq(u, m, n)) = IF m <= n THEN n - m + 1 ELSE 0
      /\ \A k \in 1 .. n - m + 1 : SubSeq(u, m, n)[k] = u[m + k - 1]
  BY <1>2, SubSeqProperties
<1>5. Len(SubSeq(s, i, j)) = Len(SubSeq(u, m, n))
  BY <1>3, <1>4
<1>6. \A k \in 1 .. Len(SubSeq(s, i, j)) : SubSeq(s, i, j)[k] = SubSeq(u, m, n)[k]
  <2>1. 1 .. Len(SubSeq(s, i, j)) = 1 .. j - i + 1 /\ j - i + 1 = n - m + 1
    BY <1>3
  <2> QED BY <1>3, <1>4, <2>1
<1> QED BY <1>3, <1>4, <1>5, <1>6, SeqEqual

LEMMA DropFacts ==
  ASSUME NEW s \in Text, NEW k \in 0 .. Len(s)
  PROVE  /\ Drop(s, k) \in Text
         /\ Len(Drop(s, k)) = Len(s) - k
         /\ \A i \in 1 .. Len(s) - k : Drop(s, k)[i] = s[k + i]
<1>1. Len(s) \in Nat /\ \A i \in 1 .. Len(s) : s[i] \in STRING
  BY DEF Text
<1>2. \A i \in k + 1 .. Len(s) : s[i] \in STRING
  BY <1>1
<1>3. /\ Drop(s, k) \in Seq(STRING)
      /\ Len(Drop(s, k)) = IF k + 1 <= Len(s) THEN Len(s) - (k + 1) + 1 ELSE 0
      /\ \A i \in 1 .. Len(s) - (k + 1) + 1 : Drop(s, k)[i] = s[k + 1 + i - 1]
  <2>1. k + 1 \in Int /\ Len(s) \in Int
    BY <1>1
  <2> QED BY <1>2, <2>1, SubSeqProperties DEF Drop
<1>5. Len(Drop(s, k)) = Len(s) - k
  BY <1>1, <1>3
<1>6. ASSUME NEW i \in 1 .. Len(s) - k PROVE Drop(s, k)[i] = s[k + i]
  <2>1. i \in 1 .. Len(s) - (k + 1) + 1 /\ k + 1 + i - 1 = k + i
    BY <1>1
  <2> QED BY <1>3, <2>1
<1> QED BY <1>3, <1>5, <1>6 DEF Text

LEMMA SubSeqOfDrop ==
  ASSUME NEW s \in Text, NEW k \in 0 .. Len(s), NEW m \in Nat, NEW n \in Nat,
         1 <= m, n <= Len(s) - k
  PROVE  SubSeq(Drop(s, k), m, n) = SubSeq(s, k + m, k + n)
<1>1. Len(s) \in Nat
  BY DEF Text
<1>2. /\ Drop(s, k) \in Text /\ Len(Drop(s, k)) = Len(s) - k
      /\ \A i \in 1 .. Len(s) - k : Drop(s, k)[i] = s[k + i]
  BY DropFacts
<1>3. /\ m \in Int /\ n \in Int /\ k + m \in Int /\ k + n \in Int /\ n - m = (k + n) - (k + m)
      /\ 1 <= k + m /\ k + n <= Len(s)
  BY <1>1
<1>4. \A i \in 1 .. n - m + 1 : Drop(s, k)[m + i - 1] = s[k + m + i - 1]
  <2> TAKE i \in 1 .. n - m + 1
  <2>1. m + i - 1 \in 1 .. Len(s) - k /\ k + (m + i - 1) = k + m + i - 1
    BY <1>1
  <2> QED BY <1>2, <2>1
<1> HIDE DEF Drop
<1> QED BY <1>2, <1>3, <1>4, SubSeqEqual

LEMMA DropOfDrop ==
  ASSUME NEW s \in Text, NEW k \in 0 .. Len(s), NEW m \in Nat, m <= Len(s) - k
  PROVE  Drop(Drop(s, k), m) = Drop(s, k + m)
<1>1. Len(s) \in Nat /\ Len(Drop(s, k)) = Len(s) - k
  BY DropFacts DEF Text
<1>2. SubSeq(Drop(s, k), m + 1, Len(s) - k) = SubSeq(s, k + (m + 1), k + (Len(s) - k))
  <2>1. m + 1 \in Nat /\ Len(s) - k \in Nat /\ 1 <= m + 1 /\ Len(s) - k <= Len(s) - k
    BY <1>1
  <2> HIDE DEF Drop
  <2> QED BY <2>1, SubSeqOfDrop
<1>3. k + (m + 1) = k + m + 1 /\ k + (Len(s) - k) = Len(s)
  BY <1>1
<1> QED BY <1>1, <1>2, <1>3 DEF Drop


-----------------------------------------------------------------------------

LEMMA DropAll ==
  ASSUME NEW s \in Text, NEW m \in Nat, m >= Len(s)
  PROVE  Drop(s, m) = <<>>
<1>1. Len(s) \in Nat
  BY DEF Text
<1>2. m + 1 \in Int /\ Len(s) \in Int /\ Len(s) < m + 1
  BY <1>1
<1> QED BY <1>2, SubSeqEmpty DEF Drop

(* Where get_next_token looks for a token: behind the first i characters. *)
Begins(file, i) ==
  /\ i \in 0 .. Len(file)
  /\ \A k \in 1 .. i : Passed(file, k)
  /\ NextToken(file) = Token(Drop(file, i))

LEMMA SkipBlanksDrops ==
  ASSUME NEW file \in Text
  PROVE  \E i \in 0 .. Len(file) :
           /\ SkipBlanks(file) = Drop(file, i)
           /\ \A k \in 1 .. i : file[k] = " "
           /\ i < Len(file) => file[i + 1] # " "
<1>1. Len(file) \in Nat /\ 1 \in 1 .. Len(file) + 1 /\ DOMAIN file = 1 .. Len(file)
  BY DEF Text
<1> DEFINE e == RunEnd(file, 1, {" "})
<1>2. /\ e \in 1 .. Len(file) + 1 /\ \A j \in 1 .. e - 1 : file[j] \in {" "}
      /\ e \in DOMAIN file => file[e] \notin {" "}
  BY <1>1, RunEnds
<1>3. SkipBlanks(file) = Drop(file, e - 1)
  BY DEF SkipBlanks
<1> HIDE DEF e
<1>4. e - 1 \in 0 .. Len(file)
  <2>1. e \in 1 .. Len(file) + 1 /\ Len(file) \in Nat
    BY <1>1, <1>2
  <2> QED BY <2>1
<1>5. e - 1 < Len(file) => file[e - 1 + 1] # " "
  <2>0. e \in 1 .. Len(file) + 1
    BY <1>2
  <2>1. e \in Int /\ 1 <= e /\ e - 1 + 1 = e
    BY ONLY <1>1, <2>0
  <2>2. e - 1 < Len(file) => e \in DOMAIN file
    BY ONLY <1>1, <2>1
  <2> QED BY <1>2, <2>1, <2>2
<1> QED BY <1>2, <1>3, <1>4, <1>5

LEMMA SkipCommentDrops ==
  ASSUME NEW s \in Text
  PROVE  \E i \in 0 .. Len(s) :
           /\ SkipComment(s) = Drop(s, i)
           /\ \A k \in 1 .. i : s[k] # "\n"
           /\ i < Len(s) => s[i + 1] = "\n"
<1>1. Len(s) \in Nat /\ 1 \in 1 .. Len(s) + 1 /\ DOMAIN s = 1 .. Len(s)
  BY DEF Text
<1> DEFINE S == ToSet(s) \ {"\n"}
           e == RunEnd(s, 1, S)
<1>2. /\ e \in 1 .. Len(s) + 1 /\ \A j \in 1 .. e - 1 : s[j] \in S
      /\ e \in DOMAIN s => s[e] \notin S
  BY <1>1, RunEnds
<1>3. SkipComment(s) = Drop(s, e - 1)
  BY DEF SkipComment
<1>4. e \in DOMAIN s => s[e] = "\n"
  <2>1. e \in DOMAIN s => s[e] \in ToSet(s)
    BY DEF ToSet
  <2> HIDE DEF e
  <2> QED BY <1>2, <2>1
<1>5. \A j \in 1 .. e - 1 : s[j] # "\n"
  BY <1>2
<1> HIDE DEF e
<1>6. e - 1 \in 0 .. Len(s) /\ (e - 1 < Len(s) => e \in DOMAIN s) /\ (e - 1) + 1 = e
  BY <1>1, <1>2
<1> QED BY <1>3, <1>4, <1>5, <1>6

(* Where it stops looking: at the end, before a character that is no blank and
   begins no comment, or at the end of a line behind a comment. *)
Starts(file, i) ==
  /\ i \in 0 .. Len(file)
  /\ \A k \in 1 .. i : Passed(file, k)
  /\ i = Len(file) => NextToken(file) \in {Token(Drop(file, i)), Endless}
  /\ i < Len(file) =>
       /\ NextToken(file) = Token(Drop(file, i))
       /\ \/ file[i + 1] \notin {" ", "#"} /\ \A k \in 1 .. i : file[k] = " "
          \/ file[i + 1] = "\n"

LEMMA NextTokenStarts ==
  ASSUME NEW file \in Text
  PROVE  \E i : Starts(file, i)
<1>1. Len(file) \in Nat /\ DOMAIN file = 1 .. Len(file)
  BY DEF Text
<1> DEFINE s == SkipBlanks(file)
<1>2. PICK i \in 0 .. Len(file) :
        /\ s = Drop(file, i) /\ \A k \in 1 .. i : file[k] = " "
        /\ i < Len(file) => file[i + 1] # " "
  BY SkipBlanksDrops
<1>3. /\ s \in Text /\ Len(s) = Len(file) - i
      /\ \A j \in 1 .. Len(file) - i : s[j] = file[i + j]
  BY <1>2, DropFacts
<1>4. DOMAIN s = 1 .. Len(file) - i
  <2> HIDE DEF s
  <2> QED BY <1>3 DEF Text
<1>5. i < Len(file) => At(s, 1) = file[i + 1]
  <2> HIDE DEF s
  <2>1. i < Len(file) => 1 \in 1 .. Len(file) - i
    BY <1>1
  <2> QED BY <1>3, <1>4, <2>1 DEF At
<1>6. CASE At(s, 1) # "#"
  <2>1. NextToken(file) = Token(s)
    BY <1>6 DEF NextToken
  <2>2. \A k \in 1 .. i : Passed(file, k)
    BY <1>2 DEF Passed
  <2> HIDE DEF s
  <2> QED BY <1>2, <1>5, <1>6, <2>1, <2>2 DEF Starts
<1>7. CASE At(s, 1) = "#"
  <2> DEFINE t == SkipComment(s)
  <2>1. NextToken(file) = IF t = <<>> THEN Endless ELSE Token(t)
    BY <1>7 DEF NextToken
  <2> HIDE DEF s
  <2>4. PICK j \in 0 .. Len(s) :
          /\ t = Drop(s, j) /\ \A k \in 1 .. j : s[k] # "\n"
          /\ j < Len(s) => s[j + 1] = "\n"
    BY <1>3, SkipCommentDrops
  <2> HIDE DEF t
  <2>5. t = Drop(file, i + j) /\ i + j \in 0 .. Len(file)
    <3>1. j \in Nat /\ j <= Len(file) - i
      BY <1>1, <1>3
    <3>2. Drop(Drop(file, i), j) = Drop(file, i + j)
      BY <3>1, DropOfDrop
    <3>3. i + j \in 0 .. Len(file)
      BY <1>1, <3>1
    <3>4. t = Drop(Drop(file, i), j)
      BY <1>2, <2>4
    <3> QED BY <3>2, <3>3, <3>4
  <2>6. 1 \in DOMAIN s /\ s[1] = "#"
    BY <1>7 DEF At
  <2>7. Len(file) - i >= 1 /\ file[i + 1] = "#"
    BY <1>1, <1>3, <1>4, <2>6
  <2>8. \A m \in i + 1 .. i + j : file[m] # "\n"
    <3> TAKE m \in i + 1 .. i + j
    <3>1. m - i \in 1 .. j /\ m - i \in 1 .. Len(file) - i /\ i + (m - i) = m
      BY <1>1, <1>3
    <3> QED BY <1>3, <2>4, <3>1
  <2>9. ASSUME NEW k \in 1 .. i + j PROVE Passed(file, k)
    <3>1. CASE k <= i
      <4>1. k \in 1 .. i
        BY <3>1
      <4>2. file[k] = " "
        BY <1>2, <4>1
      <4> QED BY <4>2 DEF Passed
    <3>2. CASE k > i
      <4>1. i + 1 \in 1 .. k /\ \A m \in i + 1 .. k : m \in i + 1 .. i + j
        BY <1>1, <3>2
      <4> QED BY <2>7, <2>8, <4>1 DEF Passed
    <3> QED BY <3>1, <3>2
  <2>10. CASE i + j = Len(file)
    <3>1. t = <<>>
      BY <1>1, <2>5, <2>10, DropAll
    <3>2. NextToken(file) = Endless /\ ~(i + j < Len(file))
      BY <1>1, <2>1, <2>10, <3>1
    <3> QED BY <2>5, <2>9, <3>2 DEF Starts
  <2>11. CASE i + j # Len(file)
    <3>1. i + j < Len(file) /\ j < Len(s) /\ j + 1 \in 1 .. Len(file) - i
      <4>1. i \in Int /\ j \in Int /\ 0 <= j /\ Len(s) = Len(file) - i
        BY <1>1, <1>3
      <4>3. i + j \in 0 .. Len(file) /\ Len(file) \in Int
        BY <1>1, <2>5
      <4>2. i + j < Len(file)
        BY ONLY <4>3, <2>11
      <4> QED BY ONLY <1>1, <4>1, <4>2
    <3>2. file[i + j + 1] = "\n"
      <4>1. s[j + 1] = "\n" /\ s[j + 1] = file[i + (j + 1)]
        BY <1>3, <2>4, <3>1
      <4>2. i + (j + 1) = i + j + 1
        BY <1>1, <1>3
      <4> QED BY <4>1, <4>2
    <3>3. t # <<>>
      <4>1. Len(Drop(file, i + j)) = Len(file) - (i + j)
        BY <2>5, DropFacts
      <4>2. Len(t) # 0
        BY <1>1, <2>5, <3>1, <4>1
      <4> QED BY <4>2
    <3> QED BY <2>1, <2>5, <2>9, <3>1, <3>2, <3>3 DEF Starts
  <2> QED BY <2>10, <2>11
<1> QED BY <1>6, <1>7

LEMMA TokenBegins ==
  ASSUME NEW file \in Text, NextToken(file).kind # "ENDLESS"
  PROVE  \E i : Begins(file, i)
<1>1. PICK i : Starts(file, i)
  BY NextTokenStarts
<1>2. i \in 0 .. Len(file) /\ (i = Len(file) \/ i < Len(file))
  <2>1. i \in 0 .. Len(file)
    BY <1>1 DEF Starts
  <2>2. Len(file) \in Nat
    BY DEF Text
  <2> QED BY <2>1, <2>2
<1>3. NextToken(file) # Endless
  BY DEF Endless
<1> QED BY <1>1, <1>2, <1>3 DEF Starts, Begins

(* What NextToken cut off: the characters from i + 1 to j. *)
Reads(file, i, j) ==
  LET t == NextToken(file)
  IN /\ i \in 0 .. Len(file) /\ j \in i .. Len(file)
     /\ \A k \in 1 .. i : Passed(file, k)
     /\ t.text = SubSeq(file, i + 1, j)
     /\ t.rest = Drop(file, j) \/ (t.kind = "-" /\ t.rest = Drop(file, j + 1))
     /\ (t.kind = "EOF") <=> (i = Len(file))
     /\ t.kind # "EOF" => i < j


LEMMA NextTokenReads ==
  ASSUME NEW file \in Text, NextToken(file).kind # "ENDLESS"
  PROVE  \E i, j : Reads(file, i, j)
<1>1. Len(file) \in Nat
  BY DEF Text
<1>2. PICK i : Begins(file, i)
  BY TokenBegins
<1>3. /\ i \in 0 .. Len(file) /\ \A k \in 1 .. i : Passed(file, k)
      /\ NextToken(file) = Token(Drop(file, i))
  BY <1>2 DEF Begins
<1> DEFINE s == Drop(file, i)
           t == NextToken(file)
<1>4. s \in Text /\ Len(s) = Len(file) - i
  BY <1>3, DropFacts
<1>5. t = Token(s) /\ t.kind # "ENDLESS"
  BY <1>3
<1>6. CASE s = <<>>
  <2>1. Token(s) = Cut("EOF", s, 0)
    BY <1>6 DEF Token
  <2>2. t.kind = "EOF" /\ t.text = SubSeq(s, 1, 0) /\ t.rest = Drop(s, 0)
    BY <1>5, <2>1, CutPiece DEF Piece
  <2>3. i = Len(file)
    <3>1. Len(s) = 0
      BY <1>6
    <3> HIDE DEF s
    <3> QED BY <1>1, <1>3, <1>4, <3>1
  <2>4. SubSeq(s, 1, 0) = <<>> /\ SubSeq(file, i + 1, i) = <<>>
    <3>1. 0 < 1 /\ i \in Int /\ i < i + 1 /\ i + 1 \in Int
      BY <1>3
    <3> QED BY <3>1, SubSeqEmpty
  <2>5. Drop(s, 0) = <<>> /\ Drop(file, i) = <<>>
    <3>1. 0 \in Nat /\ 0 >= Len(s)
      BY <1>6
    <3> QED BY <1>4, <1>6, <3>1, DropAll
  <2>6. i \in i .. Len(file)
    BY <1>1, <1>3
  <2> QED BY <1>3, <2>2, <2>3, <2>4, <2>5, <2>6 DEF Reads
<1>7. CASE s # <<>>
  <2> HIDE DEF s, t
  <2>1. CutOff(t, s)
    BY <1>4, <1>5, <1>7, TokenCutOff
  <2>2. PICK n \in Behind(s), m \in Nat :
          Piece(t, s, n, m) /\ (m = n \/ (m = n + 1 /\ t.kind = "-"))
    BY <2>1 DEF CutOff
  <2>10. t.text = SubSeq(s, 1, n) /\ t.rest = Drop(s, m)
    <3>1. Piece(t, s, n, m)
      BY <2>2
    <3> QED BY ONLY <3>1 DEF Piece
  <2>3. t.kind # "EOF"
    BY <2>1 DEF CutOff
  <2>4. n \in Nat /\ 1 <= n /\ n <= Len(file) - i
    BY <1>4, <2>2 DEF Behind
  <2>5. t.text = SubSeq(file, i + 1, i + n)
    <3>1. t.text = SubSeq(s, 1, n)
      BY <2>10
    <3>2. SubSeq(Drop(file, i), 1, n) = SubSeq(file, i + 1, i + n)
      <4>1. 1 \in Nat /\ 1 <= 1
        OBVIOUS
      <4> QED BY <1>3, <2>4, <4>1, SubSeqOfDrop
    <3> QED BY <3>1, <3>2 DEF s
  <2>6. Drop(s, n) = Drop(file, i + n)
    BY <1>3, <2>4, DropOfDrop DEF s
  <2>7. Drop(s, n + 1) = Drop(file, i + n + 1)
    <3>1. CASE n + 1 <= Len(file) - i
      <4>1. n + 1 \in Nat /\ i + (n + 1) = i + n + 1
        BY <1>3, <2>4
      <4> QED BY <1>3, <3>1, <4>1, DropOfDrop DEF s
    <3>2. CASE ~(n + 1 <= Len(file) - i)
      <4>1. n + 1 \in Nat /\ n + 1 >= Len(s) /\ i + n + 1 \in Nat /\ i + n + 1 >= Len(file)
        BY <1>1, <1>3, <1>4, <2>4, <3>2
      <4> QED BY <1>4, <4>1, DropAll
    <3> QED BY <3>1, <3>2
  <2>8. t.rest = Drop(file, i + n) \/ (t.kind = "-" /\ t.rest = Drop(file, i + n + 1))
    BY <2>2, <2>6, <2>7, <2>10
  <2>9. i + n \in i .. Len(file) /\ i < i + n /\ i # Len(file)
    BY <1>1, <1>3, <2>4
  <2> QED BY <1>3, <2>3, <2>5, <2>8, <2>9 DEF Reads, t
<1> QED BY <1>6, <1>7

(* get_next_token loses nothing: the token and what is left are the text but
   for the blanks and comments before the token - and the character behind a
   "-" that is no sign.  The end is only reported when nothing but blanks was
   left. *)
THEOREM CharactersKept ==
  ASSUME NEW file \in Text, NextToken(file).kind # "ENDLESS"
  PROVE  \E i \in 0 .. Len(file) : \E j \in i .. Len(file) :
           /\ \A k \in 1 .. i : Passed(file, k)
           /\ NextToken(file).text = SubSeq(file, i + 1, j)
           /\ \/ NextToken(file).rest = SubSeq(file, j + 1, Len(file))
              \/ /\ NextToken(file).kind = "-"
                 /\ NextToken(file).rest = SubSeq(file, j + 2, Len(file))
           /\ NextToken(file).kind = "EOF" => i = Len(file)
<1>1. PICK i, j : Reads(file, i, j)
  BY NextTokenReads
<1>2. i \in 0 .. Len(file) /\ j \in i .. Len(file) /\ j + 1 + 1 = j + 2
  BY <1>1 DEF Reads
<1> QED BY <1>1, <1>2 DEF Reads, Drop

(* The lexer comes to the end: every token but the one for the end leaves a
   shorter text, and once the end was reached there is nothing left. *)
THEOREM TokensAdvance ==
  ASSUME NEW file \in Text, NextToken(file).kind # "ENDLESS"
  PROVE  /\ NextToken(file).rest \in Text
         /\ NextToken(file).kind # "EOF" => Len(NextToken(file).rest) < Len(file)
         /\ NextToken(file).kind = "EOF" => NextToken(file).rest = <<>>
<1>1. PICK i, j : Reads(file, i, j)
  BY NextTokenReads
<1>2. Len(file) \in Nat
  BY DEF Text
<1> DEFINE t == NextToken(file)
<1>3. /\ i \in 0 .. Len(file) /\ j \in i .. Len(file)
      /\ t.rest = Drop(file, j) \/ (t.kind = "-" /\ t.rest = Drop(file, j + 1))
      /\ (t.kind = "EOF") <=> (i = Len(file))
      /\ t.kind # "EOF" => i < j
  BY <1>1 DEF Reads
<1> HIDE DEF t
<1>4. PICK m \in Nat : /\ t.rest = Drop(file, m) /\ j <= m
                       /\ t.kind = "EOF" => m = j
  <2>1. j \in Nat /\ j + 1 \in Nat /\ j <= j /\ j <= j + 1 /\ "-" # "EOF"
    BY <1>2, <1>3
  <2> QED BY <1>3, <2>1
<1>5. CASE m <= Len(file)
  <2>1. t.rest \in Text /\ Len(t.rest) = Len(file) - m
    BY <1>2, <1>4, <1>5, DropFacts
  <2>2. t.kind # "EOF" => m > 0
    BY <1>2, <1>3, <1>4
  <2>3. t.kind # "EOF" => Len(t.rest) < Len(file)
    BY <1>2, <1>4, <2>1, <2>2
  <2>4. t.kind = "EOF" => m >= Len(file)
    BY <1>2, <1>3, <1>4
  <2> QED BY <1>4, <2>1, <2>3, <2>4, DropAll DEF t
<1>6. CASE ~(m <= Len(file))
  <2>1. t.rest = <<>> /\ <<>> \in Text /\ Len(<<>>) = 0
    BY <1>2, <1>4, <1>6, DropAll DEF Text
  <2>2. t.kind # "EOF" => Len(file) > 0
    BY <1>2, <1>3
  <2> QED BY <1>2, <2>1, <2>2 DEF t
<1> QED BY <1>5, <1>6


-----------------------------------------------------------------------------
(* Words and numbers are read to their end. *)
Whole(t) ==
  /\ t.kind \in Keywords => t.text = <<t.kind>>
  /\ t.kind = "ID" => \A k \in Keywords : t.text # <<k>>
  /\ t.kind \in Keywords \cup {"ID"} /\ t.rest # <<>> => t.rest[1] \notin Letters \cup Numerals
  /\ t.kind = "NUM" /\ t.rest # <<>> => t.rest[1] \notin Numerals

(* The first character of what a cut leaves. *)
LEMMA CutLeaves ==
  ASSUME NEW s \in Text, NEW n \in 0 .. Len(s), NEW k
  PROVE  Cut(k, s, n).rest # <<>> =>
           n + 1 \in DOMAIN s /\ Cut(k, s, n).rest[1] = s[n + 1]
<1>1. Cut(k, s, n).rest = Drop(s, n)
  BY DEF Cut
<1>2. Len(s) \in Nat /\ DOMAIN s = 1 .. Len(s)
  BY DEF Text
<1>3. /\ Drop(s, n) \in Seq(STRING) /\ Len(Drop(s, n)) = Len(s) - n
      /\ \A i \in 1 .. Len(s) - n : Drop(s, n)[i] = s[n + i]
  BY DropFacts DEF Text
<1> SUFFICES ASSUME Drop(s, n) # <<>>
             PROVE  n + 1 \in DOMAIN s /\ Drop(s, n)[1] = s[n + 1]
  BY <1>1
<1>4. Len(Drop(s, n)) # 0
  BY <1>3, EmptySeq
<1>5. 1 \in 1 .. Len(s) - n /\ n + 1 \in 1 .. Len(s)
  <2>1. Len(s) \in Nat
    BY <1>2
  <2>2. n \in Nat /\ n <= Len(s)
    BY <2>1
  <2>3. Len(s) - n # 0
    <3>1. Len(Drop(s, n)) = Len(s) - n
      BY <1>3
    <3> QED BY ONLY <1>4, <3>1
  <2> QED BY ONLY <2>1, <2>2, <2>3
<1> QED BY <1>2, <1>3, <1>5

(* Kinds that are neither words nor numbers. *)
LEMMA OtherWhole ==
  ASSUME NEW t, t.kind \notin Keywords \cup {"ID", "NUM"}
  PROVE  Whole(t)
BY DEF Whole

LEMMA NumberWhole ==
  ASSUME NEW s \in Text, NEW i \in 1 .. Len(s), Digit(s[i])
  PROVE  Whole(Cut("NUM", s, NumberEnd(s, i) - 1))
<1> DEFINE e == NumberEnd(s, i)
           t == Cut("NUM", s, e - 1)
<1>1. e - 1 \in i .. Len(s) /\ e \in Int /\ (e \in DOMAIN s => s[e] \notin Numerals)
  BY NumberBehind
<1>2. e - 1 \in 0 .. Len(s) /\ (e - 1) + 1 = e
  <2>1. Len(s) \in Nat
    BY DEF Text
  <2> HIDE DEF e
  <2> QED BY <1>1, <2>1
<1>3. t.rest # <<>> => e \in DOMAIN s /\ t.rest[1] = s[e]
  <2> HIDE DEF e
  <2> QED BY <1>2, CutLeaves
<1>4. t.kind = "NUM" /\ "NUM" \notin Keywords
  BY CutPiece DEF Keywords
<1> HIDE DEF t, e
<1>5. Whole(t)
  BY <1>1, <1>3, <1>4 DEF Whole
<1> QED BY <1>5 DEF t, e

LEMMA WordWhole ==
  ASSUME NEW s \in Text, s # <<>>, s[1] \in Letters
  PROVE  Whole(Word(s))
<1>1. Len(s) \in Nat /\ Len(s) >= 1 /\ DOMAIN s = 1 .. Len(s)
  BY DEF Text
<1> DEFINE e == RunEnd(s, 1, Letters \cup Numerals)
           n == e - 1
           k == IF n = 1 /\ s[1] \in Keywords THEN s[1] ELSE "ID"
           t == Cut(k, s, n)
<1>2. /\ e \in 1 .. Len(s) + 1
      /\ e \in DOMAIN s => s[e] \notin Letters \cup Numerals
  BY <1>1, RunEnds
<1>3. Word(s) = t
  BY DEF Word
<1> HIDE DEF e
<1>4. n \in 1 .. Len(s) /\ n \in 0 .. Len(s) /\ n + 1 = e
  BY <1>1, <1>2
<1> HIDE DEF n
<1>5. t.kind = k /\ t.text = SubSeq(s, 1, n)
  <2> HIDE DEF k
  <2> QED BY CutPiece DEF Piece
<1>6. t.rest # <<>> => t.rest[1] \notin Letters \cup Numerals
  <2> HIDE DEF k
  <2> QED BY <1>2, <1>4, CutLeaves
<1>7. /\ Len(t.text) = n
      /\ t.text[1] = s[1]
      /\ t.text \in Seq(STRING)
  <2>1. n \in Int /\ \A i \in 1 .. n : s[i] \in STRING
    BY <1>1, <1>4 DEF Text
  <2>2. /\ SubSeq(s, 1, n) \in Seq(STRING)
        /\ Len(SubSeq(s, 1, n)) = IF 1 <= n THEN n - 1 + 1 ELSE 0
        /\ \A i \in 1 .. n - 1 + 1 : SubSeq(s, 1, n)[i] = s[1 + i - 1]
    BY <2>1, SubSeqProperties
  <2>3. 1 <= n /\ n - 1 + 1 = n /\ 1 \in 1 .. n - 1 + 1 /\ 1 + 1 - 1 = 1
    BY <1>4
  <2> HIDE DEF k, t
  <2> QED BY <1>5, <2>2, <2>3
<1>8. ASSUME k \in Keywords PROVE t.text = <<t.kind>>
  <2>1. n = 1 /\ k = s[1]
    BY <1>8 DEF k, Keywords
  <2>2. t.text = <<s[1]>>
    <3> HIDE DEF t
    <3>1. s[1] \in STRING
      BY <1>1 DEF Text
    <3>2. <<s[1]>> \in Seq(STRING) /\ Len(<<s[1]>>) = 1 /\ <<s[1]>>[1] = s[1]
      BY <3>1
    <3>3. \A i \in 1 .. Len(t.text) : t.text[i] = <<s[1]>>[i]
      BY <1>7, <2>1, <3>2
    <3> QED BY <1>7, <2>1, <3>2, <3>3, SeqEqual
  <2> HIDE DEF t, k
  <2> QED BY <1>5, <2>1, <2>2
<1>9. ASSUME k = "ID", NEW w \in Keywords, t.text = <<w>> PROVE FALSE
  <2>1. ~(n = 1 /\ s[1] \in Keywords)
    BY <1>9 DEF k, Keywords
  <2> HIDE DEF t, k
  <2>2. Len(<<w>>) = 1 /\ <<w>>[1] = w
    OBVIOUS
  <2> QED BY <1>7, <1>9, <2>1, <2>2
<1>10. k # "NUM"
  BY DEF k, Keywords
<1> HIDE DEF t, k
<1> QED BY <1>3, <1>5, <1>6, <1>8, <1>9, <1>10 DEF Whole


LEMMA TokenWhole ==
  ASSUME NEW s \in Text, s # <<>>
  PROVE  Whole(Token(s))
<1>1. Len(s) \in Nat /\ Len(s) >= 1 /\ DOMAIN s = 1 .. Len(s)
  BY DEF Text
<1>2. \/ s[1] \in Letters /\ Token(s) = Word(s)
      \/ Digit(s[1]) /\ Token(s) = Cut("NUM", s, NumberEnd(s, 1) - 1)
      \/ Token(s) = Minus(s)
      \/ Token(s) = String(s)
      \/ Token(s) = Cut("EOL", s, 1)
      \/ s[1] \in Singles /\ Token(s) = Cut(s[1], s, 1)
      \/ s[1] \in DOMAIN PairOf /\ Token(s) = Pair(s)
      \/ Token(s) = Cut("UNKNOWN", s, 1)
  BY DEF Token, Digit
<1>3. CASE Digit(s[1]) /\ Token(s) = Cut("NUM", s, NumberEnd(s, 1) - 1)
  BY <1>1, <1>3, NumberWhole
<1>4. CASE Token(s) = Minus(s)
  <2>1. CASE Digit(At(s, 2))
    <3>1. 2 \in 1 .. Len(s) /\ Digit(s[2])
      BY <1>1, <2>1, LexerAssumption DEF At, Digit, LexerAssumption
    <3>2. Token(s) = Cut("NUM", s, NumberEnd(s, 2) - 1)
      BY <1>4, <2>1 DEF Minus
    <3> QED BY <3>1, <3>2, NumberWhole
  <2>2. CASE ~Digit(At(s, 2))
    <3>1. Token(s) = [Cut("-", s, 1) EXCEPT !.rest = Drop(s, 2)]
      BY <1>4, <2>2 DEF Minus
    <3>2. Token(s).kind = "-"
      BY <3>1 DEF Cut
    <3> QED BY <3>2, OtherWhole DEF Keywords
  <2> QED BY <2>1, <2>2
<1>5. CASE Token(s) = String(s)
  <2>1. String(s).kind \in {"ENDLESS", "UNKNOWN", "STR"}
    BY DEF String, Endless, Cut
  <2> QED BY <1>5, <2>1, OtherWhole DEF Keywords
<1>6. CASE Token(s) = Cut("EOL", s, 1) \/ Token(s) = Cut("UNKNOWN", s, 1)
  <2>1. Token(s).kind \in {"EOL", "UNKNOWN"}
    BY <1>6, CutPiece
  <2> QED BY <2>1, OtherWhole DEF Keywords
<1>7. CASE s[1] \in Singles /\ Token(s) = Cut(s[1], s, 1)
  <2>1. Token(s).kind \in Singles
    BY <1>7, CutPiece
  <2> QED BY <2>1, OtherWhole DEF Keywords, Singles
<1>8. CASE s[1] \in DOMAIN PairOf /\ Token(s) = Pair(s)
  <2>1. s[1] \in {"!", "&", "|", "=", ">", "<"}
    BY <1>8 DEF PairOf
  <2>2. PairOf[s[1]] \in {"!=", "&&", "||", "==", ">=", "<="}
    BY <2>1 DEF PairOf
  <2>3. Pair(s).kind \in {PairOf[s[1]], "UNKNOWN", s[1]}
    BY CutPiece DEF Pair
  <2>4. Token(s).kind \notin Keywords \cup {"ID", "NUM"}
    BY <1>8, <2>1, <2>2, <2>3 DEF Keywords
  <2> QED BY <2>4, OtherWhole
<1> QED BY <1>2, <1>3, <1>4, <1>5, <1>6, <1>7, <1>8, WordWhole

(* A word ends where no letter and no digit follows, and a number where no
   digit follows; a word is a keyword exactly if it is one of the table.  So
   "iffy" is never read as "if" and "fy", nor 12 as 1 and 2. *)
THEOREM WordsWhole ==
  ASSUME NEW file \in Text
  PROVE  LET t == NextToken(file)
         IN /\ t.kind \in Keywords => t.text = <<t.kind>>
            /\ t.kind = "ID" => \A k \in Keywords : t.text # <<k>>
            /\ t.kind \in Keywords \cup {"ID"} /\ t.rest # <<>> =>
                 t.rest[1] \notin Letters \cup Numerals
            /\ t.kind = "NUM" /\ t.rest # <<>> => t.rest[1] \notin Numerals
<1>1. CASE NextToken(file).kind = "ENDLESS"
  <2>1. NextToken(file).kind \notin Keywords \cup {"ID", "NUM"}
    BY <1>1 DEF Keywords
  <2> QED BY <2>1
<1>2. CASE NextToken(file).kind # "ENDLESS"
  <2>1. PICK i : Begins(file, i)
    BY <1>2, TokenBegins
  <2> DEFINE s == Drop(file, i)
  <2>2. s \in Text /\ NextToken(file) = Token(s)
    BY <2>1, DropFacts DEF Begins
  <2> HIDE DEF s
  <2>3. CASE s = <<>>
    <3>1. Token(s).kind = "EOF"
      BY <2>3, CutPiece DEF Token
    <3> QED BY <2>2, <3>1 DEF Keywords
  <2>4. CASE s # <<>>
    <3>1. Whole(Token(s))
      BY <2>2, <2>4, TokenWhole
    <3> QED BY <2>2, <3>1 DEF Whole
  <2> QED BY <2>3, <2>4
<1> QED BY <1>1, <1>2


-----------------------------------------------------------------------------
(* The functions of module Tokens that go through a whole file exist: each step
   is one token, and its value is made from the token and from the value for the
   rest.  V are the values, b the one for the end, G makes the next. *)
Stops(s) == NextToken(s).kind \in {"EOF", "ENDLESS"}

Heads == {NextToken(s) : s \in {u \in Text : ~Stops(u)}}

Shorter(n) == {s \in Text : Len(s) < n}

Through(s, b, G, f) ==
  IF Stops(s) THEN b ELSE G[<<NextToken(s), f[NextToken(s).rest]>>]

Solves(f, n, V, b, G) ==
  /\ f \in [Shorter(n) -> V]
  /\ \A s \in Shorter(n) : f[s] = Through(s, b, G, f)

Reading(f, b, G) == f = [s \in Text |-> Through(s, b, G, f)]

LEMMA RestShorter ==
  ASSUME NEW s \in Text, ~Stops(s)
  PROVE  NextToken(s).rest \in Text /\ Len(NextToken(s).rest) < Len(s)
BY TokensAdvance DEF Stops

LEMMA SolutionsAgree ==
  ASSUME NEW V, NEW b \in V, NEW G, NEW m \in Nat, NEW n \in Nat, NEW f, NEW g,
         Solves(f, m, V, b, G), Solves(g, n, V, b, G), NEW u \in Shorter(m) \cap Shorter(n)
  PROVE  f[u] = g[u]
<1> DEFINE Differ == {s \in Shorter(m) \cap Shorter(n) : f[s] # g[s]}
           T == {Len(s) : s \in Differ}
<1>1. T \in SUBSET Int /\ 0 \in Nat /\ \A j \in T : 0 <= j
  BY DEF Shorter, Text
<1>2. SUFFICES ASSUME Differ # {} PROVE FALSE
  OBVIOUS
<1>3. T # {}
  BY <1>2
<1>4. Min(T) \in T /\ \A j \in T : Min(T) <= j
  <2> HIDE DEF T
  <2> QED BY <1>1, <1>3, Least
<1>5. PICK s \in Differ : Len(s) = Min(T)
  BY <1>4
<1> DEFINE r == NextToken(s).rest
<1>6. s \in Text /\ Len(s) \in Nat /\ Len(s) < m /\ Len(s) < n /\ f[s] # g[s]
  BY <1>5 DEF Shorter, Text
<1>7. f[s] = Through(s, b, G, f) /\ g[s] = Through(s, b, G, g)
  BY <1>5 DEF Solves
<1>8. ~Stops(s) /\ f[r] # g[r]
  BY <1>6, <1>7 DEF Through
<1>9. r \in Text /\ Len(r) \in Nat /\ Len(r) < Len(s)
  BY <1>6, <1>8, RestShorter DEF Text
<1>10. r \in Shorter(m) \cap Shorter(n)
  BY <1>6, <1>9 DEF Shorter
<1>11. Len(r) \in T
  BY <1>8, <1>10
<1> HIDE DEF T, r
<1> QED BY <1>4, <1>5, <1>9, <1>11, <1>6

LEMMA SolutionsGrow ==
  ASSUME NEW V, NEW b \in V, NEW G \in [Heads \X V -> V], NEW n \in Nat, NEW f,
         Solves(f, n, V, b, G)
  PROVE  \E g : Solves(g, n + 1, V, b, G)
<1> DEFINE g == [s \in Shorter(n + 1) |-> Through(s, b, G, f)]
<1>1. ASSUME NEW s \in Shorter(n + 1), ~Stops(s)
      PROVE  NextToken(s).rest \in Shorter(n) /\ NextToken(s) \in Heads
  <2>1. s \in Text /\ Len(s) \in Nat /\ Len(s) < n + 1
    BY DEF Shorter, Text
  <2>2. NextToken(s).rest \in Text /\ Len(NextToken(s).rest) < Len(s)
    BY <1>1, <2>1, RestShorter
  <2>3. Len(NextToken(s).rest) \in Nat
    BY <2>2 DEF Text
  <2>4. Len(NextToken(s).rest) < n
    BY <2>1, <2>2, <2>3
  <2> QED BY <1>1, <2>1, <2>2, <2>4 DEF Shorter, Heads
<1>2. ASSUME NEW s \in Shorter(n + 1) PROVE Through(s, b, G, f) \in V
  <2>1. CASE Stops(s)
    BY <2>1 DEF Through
  <2>2. CASE ~Stops(s)
    <3>1. f[NextToken(s).rest] \in V
      BY <1>1, <2>2 DEF Solves
    <3>2. <<NextToken(s), f[NextToken(s).rest]>> \in Heads \X V
      BY <1>1, <2>2, <3>1
    <3> QED BY <2>2, <3>2 DEF Through
  <2> QED BY <2>1, <2>2
<1>3. g \in [Shorter(n + 1) -> V]
  BY <1>2
<1>4. ASSUME NEW s \in Shorter(n) PROVE g[s] = f[s]
  <2>1. s \in Shorter(n + 1)
    <3>1. s \in Text /\ Len(s) \in Nat /\ Len(s) < n
      BY DEF Shorter, Text
    <3>2. Len(s) < n + 1
      BY <3>1
    <3> QED BY <3>1, <3>2 DEF Shorter
  <2>2. g[s] = Through(s, b, G, f)
    BY <2>1
  <2> QED BY <2>2 DEF Solves
<1>5. ASSUME NEW s \in Shorter(n + 1) PROVE g[s] = Through(s, b, G, g)
  <2>1. g[s] = Through(s, b, G, f)
    OBVIOUS
  <2>2. ~Stops(s) => g[NextToken(s).rest] = f[NextToken(s).rest]
    BY <1>1, <1>4
  <2> HIDE DEF g
  <2> QED BY <2>1, <2>2 DEF Through
<1> HIDE DEF g
<1> QED BY <1>3, <1>5 DEF Solves

LEMMA SolutionsExist ==
  ASSUME NEW V, NEW b \in V, NEW G \in [Heads \X V -> V], NEW n \in Nat
  PROVE  \E f : Solves(f, n, V, b, G)
<1> DEFINE T == {k \in Nat : ~\E f : Solves(f, k, V, b, G)}
<1>1. T \in SUBSET Int /\ 0 \in Nat /\ \A j \in T : 0 <= j
  OBVIOUS
<1>2. SUFFICES ASSUME T # {} PROVE FALSE
  OBVIOUS
<1>3. Min(T) \in T /\ \A j \in T : Min(T) <= j
  <2> HIDE DEF T
  <2> QED BY <1>1, <1>2, Least
<1> DEFINE k == Min(T)
<1>4. k \in Nat /\ ~\E f : Solves(f, k, V, b, G)
  BY <1>3
<1>5. 0 \notin T
  <2>1. Shorter(0) = {}
    BY DEF Shorter, Text
  <2>2. [s \in Shorter(0) |-> b] \in [Shorter(0) -> V]
    OBVIOUS
  <2>3. Solves([s \in Shorter(0) |-> b], 0, V, b, G)
    BY <2>1, <2>2 DEF Solves
  <2> QED BY <2>3
<1>6. k - 1 \in Nat /\ (k - 1) + 1 = k /\ k - 1 \notin T
  <2> HIDE DEF T
  <2>1. k # 0
    BY <1>3, <1>5
  <2>2. k - 1 \in Nat /\ (k - 1) + 1 = k /\ ~(k <= k - 1)
    BY <1>4, <2>1
  <2>3. \A j \in T : k <= j
    BY <1>3
  <2> HIDE DEF k
  <2> QED BY <2>2, <2>3
<1>7. PICK f : Solves(f, k - 1, V, b, G)
  BY <1>6
<1>8. \E g : Solves(g, (k - 1) + 1, V, b, G)
  <2> HIDE DEF k
  <2> QED BY <1>6, <1>7, SolutionsGrow
<1> HIDE DEF k, T
<1> QED BY <1>4, <1>6, <1>8

LEMMA ReadingExists ==
  ASSUME NEW V, NEW b \in V, NEW G \in [Heads \X V -> V]
  PROVE  \E f : Reading(f, b, G)
<1> DEFINE F == [n \in Nat |-> CHOOSE f : Solves(f, n, V, b, G)]
           f == [s \in Text |-> F[Len(s) + 1][s]]
<1>1. ASSUME NEW n \in Nat PROVE Solves(F[n], n, V, b, G)
  <2>1. F[n] = CHOOSE g : Solves(g, n, V, b, G)
    OBVIOUS
  <2>2. \E g : Solves(g, n, V, b, G)
    BY SolutionsExist
  <2> HIDE DEF F
  <2> QED BY <2>1, <2>2
<1>2. ASSUME NEW s \in Text PROVE f[s] = Through(s, b, G, f)
  <2> DEFINE n == Len(s) + 1
             r == NextToken(s).rest
  <2>1. n \in Nat /\ s \in Shorter(n) /\ Len(s) \in Nat
    BY DEF Shorter, Text
  <2>2. F[n][s] = Through(s, b, G, F[n])
    <3> HIDE DEF F, n
    <3> QED BY <1>1, <2>1 DEF Solves
  <2>3. ~Stops(s) => F[n][r] = f[r]
    <3> SUFFICES ASSUME ~Stops(s) PROVE F[n][r] = f[r]
      OBVIOUS
    <3>1. r \in Text /\ Len(r) \in Nat /\ Len(r) < Len(s)
      BY RestShorter DEF Text
    <3> DEFINE m == Len(r) + 1
    <3>2. m \in Nat /\ r \in Shorter(m) \cap Shorter(n)
      <4> HIDE DEF r
      <4>1. Len(r) < m /\ Len(r) < n /\ m \in Nat
        BY <2>1, <3>1
      <4> QED BY <3>1, <4>1 DEF Shorter
    <3>3. f[r] = F[m][r]
      BY <3>1
    <3>4. Solves(F[m], m, V, b, G) /\ Solves(F[n], n, V, b, G)
      <4> HIDE DEF F, m, n
      <4> QED BY <1>1, <2>1, <3>2
    <3>5. F[m][r] = F[n][r]
      <4> HIDE DEF F, m, n, r
      <4>1. n \in Nat /\ m \in Nat
        BY <2>1, <3>2
      <4>2. ASSUME NEW x, NEW y, Solves(x, m, V, b, G), Solves(y, n, V, b, G)
            PROVE  x[r] = y[r]
        BY <3>2, <4>1, <4>2, SolutionsAgree
      <4> QED BY <3>4, <4>2
    <3> HIDE DEF F, m, n, r, f
    <3> QED BY <3>3, <3>5
  <2>4. f[s] = F[n][s]
    OBVIOUS
  <2> HIDE DEF F, f, n
  <2> QED BY <2>2, <2>3, <2>4 DEF Through
<1>3. f = [s \in Text |-> Through(s, b, G, f)]
  <2>1. f = [s \in Text |-> f[s]]
    OBVIOUS
  <2> HIDE DEF f
  <2> QED BY <1>2, <2>1
<1> HIDE DEF f
<1>4. Reading(f, b, G)
  BY <1>3 DEF Reading
<1> QED BY <1>4

(* What holds at the end, and for a text when it holds for the rest of it, holds
   for every text. *)
LEMMA ReadingInduction ==
  ASSUME NEW S,
         \A s \in Text : Stops(s) => s \in S,
         \A s \in Text : ~Stops(s) /\ NextToken(s).rest \in S => s \in S
  PROVE  \A s \in Text : s \in S
<1> DEFINE T == {Len(s) : s \in {u \in Text : u \notin S}}
<1>1. T \in SUBSET Int /\ 0 \in Nat /\ \A j \in T : 0 <= j
  BY DEF Text
<1>2. SUFFICES T = {}
  OBVIOUS
<1>3. SUFFICES ASSUME T # {} PROVE FALSE
  OBVIOUS
<1>4. Min(T) \in T /\ \A j \in T : Min(T) <= j
  <2> HIDE DEF T
  <2> QED BY <1>1, <1>3, Least
<1>5. PICK s \in Text : s \notin S /\ Len(s) = Min(T)
  BY <1>4
<1>6. ~Stops(s)
  BY <1>5
<1> DEFINE r == NextToken(s).rest
<1>7. r \in Text /\ Len(r) < Len(s) /\ Len(r) \in Nat /\ Len(s) \in Nat
  BY <1>6, RestShorter DEF Text
<1>8. r \notin S
  BY <1>5, <1>6
<1>9. Len(r) \in T
  BY <1>7, <1>8
<1> HIDE DEF T, r
<1> QED BY <1>4, <1>5, <1>7, <1>9

LEMMA ReadingTyped ==
  ASSUME NEW V, NEW b \in V, NEW G \in [Heads \X V -> V], NEW f, Reading(f, b, G)
  PROVE  f \in [Text -> V]
<1> DEFINE S == {s \in Text : f[s] \in V}
<1>1. \A s \in Text : f[s] = Through(s, b, G, f)
  BY DEF Reading
<1>2. \A s \in Text : Stops(s) => s \in S
  BY <1>1 DEF Through
<1>3. ASSUME NEW s \in Text, ~Stops(s), NextToken(s).rest \in S
      PROVE  s \in S
  <2>1. NextToken(s) \in Heads /\ f[NextToken(s).rest] \in V
    BY <1>3 DEF Heads
  <2>2. <<NextToken(s), f[NextToken(s).rest]>> \in Heads \X V
    BY <2>1
  <2> QED BY <1>1, <1>3, <2>2 DEF Through
<1>4. \A s \in Text : s \in S
  <2> HIDE DEF S
  <2> QED BY <1>2, <1>3, ReadingInduction
<1>5. DOMAIN f = Text /\ f = [s \in Text |-> f[s]]
  BY DEF Reading
<1> QED BY <1>4, <1>5

LEMMA TokenTyped ==
  ASSUME NEW s \in Text, ~Stops(s)
  PROVE  NextToken(s).text \in Text
<1>1. PICK i, j : Reads(s, i, j)
  BY NextTokenReads DEF Stops
<1>2. /\ i \in 0 .. Len(s) /\ j \in i .. Len(s)
      /\ NextToken(s).text = SubSeq(s, i + 1, j)
  BY <1>1 DEF Reads
<1>3. /\ Len(s) \in Nat
      /\ \A k \in 1 .. Len(s) : s[k] \in STRING
  BY DEF Text
<1>4. \A k \in i + 1 .. j : s[k] \in STRING
  <2>1. \A k \in i + 1 .. j : k \in 1 .. Len(s)
    BY <1>2, <1>3
  <2> QED BY <1>3, <2>1
<1>5. i + 1 \in Int /\ j \in Int
  BY <1>2, <1>3
<1>6. SubSeq(s, i + 1, j) \in Seq(STRING)
  BY <1>4, <1>5, SubSeqProperties
<1> QED BY <1>2, <1>6 DEF Text

LEMMA CharactersReadStep ==
  /\ \A s \in Text : CharactersRead[s] \in Text
  /\ \A s \in Text : CharactersRead[s] =
       IF Stops(s) THEN <<>> ELSE NextToken(s).text \o CharactersRead[NextToken(s).rest]
<1> DEFINE G == [x \in Heads \X Text |-> x[1].text \o x[2]]
           Step(f) == [s \in Text |->
                         IF NextToken(s).kind \in {"EOF", "ENDLESS"} THEN <<>>
                         ELSE NextToken(s).text \o f[NextToken(s).rest]]
<1>1. <<>> \in Text
  BY DEF Text
<1>2. ASSUME NEW t \in Heads PROVE t.text \in Text
  BY TokenTyped DEF Heads
<1>3. G \in [Heads \X Text -> Text]
  <2>1. ASSUME NEW x \in Heads \X Text PROVE x[1].text \o x[2] \in Text
    <3>1. x[1] \in Heads /\ x[2] \in Text
      OBVIOUS
    <3>2. x[1].text \in Text
      BY <1>2, <3>1
    <3> HIDE DEF G
    <3> QED BY <3>1, <3>2 DEF Text
  <2> QED BY <2>1
<1>4. PICK f : Reading(f, <<>>, G)
  <2> HIDE DEF G
  <2> QED BY <1>1, <1>3, ReadingExists
<1>5. f \in [Text -> Text]
  <2> HIDE DEF G
  <2> QED BY <1>1, <1>3, <1>4, ReadingTyped
<1>6. ASSUME NEW s \in Text
      PROVE  Through(s, <<>>, G, f) = Step(f)[s]
  <2>1. CASE Stops(s)
    BY <2>1 DEF Through, Stops
  <2>2. CASE ~Stops(s)
    <3>1. NextToken(s).rest \in Text
      BY <2>2, RestShorter
    <3>2. <<NextToken(s), f[NextToken(s).rest]>> \in Heads \X Text
      BY <1>5, <2>2, <3>1 DEF Heads
    <3> QED BY <2>2, <3>2 DEF Through, Stops
  <2> QED BY <2>1, <2>2
<1>7. f = Step(f)
  <2>1. ASSUME NEW s \in Text PROVE f[s] = Step(f)[s]
    <3>1. f[s] = Through(s, <<>>, G, f)
      BY <1>4 DEF Reading
    <3> QED BY <1>6, <3>1
  <2>2. DOMAIN f = Text /\ DOMAIN Step(f) = Text
    BY <1>5
  <2> QED BY <1>5, <2>1, <2>2
<1>8. CharactersRead = CHOOSE g : g = Step(g)
  BY DEF CharactersRead, Text
<1>9. CharactersRead = Step(CharactersRead)
  <2> HIDE DEF Step
  <2> QED BY <1>7, <1>8
<1>10. \A s \in Text : CharactersRead[s] =
         IF Stops(s) THEN <<>> ELSE NextToken(s).text \o CharactersRead[NextToken(s).rest]
  BY <1>9 DEF Stops
<1>11. \A s \in Text : CharactersRead[s] \in Text
  <2> DEFINE S == {s \in Text : CharactersRead[s] \in Text}
  <2>1. \A s \in Text : Stops(s) => s \in S
    BY <1>1, <1>10
  <2>2. ASSUME NEW s \in Text, ~Stops(s), NextToken(s).rest \in S
        PROVE  s \in S
    <3>1. NextToken(s).text \in Text /\ CharactersRead[NextToken(s).rest] \in Text
      BY <2>2, TokenTyped
    <3>2. NextToken(s).text \o CharactersRead[NextToken(s).rest] \in Text
      BY ONLY <3>1 DEF Text
    <3> QED BY <1>10, <2>2, <3>2
  <2>3. \A s \in Text : s \in S
    <3> HIDE DEF S
    <3> QED BY <2>1, <2>2, ReadingInduction
  <2> QED BY <2>3
<1> QED BY <1>10, <1>11

LEMMA AllTokensStep ==
  /\ \A s \in Text : AllTokens[s] \in Seq(Heads)
  /\ \A s \in Text : AllTokens[s] =
       IF Stops(s) THEN <<>> ELSE <<NextToken(s)>> \o AllTokens[NextToken(s).rest]
<1> DEFINE V == Seq(Heads)
           G == [x \in Heads \X V |-> <<x[1]>> \o x[2]]
           Step(f) == [s \in Text |->
                         IF NextToken(s).kind \in {"EOF", "ENDLESS"} THEN <<>>
                         ELSE <<NextToken(s)>> \o f[NextToken(s).rest]]
<1>1. <<>> \in V
  OBVIOUS
<1>2. ASSUME NEW t \in Heads, NEW v \in V PROVE <<t>> \o v \in V
  OBVIOUS
<1>3. G \in [Heads \X V -> V]
  <2>1. ASSUME NEW x \in Heads \X V PROVE <<x[1]>> \o x[2] \in V
    <3>1. x[1] \in Heads /\ x[2] \in V
      OBVIOUS
    <3> HIDE DEF G, V
    <3> QED BY <1>2, <3>1
  <2> HIDE DEF V
  <2> QED BY <2>1
<1> HIDE DEF V
<1>4. PICK f : Reading(f, <<>>, G)
  <2> HIDE DEF G
  <2> QED BY <1>1, <1>3, ReadingExists
<1>5. f \in [Text -> V]
  <2> HIDE DEF G
  <2> QED BY <1>1, <1>3, <1>4, ReadingTyped
<1>6. ASSUME NEW s \in Text
      PROVE  Through(s, <<>>, G, f) = Step(f)[s]
  <2>1. CASE Stops(s)
    BY <2>1 DEF Through, Stops
  <2>2. CASE ~Stops(s)
    <3>1. NextToken(s).rest \in Text
      BY <2>2, RestShorter
    <3>2. <<NextToken(s), f[NextToken(s).rest]>> \in Heads \X V
      BY <1>5, <2>2, <3>1 DEF Heads
    <3> QED BY <2>2, <3>2 DEF Through, Stops
  <2> QED BY <2>1, <2>2
<1>7. f = Step(f)
  <2>1. ASSUME NEW s \in Text PROVE f[s] = Step(f)[s]
    <3>1. f[s] = Through(s, <<>>, G, f)
      BY <1>4 DEF Reading
    <3> QED BY <1>6, <3>1
  <2>2. DOMAIN f = Text /\ DOMAIN Step(f) = Text
    BY <1>5
  <2> QED BY <1>5, <2>1, <2>2
<1>8. AllTokens = CHOOSE g : g = Step(g)
  BY DEF AllTokens, Text
<1>9. AllTokens = Step(AllTokens)
  <2> HIDE DEF Step
  <2> QED BY <1>7, <1>8
<1>10. \A s \in Text : AllTokens[s] =
         IF Stops(s) THEN <<>> ELSE <<NextToken(s)>> \o AllTokens[NextToken(s).rest]
  BY <1>9 DEF Stops
<1>11. \A s \in Text : AllTokens[s] \in V
  <2> DEFINE S == {s \in Text : AllTokens[s] \in V}
  <2>1. \A s \in Text : Stops(s) => s \in S
    BY <1>1, <1>10
  <2>2. ASSUME NEW s \in Text, ~Stops(s), NextToken(s).rest \in S
        PROVE  s \in S
    <3>1. NextToken(s) \in Heads /\ AllTokens[NextToken(s).rest] \in V
      BY <2>2 DEF Heads
    <3>2. <<NextToken(s)>> \o AllTokens[NextToken(s).rest] \in V
      BY <1>2, <3>1
    <3> QED BY <1>10, <2>2, <3>2
  <2>3. \A s \in Text : s \in S
    <3> HIDE DEF S
    <3> QED BY <2>1, <2>2, ReadingInduction
  <2> QED BY <2>3
<1> QED BY <1>10, <1>11 DEF V

-----------------------------------------------------------------------------
(* The parts of a number that begins at i: digits before a, a fraction from a up
   to b, an exponent from b up to c. *)
Digits(s, i, j) == \A k \in i .. j - 1 : s[k] \in Numerals

Run(s, i, j) ==
  /\ j \in i .. Len(s) + 1
  /\ Digits(s, i, j)
  /\ j \in DOMAIN s => s[j] \notin Numerals

Fraction(s, a, b) == IF At(s, a) = "." THEN Run(s, a + 1, b) ELSE b = a

ExponentDigits(s, b) == IF At(s, b + 1) \in {"+", "-"} THEN b + 2 ELSE b + 1

Exponent(s, b, c) ==
  IF At(s, b) = "e" THEN Run(s, ExponentDigits(s, b), c) ELSE c = b

LEMMA RunEndRun ==
  ASSUME NEW s \in Text, NEW i \in 1 .. Len(s) + 1
  PROVE  Run(s, i, RunEnd(s, i, Numerals))
BY RunEnds DEF Run, Digits

LEMMA NumberParts ==
  ASSUME NEW s \in Text, NEW i \in 1 .. Len(s), s[i] \in Numerals
  PROVE  \E a, b \in Int :
           /\ i < a /\ a <= b /\ b <= NumberEnd(s, i)
           /\ Run(s, i, a) /\ Fraction(s, a, b) /\ Exponent(s, b, NumberEnd(s, i))
<1>0. Len(s) \in Nat /\ DOMAIN s = 1 .. Len(s)
  BY DEF Text
<1> DEFINE a == RunEnd(s, i, Numerals)
           b == FractionEnd(s, a)
           c == ExponentEnd(s, b)
<1>1. Run(s, i, a)
  <2>1. i \in 1 .. Len(s) + 1
    BY <1>0
  <2> QED BY <2>1, RunEndRun
<1> HIDE DEF a
<1>2. a \in i + 1 .. Len(s) + 1
  BY <1>0, <1>1 DEF Run
<1>3. Fraction(s, a, b) /\ b \in a .. Len(s) + 1
  <2>1. CASE At(s, a) # "."
    BY <1>0, <1>2, <2>1 DEF FractionEnd, Fraction
  <2>2. CASE At(s, a) = "."
    <3>1. a \in 1 .. Len(s)
      BY <1>0, <2>2 DEF At
    <3>2. a + 1 \in 1 .. Len(s) + 1
      BY <1>0, <3>1
    <3>3. b = RunEnd(s, a + 1, Numerals)
      BY <2>2 DEF FractionEnd
    <3>4. Run(s, a + 1, b)
      BY <3>2, <3>3, RunEndRun
    <3> HIDE DEF b
    <3>5. b \in a .. Len(s) + 1
      BY <1>0, <3>1, <3>4 DEF Run
    <3> QED BY <2>2, <3>4, <3>5 DEF Fraction
  <2> QED BY <2>1, <2>2
<1> HIDE DEF b
<1>4. Exponent(s, b, c) /\ b <= c
  <2>1. CASE At(s, b) # "e"
    BY <1>0, <1>2, <1>3, <2>1 DEF ExponentEnd, Exponent
  <2>2. CASE At(s, b) = "e"
    <3> DEFINE d == ExponentDigits(s, b)
    <3>1. b \in 1 .. Len(s)
      BY <1>0, <2>2 DEF At
    <3>2. d \in b + 1 .. Len(s) + 1
      BY <1>0, <3>1 DEF At, ExponentDigits
    <3>3. c = RunEnd(s, d, Numerals)
      BY <2>2 DEF ExponentEnd, ExponentDigits
    <3> HIDE DEF d
    <3>4. d \in 1 .. Len(s) + 1
      BY <1>0, <3>1, <3>2
    <3>5. Run(s, d, c)
      BY <3>3, <3>4, RunEndRun
    <3> HIDE DEF c
    <3>6. b <= c
      BY <1>0, <3>1, <3>2, <3>5 DEF Run
    <3> QED BY <2>2, <3>5, <3>6 DEF Exponent, d
  <2> QED BY <2>1, <2>2
<1> HIDE DEF c
<1>5. NumberEnd(s, i) = c
  BY DEF NumberEnd, a, b, c
<1>6. a \in Int /\ b \in Int /\ i < a /\ a <= b
  BY <1>0, <1>2, <1>3
<1> QED BY <1>1, <1>3, <1>4, <1>5, <1>6

LEMMA Prefix ==
  ASSUME NEW s \in Text, NEW n \in 0 .. Len(s)
  PROVE  LET w == SubSeq(s, 1, n)
         IN /\ w \in Text /\ Len(w) = n /\ DOMAIN w = 1 .. n
            /\ \A k \in 1 .. n : w[k] = s[k]
<1> DEFINE w == SubSeq(s, 1, n)
<1>1. n \in Int /\ \A k \in 1 .. n : s[k] \in STRING
  <2>1. Len(s) \in Nat /\ DOMAIN s = 1 .. Len(s) /\ \A k \in DOMAIN s : s[k] \in STRING
    BY DEF Text
  <2>2. n \in Int /\ \A k \in 1 .. n : k \in 1 .. Len(s)
    BY <2>1
  <2> QED BY <2>1, <2>2
<1>2. /\ w \in Seq(STRING) /\ Len(w) = IF 1 <= n THEN n - 1 + 1 ELSE 0
      /\ \A k \in 1 .. n - 1 + 1 : w[k] = s[1 + k - 1]
  BY <1>1, SubSeqProperties
<1>3. Len(w) = n /\ n - 1 + 1 = n /\ \A k \in 1 .. n : 1 + k - 1 = k
  <2> HIDE DEF w
  <2>1. n \in Int /\ 0 <= n
    OBVIOUS
  <2> QED BY <1>2, <2>1
<1>4. DOMAIN w = 1 .. n
  <2> HIDE DEF w
  <2> QED BY <1>2, <1>3
<1> HIDE DEF w
<1>5. \A k \in 1 .. n : w[k] = s[k]
  BY <1>2, <1>3
<1> QED BY <1>2, <1>3, <1>4, <1>5 DEF Text, w

(* The end of the number is the end of the text or no digit, and so on: no
   number that begins with it is longer. *)
LEMMA NumberLongest ==
  ASSUME NEW s \in Text, s # <<>>, s[1] \in Numerals,
         NEW n \in NumberEnd(s, 1) .. Len(s)
  PROVE  ~IsNumber(SubSeq(s, 1, n))
<1> DEFINE w == SubSeq(s, 1, n)
           e == NumberEnd(s, 1)
<1>0. Len(s) \in Nat /\ Len(s) >= 1 /\ DOMAIN s = 1 .. Len(s)
  BY DEF Text
<1>1. PICK a, b \in Int :
        /\ 1 < a /\ a <= b /\ b <= e
        /\ Run(s, 1, a) /\ Fraction(s, a, b) /\ Exponent(s, b, e)
  BY <1>0, NumberParts
<1>2. e \in Int /\ n \in Int /\ e <= n /\ n <= Len(s)
  <2>1. 1 \in 1 .. Len(s) /\ Digit(s[1])
    BY <1>0 DEF Digit
  <2>2. e \in Int
    BY <2>1, NumberBehind
  <2> HIDE DEF e
  <2> QED BY <1>0, <2>2 DEF e
<1> HIDE DEF e
<1>3. w \in Text /\ Len(w) = n /\ DOMAIN w = 1 .. n /\ \A k \in 1 .. n : w[k] = s[k]
  <2>1. n \in 0 .. Len(s)
    BY <1>0, <1>1, <1>2
  <2> QED BY <2>1, Prefix
<1> HIDE DEF w
<1>5. \A k \in Int : At(w, k) = IF 1 <= k /\ k <= n THEN s[k] ELSE "EOF"
  BY <1>2, <1>3 DEF At
<1>6. \A k \in Int : At(s, k) = IF 1 <= k /\ k <= Len(s) THEN s[k] ELSE "EOF"
  BY <1>0 DEF At
<1>7. {"EOF", "e", "."} \cap Numerals = {} /\ "+" \notin Numerals /\ "-" \notin Numerals
  BY LexerAssumption DEF LexerAssumption, Letters, Marks, Singles
<1>8. SUFFICES ASSUME IsNumber(w) PROVE FALSE
  BY DEF w
<1>9. PICK i \in 1 .. n : \E j \in i .. n :
        /\ \A k \in 1 .. i : At(w, k) \in Numerals
        /\ \/ j = i
           \/ At(w, i + 1) = "." /\ \A k \in i + 2 .. j : At(w, k) \in Numerals
        /\ \/ j = n
           \/ /\ At(w, j + 1) = "e"
              /\ \/ j + 2 <= n /\ \A k \in j + 2 .. n : At(w, k) \in Numerals
                 \/ /\ At(w, j + 2) \in {"+", "-"}
                    /\ j + 3 <= n /\ \A k \in j + 3 .. n : At(w, k) \in Numerals
  BY <1>3, <1>8 DEF IsNumber
<1>10. PICK j \in i .. n :
        /\ \A k \in 1 .. i : At(w, k) \in Numerals
        /\ \/ j = i
           \/ At(w, i + 1) = "." /\ \A k \in i + 2 .. j : At(w, k) \in Numerals
        /\ \/ j = n
           \/ /\ At(w, j + 1) = "e"
              /\ \/ j + 2 <= n /\ \A k \in j + 2 .. n : At(w, k) \in Numerals
                 \/ /\ At(w, j + 2) \in {"+", "-"}
                    /\ j + 3 <= n /\ \A k \in j + 3 .. n : At(w, k) \in Numerals
  BY <1>9
<1>11. i \in Int /\ 1 <= i /\ i <= n /\ j \in Int /\ i <= j /\ j <= n
  BY <1>2, <1>9, <1>10
(* The digits of the two are the same. *)
<1>12. /\ a <= Len(s) + 1 /\ \A k \in 1 .. a - 1 : s[k] \in Numerals
       /\ a <= Len(s) => s[a] \notin Numerals
  BY <1>0, <1>1 DEF Run, Digits
<1>13. i <= a - 1
  <2>1. SUFFICES ASSUME a <= i PROVE FALSE
    BY <1>1, <1>11
  <2>2. a \in 1 .. i /\ a <= n /\ 1 <= a /\ a <= Len(s)
    BY <1>1, <1>2, <1>11, <2>1
  <2>3. At(w, a) = s[a]
    BY <1>1, <1>5, <2>2
  <2> QED BY <1>10, <1>12, <2>2, <2>3
(* So are their fractions. *)
<1>14. j <= b - 1
  <2>1. CASE j = i
    BY <1>1, <1>11, <1>13, <2>1
  <2>2. CASE j # i
    <3>1. At(w, i + 1) = "." /\ \A k \in i + 2 .. j : At(w, k) \in Numerals
      BY <1>10, <2>2
    <3>2. i + 1 <= n /\ s[i + 1] = "."
      <4>1. i + 1 \in Int /\ 1 <= i + 1
        BY <1>11
      <4>2. i + 1 <= n
        BY <1>5, <3>1, <4>1
      <4> QED BY <1>5, <3>1, <4>1, <4>2
    <3>3. i + 1 = a
      <4>1. SUFFICES ASSUME i + 1 <= a - 1 PROVE FALSE
        BY <1>1, <1>11, <1>13
      <4>2. i + 1 \in 1 .. a - 1
        BY <1>1, <1>11, <4>1
      <4> QED BY <1>7, <1>12, <3>2, <4>2
    <3>4. At(s, a) = "."
      BY <1>1, <1>2, <1>6, <3>2, <3>3
    <3>5. /\ b <= Len(s) + 1 /\ a + 1 <= b
          /\ b <= Len(s) => s[b] \notin Numerals
      BY <1>0, <1>1, <3>4 DEF Fraction, Run
    <3>6. SUFFICES ASSUME b <= j PROVE FALSE
      BY <1>1, <1>11
    <3>7. b \in i + 2 .. j /\ 1 <= b /\ b <= n /\ b <= Len(s)
      BY <1>1, <1>2, <1>11, <3>3, <3>5, <3>6
    <3>8. At(w, b) = s[b]
      BY <1>1, <1>5, <3>7
    <3> QED BY <3>1, <3>5, <3>7, <3>8
  <2> QED BY <2>1, <2>2
<1>15. At(w, j + 1) = "e" /\ j # n
  BY <1>1, <1>2, <1>10, <1>11, <1>14
<1>16. j + 1 <= n /\ s[j + 1] = "e"
  BY <1>5, <1>11, <1>15
(* And the exponent begins at the same place. *)
<1>17. j + 1 = b
  <2>1. SUFFICES ASSUME j + 1 <= b - 1 PROVE FALSE
    BY <1>1, <1>11, <1>14
  <2>2. CASE j + 1 <= a - 1
    <3>1. j + 1 \in 1 .. a - 1
      BY <1>1, <1>11, <2>2
    <3> QED BY <1>7, <1>12, <1>16, <3>1
  <2>3. CASE j + 1 >= a /\ At(s, a) = "."
    <3>1. \A k \in a + 1 .. b - 1 : s[k] \in Numerals
      BY <1>1, <2>3 DEF Fraction, Run, Digits
    <3>2. a <= Len(s) /\ s[a] = "."
      BY <1>1, <1>6, <2>3
    <3>3. j + 1 # a
      BY <1>16, <3>2
    <3>4. j + 1 \in a + 1 .. b - 1
      BY <1>1, <1>11, <2>1, <2>3, <3>3
    <3> QED BY <1>7, <1>16, <3>1, <3>4
  <2>4. CASE j + 1 >= a /\ At(s, a) # "."
    BY <1>1, <1>11, <2>1, <2>4 DEF Fraction
  <2> QED BY <1>1, <1>11, <2>2, <2>3, <2>4
<1> DEFINE d == ExponentDigits(s, b)
<1>18. /\ d <= e
       /\ e <= Len(s) => s[e] \notin Numerals
  <2>1. At(s, b) = "e"
    BY <1>2, <1>6, <1>11, <1>16, <1>17
  <2>2. Run(s, d, e)
    BY <1>1, <2>1 DEF Exponent
  <2>3. d \in Int
    BY <1>1 DEF ExponentDigits
  <2> HIDE DEF d
  <2> QED BY <1>0, <1>1, <1>2, <2>2, <2>3 DEF Run
<1>19. /\ d \in Int /\ d >= b
       /\ d <= n /\ \A k \in d .. n : At(w, k) \in Numerals
  <2>1. b + 1 <= n => At(w, b + 1) = At(s, b + 1)
    BY <1>1, <1>2, <1>5, <1>6
  <2>2. CASE b + 1 <= n /\ \A k \in b + 1 .. n : At(w, k) \in Numerals
    <3>1. At(w, b + 1) \in Numerals
      <4>1. b + 1 \in b + 1 .. n
        BY <1>1, <1>2, <2>2
      <4> QED BY <2>2, <4>1
    <3>2. d = b + 1
      BY <1>7, <2>1, <2>2, <3>1 DEF ExponentDigits
    <3> QED BY <1>1, <2>2, <3>2
  <2>3. CASE /\ At(w, b + 1) \in {"+", "-"}
             /\ b + 2 <= n /\ \A k \in b + 2 .. n : At(w, k) \in Numerals
    <3>1. b + 1 <= n
      BY <1>1, <1>2, <2>3
    <3>2. d = b + 2
      BY <2>1, <2>3, <3>1 DEF ExponentDigits
    <3> QED BY <1>1, <2>3, <3>2
  <2>4. j + 2 = b + 1 /\ j + 3 = b + 2
    BY <1>1, <1>11, <1>17
  <2> QED BY <1>10, <1>15, <2>2, <2>3, <2>4
<1> HIDE DEF d
<1>20. e \in d .. n /\ 1 <= e /\ e <= Len(s)
  BY <1>1, <1>2, <1>18, <1>19
<1>21. At(w, e) = s[e]
  BY <1>2, <1>5, <1>20
<1> QED BY <1>18, <1>19, <1>20, <1>21


-----------------------------------------------------------------------------
(* Behind the token nothing follows that would make it longer. *)
Longest(t) ==
  LET u == t.text \o t.rest
  IN \A n \in Len(t.text) + 1 .. Len(u) : ~IsLexeme(SubSeq(u, 1, n))

(* The token and the rest of a cut are the text. *)
LEMMA CutJoins ==
  ASSUME NEW s \in Text, NEW n \in 0 .. Len(s), NEW k
  PROVE  /\ Len(Cut(k, s, n).text) = n
         /\ Cut(k, s, n).text \o Cut(k, s, n).rest = s
<1>1. Len(s) \in Nat /\ s \in Seq(STRING)
  BY DEF Text
<1>2. Len(SubSeq(s, 1, n)) = n
  BY Prefix
<1>3. SubSeq(s, 1, n) \o SubSeq(s, n + 1, Len(s)) = SubSeq(s, 1, Len(s))
  <2>1. 1 \in 1 .. Len(s) + 1 /\ n \in 1 - 1 .. Len(s) /\ Len(s) \in n .. Len(s)
    BY <1>1
  <2> QED BY <1>1, <2>1, ConcatAdjacentSubSeq
<1>4. SubSeq(s, 1, Len(s)) = s
  BY <1>1, SubSeqFull
<1> QED BY <1>2, <1>3, <1>4 DEF Cut, Drop

LEMMA LongestCut ==
  ASSUME NEW s \in Text, NEW n \in 0 .. Len(s), NEW k,
         \A m \in n + 1 .. Len(s) : ~IsLexeme(SubSeq(s, 1, m))
  PROVE  Longest(Cut(k, s, n))
BY CutJoins DEF Longest

(* Which first characters go with which kind of lexeme. *)
LEMMA FirstCharacters ==
  ASSUME NEW s \in Text, NEW n \in 1 .. Len(s), IsLexeme(SubSeq(s, 1, n))
  PROVE  \/ s[1] \in Numerals /\ IsNumber(SubSeq(s, 1, n))
         \/ s[1] \in Letters /\ \A k \in 1 .. n : s[k] \in Letters \cup Numerals
         \/ n = 2 /\ s[1] \in DOMAIN PairOf /\ s[2] = SecondOf(s[1])
<1> DEFINE w == SubSeq(s, 1, n)
<1>0. Len(s) \in Nat /\ n \in Int /\ 1 <= n /\ n <= Len(s)
  BY DEF Text
<1>1. w \in Text /\ Len(w) = n /\ DOMAIN w = 1 .. n /\ \A k \in 1 .. n : w[k] = s[k]
  <2>1. n \in 0 .. Len(s)
    BY <1>0
  <2> QED BY <2>1, Prefix
<1>2. IsLexeme(w)
  OBVIOUS
<1> HIDE DEF w
<1>3. w[1] = s[1]
  BY <1>0, <1>1
<1>4. CASE IsNumber(w)
  <2>1. PICK i \in 1 .. n : \A k \in 1 .. i : At(w, k) \in Numerals
    BY <1>1, <1>4 DEF IsNumber
  <2>2. At(w, 1) \in Numerals
    BY <1>0, <2>1
  <2>3. At(w, 1) = s[1]
    BY <1>0, <1>1, <1>3 DEF At
  <2> QED BY <1>4, <2>2, <2>3 DEF w
<1>5. CASE w[1] \in Letters /\ ToSet(w) \subseteq Letters \cup Numerals
  <2>1. \A k \in 1 .. n : w[k] \in ToSet(w)
    BY <1>1 DEF ToSet
  <2> QED BY <1>1, <1>3, <1>5, <2>1
<1>6. CASE Len(w) = 2 /\ w[1] \in DOMAIN PairOf /\ w[2] = SecondOf(w[1])
  <2>1. n = 2 /\ w[2] = s[2]
    BY <1>0, <1>1, <1>6
  <2> QED BY <1>3, <1>6, <2>1
<1> QED BY <1>2, <1>4, <1>5, <1>6 DEF IsLexeme

(* The four kinds of first characters are different. *)
LEMMA CharacterClasses ==
  /\ Letters \cap Numerals = {}
  /\ Letters \cap Marks = {}
  /\ Numerals \cap Marks = {}
  /\ "EOF" \notin Numerals
  /\ DOMAIN PairOf \subseteq Marks
  /\ DOMAIN PairOf = {"!", "&", "|", "=", ">", "<"}
<1>1. DOMAIN PairOf = {"!", "&", "|", "=", ">", "<"}
  BY DEF PairOf
<1>2. (Keywords \cup {"e", "_"}) \cap Marks = {}
  BY <1>1 DEF Keywords, Marks, Singles
<1> QED BY <1>1, <1>2, LexerAssumption DEF LexerAssumption, Letters, Marks

LEMMA OtherLongest ==
  ASSUME NEW s \in Text, s # <<>>, s[1] \notin Letters \cup Numerals \cup DOMAIN PairOf,
         NEW n \in 0 .. Len(s), NEW k
  PROVE  Longest(Cut(k, s, n))
<1>1. ASSUME NEW m \in n + 1 .. Len(s) PROVE ~IsLexeme(SubSeq(s, 1, m))
  <2>1. m \in 1 .. Len(s)
    BY DEF Text
  <2> QED BY <2>1, FirstCharacters
<1> QED BY <1>1, LongestCut

LEMMA WordLongest ==
  ASSUME NEW s \in Text, s # <<>>, s[1] \in Letters
  PROVE  Longest(Word(s))
<1>0. Len(s) \in Nat /\ Len(s) >= 1 /\ DOMAIN s = 1 .. Len(s)
  BY DEF Text
<1> DEFINE e == RunEnd(s, 1, Letters \cup Numerals)
           kind == IF e - 1 = 1 /\ s[1] \in Keywords THEN s[1] ELSE "ID"
<1>1. e \in 1 .. Len(s) + 1 /\ (e \in DOMAIN s => s[e] \notin Letters \cup Numerals)
  BY <1>0, RunEnds
<1>2. Word(s) = Cut(kind, s, e - 1)
  BY DEF Word
<1> HIDE DEF e, kind
<1>3. ASSUME NEW m \in e - 1 + 1 .. Len(s) PROVE ~IsLexeme(SubSeq(s, 1, m))
  <2>1. m \in 1 .. Len(s) /\ e \in 1 .. m /\ e \in DOMAIN s
    BY <1>0, <1>1
  <2>2. s[1] \notin Numerals /\ s[1] \notin DOMAIN PairOf
    BY CharacterClasses
  <2> QED BY <1>1, <2>1, <2>2, FirstCharacters
<1>4. e - 1 \in 0 .. Len(s)
  BY <1>0, <1>1
<1> QED BY <1>2, <1>3, <1>4, LongestCut

LEMMA DigitsLongest ==
  ASSUME NEW s \in Text, s # <<>>, s[1] \in Numerals, NEW k
  PROVE  Longest(Cut(k, s, NumberEnd(s, 1) - 1))
<1>0. Len(s) \in Nat /\ Len(s) >= 1 /\ 1 \in 1 .. Len(s)
  BY DEF Text
<1> DEFINE e == NumberEnd(s, 1)
<1>1. e - 1 \in 1 .. Len(s) /\ e \in Int
  BY <1>0, NumberBehind DEF Digit
<1>2. ASSUME NEW m \in e - 1 + 1 .. Len(s) PROVE ~IsLexeme(SubSeq(s, 1, m))
  <2>1. m \in e .. Len(s) /\ m \in 1 .. Len(s)
    <3> HIDE DEF e
    <3> QED BY <1>0, <1>1
  <2>2. ~IsNumber(SubSeq(s, 1, m))
    BY <2>1, NumberLongest
  <2>3. s[1] \notin Letters /\ s[1] \notin DOMAIN PairOf
    BY CharacterClasses
  <2> QED BY <2>1, <2>2, <2>3, FirstCharacters
<1>3. e - 1 \in 0 .. Len(s)
  <2> HIDE DEF e
  <2> QED BY <1>0, <1>1
<1> HIDE DEF e
<1>4. Longest(Cut(k, s, e - 1))
  BY <1>2, <1>3, LongestCut
<1> QED BY <1>4 DEF e

LEMMA PairLongest ==
  ASSUME NEW s \in Text, s # <<>>, s[1] \in DOMAIN PairOf
  PROVE  Longest(Pair(s))
<1>0. Len(s) \in Nat /\ Len(s) >= 1 /\ DOMAIN s = 1 .. Len(s)
  BY DEF Text
<1>1. s[1] \notin Letters /\ s[1] \notin Numerals
  BY CharacterClasses
<1>2. CASE At(s, 2) = SecondOf(s[1])
  <2>1. 2 \in 0 .. Len(s)
    <3>1. At(s, 2) # "EOF"
      BY <1>2 DEF SecondOf
    <3> QED BY <1>0, <3>1 DEF At
  <2>2. ASSUME NEW m \in 2 + 1 .. Len(s) PROVE ~IsLexeme(SubSeq(s, 1, m))
    <3>1. m \in 1 .. Len(s) /\ m # 2
      BY <1>0
    <3> QED BY <1>1, <3>1, FirstCharacters
  <2>3. Longest(Cut(PairOf[s[1]], s, 2))
    BY <2>1, <2>2, LongestCut
  <2> QED BY <1>2, <2>3 DEF Pair
<1>3. CASE At(s, 2) # SecondOf(s[1])
  <2> DEFINE kind == IF s[1] \in {"&", "|"} THEN "UNKNOWN" ELSE s[1]
  <2>1. 1 \in 0 .. Len(s)
    BY <1>0
  <2>2. ASSUME NEW m \in 1 + 1 .. Len(s) PROVE ~IsLexeme(SubSeq(s, 1, m))
    <3>1. m \in 1 .. Len(s)
      BY <1>0
    <3>2. m = 2 => s[2] # SecondOf(s[1])
      BY <1>0, <1>3 DEF At
    <3> QED BY <1>1, <3>1, <3>2, FirstCharacters
  <2>3. Longest(Cut(kind, s, 1))
    <3> HIDE DEF kind
    <3> QED BY <2>1, <2>2, LongestCut
  <2> QED BY <1>3, <2>3 DEF Pair
<1> QED BY <1>2, <1>3


(* A minus that is no sign is kept alone, whatever is lost behind it. *)
LEMMA MinusLongest ==
  ASSUME NEW s \in Text, s # <<>>, s[1] = "-"
  PROVE  Longest(Minus(s))
<1>0. Len(s) \in Nat /\ Len(s) >= 1 /\ DOMAIN s = 1 .. Len(s)
  BY DEF Text
<1>1. "-" \notin Letters \cup Numerals \cup DOMAIN PairOf
  BY CharacterClasses DEF Marks
<1>2. CASE Digit(At(s, 2))
  <2>1. 2 \in 1 .. Len(s) /\ Digit(s[2])
    <3>1. At(s, 2) # "EOF"
      BY <1>2, CharacterClasses DEF Digit
    <3> QED BY <1>0, <1>2, <3>1 DEF At
  <2> DEFINE n == NumberEnd(s, 2) - 1
  <2>2. n \in 2 .. Len(s)
    BY <2>1, NumberBehind
  <2>3. Minus(s) = Cut("NUM", s, n)
    BY <1>2 DEF Minus
  <2> HIDE DEF n
  <2>4. n \in 0 .. Len(s)
    BY <1>0, <2>2
  <2> QED BY <1>1, <2>3, <2>4, OtherLongest
<1>3. CASE ~Digit(At(s, 2))
  <2> DEFINE w == SubSeq(s, 1, 1)
             r == Drop(s, 2)
             u == w \o r
  <2>1. Minus(s).text = w /\ Minus(s).rest = r
    BY <1>3 DEF Minus, Cut
  <2>2. w \in Text /\ Len(w) = 1 /\ w[1] = s[1]
    <3>1. 1 \in 0 .. Len(s) /\ 1 \in 1 .. 1
      BY <1>0
    <3> QED BY <3>1, Prefix
  <2>3. r \in Text
    <3>1. CASE 2 <= Len(s)
      <4>1. 2 \in 0 .. Len(s)
        BY <1>0, <3>1
      <4> QED BY <4>1, DropFacts
    <3>2. CASE ~(2 <= Len(s))
      <4>1. 2 \in Nat /\ 2 >= Len(s) /\ <<>> \in Text
        BY <1>0, <3>2 DEF Text
      <4> QED BY <4>1, DropAll
    <3> QED BY <3>1, <3>2
  <2> HIDE DEF w, r
  <2>4. u \in Text /\ u # <<>> /\ u[1] = "-"
    <3>1. w \in Seq(STRING) /\ r \in Seq(STRING)
      BY <2>2, <2>3 DEF Text
    <3>2. /\ u \in Seq(STRING) /\ Len(u) = Len(w) + Len(r)
          /\ \A i \in 1 .. Len(w) + Len(r) : u[i] = IF i <= Len(w) THEN w[i] ELSE r[i - Len(w)]
      BY <3>1, ConcatProperties
    <3>3. Len(r) \in Nat
      BY <3>1
    <3>4. 1 \in 1 .. Len(w) + Len(r) /\ 1 <= Len(w)
      BY <2>2, <3>3
    <3>5. Len(u) >= 1 /\ u[1] = w[1]
      <4> HIDE DEF u
      <4> QED BY <2>2, <3>2, <3>3, <3>4
    <3>6. u # <<>>
      <4> HIDE DEF u
      <4> QED BY <3>5
    <3> QED BY <2>2, <3>2, <3>5, <3>6 DEF Text
  <2>5. ASSUME NEW m \in Len(w) + 1 .. Len(u) PROVE ~IsLexeme(SubSeq(u, 1, m))
    <3>1. m \in 1 .. Len(u)
      BY <2>2
    <3> HIDE DEF u
    <3> QED BY <1>1, <2>4, <3>1, FirstCharacters
  <2> QED BY <2>1, <2>5 DEF Longest
<1> QED BY <1>2, <1>3

LEMMA TokenLongest ==
  ASSUME NEW s \in Text, s # <<>>, Token(s).kind # "ENDLESS"
  PROVE  Longest(Token(s))
<1>0. Len(s) \in Nat /\ Len(s) >= 1 /\ DOMAIN s = 1 .. Len(s) /\ 1 \in 0 .. Len(s)
  BY DEF Text
<1>1. CASE s[1] \in Letters
  BY <1>1, WordLongest DEF Token
<1>2. CASE s[1] \in Numerals
  <2>1. s[1] \notin Letters
    BY <1>2, CharacterClasses
  <2>2. Token(s) = Cut("NUM", s, NumberEnd(s, 1) - 1)
    BY <1>2, <2>1 DEF Token, Digit
  <2> QED BY <1>2, <2>2, DigitsLongest
<1>3. CASE s[1] \in DOMAIN PairOf
  <2>1. s[1] \notin Letters /\ s[1] \notin Numerals
    BY <1>3, CharacterClasses
  <2>2. s[1] \in {"!", "&", "|", "=", ">", "<"}
    BY <1>3, CharacterClasses
  <2>3. s[1] # "-" /\ s[1] # "\"" /\ s[1] # "\n" /\ s[1] \notin Singles
    BY <2>2 DEF Singles
  <2>4. Token(s) = Pair(s)
    BY <1>3, <2>1, <2>3 DEF Token, Digit
  <2> QED BY <1>3, <2>4, PairLongest
<1>4. CASE s[1] \notin Letters \cup Numerals \cup DOMAIN PairOf
  <2>1. CASE s[1] = "-"
    <3>1. Token(s) = Minus(s)
      BY <1>4, <2>1 DEF Token, Digit
    <3> QED BY <2>1, <3>1, MinusLongest
  <2>2. CASE s[1] = "\""
    <3>1. Token(s) = String(s)
      BY <1>4, <2>2 DEF Token, Digit
    <3>2. PICK n \in Behind(s) : \E k \in {"UNKNOWN", "STR"} : String(s) = Cut(k, s, n)
      BY <3>1, StringCut
    <3>3. n \in 0 .. Len(s)
      BY <1>0, <3>2 DEF Behind
    <3> QED BY <1>4, <3>1, <3>2, <3>3, OtherLongest
  <2>3. CASE s[1] # "-" /\ s[1] # "\""
    <3>1. \E k : Token(s) = Cut(k, s, 1)
      BY <1>4, <2>3 DEF Token, Digit
    <3> QED BY <1>0, <1>4, <3>1, OtherLongest
  <2> QED BY <2>1, <2>2, <2>3
<1> QED BY <1>1, <1>2, <1>3, <1>4

LEMMA NextTokenLongest ==
  ASSUME NEW s \in Text, ~Stops(s)
  PROVE  Longest(NextToken(s))
<1>1. PICK i : Begins(s, i)
  BY TokenBegins DEF Stops
<1>2. i \in 0 .. Len(s) /\ NextToken(s) = Token(Drop(s, i))
  BY <1>1 DEF Begins
<1>3. Drop(s, i) \in Text
  BY <1>2, DropFacts
<1>4. Drop(s, i) # <<>>
  <2>1. Token(<<>>).kind = "EOF"
    BY DEF Token, Cut
  <2> QED BY <1>2, <2>1 DEF Stops
<1>5. Token(Drop(s, i)).kind # "ENDLESS"
  BY <1>2 DEF Stops
<1> QED BY <1>2, <1>3, <1>4, <1>5, TokenLongest

(* get_next_token reads as far as it can, for every token of every file: no
   name, number or pair of characters begins where a token begins and goes on
   behind its end. *)
THEOREM LongestLexemeOfEveryText ==
  ASSUME text \in Text
  PROVE  LongestLexeme
<1> DEFINE S == {s \in Text : \A t \in ToSet(AllTokens[s]) : Longest(t)}
<1>1. ASSUME NEW s \in Text, Stops(s) PROVE s \in S
  <2>1. AllTokens[s] = <<>>
    BY <1>1, AllTokensStep
  <2>2. ToSet(AllTokens[s]) = {}
    BY <2>1 DEF ToSet
  <2> QED BY <2>2
<1>2. ASSUME NEW s \in Text, ~Stops(s), NextToken(s).rest \in S
      PROVE  s \in S
  <2> DEFINE q == NextToken(s)
             v == AllTokens[NextToken(s).rest]
  <2>1. AllTokens[s] = <<q>> \o v /\ v \in Seq(Heads)
    BY <1>2, AllTokensStep
  <2>2. \A t \in ToSet(v) : Longest(t)
    BY <1>2
  <2>3. Longest(q)
    BY <1>2, NextTokenLongest
  <2> HIDE DEF q, v
  <2>4. ToSet(<<q>> \o v) \subseteq {q} \cup ToSet(v)
    <3> SUFFICES ASSUME NEW i \in DOMAIN (<<q>> \o v)
                 PROVE  (<<q>> \o v)[i] \in {q} \cup ToSet(v)
      BY DEF ToSet
    <3>1. i \in 1 .. 1 + Len(v) /\ Len(v) \in Nat /\ DOMAIN v = 1 .. Len(v)
      BY <2>1
    <3>2. CASE i = 1
      BY <2>1, <3>2
    <3>3. CASE i # 1
      <4>1. (<<q>> \o v)[i] = v[i - 1] /\ i - 1 \in DOMAIN v
        BY <2>1, <3>1, <3>3
      <4> QED BY <4>1 DEF ToSet
    <3> QED BY <3>2, <3>3
  <2> QED BY <2>1, <2>2, <2>3, <2>4
<1>3. \A s \in Text : s \in S
  <2> HIDE DEF S
  <2> QED BY <1>1, <1>2, ReadingInduction
<1> QED BY <1>3 DEF LongestLexeme, Longest


-----------------------------------------------------------------------------
(* What a token of a regular text is cut off as: its n characters are kept ones,
   and what is lost behind it is a blank. *)
Blank(c) == c = " "

Gap(c) == Blank(c) \/ c = "#"

Solid(s, n) == \A k \in 1 .. n : ~Gap(s[k])

Clean(t, s) ==
  \E n \in Behind(s) : \E m \in n .. Len(s) :
    /\ t.text = SubSeq(s, 1, n) /\ t.rest = Drop(s, m)
    /\ Solid(s, n)
    /\ m = n \/ (m = n + 1 /\ Blank(s[m]))

LEMMA CutClean ==
  ASSUME NEW s \in Text, NEW n \in Behind(s), Solid(s, n), NEW k
  PROVE  Clean(Cut(k, s, n), s)
<1>1. n \in n .. Len(s)
  BY DEF Behind, Text
<1> QED BY <1>1 DEF Clean, Cut

LEMMA NumberCharacters ==
  ASSUME NEW s \in Text, NEW i \in 1 .. Len(s), s[i] \in Numerals,
         NEW k \in i .. NumberEnd(s, i) - 1
  PROVE  s[k] \in Numerals \cup {".", "e", "+", "-"}
<1> DEFINE e == NumberEnd(s, i)
<1>0. Len(s) \in Nat /\ DOMAIN s = 1 .. Len(s)
  BY DEF Text
<1>1. PICK a, b \in Int :
        /\ i < a /\ a <= b /\ b <= e
        /\ Run(s, i, a) /\ Fraction(s, a, b) /\ Exponent(s, b, e)
  BY NumberParts
<1>2. e \in Int
  BY NumberBehind DEF Digit
<1> HIDE DEF e
<1>3. k \in Int /\ i <= k /\ k <= e - 1
  BY <1>0, <1>2 DEF e
<1>4. CASE k <= a - 1
  <2>1. k \in i .. a - 1
    BY <1>1, <1>3, <1>4
  <2> QED BY <1>1, <2>1 DEF Run, Digits
<1>5. CASE a <= k /\ k <= b - 1
  <2>1. At(s, a) = "."
    BY <1>1, <1>3, <1>5 DEF Fraction
  <2>2. s[a] = "."
    BY <2>1 DEF At
  <2>3. Run(s, a + 1, b)
    BY <1>1, <2>1 DEF Fraction
  <2>4. k = a \/ k \in a + 1 .. b - 1
    BY <1>1, <1>3, <1>5
  <2> QED BY <2>2, <2>3, <2>4 DEF Run, Digits
<1>6. CASE b <= k
  <2>1. At(s, b) = "e"
    BY <1>1, <1>2, <1>3, <1>6 DEF Exponent
  <2>2. s[b] = "e"
    BY <2>1 DEF At
  <2> DEFINE d == ExponentDigits(s, b)
  <2>3. Run(s, d, e)
    BY <1>1, <2>1 DEF Exponent
  <2>4. d \in Int /\ (d = b + 1 \/ (d = b + 2 /\ s[b + 1] \in {"+", "-"}))
    BY <1>1 DEF ExponentDigits, At
  <2> HIDE DEF d
  <2>5. k = b \/ (k = b + 1 /\ d = b + 2) \/ k \in d .. e - 1
    BY <1>1, <1>2, <1>3, <1>6, <2>4
  <2> QED BY <2>2, <2>3, <2>4, <2>5 DEF Run, Digits
<1> QED BY <1>1, <1>3, <1>4, <1>5, <1>6

Quote == "\""

LEMMA RegularFacts ==
  ASSUME NEW s \in Text, Regular(s), NEW i \in DOMAIN s
  PROVE  /\ s[i] # Quote
         /\ s[i] = "-" => i = Len(s) \/ s[i + 1] \in Numerals \/ Blank(s[i + 1])
BY DEF Regular, Quote, Blank

LEMMA Ungapped ==
  \A c \in Letters \cup Numerals \cup {".", "e", "+", "-", "&", "|", "="} : ~Gap(c)
<1>1. " " \in Marks /\ "#" \in Marks
  BY DEF Marks
<1>2. \A c \in {".", "e", "+", "-", "&", "|", "="} : ~Blank(c) /\ c # "#"
  BY DEF Blank
<1> QED BY <1>1, <1>2, CharacterClasses DEF Gap, Blank

LEMMA TokenClean ==
  ASSUME NEW s \in Text, s # <<>>, Regular(s), ~Gap(s[1])
  PROVE  Clean(Token(s), s) /\ Token(s).kind \notin {"EOF", "ENDLESS"}
<1>0. Len(s) \in Nat /\ Len(s) >= 1 /\ DOMAIN s = 1 .. Len(s) /\ 1 \in Behind(s)
  BY DEF Text, Behind
<1>1. Solid(s, 1)
  BY DEF Solid
<1>2. \A c \in Letters \cup Numerals \cup {".", "e", "+", "-", "&", "|", "="} : ~Gap(c)
  BY Ungapped
<1>9. s[1] # "\""
  <2>1. s[1] # Quote
    BY <1>0, RegularFacts
  <2> QED BY <2>1 DEF Quote
<1>3. ASSUME NEW k, NEW n, k \notin {"EOF", "ENDLESS"}
      PROVE  Cut(k, s, n).kind \notin {"EOF", "ENDLESS"}
  BY <1>3 DEF Cut
<1>4. CASE s[1] \in Letters
  <2> DEFINE e == RunEnd(s, 1, Letters \cup Numerals)
             k == IF e - 1 = 1 /\ s[1] \in Keywords THEN s[1] ELSE "ID"
  <2>1. /\ e \in 1 .. Len(s) + 1
        /\ \A j \in 1 .. e - 1 : s[j] \in Letters \cup Numerals
        /\ e \in DOMAIN s => s[e] \notin Letters \cup Numerals
    BY <1>0, RunEnds
  <2>2. Token(s) = Cut(k, s, e - 1)
    BY <1>4 DEF Token, Word
  <2>3. k \notin {"EOF", "ENDLESS"}
    BY DEF Keywords
  <2> HIDE DEF e, k
  <2>4. e # 1
    BY <1>0, <1>4, <2>1
  <2>5. e - 1 \in Behind(s) /\ Solid(s, e - 1)
    BY <1>0, <1>2, <2>1, <2>4 DEF Behind, Solid
  <2> QED BY <1>3, <2>2, <2>3, <2>5, CutClean
<1>5. CASE s[1] \in Numerals
  <2> DEFINE n == NumberEnd(s, 1) - 1
  <2>0. s[1] \notin Letters
    BY <1>5, CharacterClasses
  <2>1. Token(s) = Cut("NUM", s, n)
    BY <1>5, <2>0 DEF Token, Digit
  <2>2. n \in 1 .. Len(s)
    BY <1>0, <1>5, NumberBehind DEF Digit
  <2>3. \A j \in 1 .. n : s[j] \in Numerals \cup {".", "e", "+", "-"}
    BY <1>0, <1>5, NumberCharacters
  <2> HIDE DEF n
  <2>4. n \in Behind(s) /\ Solid(s, n)
    BY <1>0, <1>2, <2>2, <2>3 DEF Behind, Solid
  <2> QED BY <1>3, <2>1, <2>4, CutClean
<1>6. CASE s[1] = "-"
  <2>1. Token(s) = Minus(s)
    <3>1. "-" \notin Letters /\ "-" \notin Numerals
      BY CharacterClasses DEF Marks
    <3> QED BY <1>6, <3>1 DEF Token, Digit
  <2>2. CASE Digit(At(s, 2))
    <3> DEFINE n == NumberEnd(s, 2) - 1
    <3>1. 2 \in 1 .. Len(s) /\ s[2] \in Numerals
      BY <1>0, <2>2, CharacterClasses DEF At, Digit
    <3>2. Token(s) = Cut("NUM", s, n)
      BY <2>1, <2>2 DEF Minus
    <3>3. n \in 2 .. Len(s)
      BY <3>1, NumberBehind DEF Digit
    <3>4. \A j \in 2 .. n : s[j] \in Numerals \cup {".", "e", "+", "-"}
      BY <3>1, NumberCharacters
    <3> HIDE DEF n
    <3>5. n \in Behind(s)
      BY <1>0, <3>3 DEF Behind
    <3>6. Solid(s, n)
      <4> SUFFICES ASSUME NEW j \in 1 .. n PROVE ~Gap(s[j])
        BY DEF Solid
      <4>1. j = 1 \/ j \in 2 .. n
        BY <3>3
      <4> QED BY <1>2, <3>4, <4>1
    <3> QED BY <1>3, <3>2, <3>5, <3>6, CutClean
  <2>3. CASE ~Digit(At(s, 2))
    <3>1. /\ Token(s).text = SubSeq(s, 1, 1) /\ Token(s).rest = Drop(s, 2)
          /\ Token(s).kind = "-"
      BY <2>1, <2>3 DEF Minus, Cut
    <3>2. CASE Len(s) = 1
      <4>1. Drop(s, 2) = <<>> /\ Drop(s, 1) = <<>>
        BY <3>2, DropAll
      <4>2. 1 \in 1 .. Len(s)
        BY <1>0
      <4> QED BY <1>0, <1>1, <3>1, <4>1, <4>2 DEF Clean
    <3>3. CASE Len(s) # 1
      <4>1. 2 \in 1 .. Len(s) /\ 1 \in DOMAIN s
        BY <1>0, <3>3
      <4>2. s[2] \in Numerals \/ Blank(s[2])
        BY <1>6, <3>3, <4>1, RegularFacts
      <4>3. Blank(s[2])
        BY <1>0, <2>3, <4>1, <4>2 DEF At, Digit
      <4>4. 2 \in 1 .. Len(s) /\ 2 = 1 + 1
        BY <4>1
      <4>5. \E m \in 1 .. Len(s) :
              /\ Token(s).text = SubSeq(s, 1, 1) /\ Token(s).rest = Drop(s, m)
              /\ Solid(s, 1)
              /\ m = 1 \/ (m = 1 + 1 /\ Blank(s[m]))
        BY <1>1, <3>1, <4>3, <4>4
      <4>6. Clean(Token(s), s)
        BY <1>0, <4>5 DEF Clean
      <4> QED BY <3>1, <4>6
    <3> QED BY <3>2, <3>3
  <2> QED BY <2>2, <2>3
<1>7. CASE s[1] \in DOMAIN PairOf
  <2>1. s[1] \notin Letters /\ s[1] \notin Numerals
    BY <1>7, CharacterClasses
  <2>2. s[1] \in {"!", "&", "|", "=", ">", "<"}
    BY <1>7, CharacterClasses
  <2>7. s[1] # "-" /\ s[1] # "\n" /\ s[1] \notin Singles
    BY <2>2 DEF Singles
  <2>4. Token(s) = Pair(s)
    BY <1>7, <1>9, <2>1, <2>7 DEF Token, Digit
  <2>5. CASE At(s, 2) = SecondOf(s[1])
    <3>1. 2 \in 1 .. Len(s) /\ s[2] \in {"&", "|", "="}
      BY <1>0, <2>2, <2>5 DEF SecondOf, At
    <3>2. 2 \in Behind(s) /\ Solid(s, 2)
      <4>1. \A j \in 1 .. 2 : j = 1 \/ j = 2
        OBVIOUS
      <4>2. ~Gap(s[2])
        BY <1>2, <3>1
      <4>3. 2 \in Behind(s)
        BY <3>1 DEF Behind
      <4> QED BY <4>1, <4>2, <4>3 DEF Solid
    <3>3. Token(s) = Cut(PairOf[s[1]], s, 2)
      BY <2>4, <2>5 DEF Pair
    <3>4. PairOf[s[1]] \in {"!=", "&&", "||", "==", ">=", "<="}
      BY <2>2 DEF PairOf
    <3>5. PairOf[s[1]] \notin {"EOF", "ENDLESS"}
      BY <3>4
    <3> QED BY <1>3, <3>2, <3>3, <3>5, CutClean
  <2>6. CASE At(s, 2) # SecondOf(s[1])
    <3> DEFINE k == IF s[1] \in {"&", "|"} THEN "UNKNOWN" ELSE s[1]
    <3>1. Token(s) = Cut(k, s, 1) /\ k \notin {"EOF", "ENDLESS"}
      BY <2>2, <2>4, <2>6 DEF Pair
    <3> HIDE DEF k
    <3> QED BY <1>0, <1>1, <1>3, <3>1, CutClean
  <2> QED BY <2>5, <2>6
<1>8. CASE s[1] \notin Letters \cup Numerals \cup DOMAIN PairOf \cup {"-"}
  <2>1. s[1] # "\""
    BY <1>9
  <2>2. Token(s) = Cut(IF s[1] = "\n" THEN "EOL" ELSE IF s[1] \in Singles THEN s[1] ELSE "UNKNOWN", s, 1)
    BY <1>8, <2>1 DEF Token, Digit
  <2>3. s[1] \in Singles => s[1] \notin {"EOF", "ENDLESS"}
    BY DEF Singles
  <2> QED BY <1>0, <1>1, <1>3, <2>2, <2>3, CutClean
<1> QED BY <1>4, <1>5, <1>6, <1>7, <1>8


-----------------------------------------------------------------------------
(* What is passed over in a text and in the rest of it. *)
Commented(s, k) == \E c \in 1 .. k : s[c] = "#" /\ \A m \in c .. k : s[m] # "\n"

LEMMA PassedForm ==
  \A s, k : Passed(s, k) <=> Blank(s[k]) \/ Commented(s, k)
BY DEF Passed, Blank, Commented

(* No comment goes on behind the first m characters. *)
Closed(s, m) == \A c \in 1 .. m : s[c] = "#" => \E x \in c .. m : s[x] = "\n"

LEMMA PassedInRest ==
  ASSUME NEW s \in Text, NEW m \in 0 .. Len(s), Closed(s, m),
         NEW k \in 1 .. Len(s) - m
  PROVE  Passed(s, m + k) <=> Passed(Drop(s, m), k)
<1> DEFINE u == Drop(s, m)
<1>0. Len(s) \in Nat /\ m \in Int /\ k \in Int /\ 1 <= k /\ k <= Len(s) - m /\ 0 <= m
  BY DEF Text
<1>1. \A i \in 1 .. Len(s) - m : u[i] = s[m + i]
  BY DropFacts
<1> HIDE DEF u
<1>2. u[k] = s[m + k]
  BY <1>1
<1>3. ASSUME Commented(u, k) PROVE Commented(s, m + k)
  <2>1. PICK c \in 1 .. k : u[c] = "#" /\ \A x \in c .. k : u[x] # "\n"
    BY <1>3 DEF Commented
  <2>2. m + c \in 1 .. m + k /\ s[m + c] = "#"
    <3>1. c \in 1 .. Len(s) - m
      BY <1>0
    <3> QED BY <1>0, <1>1, <2>1, <3>1
  <2>3. \A x \in m + c .. m + k : s[x] # "\n"
    <3> TAKE x \in m + c .. m + k
    <3>1. x - m \in c .. k /\ x - m \in 1 .. Len(s) - m /\ m + (x - m) = x
      BY <1>0
    <3> QED BY <1>1, <2>1, <3>1
  <2> QED BY <2>2, <2>3 DEF Commented
<1>4. ASSUME Commented(s, m + k) PROVE Commented(u, k)
  <2>1. PICK c \in 1 .. m + k : s[c] = "#" /\ \A x \in c .. m + k : s[x] # "\n"
    BY <1>4 DEF Commented
  <2>2. c > m
    <3>1. SUFFICES ASSUME c <= m PROVE FALSE
      BY <1>0
    <3>2. c \in 1 .. m
      BY <1>0, <3>1
    <3>3. PICK x \in c .. m : s[x] = "\n"
      BY <2>1, <3>2 DEF Closed
    <3>4. x \in c .. m + k
      BY <1>0
    <3> QED BY <2>1, <3>3, <3>4
  <2>3. c - m \in 1 .. k /\ c - m \in 1 .. Len(s) - m /\ m + (c - m) = c
    BY <1>0, <2>2
  <2>4. \A x \in c - m .. k : u[x] # "\n"
    <3> TAKE x \in c - m .. k
    <3>1. m + x \in c .. m + k /\ x \in 1 .. Len(s) - m
      BY <1>0, <2>2
    <3> QED BY <1>1, <2>1, <3>1
  <2> QED BY <1>1, <2>1, <2>3, <2>4 DEF Commented
<1> QED BY <1>2, <1>3, <1>4, PassedForm DEF u

LEMMA RegularForm ==
  \A s : Regular(s) <=>
    \A i \in DOMAIN s :
      /\ s[i] # Quote
      /\ s[i] = "-" => i = Len(s) \/ s[i + 1] \in Numerals \/ Blank(s[i + 1])
BY DEF Regular, Quote, Blank

LEMMA RegularRest ==
  ASSUME NEW s \in Text, Regular(s), NEW m \in 0 .. Len(s)
  PROVE  Regular(Drop(s, m))
<1> DEFINE u == Drop(s, m)
<1>0. Len(s) \in Nat /\ DOMAIN s = 1 .. Len(s) /\ m \in Int /\ 0 <= m /\ m <= Len(s)
  BY DEF Text
<1>1. u \in Text /\ Len(u) = Len(s) - m /\ \A i \in 1 .. Len(s) - m : u[i] = s[m + i]
  BY DropFacts
<1> HIDE DEF u
<1>2. DOMAIN u = 1 .. Len(s) - m
  BY <1>1 DEF Text
<1>3. SUFFICES ASSUME NEW i \in DOMAIN u
               PROVE  /\ u[i] # Quote
                      /\ u[i] = "-" => i = Len(u) \/ u[i + 1] \in Numerals \/ Blank(u[i + 1])
  BY RegularForm DEF u
<1>4. m + i \in DOMAIN s /\ u[i] = s[m + i]
  BY <1>0, <1>1, <1>2
<1>5. i # Len(u) => m + i # Len(s) /\ u[i + 1] = s[m + i + 1]
  <2> SUFFICES ASSUME i # Len(u) PROVE m + i # Len(s) /\ u[i + 1] = s[m + i + 1]
    OBVIOUS
  <2>1. i + 1 \in 1 .. Len(s) - m /\ m + i # Len(s) /\ m + (i + 1) = m + i + 1
    BY <1>0, <1>1, <1>2
  <2> QED BY <1>1, <2>1
<1> QED BY <1>4, <1>5, RegularForm

(* NextToken on a regular text: it passes over the first i characters, reads up
   to j, and leaves what is behind m. *)
Shape(s, i, j, m) ==
  /\ i \in 0 .. Len(s) /\ j \in i + 1 .. Len(s) /\ m \in j .. Len(s)
  /\ NextToken(s).text = SubSeq(s, i + 1, j)
  /\ NextToken(s).rest = Drop(s, m)
  /\ \A k \in 1 .. m : Passed(s, k) <=> k \notin i + 1 .. j
  /\ Closed(s, m)

LEMMA StartsForm ==
  ASSUME NEW s \in Text, NEW i, Starts(s, i)
  PROVE  /\ i \in 0 .. Len(s)
         /\ \A k \in 1 .. i : Passed(s, k)
         /\ i = Len(s) => NextToken(s) \in {Token(Drop(s, i)), Endless}
         /\ i < Len(s) => NextToken(s) = Token(Drop(s, i))
         /\ i < Len(s) => \/ ~Gap(s[i + 1]) /\ \A k \in 1 .. i : Blank(s[k])
                          \/ s[i + 1] = "\n"
BY DEF Starts, Gap, Blank

LEMMA LineEndIsNoGap == ~Gap("\n")
BY DEF Gap, Blank

LEMMA BlankIsNoHash == \A c : Blank(c) => c # "#"
BY DEF Blank

LEMMA ReadsRegular ==
  ASSUME NEW s \in Text, Regular(s), NEW i, Starts(s, i), i < Len(s)
  PROVE  ~Stops(s) /\ \E j, m : Shape(s, i, j, m)
<1> DEFINE u == Drop(s, i)
           t == NextToken(s)
<1>0. Len(s) \in Nat /\ i \in Int /\ 0 <= i /\ i < Len(s) /\ i \in 0 .. Len(s)
  BY StartsForm DEF Text
<1>1. /\ u \in Text /\ Len(u) = Len(s) - i
      /\ \A k \in 1 .. Len(s) - i : u[k] = s[i + k]
  BY <1>0, DropFacts
<1>2. Regular(u)
  BY <1>0, RegularRest
<1>3. t = Token(u)
  BY StartsForm
<1>4. /\ \A k \in 1 .. i : Passed(s, k)
      /\ \/ ~Gap(s[i + 1]) /\ \A k \in 1 .. i : Blank(s[k])
         \/ s[i + 1] = "\n"
  BY StartsForm
<1> HIDE DEF u, t
<1>5. u[1] = s[i + 1] /\ u # <<>>
  <2>1. 1 \in 1 .. Len(s) - i /\ Len(u) # 0
    BY <1>0, <1>1
  <2>2. u # <<>>
    BY <2>1
  <2> QED BY <1>1, <2>1, <2>2
<1>6. ~Gap(u[1])
  BY <1>4, <1>5, LineEndIsNoGap
<1>7. Clean(t, u) /\ t.kind \notin {"EOF", "ENDLESS"}
  BY <1>1, <1>2, <1>3, <1>5, <1>6, TokenClean
<1>8. PICK n \in Behind(u) : \E q \in n .. Len(u) :
        /\ t.text = SubSeq(u, 1, n) /\ t.rest = Drop(u, q)
        /\ Solid(u, n)
        /\ q = n \/ (q = n + 1 /\ Blank(u[q]))
  BY <1>7 DEF Clean
<1>9. PICK q \in n .. Len(u) :
        /\ t.text = SubSeq(u, 1, n) /\ t.rest = Drop(u, q)
        /\ Solid(u, n)
        /\ q = n \/ (q = n + 1 /\ Blank(u[q]))
  BY <1>8
<1>10. /\ n \in Nat /\ 1 <= n /\ n <= Len(s) - i
       /\ q \in Nat /\ n <= q /\ q <= Len(s) - i
  BY <1>0, <1>1 DEF Behind
<1> DEFINE j == i + n
           m == i + q
<1>11. j \in i + 1 .. Len(s) /\ m \in j .. Len(s) /\ m \in 0 .. Len(s)
  BY <1>0, <1>10
<1>12. t.text = SubSeq(s, i + 1, j)
  <2>1. SubSeq(Drop(s, i), 1, n) = SubSeq(s, i + 1, i + n)
    <3>1. 1 \in Nat /\ 1 <= 1
      OBVIOUS
    <3> QED BY <1>0, <1>10, <3>1, SubSeqOfDrop
  <2> QED BY <1>9, <2>1 DEF u
<1>13. t.rest = Drop(s, m)
  BY <1>0, <1>9, <1>10, DropOfDrop DEF u
<1>14. \A k \in i + 1 .. j : ~Gap(s[k])
  <2> TAKE k \in i + 1 .. j
  <2>1. k - i \in 1 .. n /\ k - i \in 1 .. Len(s) - i /\ i + (k - i) = k
    BY <1>0, <1>10
  <2> QED BY <1>1, <1>9, <2>1 DEF Solid
<1>15. m = j \/ (m = j + 1 /\ Blank(s[m]))
  <2>1. q \in 1 .. Len(s) - i
    BY <1>0, <1>10
  <2> QED BY <1>0, <1>1, <1>9, <1>10, <2>1
<1>16. \/ \A c \in 1 .. m : s[c] # "#"
       \/ s[i + 1] = "\n"
  <2> SUFFICES ASSUME \A k \in 1 .. i : Blank(s[k]), NEW c \in 1 .. m PROVE s[c] # "#"
    BY <1>4
  <2>1. c \in 1 .. i \/ c \in i + 1 .. j \/ (c = m /\ m # j)
    BY <1>0, <1>11, <1>15
  <2> QED BY <1>14, <1>15, <2>1, BlankIsNoHash DEF Gap
(* A comment before the token ends with its line, and the token is that end. *)
<1>17. \A c \in 1 .. m : s[c] = "#" => c <= i
  <2> SUFFICES ASSUME NEW c \in 1 .. m, s[c] = "#", i < c PROVE FALSE
    BY <1>0, <1>11
  <2>1. c \in i + 1 .. j \/ (c = m /\ m # j)
    BY <1>0, <1>11, <1>15
  <2> QED BY <1>14, <1>15, <2>1, BlankIsNoHash DEF Gap
<1>18. i + 1 \in 1 .. m /\ i + 1 <= j /\ i \in Int /\ m \in Int /\ j \in Int
  BY <1>0, <1>11
<1>19. Closed(s, m)
  <2> SUFFICES ASSUME NEW c \in 1 .. m, s[c] = "#" PROVE \E x \in c .. m : s[x] = "\n"
    BY DEF Closed
  <2>1. s[i + 1] = "\n" /\ c <= i
    BY <1>16, <1>17
  <2>2. i + 1 \in c .. m
    BY <1>18, <2>1
  <2> QED BY <2>1, <2>2
<1>20. ASSUME NEW k \in i + 1 .. j PROVE ~Passed(s, k)
  <2>1. ~Blank(s[k])
    BY <1>14 DEF Gap
  <2>2. ASSUME Commented(s, k) PROVE FALSE
    <3>1. PICK c \in 1 .. k : s[c] = "#" /\ \A x \in c .. k : s[x] # "\n"
      BY <2>2 DEF Commented
    <3>2. c \in 1 .. m
      BY <1>11, <1>18
    <3>3. s[i + 1] = "\n" /\ c <= i
      BY <1>16, <1>17, <3>1, <3>2
    <3>4. i + 1 \in c .. k
      BY <1>18, <3>3
    <3> QED BY <3>1, <3>3, <3>4
  <2> QED BY <2>1, <2>2, PassedForm
<1>21. ASSUME NEW k \in 1 .. m, k \notin i + 1 .. j PROVE Passed(s, k)
  <2>1. k \in 1 .. i \/ (k = m /\ m # j)
    BY <1>11, <1>15, <1>18, <1>21
  <2> QED BY <1>4, <1>15, <2>1, PassedForm
<1>22. Shape(s, i, j, m)
  <2> HIDE DEF j, m
  <2> QED BY <1>0, <1>11, <1>12, <1>13, <1>19, <1>20, <1>21 DEF Shape, t
<1> QED BY <1>7, <1>22 DEF Stops, t

LEMMA StopsAtEnd ==
  ASSUME NEW s \in Text, Regular(s), Stops(s)
  PROVE  \A k \in 1 .. Len(s) : Passed(s, k)
<1>1. PICK i : Starts(s, i)
  BY NextTokenStarts
<1>2. i \in 0 .. Len(s) /\ \A k \in 1 .. i : Passed(s, k)
  BY <1>1, StartsForm
<1>3. ~(i < Len(s))
  BY <1>1, ReadsRegular
<1>4. i = Len(s)
  BY <1>2, <1>3 DEF Text
<1> QED BY <1>2, <1>4

LEMMA ReadsShape ==
  ASSUME NEW s \in Text, Regular(s), ~Stops(s)
  PROVE  \E i, j, m : Shape(s, i, j, m)
<1>1. PICK i : Starts(s, i)
  BY NextTokenStarts
<1>2. CASE i < Len(s)
  BY <1>1, <1>2, ReadsRegular
<1>3. CASE ~(i < Len(s))
  <2>1. i = Len(s)
    BY <1>1, <1>3, StartsForm DEF Text
  <2>2. Drop(s, i) = <<>>
    <3>1. Len(s) \in Nat /\ i \in Nat /\ i >= Len(s)
      BY <2>1 DEF Text
    <3> QED BY <3>1, DropAll
  <2>3. Token(<<>>).kind = "EOF" /\ Endless.kind = "ENDLESS"
    BY DEF Token, Cut, Endless
  <2> QED BY <1>1, <2>1, <2>2, <2>3, StartsForm DEF Stops
<1> QED BY <1>2, <1>3


-----------------------------------------------------------------------------
(* Counting the characters that are kept: those of a piece of the text, and
   those of the rest. *)
Moved(L, m) == {m + k : k \in L}

Joined(i, j, m, L) == (i + 1 .. j) \cup Moved(L, m)

LEMMA MovedCardinality ==
  ASSUME NEW L \in SUBSET Int, IsFiniteSet(L), NEW m \in Int
  PROVE  IsFiniteSet(Moved(L, m)) /\ Cardinality(Moved(L, m)) = Cardinality(L)
<1> DEFINE f == [k \in L |-> m + k]
<1>1. f \in Bijection(L, Moved(L, m))
  <2>1. f \in [L -> Moved(L, m)]
    BY DEF Moved
  <2>2. \A a, c \in L : f[a] = f[c] => a = c
    <3> SUFFICES ASSUME NEW a \in L, NEW c \in L, m + a = m + c PROVE a = c
      OBVIOUS
    <3>1. a \in Int /\ c \in Int
      OBVIOUS
    <3> QED BY <3>1
  <2>3. \A y \in Moved(L, m) : \E a \in L : f[a] = y
    BY DEF Moved
  <2> HIDE DEF f
  <2> QED BY <2>1, <2>2, <2>3 DEF Bijection, Injection, Surjection, IsInjective
<1> HIDE DEF f
<1>2. ExistsBijection(L, Moved(L, m))
  BY <1>1 DEF ExistsBijection
<1> QED BY <1>2, FS_Bijection

LEMMA PieceAndRest ==
  ASSUME NEW i \in Nat, NEW j \in Nat, NEW m \in Nat, i <= j, j <= m,
         NEW L \in SUBSET (Nat \ {0}), IsFiniteSet(L)
  PROVE  Cardinality(Joined(i, j, m, L)) = (j - i) + Cardinality(L)
<1>1. IsFiniteSet(i + 1 .. j) /\ Cardinality(i + 1 .. j) = j - i
  <2>1. /\ IsFiniteSet(i + 1 .. j)
        /\ Cardinality(i + 1 .. j) = IF i + 1 > j THEN 0 ELSE j - (i + 1) + 1
    BY FS_Interval
  <2> QED BY <2>1
<1>2. IsFiniteSet(Moved(L, m)) /\ Cardinality(Moved(L, m)) = Cardinality(L)
  BY MovedCardinality
<1>3. (i + 1 .. j) \cap Moved(L, m) = {}
  <2> SUFFICES ASSUME NEW x \in i + 1 .. j, x \in Moved(L, m) PROVE FALSE
    OBVIOUS
  <2>1. PICK k \in L : x = m + k
    BY DEF Moved
  <2>2. k \in Nat /\ k # 0
    OBVIOUS
  <2> QED BY <2>1, <2>2
<1>4. Cardinality((i + 1 .. j) \cup Moved(L, m)) =
        Cardinality(i + 1 .. j) + Cardinality(Moved(L, m))
          - Cardinality((i + 1 .. j) \cap Moved(L, m))
  BY <1>1, <1>2, FS_Union
<1>5. Cardinality(L) \in Nat /\ Cardinality({}) = 0
  BY FS_CardinalityType, FS_EmptySet
<1>6. Cardinality((i + 1 .. j) \cup Moved(L, m)) = (j - i) + Cardinality(L) - 0
  BY <1>1, <1>2, <1>3, <1>4, <1>5
<1>7. j - i \in Int /\ Cardinality(L) \in Int
  BY <1>5
<1>8. \A a, c \in Int : a + c - 0 = a + c
  OBVIOUS
<1> QED BY <1>6, <1>7, <1>8 DEF Joined

LEMMA KeptType ==
  ASSUME NEW s \in Text
  PROVE  /\ Kept(s) \subseteq 1 .. Len(s)
         /\ Kept(s) \in SUBSET (Nat \ {0})
         /\ IsFiniteSet(Kept(s))
         /\ Cardinality(Kept(s)) \in Nat
<1>1. Len(s) \in Nat /\ DOMAIN s = 1 .. Len(s)
  BY DEF Text
<1>2. Kept(s) \subseteq 1 .. Len(s)
  BY <1>1 DEF Kept
<1>3. IsFiniteSet(1 .. Len(s))
  BY <1>1, FS_Interval
<1>4. IsFiniteSet(Kept(s))
  BY <1>2, <1>3, FS_Subset
<1>5. \A k \in 1 .. Len(s) : k \in Nat \ {0}
  BY <1>1
<1> QED BY <1>2, <1>4, <1>5, FS_CardinalityType

LEMMA KeptOfShape ==
  ASSUME NEW s \in Text, NEW i, NEW j, NEW m, Shape(s, i, j, m)
  PROVE  Kept(s) = Joined(i, j, m, Kept(Drop(s, m)))
<1> DEFINE u == Drop(s, m)
<1>0. /\ Len(s) \in Nat /\ DOMAIN s = 1 .. Len(s)
      /\ i \in 0 .. Len(s) /\ j \in i + 1 .. Len(s) /\ m \in j .. Len(s)
  BY DEF Shape, Text
<1>1. m \in 0 .. Len(s) /\ i \in Int /\ j \in Int /\ m \in Int
  BY <1>0
<1>2. Closed(s, m) /\ \A k \in 1 .. m : Passed(s, k) <=> k \notin i + 1 .. j
  BY DEF Shape
<1>3. u \in Text /\ Len(u) = Len(s) - m
  BY <1>1, DropFacts
<1>4. \A k \in 1 .. Len(s) - m : Passed(s, m + k) <=> Passed(u, k)
  BY <1>1, <1>2, PassedInRest
<1> HIDE DEF u
<1>5. DOMAIN u = 1 .. Len(s) - m
  BY <1>3 DEF Text
<1>6. ASSUME NEW k \in Kept(s), k \notin i + 1 .. j PROVE k \in Moved(Kept(u), m)
  <2>1. k \in 1 .. Len(s) /\ ~Passed(s, k)
    BY <1>0 DEF Kept
  <2>2. k > m
    <3>1. ~(k \in 1 .. m)
      BY <1>2, <1>6, <2>1
    <3> QED BY <1>1, <2>1, <3>1
  <2>3. k - m \in 1 .. Len(s) - m /\ m + (k - m) = k
    BY <1>0, <1>1, <2>1, <2>2
  <2>4. k - m \in Kept(u)
    BY <1>4, <1>5, <2>1, <2>3 DEF Kept
  <2> QED BY <2>3, <2>4 DEF Moved
<1>7. ASSUME NEW k \in i + 1 .. j PROVE k \in Kept(s)
  <2>1. k \in 1 .. m /\ k \in 1 .. Len(s)
    BY <1>0
  <2> QED BY <1>0, <1>2, <2>1 DEF Kept
<1>8. ASSUME NEW k \in Kept(u) PROVE m + k \in Kept(s)
  <2>1. k \in 1 .. Len(s) - m /\ ~Passed(u, k)
    BY <1>5 DEF Kept
  <2>2. m + k \in 1 .. Len(s)
    BY <1>0, <1>1, <2>1
  <2> QED BY <1>0, <1>4, <2>1, <2>2 DEF Kept
<1> QED BY <1>6, <1>7, <1>8 DEF Joined, Moved, u

(* The rank of a kept character: in the piece, and in the rest. *)
Upto(L, k) == {x \in L : x <= k}

LEMMA RankType ==
  ASSUME NEW L \in SUBSET (Nat \ {0}), IsFiniteSet(L), NEW l \in L
  PROVE  /\ IsFiniteSet(Upto(L, l))
         /\ Cardinality(Upto(L, l)) \in 1 .. Cardinality(L)
<1>1. Upto(L, l) \in SUBSET L /\ l \in Upto(L, l)
  BY DEF Upto
<1>2. IsFiniteSet(Upto(L, l)) /\ Cardinality(Upto(L, l)) <= Cardinality(L)
  BY <1>1, FS_Subset
<1>3. Cardinality(Upto(L, l)) \in Nat /\ Cardinality(L) \in Nat
  BY <1>2, FS_CardinalityType
<1>4. Cardinality(Upto(L, l)) # 0
  BY <1>1, <1>2, FS_EmptySet
<1> QED BY <1>2, <1>3, <1>4

LEMMA RankInPiece ==
  ASSUME NEW i \in Nat, NEW j \in Nat, NEW m \in Nat, i <= j, j <= m,
         NEW L \in SUBSET (Nat \ {0}), NEW k \in i + 1 .. j
  PROVE  Cardinality(Upto(Joined(i, j, m, L), k)) = k - i
<1>1. ASSUME NEW x \in Moved(L, m) PROVE ~(x <= k)
  <2>1. PICK l \in L : x = m + l
    BY DEF Moved
  <2>2. l \in Nat /\ l # 0
    OBVIOUS
  <2> QED BY <2>1, <2>2
<1>2. \A x : (x \in i + 1 .. j /\ x <= k) <=> x \in i + 1 .. k
  OBVIOUS
<1>3. Upto(Joined(i, j, m, L), k) = i + 1 .. k
  BY <1>1, <1>2 DEF Upto, Joined
<1>4. Cardinality(i + 1 .. k) = IF i + 1 > k THEN 0 ELSE k - (i + 1) + 1
  BY FS_Interval
<1>5. Cardinality(i + 1 .. k) = k - i
  BY <1>4
<1> QED BY <1>3, <1>5

LEMMA RankInRest ==
  ASSUME NEW i \in Nat, NEW j \in Nat, NEW m \in Nat, i <= j, j <= m,
         NEW L \in SUBSET (Nat \ {0}), IsFiniteSet(L), NEW l \in L, NEW k, k = m + l
  PROVE  Cardinality(Upto(Joined(i, j, m, L), k)) = (j - i) + Cardinality(Upto(L, l))
<1>1. l \in Nat
  OBVIOUS
<1>2. \A x \in i + 1 .. j : x <= m + l
  BY <1>1
<1>3. \A x \in L : m + x <= m + l <=> x <= l
  BY <1>1
<1>4. Upto(Joined(i, j, m, L), k) = Joined(i, j, m, Upto(L, l))
  BY <1>2, <1>3 DEF Upto, Joined, Moved
<1>5. Upto(L, l) \in SUBSET (Nat \ {0}) /\ IsFiniteSet(Upto(L, l))
  <2>1. IsFiniteSet(Upto(L, l))
    BY RankType
  <2> QED BY <2>1 DEF Upto
<1> QED BY <1>4, <1>5, PieceAndRest

LEMMA StrippedForm ==
  \A s, r : Stripped(s, r) <=>
    /\ Len(r) = Cardinality(Kept(s))
    /\ \A k \in Kept(s) : r[Cardinality(Upto(Kept(s), k))] = s[k]
BY DEF Stripped, Upto

LEMMA StrippedSplice ==
  ASSUME NEW s \in Text, NEW i \in Nat, NEW j \in Nat, NEW m \in Nat,
         Shape(s, i, j, m), NEW r \in Text, Stripped(Drop(s, m), r)
  PROVE  Stripped(s, SubSeq(s, i + 1, j) \o r)
<1> DEFINE u == Drop(s, m)
           L == Kept(u)
           p == SubSeq(s, i + 1, j)
<1>0. /\ Len(s) \in Nat
      /\ i \in 0 .. Len(s) /\ j \in i + 1 .. Len(s) /\ m \in j .. Len(s)
  BY DEF Shape, Text
<1>1. i \in Nat /\ j \in Nat /\ m \in Nat /\ i <= j /\ j <= m /\ m \in 0 .. Len(s)
  BY <1>0
<1>2. Kept(s) = Joined(i, j, m, L)
  BY KeptOfShape
<1>3. u \in Text /\ Len(u) = Len(s) - m /\ \A k \in 1 .. Len(s) - m : u[k] = s[m + k]
  BY <1>1, DropFacts
<1>4. /\ L \subseteq 1 .. Len(u) /\ L \in SUBSET (Nat \ {0})
      /\ IsFiniteSet(L) /\ Cardinality(L) \in Nat
  BY <1>3, KeptType
<1>5. Len(r) = Cardinality(L) /\ \A k \in L : r[Cardinality(Upto(L, k))] = u[k]
  BY StrippedForm
<1>6. p \in Seq(STRING) /\ Len(p) = j - i /\ \A k \in 1 .. j - i : p[k] = s[i + k]
  <2>1. \A k \in i + 1 .. j : k \in 1 .. Len(s)
    BY <1>0
  <2>2. \A k \in i + 1 .. j : s[k] \in STRING
    BY <2>1 DEF Text
  <2>3. i + 1 \in Int /\ j \in Int
    BY <1>1
  <2>4. /\ p \in Seq(STRING)
        /\ Len(p) = IF i + 1 <= j THEN j - (i + 1) + 1 ELSE 0
        /\ \A k \in 1 .. j - (i + 1) + 1 : p[k] = s[(i + 1) + k - 1]
    BY <2>2, <2>3, SubSeqProperties
  <2>5. Len(p) = j - i
    BY <1>1, <2>4
  <2>6. ASSUME NEW k \in 1 .. j - i PROVE p[k] = s[i + k]
    <3>1. k \in 1 .. j - (i + 1) + 1 /\ (i + 1) + k - 1 = i + k
      BY <1>1
    <3> QED BY <2>4, <3>1
  <2> QED BY <2>4, <2>5, <2>6
<1>7. r \in Seq(STRING)
  BY DEF Text
<1>8. /\ Len(p \o r) = Len(p) + Len(r)
      /\ \A k \in 1 .. Len(p) + Len(r) :
           (p \o r)[k] = IF k <= Len(p) THEN p[k] ELSE r[k - Len(p)]
  <2> HIDE DEF p
  <2> QED BY <1>6, <1>7, ConcatProperties
<1> HIDE DEF u, L, p
<1>9. Len(p \o r) = Cardinality(Kept(s))
  <2>1. Cardinality(Kept(s)) = (j - i) + Cardinality(L)
    BY <1>1, <1>2, <1>4, PieceAndRest
  <2> QED BY <1>5, <1>6, <1>8, <2>1
<1>10. ASSUME NEW k \in i + 1 .. j
       PROVE  (p \o r)[Cardinality(Upto(Kept(s), k))] = s[k]
  <2>1. Cardinality(Upto(Kept(s), k)) = k - i
    BY <1>1, <1>2, <1>4, RankInPiece
  <2>2. /\ k - i \in 1 .. j - i /\ k - i <= j - i /\ i + (k - i) = k
        /\ k - i \in 1 .. (j - i) + Cardinality(L)
    BY <1>1, <1>4
  <2>3. (p \o r)[k - i] = p[k - i]
    BY <1>5, <1>6, <1>8, <2>2
  <2> QED BY <1>6, <2>1, <2>2, <2>3
<1>11. ASSUME NEW l \in L
       PROVE  (p \o r)[Cardinality(Upto(Kept(s), m + l))] = s[m + l]
  <2> DEFINE q == Cardinality(Upto(L, l))
  <2>1. Cardinality(Upto(Kept(s), m + l)) = (j - i) + q
    BY <1>1, <1>2, <1>4, RankInRest
  <2>2. q \in 1 .. Cardinality(L)
    BY <1>4, RankType
  <2>3. r[q] = u[l]
    BY <1>5
  <2> HIDE DEF q
  <2>4. /\ (j - i) + q \in 1 .. (j - i) + Cardinality(L)
        /\ ~((j - i) + q <= j - i)
        /\ ((j - i) + q) - (j - i) = q
    BY <1>1, <1>4, <2>2
  <2>5. (p \o r)[(j - i) + q] = r[q]
    BY <1>5, <1>6, <1>8, <2>4
  <2>6. u[l] = s[m + l]
    BY <1>3, <1>4
  <2> QED BY <2>1, <2>3, <2>5, <2>6
<1>12. ASSUME NEW k \in Kept(s)
       PROVE  (p \o r)[Cardinality(Upto(Kept(s), k))] = s[k]
  <2>1. k \in i + 1 .. j \/ \E l \in L : k = m + l
    BY <1>2 DEF Joined, Moved
  <2> QED BY <1>10, <1>11, <2>1
<1> QED BY <1>9, <1>12, StrippedForm DEF p

(* get_next_token loses no character of a text without strings and unary minus,
   whatever its length. *)
THEOREM EveryCharacterReadOfEveryText ==
  ASSUME text \in Text
  PROVE  EveryCharacterRead
<1> DEFINE S == {s \in Text : Regular(s) => Stripped(s, CharactersRead[s])}
<1>1. ASSUME NEW s \in Text, Stops(s), Regular(s)
      PROVE  Stripped(s, CharactersRead[s])
  <2>1. \A k \in 1 .. Len(s) : Passed(s, k)
    BY <1>1, StopsAtEnd
  <2>2. Kept(s) = {}
    <3>1. DOMAIN s = 1 .. Len(s)
      BY DEF Text
    <3> QED BY <2>1, <3>1 DEF Kept
  <2>3. CharactersRead[s] = <<>>
    BY <1>1, CharactersReadStep
  <2>4. Cardinality(Kept(s)) = 0
    BY <2>2, FS_EmptySet
  <2> QED BY <2>2, <2>3, <2>4, StrippedForm
<1>2. ASSUME NEW s \in Text, ~Stops(s), NextToken(s).rest \in S, Regular(s)
      PROVE  Stripped(s, CharactersRead[s])
  <2>1. PICK i, j, m : Shape(s, i, j, m)
    BY <1>2, ReadsShape
  <2>2. /\ NextToken(s).text = SubSeq(s, i + 1, j)
        /\ NextToken(s).rest = Drop(s, m)
        /\ m \in 0 .. Len(s) /\ i \in Nat /\ j \in Nat /\ m \in Nat
    <3>1. Len(s) \in Nat
      BY DEF Text
    <3> QED BY <2>1, <3>1 DEF Shape
  <2>3. Regular(Drop(s, m))
    BY <1>2, <2>2, RegularRest
  <2>4. Drop(s, m) \in Text /\ Stripped(Drop(s, m), CharactersRead[Drop(s, m)])
    BY <1>2, <2>2, <2>3
  <2>5. CharactersRead[Drop(s, m)] \in Text
    BY <2>4, CharactersReadStep
  <2>6. Stripped(s, SubSeq(s, i + 1, j) \o CharactersRead[Drop(s, m)])
    BY <2>1, <2>2, <2>4, <2>5, StrippedSplice
  <2>7. CharactersRead[s] = SubSeq(s, i + 1, j) \o CharactersRead[Drop(s, m)]
    BY <1>2, <2>2, CharactersReadStep
  <2> QED BY <2>6, <2>7
<1>3. \A s \in Text : Stops(s) => s \in S
  BY <1>1
<1>4. \A s \in Text : ~Stops(s) /\ NextToken(s).rest \in S => s \in S
  <2> SUFFICES ASSUME NEW s \in Text, ~Stops(s), NextToken(s).rest \in S PROVE s \in S
    OBVIOUS
  <2> QED BY <1>2
<1>5. \A s \in Text : s \in S
  <2> HIDE DEF S
  <2> QED BY <1>3, <1>4, ReadingInduction
<1> QED BY <1>5 DEF EveryCharacterRead

==============================================================================
