-------------------------------- MODULE Tokens --------------------------------
(* All tokens of a file, as get_next_token of module Lexer cuts them off one
   after the other, and what they have to do with the file: references that
   work on the whole file, and nothing but their form is taken from the lexer. *)
EXTENDS Lexer, FiniteSets

VARIABLE text     \* the file, as it was at the start

-----------------------------------------------------------------------------
(* The tokens before the one for the end, and their texts in a row. *)
AllTokens[s \in Seq(STRING)] ==
  LET t == NextToken(s)
  IN IF t.kind \in {"EOF", "ENDLESS"} THEN <<>> ELSE <<t>> \o AllTokens[t.rest]

CharactersRead[s \in Seq(STRING)] ==
  LET t == NextToken(s)
  IN IF t.kind \in {"EOF", "ENDLESS"} THEN <<>> ELSE t.text \o CharactersRead[t.rest]

(* What a reader of the text s passes over: a blank, and every character of a
   comment. *)
Passed(s, k) ==
  \/ s[k] = " "
  \/ \E c \in 1 .. k : s[c] = "#" /\ \A m \in c .. k : s[m] # "\n"

Kept(s) == {k \in DOMAIN s : ~Passed(s, k)}

(* r is what is left of s without the characters that are passed over. *)
Stripped(s, r) ==
  /\ Len(r) = Cardinality(Kept(s))
  /\ \A k \in Kept(s) : r[Cardinality({j \in Kept(s) : j <= k})] = s[k]

(* No strings, and no minus before something that is neither a digit nor a
   blank. *)
Regular(s) ==
  \A i \in DOMAIN s :
    /\ s[i] # "\""
    /\ s[i] = "-" => i = Len(s) \/ s[i + 1] \in Numerals \cup {" "}

(* The documented numbers and names, and the pairs of characters. *)
IsNumber(w) ==
  LET digits(i, j) == i <= j /\ \A k \in i .. j : At(w, k) \in Numerals
      n == Len(w)
  IN \E i \in 1 .. n : digits(1, i) /\ \E j \in i .. n :
       /\ j = i \/ (At(w, i + 1) = "." /\ digits(i + 2, j))
       /\ \/ j = n
          \/ /\ At(w, j + 1) = "e"
             /\ \/ digits(j + 2, n)
                \/ At(w, j + 2) \in {"+", "-"} /\ digits(j + 3, n)

IsLexeme(w) ==
  \/ IsNumber(w)
  \/ w[1] \in Letters /\ ToSet(w) \subseteq Letters \cup Numerals
  \/ Len(w) = 2 /\ w[1] \in DOMAIN PairOf /\ w[2] = SecondOf(w[1])

-----------------------------------------------------------------------------
(* Properties. *)

(* get_next_token loses no character: the texts of the tokens are the file
   without blanks and comments - if it has no strings, and no minus before
   something that is neither a digit nor a blank. *)
EveryCharacterRead == Regular(text) => Stripped(text, CharactersRead[text])

(* get_next_token reads as far as it can: no name, number or operator begins
   where a token begins and is longer than the token. *)
LongestLexeme ==
  \A t \in ToSet(AllTokens[text]) :
    LET s == t.text \o t.rest
    IN \A n \in Len(t.text) + 1 .. Len(s) : ~IsLexeme(SubSeq(s, 1, n))
=============================================================================
