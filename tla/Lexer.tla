-------------------------------- MODULE Lexer --------------------------------
(* get_next_token of lex.c: it cuts the next token off a text.

   A text is a sequence of units.  A unit is one character, except that a word
   of letters which the properties never take apart (a name, a keyword) is one
   unit as well.  The lexer has read at most one character ahead: `peek` and
   the unread file together are the text that is left, so the state of the
   lexer is that text.  At the end of the text fgetc gives EOF for ever. *)
EXTENDS Integers, Sequences, FiniteSetsExt, SequencesExt

CONSTANTS
  Names,      \* units that are letters and no keywords
  Numerals    \* units that are digits

(* The table of keyword.c. *)
Keywords == {"function", "if", "else", "for", "while", "return", "break",
             "continue", "local", "include"}

Letters == Names \cup Keywords \cup {"e", "_"}

(* Characters that are a token on their own. *)
Singles == {"+", "*", "/", "(", ")", ",", "{", "}", "[", "]", ";", "^"}

(* Characters that may be the first of two: the token of the pair. *)
PairOf == [c \in {"!", "&", "|", "=", ">", "<"} |->
             CASE c = "!" -> "!=" [] c = "&" -> "&&" [] c = "|" -> "||"
               [] c = "=" -> "==" [] c = ">" -> ">=" [] c = "<" -> "<="]

SecondOf(c) == IF c \in {"&", "|"} THEN c ELSE "="

Digit(u) == u \in Numerals

(* The characters that the lexer and the documents name. *)
Marks == Singles \cup DOMAIN PairOf \cup {"-", ".", "\"", "#", " ", "\n"}

LexerAssumption ==
  /\ (Letters \cup {"EOF"}) \cap Numerals = {}
  /\ (Names \cup Numerals) \cap Marks = {}
ASSUME LexerAssumption

-----------------------------------------------------------------------------
At(s, i) == IF i \in DOMAIN s THEN s[i] ELSE "EOF"

(* The first position from i on that is not in S: where a loop over the
   characters of S stops. *)
RunEnd(s, i, S) == Min({j \in i .. Len(s) + 1 : j \in DOMAIN s => s[j] \notin S})

Drop(s, n) == SubSeq(s, n + 1, Len(s))

(* A token: its kind, its text, and the text that is left. *)
Cut(kind, s, n) ==
  [kind |-> kind, text |-> SubSeq(s, 1, n), rest |-> Drop(s, n)]

(* The lexer reads for ever. *)
Endless == [kind |-> "ENDLESS", text |-> <<>>, rest |-> <<>>]

SkipBlanks(s) == Drop(s, RunEnd(s, 1, {" "}) - 1)

(* A comment ends before the end of its line. *)
SkipComment(s) == Drop(s, RunEnd(s, 1, ToSet(s) \ {"\n"}) - 1)

(* The end of a number that begins at i: digits, a fraction, an exponent; the
   digits of the last two may be missing.  "e" stands for the letter that begins
   an exponent: the lexer takes E as well, and the first letter of any word that
   stands directly behind the digits, which a unit of a text cannot be cut into. *)
NumberEndNoFraction(s, i) == RunEnd(s, i, Numerals)

FractionEnd(s, i) == IF At(s, i) = "." THEN RunEnd(s, i + 1, Numerals) ELSE i

ExponentEnd(s, i) ==
  IF At(s, i) # "e" THEN i
  ELSE RunEnd(s, IF At(s, i + 1) \in {"+", "-"} THEN i + 2 ELSE i + 1, Numerals)

NumberEnd(s, i) == ExponentEnd(s, FractionEnd(s, RunEnd(s, i, Numerals)))

Word(s) ==
  LET n == RunEnd(s, 1, Letters \cup Numerals) - 1
  IN Cut(IF n = 1 /\ s[1] \in Keywords THEN s[1] ELSE "ID", s, n)

(* A minus before a digit is a sign; after any other minus the character that
   was read to find out is lost. *)
Minus(s) ==
  IF Digit(At(s, 2)) THEN Cut("NUM", s, NumberEnd(s, 2) - 1)
  ELSE [Cut("-", s, 1) EXCEPT !.rest = Drop(s, 2)]

(* The second character of a pair is kept when it is not part of the token. *)
PairDropsNext(s) ==
  IF At(s, 2) = SecondOf(s[1]) THEN Cut(PairOf[s[1]], s, 2)
  ELSE [Cut(IF s[1] \in {"&", "|"} THEN "UNKNOWN" ELSE s[1], s, 1)
          EXCEPT !.rest = Drop(s, 2)]

Pair(s) ==
  IF At(s, 2) = SecondOf(s[1]) THEN Cut(PairOf[s[1]], s, 2)
  ELSE Cut(IF s[1] \in {"&", "|"} THEN "UNKNOWN" ELSE s[1], s, 1)

(* The first character of a string is never its end; a string may not contain
   the end of a line, which is kept. *)
String(s) ==
  LET ends == {j \in 2 .. Len(s) : s[j] = "\n" \/ (j > 2 /\ s[j] = "\"")}
      n == Min(ends)
  IN IF ends = {} THEN Endless
     ELSE IF s[n] = "\n" THEN Cut("UNKNOWN", s, n - 1)
     ELSE Cut("STR", s, n)

(* get_next_token of the text s. *)
Token(s) ==
  IF s = <<>> THEN Cut("EOF", s, 0)
  ELSE IF s[1] \in Letters THEN Word(s)
  ELSE IF Digit(s[1]) THEN Cut("NUM", s, NumberEnd(s, 1) - 1)
  ELSE IF s[1] = "-" THEN Minus(s)
  ELSE IF s[1] = "\"" THEN String(s)
  ELSE IF s[1] = "\n" THEN Cut("EOL", s, 1)
  ELSE IF s[1] \in Singles THEN Cut(s[1], s, 1)
  ELSE IF s[1] \in DOMAIN PairOf THEN Pair(s)
  ELSE Cut("UNKNOWN", s, 1)

(* A comment is skipped like a blank.  What follows it is the end of its line,
   so the loop over blanks and comments is left there. *)
NextToken(text) ==
  LET s == SkipBlanks(text)
      t == SkipComment(s)
  IN IF At(s, 1) # "#" THEN Token(s)
     ELSE IF t = <<>> THEN Endless
     ELSE Token(t)
=============================================================================
