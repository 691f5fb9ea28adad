------------------------------ MODULE MCReader ------------------------------
(* Files for TLC to read: all short sequences of some characters, expressions
   of three operators, and sequences of pieces of statements. *)
EXTENDS Reader

MCNames == {"a", "b", "f", "a2", "sin"}
MCNumerals == {"1"}
MCGlobals == {<<"ans">>}
MCLibrary == << "sin" >> :> 1

CONSTANTS
  MaxCharacters,   \* bound: length of a file of single characters
  MaxPieces,       \* bound: pieces of statements in a file
  MaxLines         \* bound: lines of a program

(* Words are kept apart by blanks. *)
Spaced(words) == FlattenSeq([i \in DOMAIN words |-> <<words[i], " ">>])

Characters == {"a", "1", ".", "e", "-", "=", "&", "#", " ", "\n"}
CharacterTexts == BoundedSeq(Characters, MaxCharacters)

Operators == {<<"|", "|">>, <<"&", "&">>, <<"<">>, <<"!", "=">>, <<"+">>, <<"-">>,
              <<"*">>, <<"^">>}
(* Three operators; one operand may be missing, one pair may be in parentheses. *)
Chains ==
  LET chain(o, f) ==
        FlattenSeq([i \in 1 .. 4 |->
          f[i] \o (IF i = 4 THEN <<>> ELSE <<" ">> \o o[i] \o <<" ">>)])
      forms == {<<<<"a">>, <<"1">>, <<"b">>, <<"a">>>>,
                <<<<"(", "a">>, <<"1", ")">>, <<"b">>, <<"a">>>>,
                <<<<"a">>, <<"(", "1">>, <<"b", ")">>, <<"a">>>>,
                <<<<"a">>, <<"1">>, <<"(", "b">>, <<"a", ")">>>>,
                <<<<"a">>, <<>>, <<"b">>, <<"a">>>>,
                <<<<"a", "=", "1">>, <<"b">>, <<"1">>, <<"b">>>>}
  IN {chain(o, f) \o <<"\n", "a">> : o \in [1 .. 3 -> Operators], f \in forms}

Pieces == {<<"if", "(", "a", ")">>, <<"while", "(", "b", ")">>, <<"{">>,
           <<"}">>, <<"a">>, <<"break">>, <<"else">>, <<"\n">>,
           <<"function", "f", "(", "b", ")", "{">>}
PieceTexts == {Spaced(FlattenSeq(s)) : s \in BoundedSeq(Pieces, MaxPieces)}

(* Lines with functions, calls, loops, matrices, elements, strings and
   comments, right and wrong. *)
Lines ==
  {<<"function", "f", "(", "a", ")", "{", "\n", "local", "b", ",", "a2", "\n",
     "return", "a", "\n", "}">>,
   <<"function", "f", "(", "a", ",", "b", ")", "{", "if", "(", "a", ")", "{",
     "local", "b", "\n", "a", "}", "else", "b", "\n", "while", "(", "a", ")",
     "{", "break", "}", "}">>,
   <<"function", "f", "(", "a", ")", "{", "function", "f", "(", ")", "{", "a",
     "}", "a", "}">>,
   <<"while", "(", "a", ")", "{", "function", "f", "(", ")", "{", "b", "}",
     "continue", "}">>,
   <<"function", "f", "(", "\n">>, <<"function", "f", "(", "a", "b", ")">>,
   <<"f", "(", "1", ")">>, <<"f", "(", "1", ",", "a", ")">>, <<"f", "(", "\n">>,
   <<"sin", "(", "a", "+", "sin", "(", "1", ")", ")">>, <<"sin", "(", ")">>,
   <<"[", "1", ",", "a", ";", "a", ",", "1", "]">>, <<"[", "1", ";", "a", "]">>,
   <<"[", "1", "1", "]">>, <<"[", "1", ",", "1", ";", "1", ";", "1", "]">>,
   <<"a", "[", "1", "]", "[", "a", "]", "=", "a", "*", "a">>,
   <<"b", "[", "]">>, <<"for", "(", "a", "=", "1", ";", "a", "<", "b", ";",
     "a", "=", "a", "+", "1", ")", "{", "a", "\n", "break", "}">>,
   <<"for", "(", ";", ";", ")", "continue">>, <<"for", "(", "a", ")">>,
   <<"=", "1">>, <<"a", "=">>, <<"1", "=", "a">>, <<"return", "a">>, <<"local", "a">>,
   <<"if", "(", "a", ")", "return">>, <<"(", "a", "b", "f">>, <<"(", ")">>,
   <<"if", "(", "a", ")", "{", "\n", "{", "a", "\n", "b", "}", "\n", "f", "}">>,
   <<"\"", "a", "\"">>, <<"a", "#", "f">>, <<"&", "a">>}
LineTexts ==
  {Spaced(FlattenSeq([i \in DOMAIN s |-> Append(s[i], "\n")])) :
     s \in BoundedSeq(Lines, MaxLines)}

MCTexts == CharacterTexts \cup Chains \cup PieceTexts \cup LineTexts
=============================================================================
