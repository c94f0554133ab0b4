------------------------------ MODULE Scanner ------------------------------
(***************************************************************************)
(* The scanner: it turns the characters of a file into tokens, one call of *)
(* Scanner::Next for each.  It reads from a PushbackStream, which the      *)
(* character stream is shown to implement: every action of the scanner is  *)
(* one operation of the stream or none.  Input!Coming is what Peek returns *)
(* and got[1] the local variable that holds what Next returned.            *)
(*                                                                         *)
(* Errors are logged in the order of the text; items has the tokens and    *)
(* the errors, each with the text that was read for it.                    *)
(***************************************************************************)
EXTENDS TextFile, TLC

CONSTANTS
  Letter, Digit,         \* what isalpha and isdigit accept
  KeywordType,           \* for each keyword's lexeme, the type of its token
  kMaxIdentifierLength,
  OutOfRange(_),         \* the numbers that strtoll and strtod cannot represent
  MaxBuffer              \* bound on the text of a string that never ends

VARIABLES
  file, pos, got, skipping,  \* the stream
  at,       \* the routine the scanner is in, and where
  begin,    \* where in the file it found first_char
  located,  \* the character whose location the token gets
  buffer,   \* the lexeme, or the value of a string or character
  items     \* the tokens returned and the errors logged

Input == INSTANCE PushbackStream

streamVars  == <<file, pos, got, skipping>>
scannerVars == <<begin, located, buffer, items>>
vars        == <<streamVars, at, scannerVars>>

-----------------------------------------------------------------------------
(* Classes of characters, and the tables of operators and punctuators.     *)

Quote      == "\""
Apostrophe == "'"
Escape     == "\\"
Hash       == "#"
Sign       == {"+", "-"}

IdentifierStart == Letter \cup {"_"}
IdentifierChar  == IdentifierStart \cup Digit
ExponentMark    == {"e", "E"}

Operator ==
  {<<c>> : c \in {"+", "-", "*", "/", "%", ">", "<", "!", "="}}
    \cup {<<c, "=">> : c \in {"=", "!", ">", "<", "+", "-", "*", "/", "%"}}
    \cup {<<"/", "/">>, <<"=", ">">>, <<"=", "<">>, <<"&", "&">>, <<"|", "|">>}

Punctuator ==
  {<<c>> : c \in {"{", "}", "[", "]", "(", ")", ",", "."}} \cup {<<"-", ">">>}

OperatorOrPunctuatorStart == {lexeme[1] : lexeme \in Operator \cup Punctuator}

\* isalpha, isdigit and isspace accept different characters, and none of those
\* that the scanner names.
ASSUME ClassAssumption ==
  /\ Letter \cup Digit \subseteq Char \ Whitespace
  /\ Letter \cap Digit = {}
  /\ (Letter \cup Digit \cup Whitespace)
       \cap (OperatorOrPunctuatorStart \cup {"_", Quote, Apostrophe, Escape, Hash}) = {}

\* The lexemes of keywords are words; alloc and sizeof are operators.
ASSUME KeywordAssumption ==
  \A k \in DOMAIN KeywordType : KeywordType[k] \in {"keyword", "boolean", "operator"}

\* Mutant: the arrow is forgotten.
SecondWithoutArrow(c) ==
  CASE c \in {"+", "*", "%", "!", "<", ">", "-"} -> {"="}
    [] c = "/"         -> {"=", "/"}
    [] c = "="         -> {"=", "<", ">"}
    [] c \in {"&", "|"} -> {c}
    [] OTHER           -> {}

\* The characters that the switch of ScanOperatorOrPunctuator takes behind c.
Second(c) ==
  CASE c \in {"+", "*", "%", "!", "<", ">"} -> {"="}
    [] c = "/"         -> {"=", "/"}
    [] c = "-"         -> {">", "="}
    [] c = "="         -> {"=", "<", ">"}
    [] c \in {"&", "|"} -> {c}
    [] OTHER           -> {}

\* What a character behind a backslash stands for.
Escaped == [a |-> "bell", b |-> "backspace", f |-> "form feed", n |-> Newline,
            r |-> "return", t |-> "tab", v |-> "vertical tab"] @@ ("0" :> "null")
InterpretEscapeSequence(c) == IF c \in DOMAIN Escaped THEN Escaped[c] ELSE c

-----------------------------------------------------------------------------
(* The end of a routine: a token, or an error and the search for a token.  *)

Item(type) ==
  [type |-> type, location |-> located, lexeme |-> buffer, from |-> begin, end |-> pos']

Return(type) ==
  /\ items' = Append(items, Item(type))
  /\ at' = "returned"
  /\ UNCHANGED <<begin, located, buffer>>

LogError ==
  /\ items' = Append(items, Item("error"))
  /\ at' = "start"
  /\ UNCHANGED <<begin, located, buffer>>

\* The loop goes on, or the routine continues at the named place.
Goto(place) == at' = place /\ UNCHANGED scannerVars

Push(c, place) ==
  /\ buffer' = Append(buffer, c)
  /\ at' = place
  /\ UNCHANGED <<begin, located, items>>

PushNext(place) == Input!NextChar /\ Push(got'[1].character, place)

Peek == Input!Coming.character

Stay == UNCHANGED streamVars

-----------------------------------------------------------------------------
(* GetNextToken and the comments that it skips.                            *)

\* The constructor has called GetNextToken for the first token.
Init ==
  /\ Input!Init
  /\ at = "start"
  /\ begin = 0
  /\ located = LocatedChar(Eof, 1, 1)
  /\ buffer = <<>>
  /\ items = <<>>

FirstChar ==
  /\ at = "start"
  /\ Input!NextNonwhitespaceChar
  /\ IF skipping' THEN UNCHANGED <<at, scannerVars>>
     ELSE /\ begin' = pos + 1
          /\ located' = got'[1]
          /\ buffer' = <<>>
          /\ at' = "dispatch"
          /\ UNCHANGED items

\* The routine that GetNextToken calls for a character.
Routine(c) ==
  CASE c \in IdentifierStart                    -> "identifier"
    [] c \in Digit                              -> "digits"
    [] c = "." /\ Peek \in Digit                -> "point"
    [] c \in OperatorOrPunctuatorStart /\ ~(c = "." /\ Peek \in Digit) -> "operator"
    [] c = Apostrophe                           -> "character"
    [] c = Quote                                -> "string"
    [] c = Hash                                 -> "comment"
    [] OTHER                                    -> "none"

Dispatch ==
  /\ at = "dispatch"
  /\ Stay
  /\ LET c == located.character
     IN  \/ /\ Routine(c) \in {"identifier", "digits", "operator"}
            /\ Push(c, Routine(c))
         \/ Routine(c) \in {"point", "character", "string", "comment"} /\ Goto(Routine(c))
         \/ c = Eof /\ Return("eof")
         \/ Routine(c) = "none" /\ c # Eof /\ LogError

\* Mutant: a comment ends only with its line.
CommentToTheEndOfTheLine ==
  /\ at = "comment"
  /\ Input!NextChar
  /\ Goto(IF got'[1].character \in {Newline, Eof} THEN "start" ELSE "comment")

\* Mutant: a comment on the last line is not ended by the end of the file.
CommentWithoutEnd ==
  /\ at = "comment"
  /\ Input!NextChar
  /\ Goto(IF got'[1].character \in {Hash, Newline} THEN "start" ELSE "comment")

ScanComment ==
  /\ at = "comment"
  /\ Input!NextChar
  /\ Goto(IF got'[1].character \in {Hash, Newline, Eof} THEN "start" ELSE "comment")

\* Scanner::Next.  Calls at the end of the file return the end again, which is
\* not repeated in items.
NextToken ==
  /\ at = "returned"
  /\ Stay
  /\ IF items[Len(items)].type = "eof" THEN UNCHANGED <<at, scannerVars>> ELSE Goto("start")

-----------------------------------------------------------------------------
(* ScanKeywordOrIdentifier.                                                *)

ScanIdentifierChar == at = "identifier" /\ Peek \in IdentifierChar /\ PushNext("identifier")

EndIdentifier ==
  /\ at = "identifier" /\ Peek \notin IdentifierChar
  /\ Stay
  /\ IF buffer \in DOMAIN KeywordType THEN Return(KeywordType[buffer])
     ELSE IF Len(buffer) > kMaxIdentifierLength THEN LogError
     ELSE Return("identifier")

-----------------------------------------------------------------------------
(* ScanNumber.                                                             *)

ScanDigit ==
  /\ at \in {"digits", "fraction", "exponent_digits"}
  /\ Peek \in Digit
  /\ PushNext(at)

\* The character behind the digits is read, to see it and the one behind it.
EndDigits ==
  /\ at \in {"digits", "fraction"} /\ Peek \notin Digit
  /\ Input!NextChar
  /\ Goto(IF at = "digits" THEN "point" ELSE "exponent")

Number(type) == IF OutOfRange(buffer) THEN LogError ELSE Return(type)

Point ==
  /\ at = "point"
  /\ IF got[1].character = "." /\ Peek \in Digit
     THEN Stay /\ Push(".", "fraction")
     ELSE Input!PutBack /\ Number("integer")

Exponent ==
  /\ at = "exponent"
  /\ LET e == got[1].character
     IN  \/ e \notin ExponentMark /\ Input!PutBack /\ Number("float")
         \/ e \in ExponentMark /\ Peek \notin Digit \cup Sign /\ Stay /\ LogError
         \/ e \in ExponentMark /\ Peek \in Digit /\ Stay /\ Push(e, "exponent_digits")
         \/ e \in ExponentMark /\ Peek \in Sign /\ Input!NextChar /\ Push(e, "sign")

\* Mutant: the sign is read but not kept.
ExponentWithoutSign ==
  /\ at = "sign"
  /\ Stay
  /\ IF Peek \in Digit THEN Goto("exponent_digits") ELSE LogError

ExponentSign ==
  /\ at = "sign"
  /\ Stay
  /\ IF Peek \in Digit THEN Push(got[1].character, "exponent_digits") ELSE LogError

EndExponent ==
  /\ at = "exponent_digits" /\ Peek \notin Digit
  /\ Stay
  /\ Number("float")

-----------------------------------------------------------------------------
(* ScanOperatorOrPunctuator.                                               *)

ScanSecond == at = "operator" /\ Peek \in Second(buffer[1]) /\ PushNext("operator_end")

\* One character, unless it needs its double.
ScanOnly ==
  /\ at = "operator" /\ Peek \notin Second(buffer[1])
  /\ Stay
  /\ IF buffer[1] \in {"&", "|"} THEN LogError ELSE Goto("operator_end")

EndOperator ==
  /\ at = "operator_end"
  /\ Stay
  /\ Return(CASE buffer \in Operator   -> "operator"
              [] buffer \in Punctuator -> "punctuator"
              [] OTHER                 -> "internal error")

-----------------------------------------------------------------------------
(* ScanCharacter.                                                          *)

\* The token gets the location of the character behind the apostrophe.
ScanCharacter ==
  /\ at = "character"
  /\ Input!NextChar
  /\ located' = got'[1]
  /\ LET c == got'[1].character
     IN  \/ /\ c = Apostrophe
            /\ items' = Append(items, [Item("character") EXCEPT !.location = located'])
            /\ at' = "returned"
            /\ UNCHANGED buffer
         \/ c = Escape /\ at' = "character_escape" /\ UNCHANGED <<buffer, items>>
         \/ /\ c \notin {Apostrophe, Escape}
            /\ buffer' = <<c>> /\ at' = "character_end" /\ UNCHANGED items
  /\ UNCHANGED begin

ScanEscape ==
  /\ at \in {"character_escape", "string_escape"}
  /\ Input!NextChar
  /\ Push(InterpretEscapeSequence(got'[1].character),
          IF at = "character_escape" THEN "character_end" ELSE "string")

EndCharacter ==
  /\ at = "character_end"
  /\ Input!NextChar
  /\ IF got'[1].character = Apostrophe THEN Return("character") ELSE LogError

-----------------------------------------------------------------------------
(* ScanString and ScanStringLiteral.                                       *)

\* The loop does not look for the end of the file: it reads it again and again.
ScanStringChar ==
  /\ at = "string" /\ Peek \notin {Quote, Newline}
  /\ Input!NextChar
  /\ LET c == got'[1].character
     IN  IF c = Escape THEN Goto("string_escape")
         ELSE IF Len(buffer) = MaxBuffer THEN Goto("string")
         ELSE Push(c, "string")

EndStringLiteral ==
  /\ at = "string" /\ Peek \in {Quote, Newline}
  /\ IF Peek = Quote THEN Input!NextChar /\ Goto("string_more") ELSE Stay /\ LogError

\* Another literal behind whitespace goes on with the same string.
ScanNextLiteral ==
  /\ at = "string_more"
  /\ Input!NextNonwhitespaceChar
  /\ Goto(CASE skipping'                                -> "string_more"
            [] ~skipping' /\ got'[1].character = Quote  -> "string"
            [] ~skipping' /\ got'[1].character # Quote  -> "string_end")

EndString == at = "string_end" /\ Input!PutBack /\ Return("string")

Next ==
  \/ FirstChar \/ Dispatch \/ ScanComment \/ NextToken
  \/ ScanIdentifierChar \/ EndIdentifier
  \/ ScanDigit \/ EndDigits \/ Point \/ Exponent \/ ExponentSign \/ EndExponent
  \/ ScanSecond \/ ScanOnly \/ EndOperator
  \/ ScanCharacter \/ ScanEscape \/ EndCharacter
  \/ ScanStringChar \/ EndStringLiteral \/ ScanNextLiteral \/ EndString

\* The scanner is sequential code: it goes on as long as it can.
Spec == Init /\ [][Next]_vars /\ WF_vars(Next)

-----------------------------------------------------------------------------
(* Correctness.                                                            *)

LocatedChars == [character : Char \cup {Eof}, line : Nat \ {0}, column : Nat \ {0}]

TokenTypes ==
  {"identifier", "integer", "float", "operator", "punctuator", "character", "string", "eof"}
    \cup {KeywordType[k] : k \in DOMAIN KeywordType}

\* What was read for an item, and what follows it.
Text(item)  == SubSeq(file, item.from, item.end)
After(item) == Located(file, item.end + 1).character

Spelled == TokenTypes \ {"character", "string", "eof"}

\* A lexeme that ends a scanning routine is in the tables, where an internal error would
\* end the compiler.  A token has the location of its text and, unless it is a literal in quotes,
\* the text as its lexeme: every character that the routines read ahead is in
\* the lexeme or was put back.  Literals in quotes are read up to their end, and
\* strings on to the next character that is not blank.  The location of a
\* character literal is that of its second character.
TokensAreTheText ==
  \A i \in 1..Len(items) : LET t == items[i] IN
    /\ t.type \in TokenTypes \cup {"error"}
    /\ t.type \in Spelled => t.lexeme = Text(t)
    /\ t.type \in Spelled \cup {"string", "eof"} => t.location = Located(file, t.from)
    /\ t.type = "character" =>
         /\ t.location = Located(file, t.from + 1)
         /\ file[t.from] = Apostrophe /\ file[t.end] = Apostrophe
    /\ t.type = "string" =>
         /\ file[t.from] = Quote
         /\ \E k \in t.from..t.end :
              /\ file[k] = Quote
              /\ \A j \in (k + 1)..t.end : file[j] \in Whitespace
         /\ After(t) \notin Whitespace \cup {Quote}

\* Whether position i is in a comment, which ends at the next hash or line.
Comment(text) ==
  LET c[i \in 0..Len(text)] ==
        /\ i > 0
        /\ IF c[i - 1] THEN text[i] \notin {Hash, Newline} ELSE text[i] = Hash
  IN  c

Blank(text) ==
  \A i \in 1..Len(text) :
    text[i] \in Whitespace \/ Comment(text)[i] \/ Comment(text)[i - 1]

\* Between the texts of tokens and errors there is nothing but blanks and
\* comments, and the end of the file comes after all of it: no character is
\* dropped, read for two tokens, or left over.
NothingIsDropped ==
  /\ \A i \in 1..Len(items) :
       LET before == IF i = 1 THEN 0 ELSE items[i - 1].end
       IN  items[i].from > before /\ Blank(SubSeq(file, before + 1, items[i].from - 1))
  /\ \A i \in 1..Len(items) :
       items[i].type = "eof" => i = Len(items) /\ items[i].from = Len(file) + 1

\* Whether the text of a number goes on behind it, with a digit or, if it has
\* no point yet, with a point and a digit.
GoesOn(t) ==
  \/ After(t) \in Digit
  \/ After(t) = "." /\ Located(file, t.end + 2).character \in Digit /\ t.type = "integer"
  \/ After(t) \in ExponentMark /\ t.type = "float" /\ \A k \in 1..Len(t.lexeme) : t.lexeme[k] \notin ExponentMark

\* Tokens are as long as they can be: no token goes on in the text behind it.
LongestMatch ==
  \A i \in 1..Len(items) : LET t == items[i] IN
    /\ t.type \in {"integer", "float"} => ~GoesOn(t)
    /\ t.type \in {"operator", "punctuator"} =>
         Append(t.lexeme, After(t)) \notin Operator \cup Punctuator
    /\ t.type \in Spelled /\ Head(t.lexeme) \in IdentifierStart => After(t) \notin IdentifierChar

\* Scanning comes to the end of the file, unless the file ends in a string
\* literal: then ScanStringLiteral reads the end of the file for ever.
ScanningEnds ==
  <>(\/ at = "returned" /\ items[Len(items)].type = "eof"
     \/ at = "string" /\ Peek = Eof)
=============================================================================
