------------------------------ MODULE MCParser ------------------------------
(* Texts for the parser: short ones made of every combination of some      *)
(* tokens, and programs with a statement of every kind, as they are and    *)
(* with one token left out, doubled or exchanged.                          *)
EXTENDS Grammar, SequencesExt

InMain(s) == <<"main", "{">> \o s \o <<"}">>

ExpressionTokens == {"identifier", "1", "-", "*", "==", "=", "(", "["}

ShortExpressions == {InMain(e \o <<".">>) : e \in BoundedSeq(ExpressionTokens, 3)}

ShortPrograms == BoundedSeq({"main", "function", "{", "}", "identifier"}, 3)

\* A function with three parameters.
Function ==
  <<"function", "identifier", "<", "int", "identifier", ",", "[", "char", "]", "identifier",
    ",", "rat", "identifier", ">", "->", "int", "{", "return", "1", ".", "}",
    "main", "{", "return", ".", "}">>

\* Statements, and the expressions of each kind in them.
Sentences == <<
  <<"const", "identifier", "=", "1", "-", "1", "*", "1", "-", "1", ".">>,
  <<"var", "identifier", "=", "alloc", "[", "int", "]", "(", "1", ")", "[", "1", "]", ".">>,
  <<"identifier", "[", "1", "]", "+=", "identifier", "(", "1", ",", "\"a\"", ")", "(", ")", ".">>,
  <<"if", "identifier", "if", "identifier", "{", "}", "else", "print", "1", ".", "else", "{",
    "}">>,
  <<"if", "1", "(", "1", ")", "[", "1", "]", ".">>,
  <<"while", "!", "true", "||", "1", "&&", "1", "dealloc", "identifier", ".">>,
  <<"for", "var", "identifier", "=", "1", ",", "identifier", "<", "1", ",", "identifier",
    "=", "1", "{", "}">>,
  <<"for", "identifier", ",", ",", "{", "}">>,
  <<"println", "(", "1.5", "==", "[", "1", ",", "'a'", "]", ")", "[", "1", "]", "//",
    "sizeof", "identifier", ",", "1", ".">>,
  <<"<", ",", "int", "identifier", ">", "->", "<", "void", ",", "[", "bool", "]", ">", "->",
    "int", "{", "}", "(", ")", "[", "1", "]", ".">> >>

Samples == {Function} \cup {InMain(Sentences[i]) : i \in DOMAIN Sentences}

Replacements == {"}", "1", ",", "<", "(", "-"}

Edits(s) ==
  {[s EXCEPT ![i] = t] : i \in 1..Len(s), t \in Replacements}
    \cup {RemoveAt(s, i) : i \in 1..Len(s)} \cup {InsertAt(s, i, s[i]) : i \in 1..Len(s)}

MCTokens ==
  ShortExpressions \cup ShortPrograms \cup Samples \cup UNION {Edits(s) : s \in Samples}
=============================================================================
