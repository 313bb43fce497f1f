------------------------------ MODULE Signatures ------------------------------
(***************************************************************************)
(* The type of a lambda, <...> after its parameters (signature.rs): a list *)
(* of parameter types.  A signature is the sequence of its letters, the    *)
(* angle brackets around it taken off.                                     *)
(***************************************************************************)
EXTENDS Integers, SequencesExt, FiniteSetsExt

SigTypes == {"b", "n", "s", "l", "a", "o", "f", "j", "x"}
Modifiers == {"?", "+", "-"}
\* What a part of a signature was read as, and the letters after it.
SigRead(v, rest) == [code |-> "", v |-> v, rest |-> rest]
SigError(code) == [code |-> code, v |-> {}, rest |-> <<>>]

LettersFrom(letters, i) == SubSeq(letters, i, Len(letters))
Nesting(letters, i, open, close) ==
    Cardinality({j \in 1 .. i : letters[j] = open}) - Cardinality({j \in 1 .. i : letters[j] = close})
\* The > that closes a < left open before place i.
ClosingAngle(letters, i) ==
    Min({Len(letters) + 1} \cup
        {j \in i .. Len(letters) :
            Nesting(letters, j, "<", ">") - Nesting(letters, i - 1, "<", ">") = -1})

\* Without what follows the last colon outside of all brackets.
StripReturnType(letters) ==
    LET colons == {i \in DOMAIN letters : letters[i] = ":" /\ Nesting(letters, i, "(", ")") = 0
                                                           /\ Nesting(letters, i, "<", ">") = 0}
    IN  IF colons = {} THEN letters ELSE SubSeq(letters, 1, Max(colons) - 1)

\* One type, or several in parentheses.
ParseTypes(letters) ==
    LET end == Min({Len(letters) + 1} \cup {i \in 2 .. Len(letters) : letters[i] \notin SigTypes})
    IN  IF letters[1] \in SigTypes THEN SigRead({letters[1]}, Tail(letters))
        ELSE IF letters[1] = "(" /\ end \in 3 .. Len(letters) /\ letters[end] = ")"
        THEN SigRead(ToSet(SubSeq(letters, 2, end - 1)), LettersFrom(letters, end + 1))
        ELSE SigError("S0402")

\* The type in angle brackets after an array, whose own is skipped.
ParseContentType(letters, types) ==
    LET typed == "a" \in types /\ Len(letters) > 1 /\ letters[2] \in SigTypes
        i == IF ~typed THEN ClosingAngle(letters, 2)
             ELSE IF Len(letters) > 2 /\ letters[3] = "<" THEN ClosingAngle(letters, 4) + 1 ELSE 3
    IN  IF letters = <<>> \/ letters[1] # "<" THEN SigRead("", letters)
        ELSE IF ~(types \subseteq {"a", "f"}) THEN SigError("S0401")
        ELSE IF i > Len(letters) \/ letters[i] # ">" THEN SigError("S0402")
        ELSE SigRead(IF typed THEN letters[2] ELSE "", LettersFrom(letters, i + 1))

RECURSIVE ParseSpecs(_)
ParseSpecs(letters) ==
    LET types == ParseTypes(letters)
        content == ParseContentType(types.rest, types.v)
        rest == content.rest
        end == Min({Len(rest) + 1} \cup {i \in DOMAIN rest : rest[i] \notin Modifiers})
        marks == ToSet(SubSeq(rest, 1, end - 1))
        spec == [types |-> types.v, content |-> content.v,
                 optional |-> "?" \in marks, variadic |-> "+" \in marks]
        others == ParseSpecs(LettersFrom(rest, end))
    IN  IF letters = <<>> THEN SigRead(<<>>, <<>>)
        ELSE IF types.code # "" THEN types
        ELSE IF content.code # "" THEN content
        ELSE IF others.code # "" THEN others
        ELSE SigRead(<<spec>> \o others.v, <<>>)

ParseSignature(letters) == ParseSpecs(StripReturnType(letters))
\* The letters between the outer brackets.
Inside(sig) == SubSeq(sig, 2, Len(sig) - 1)
===============================================================================
