------------------------------- MODULE Library -------------------------------
(***************************************************************************)
(* The builtins that are no more than functions of their arguments         *)
(* (stdlib/*.rs), those of them that the expressions of Query.tla call.    *)
(* Most take their first argument from the focus of the call when it is    *)
(* not given.                                                              *)
(***************************************************************************)
EXTENDS Calls

\* context_arg_code: an argument of the wrong type, given or taken.
WrongType(args) == Error(IF args = <<>> THEN "T0411" ELSE "T0410")
FirstOrFocus(args, focus) == IF args = <<>> THEN focus ELSE args[1]

FnString(args, focus) ==
    LET v == FirstOrFocus(args, focus) IN IF v = Undefined THEN Undefined ELSE Stringify(v)

\* $uppercase and $lowercase; what they make of a text is some text.
FnChangeCase(name, args, focus) ==
    LET v == FirstOrFocus(args, focus) IN
    CASE v = Undefined -> Undefined
      [] IsText(v) -> Text(name \o " " \o v.string)
      [] OTHER -> WrongType(args)

\* A number of decimals, cut to a whole number.
Scale(v) == Truncated(Halves(v), 2)

\* Both numbers are cut to whole ones; a start before the text is counted from
\* its end, and no more is taken than there is.
FnSubstring(args) ==
    LET size == Len(args[1].string)
        start == Scale(args[2])
        from == IF start < 0 THEN Max({size + start, 0}) ELSE Min({start, size})
        length == IF Len(args) = 3 THEN Max({Scale(args[3]), 0}) ELSE size
    IN  IF Len(args) \notin 2 .. 3 THEN Error("T0410")
        ELSE IF args[1] = Undefined THEN Undefined
        ELSE IF ~IsText(args[1]) \/ \E v \in ToSet(Tail(args)) : ~IsNumber(v) THEN Error("T0410")
        ELSE Text(SubSeq(args[1].string, from + 1, Min({from + length, size})))

FnCount(args) == IF Len(args) # 1 THEN Error("T0410") ELSE Core!FnCount(args[1])
FnSum(args) == IF args = <<>> THEN Error("T0410") ELSE Core!FnAggregate("sum", args[1])
FnKeys(args) == IF args = <<>> THEN Error("T0410") ELSE Core!FnKeys(args[1])

\* Some text is in another.  The pattern of a regular expression is taken to
\* be a text, as in Calls.tla.
OccursIn(part, whole) ==
    \E i \in 0 .. Len(whole) - Len(part) : SubSeq(whole, i + 1, i + Len(part)) = part
FnContains(args, focus) ==
    LET whole == IF Len(args) >= 2 THEN args[1] ELSE focus
        part == args[Min({2, Len(args)})]
    IN  CASE args = <<>> -> Error("T0410")
          [] args # <<>> /\ whole = Undefined -> Undefined
          [] args # <<>> /\ whole # Undefined /\ ~IsText(whole) -> WrongType(Tail(args))
          [] OTHER -> CASE IsText(part) -> Boolean(OccursIn(part.string, whole.string))
                        [] IsRegex(part) ->
                              Boolean(OccursIn(part.object["pattern"].string, whole.string))
                        [] OTHER -> Error("T0410")

\* bankers_round: the nearest multiple of a power of ten, the even one of two.
BankersRound(v, scale) ==
    LET unit == 2 * 10 ^ (-scale)
        below == Halves(v) \div unit
        above == Halves(v) - below * unit
    IN  IF scale > 0 \/ ~IsFinite(v) THEN v
        ELSE OfHalves(unit * IF 2 * above > unit \/ (2 * above = unit /\ below % 2 = 1)
                             THEN below + 1 ELSE below)
\* A second argument that is not given, or undefined, is as good as none.
Optional(args) == IF Len(args) < 2 THEN Undefined ELSE args[2]
FnRound(args) ==
    CASE args = <<>> -> Error("T0410")
      [] args # <<>> /\ args[1] = Undefined -> Undefined
      [] args # <<>> /\ args[1] # Undefined ->
            IF ~IsNumber(args[1]) \/ ~(Optional(args) = Undefined \/ IsNumber(Optional(args)))
            THEN Error("T0410")
            ELSE BankersRound(args[1], IF Optional(args) = Undefined THEN 0 ELSE Scale(Optional(args)))

\* The digits of a whole number are some text that tells it and the radix.
IsRadix(v) == IsFinite(v) /\ v.number \in 2 .. 36
FnFormatBase(args) ==
    LET radix == IF Optional(args) = Undefined THEN Number(10) ELSE BankersRound(Optional(args), 0)
    IN  CASE args = <<>> -> Error("T0410")
          [] args # <<>> /\ args[1] = Undefined -> Undefined
          [] args # <<>> /\ args[1] # Undefined ->
                IF ~IsNumber(args[1]) \/ ~(Optional(args) = Undefined \/ IsNumber(Optional(args)))
                THEN Error("T0410")
                ELSE IF ~IsRadix(radix) THEN Error("D3100")
                ELSE IF ~IsFinite(args[1]) THEN Error("D3001")
                ELSE Text(ToString(BankersRound(args[1], 0).number) \o " in base "
                          \o ToString(radix.number))

\* Of the texts that are asked for, the pictures of a number.
IsPicture(v) == IsText(v) /\ v.string = "0"
\* A number in a picture is some text that tells the two, and may depend on
\* the options.
InPicture(v, picture, options) ==
    Text(ToString(Halves(v)) \o " halves as " \o picture.string \o (IF IsObject(options) THEN "!" ELSE ""))
FnFormatNumber(args) ==
    CASE Len(args) < 2 -> Error("T0410")
      [] Len(args) >= 2 /\ args[1] = Undefined -> Undefined
      [] Len(args) >= 2 /\ args[1] # Undefined ->
            IF ~IsNumber(args[1]) \/ ~IsText(args[2]) THEN Error("T0410")
            ELSE IF ~IsFinite(args[1]) THEN Error("D3001")
            ELSE IF ~IsPicture(args[2]) THEN Error("D3085")
            ELSE InPicture(args[1], args[2], IF Len(args) >= 3 THEN args[3] ELSE Undefined)

LibraryFunctions == {"string", "uppercase", "lowercase", "substring", "count", "sum", "keys",
                     "contains", "round", "formatBase", "formatNumber"}
CallLibrary(name, args, focus) ==
    CASE name = "string" -> FnString(args, focus)
      [] name \in {"uppercase", "lowercase"} -> FnChangeCase(name, args, focus)
      [] name = "substring" -> FnSubstring(args)
      [] name = "count" -> FnCount(args)
      [] name = "sum" -> FnSum(args)
      [] name = "keys" -> FnKeys(args)
      [] name = "contains" -> FnContains(args, focus)
      [] name = "round" -> FnRound(args)
      [] name = "formatBase" -> FnFormatBase(args)
      [] name = "formatNumber" -> FnFormatNumber(args)
=============================================================================
