----------------------------- MODULE Validation -----------------------------
(***************************************************************************)
(* The rules for a new poll: services/validate.go, and their mirror in the *)
(* browser, lib/validation.js.                                             *)
(*                                                                         *)
(* A text is a word in one spelling.  Some words are unfit: no word at all,*)
(* a control character, too few characters for a question, too many for    *)
(* anything.  The spellings are what the two sides tell apart, or do not:  *)
(*   spaced    spare space that both know                                  *)
(*   nextline  spare U+0085, white space for strings.Fields alone          *)
(*   marked    spare U+FEFF, white space for trim and \s alone             *)
(*   upper     capitals that both put in lower case                        *)
(*   dotted    a capital I with a dot, which is an i for ToLower alone     *)
(*   final     a final sigma, which toLowerCase alone makes of a capital   *)
(* A space that a side does not know is a character for it: enough of them *)
(* make a text of the blank one, a long text of a short one, and one that  *)
(* is too long.                                                            *)
(***************************************************************************)
EXTENDS Integers, SequencesExt

CONSTANTS
    Words, Blank, Control, Short, Long,
    MaxOptions,     \* 10 in the code
    MaxDuration,    \* 30 days, in the unit of the closing times
    None

ASSUME OptionsAssumption  == MaxOptions \in Nat /\ MaxOptions >= 2
ASSUME DurationAssumption == MaxDuration \in Nat \ {0}

MinOptions == 2

Texts == [ word : Words \cup {Blank, Control, Short, Long},
           spelling : {"plain", "spaced", "nextline", "marked", "upper", "dotted", "final"} ]

Plainly(t, spellings) == IF t.spelling \in spellings THEN [t EXCEPT !.spelling = "plain"] ELSE t

\* The elements of s at the places in S, in the order they had.
Keep(s, S) ==
    [n \in 1 .. Cardinality(S) |-> s[CHOOSE i \in S : Cardinality({j \in S : j < i}) = n - 1]]

-----------------------------------------------------------------------------
(* services/validate.go                                                    *)

collapseSpace(t) == Plainly(t, {"spaced", "nextline"})

ToLower(t) == Plainly(t, {"upper", "dotted"})

\* A text of nothing but U+FEFF is not empty.
Empty(t) == t.word = Blank /\ t.spelling # "marked"

CleanQuestion(t) ==
    /\ ~Empty(t) /\ t.word \notin {Control, Long}
    /\ t.word = Short => t.spelling = "marked"

\* A deviation: case is not ignored.
DuplicatesByText(texts, i) == \E j \in 1 .. i - 1 : texts[j] = texts[i]

\* Two choices are the same whatever their case.
Duplicates(texts, i) == \E j \in 1 .. i - 1 : ToLower(texts[j]) = ToLower(texts[i])

UnfitOptions(texts) ==
    {i \in DOMAIN texts : \/ Empty(texts[i]) \/ texts[i].word \in {Control, Long}
                          \/ Duplicates(texts, i)}

\* CleanOptions: the texts to store, or the first choice at fault; 0 is the whole list.
CleanOptions(raw) ==
    LET texts == [i \in DOMAIN raw |-> collapseSpace(raw[i])]
        unfit == UnfitOptions(texts)
    IN IF Len(raw) \notin MinOptions .. MaxOptions THEN [ok |-> FALSE, field |-> 0]
       ELSE IF unfit = {} THEN [ok |-> TRUE, texts |-> texts]
       ELSE [ok |-> FALSE, field |-> CHOOSE i \in unfit : \A j \in unfit : i <= j]

\* CleanMode, for a text that was trimmed and put in lower case; "" is single.
CleanMode(mode) == IF mode = "" THEN "single" ELSE mode

ModeOK(mode) == CleanMode(mode) \in {"single", "multiple"}

\* ValidateExpiry, for a closing time counted from now.
ValidateExpiry(after) == after = None \/ (after > 0 /\ after <= MaxDuration)

-----------------------------------------------------------------------------
(* lib/validation.js                                                       *)

trimmed(t) == Plainly(t, {"spaced", "marked"})    \* collapseSpace of the browser

toLowerCase(t) == Plainly(t, {"upper", "final"})

\* A text of nothing but U+0085 is filled in.
IsText(t) == t.word # Blank \/ t.spelling = "nextline"

\* validateQuestion does not look for control characters.
validateQuestion(t) ==
    /\ IsText(t)
    /\ t.word = Short => t.spelling = "nextline"
    /\ t.word = Long  => t.spelling = "marked"

duplicatesAnother(texts, i) == \E j \in 1 .. i - 1 : toLowerCase(texts[j]) = toLowerCase(texts[i])

\* validateOptions: the rows at fault.  Blank rows are no fault, and a row that is too
\* long is not compared with.
unfitRows(rows) ==
    LET texts == [i \in DOMAIN rows |-> trimmed(rows[i])]
    IN {i \in DOMAIN texts : /\ IsText(texts[i])
                             /\ texts[i].word = Long \/ duplicatesAnother(texts, i)}

\* A deviation: blank rows are sent.
cleanOptionsKeepBlank(rows) == [i \in DOMAIN rows |-> trimmed(rows[i])]

\* cleanOptions: what is sent, the rows that are not blank.
cleanOptions(rows) ==
    LET texts == [i \in DOMAIN rows |-> trimmed(rows[i])]
    IN Keep(texts, {i \in DOMAIN texts : IsText(texts[i])})

enoughOptions(rows) == Len(cleanOptions(rows)) >= MinOptions /\ Len(rows) <= MaxOptions
=============================================================================
