------------------------------ MODULE GuardExpr ------------------------------
(***************************************************************************)
(* The guards of a batch: expressions of names with AND, OR, NOT and        *)
(* parentheses, kept as text and read by two parsers.  The scheduler reads   *)
(* a rule's guard when it plans (_guard_active in                            *)
(* src/optimizer/m5_scheduler.py) and copies the text into the plan; the     *)
(* generated runner reads it again in every call (_guard_ok in               *)
(* src/optimizer/m7_component_assembler.py).                                 *)
(*                                                                           *)
(* A text is a sequence of words: "(", ")", "AND", "OR", "NOT" and names.    *)
(* flags is what the metrics of a call make of the names: "true", "false",   *)
(* or "unknown" where neither a flag nor a risk indicator is meant.          *)
(***************************************************************************)
EXTENDS Integers, Sequences, FiniteSets, SequencesExt

CONSTANTS
    Names,   \* flags and risk indicators a guard may speak of
    Flags,   \* what the metrics of a call may make of the names
    Factors, Terms, Sums   \* guards the grammar below derives

Reserved == {"(", ")", "AND", "OR", "NOT", "true", "false"}
Word     == Names \cup Reserved
Verdict  == {"true", "false", "unknown"}

ASSUME NamesAssumption ==
    /\ Names \cap Reserved = {}
    /\ Flags \subseteq [Names -> Verdict]

\* _guard_flag: a name, or a text that is none.
GuardFlag(text, flags) ==
    CASE text \in {<< >>, << "true" >>} -> "true"
      [] text = << "false" >> -> "false"
      [] Len(text) = 1 /\ text[1] \in DOMAIN flags -> flags[text[1]]
      [] OTHER -> "unknown"

\* What a word does to the depth of the parentheses, for a reader that sees them.
Turn(word, nested) ==
    CASE nested /\ word = "(" -> 1
      [] nested /\ word = ")" -> -1
      [] OTHER -> 0

\* One word more: an operator that stands outside all parentheses ends a part.
NextWord(was, word, op, nested) ==
    IF word = op /\ was.depth = 0
    THEN [was EXCEPT !.parts = Append(@, << >>)]
    ELSE [depth |-> Max({0, was.depth + Turn(word, nested)}),
          parts |-> [was.parts EXCEPT ![Len(was.parts)] = Append(@, word)]]

\* The parts of a text between the places of an operator, none of them empty in a text
\* the grammar below derives.
PartsOf(text, op, nested) ==
    LET walk[n \in 0 .. Len(text)] ==
            IF n = 0 THEN [depth |-> 0, parts |-> << << >> >>]
            ELSE NextWord(walk[n - 1], text[n], op, nested)
    IN  walk[Len(text)].parts

-----------------------------------------------------------------------------
(* The scheduler's reading: no parentheses, no NOT, and what it does not    *)
(* know is not so.                                                          *)

\* re.split
SplitAnywhere(text, op) == PartsOf(text, op, FALSE)

\* One call, that reads the parts of the text by calls below it.
CallActive(below, text, flags) ==
    LET ors  == SplitAnywhere(text, "OR")
        ands == SplitAnywhere(text, "AND")
    IN  CASE Len(ors) > 1 -> \E k \in DOMAIN ors : below[ors[k]]
          [] Len(ors) = 1 /\ Len(ands) > 1 -> \A k \in DOMAIN ands : below[ands[k]]
          [] OTHER -> GuardFlag(text, flags) = "true"

\* A call is given a shorter text than its caller: as deep as there are words.
GuardActive(text, flags) ==
    LET reads[n \in 0 .. Len(text)] ==
            [t \in Seq(Word) |-> IF n = 0 THEN GuardFlag(t, flags) = "true"
                                 ELSE CallActive(reads[n - 1], t, flags)]
    IN  reads[Len(text)][text]

-----------------------------------------------------------------------------
(* The runner's reading.  "unknown" stands for the error it raises.         *)

\* The depth of the parentheses after each word.
Depths(text) ==
    LET depth[n \in 0 .. Len(text)] ==
            IF n = 0 THEN 0 ELSE depth[n - 1] + Turn(text[n], TRUE)
    IN  depth

\* Mutant of Wrapped: a text that begins and ends with parentheses.
WrappedAtEnds(text) == text # << >> /\ Head(text) = "(" /\ Last(text) = ")"

\* The first parenthesis is closed by the last.
Wrapped(text) ==
    /\ text # << >> /\ Head(text) = "(" /\ Last(text) = ")"
    /\ \A n \in 1 .. Len(text) - 1 : Depths(text)[n] > 0
    /\ Depths(text)[Len(text)] = 0

\* As often as there are words to lose.
StripParens(text) ==
    LET inner[n \in 0 .. Len(text)] ==
            IF n = 0 THEN text
            ELSE LET was == inner[n - 1]
                 IN  IF Wrapped(was) THEN SubSeq(was, 2, Len(was) - 1) ELSE was
    IN  inner[Len(text)]

\* _split_bool_expr
Split(text, op) == PartsOf(text, op, TRUE)

\* any and all stop at the first part that decides or raises.
FirstOther(values, v) ==
    IF \A i \in DOMAIN values : values[i] = v THEN v
    ELSE values[CHOOSE i \in DOMAIN values :
                    values[i] # v /\ \A j \in 1 .. i - 1 : values[j] = v]

Negated(v) == IF v = "unknown" THEN v ELSE IF v = "true" THEN "false" ELSE "true"

CallOk(below, text, flags) ==
    LET expr == StripParens(text)
        ors  == Split(expr, "OR")
        ands == Split(expr, "AND")
    IN  CASE Len(ors) > 1 -> FirstOther([k \in DOMAIN ors |-> below[ors[k]]], "false")
          [] Len(ors) = 1 /\ Len(ands) > 1 -> FirstOther([k \in DOMAIN ands |-> below[ands[k]]], "true")
          [] Len(ors) = 1 /\ Len(ands) = 1 /\ expr # << >> /\ Head(expr) = "NOT" ->
                 Negated(below[Tail(expr)])
          [] OTHER -> GuardFlag(expr, flags)

GuardOk(text, flags) ==
    LET reads[n \in 0 .. Len(text)] ==
            [t \in Seq(Word) |-> IF n = 0 THEN GuardFlag(t, flags)
                                 ELSE CallOk(reads[n - 1], t, flags)]
    IN  reads[Len(text)][text]

-----------------------------------------------------------------------------
(* What an expression says: its text together with its value under every    *)
(* assignment of Flags, put together by the grammar                          *)
(*     or ::= and { OR and }   and ::= not { AND not }                       *)
(*     not ::= NOT not | name | ( or )                                       *)

Named(n) == [text |-> << n >>, says |-> [f \in Flags |-> f[n]]]
Grouped(x) == [text |-> << "(" >> \o x.text \o << ")" >>, says |-> x.says]
Not(x) == [text |-> << "NOT" >> \o x.text, says |-> [f \in Flags |-> Negated(x.says[f])]]
Both(x, y) == [text |-> x.text \o << "AND" >> \o y.text,
               says |-> [f \in Flags |-> IF x.says[f] = "true" THEN y.says[f] ELSE x.says[f]]]
Either(x, y) == [text |-> x.text \o << "OR" >> \o y.text,
                 says |-> [f \in Flags |-> IF x.says[f] = "false" THEN y.says[f] ELSE x.says[f]]]

\* Every expression is put together from shorter ones; that the left one's text comes
\* first says nothing more, and leaves few to look at.
ASSUME GrammarAssumption ==
    /\ \A x \in Factors \cup Terms \cup Sums : x.text \in Seq(Word)
    /\ \A x \in Factors : \/ \E n \in Names : x = Named(n)
                          \/ \E y \in Factors : x = Not(y)
                          \/ \E y \in Sums : x = Grouped(y)
    /\ \A x \in Terms : \/ x \in Factors
                        \/ \E y \in Factors : IsPrefix(y.text, x.text) /\ \E z \in Terms : x = Both(y, z)
    /\ \A x \in Sums : \/ x \in Terms
                       \/ \E y \in Terms : IsPrefix(y.text, x.text) /\ \E z \in Sums : x = Either(y, z)

\* What both parsers are written for: names with AND and OR.
PlainText(x) == Range(x.text) \cap {"(", ")", "NOT"} = {}
=============================================================================
