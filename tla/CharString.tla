----------------------------- MODULE CharString -----------------------------
(***************************************************************************)
(* What an owned string (~str) promises its owner, with bytes, capacity    *)
(* and the terminating null abstracted away: it is a sequence of code      *)
(* points; push_char appends one, push_str / append append several,        *)
(* pop_char and shift_char remove and return the last / first one (and end *)
(* the task on an empty string), unshift_char prepends one, capacity        *)
(* returns a number, and reserve changes nothing a reader can see.         *)
(***************************************************************************)
EXTENDS Sequences, SequencesExt

CONSTANTS
    Chars,    \* the code points the owner pushes
    Texts,    \* the strings (code point sequences) the owner appends
    NoChar    \* ret before any character has been returned

VARIABLES
    text,     \* the string's characters
    ret,      \* what the last pop/shift (a character) or capacity returned
    status    \* "live", or "failed" once a call has ended the task

vars == << text, ret, status >>

Init ==
    /\ text = << >>
    /\ ret = NoChar
    /\ status = "live"

Push(c) ==
    /\ status = "live"
    /\ text' = Append(text, c)
    /\ UNCHANGED << ret, status >>

AppendText(t) ==
    /\ status = "live"
    /\ text' = text \o t
    /\ UNCHANGED << ret, status >>

Unshift(c) ==
    /\ status = "live"
    /\ text' = << c >> \o text
    /\ UNCHANGED << ret, status >>

Pop ==
    /\ status = "live"
    /\ IF text = << >>
       THEN status' = "failed" /\ UNCHANGED << text, ret >>
       ELSE /\ ret' = Last(text)
            /\ text' = Front(text)
            /\ UNCHANGED status

Shift ==
    /\ status = "live"
    /\ IF text = << >>
       THEN status' = "failed" /\ UNCHANGED << text, ret >>
       ELSE /\ ret' = Head(text)
            /\ text' = Tail(text)
            /\ UNCHANGED status

\* capacity returns a count of bytes, which the characters do not fix.
Capacity ==
    /\ status = "live"
    /\ ret' \in Nat
    /\ UNCHANGED << text, status >>

Next ==
    \/ \E c \in Chars : Push(c) \/ Unshift(c)
    \/ \E t \in Texts : AppendText(t)
    \/ Pop
    \/ Shift
    \/ Capacity

\* reserve and reserve_at_least are stuttering steps.
Spec == Init /\ [][Next]_vars

=============================================================================
