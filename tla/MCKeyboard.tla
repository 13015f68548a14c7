----------------------------- MODULE MCKeyboard -----------------------------
(* An instance of Keyboard for TLC. *)
EXTENDS Keyboard, TLC

CONSTANTS a, b, nul, space, newline, backspace, nochar, p

MCChars    == {a, b}
MCOneChar  == {a}
MCPrompt   == <<p>>
MCTexts    == {<<p, newline>>}
MCSymmetry == Permutations(MCChars)   \* no step tells a from b

=============================================================================
