------------------------------- MODULE MCCli -------------------------------
(***************************************************************************)
(* Model-checking instance of the command line.  totp decodes its seed     *)
(* (Base32) before a code is copied (Clipboard).  The decoder leaves       *)
(* nothing behind but its bytes, and the code is some text that depends on *)
(* the time too, so every seed is decoded, and copying goes on after one.  *)
(* Two commands copy the same text, or one text and a longer one that      *)
(* begins with it.                                                         *)
(***************************************************************************)
EXTENDS Clipboard, Base32

CONSTANTS
    Tried,      \* the values of characters that are tried
    MaxChars    \* bound: length of a seed

SomeTexts == {<<>>, <<1>>, <<1, 2>>}

SomeInputs == BoundedSeq(Tried \cup {Space, Padding, Foreign}, MaxChars)

(* The seed after which copying goes on. *)
OneSeed == <<21, 31>>

Decoding == DecodeNext /\ UNCHANGED vars

Copying ==
    /\ status = "ok" /\ input = OneSeed /\ capacity = 1
    /\ Next
    /\ UNCHANGED decodeVars

CliInit == Init /\ DecodeInit

CliSpec ==
    /\ CliInit
    /\ [][Decoding \/ Copying]_<<vars, decodeVars>>
    /\ Fairness
=============================================================================
