------------------------------- MODULE Base32 -------------------------------
(***************************************************************************)
(* utils_base32_decode (src/src/utils.c), which reads the seed of a TOTP   *)
(* code: a loop over the characters with a fixed-width accumulator that    *)
(* shifts its oldest bits out.  A character is its value 0..31, or one of  *)
(* the three kinds that have none.  At most 7 bits are left over before a  *)
(* character is shifted in, so any width of 12 or more must do: a narrow   *)
(* instance loses old bits on short inputs, as the code's does on long     *)
(* ones.                                                                   *)
(***************************************************************************)
EXTENDS Integers, Sequences

CONSTANTS
    Space, Padding, Foreign,  \* white space, `=`, any other character
    AccBits,                  \* width of the accumulator: 32 in the code
    Inputs,                   \* the texts decoded
    Capacities                \* sizes of the caller's buffer

Digit == 0..31

Character == Digit \cup {Space, Padding, Foreign}

ASSUME Base32Assumption ==
    /\ {Space, Padding, Foreign} \cap Digit = {}
    /\ Space # Padding /\ Space # Foreign /\ Padding # Foreign
    /\ AccBits \in Nat /\ AccBits >= 12
    /\ Inputs \subseteq Seq(Character) /\ Capacities \subseteq Nat

VARIABLES
    input, capacity,  \* the arguments
    pos,              \* characters read (i in the code)
    accumulator, bits,
    output,           \* bytes written
    padding_seen,
    status            \* "running", "ok" or "invalid"

arguments == <<input, capacity>>

decodeVars == <<input, capacity, pos, accumulator, bits, output, padding_seen, status>>

(* Powers of two: shifts, and what the accumulator holds. *)
Pow2[n \in Nat] == IF n = 0 THEN 1 ELSE 2 * Pow2[n - 1]

DecodeInit ==
    /\ input \in Inputs /\ capacity \in Capacities
    /\ pos = 0 /\ accumulator = 0 /\ bits = 0
    /\ output = <<>>
    /\ padding_seen = FALSE
    /\ status = "running"

Reading == status = "running" /\ pos < Len(input)

Char == input[pos + 1]

SkipSpace ==
    /\ Reading /\ Char = Space
    /\ pos' = pos + 1
    /\ UNCHANGED <<arguments, accumulator, bits, output, padding_seen, status>>

SkipPadding ==
    /\ Reading /\ Char = Padding
    /\ pos' = pos + 1
    /\ padding_seen' = TRUE
    /\ UNCHANGED <<arguments, accumulator, bits, output, status>>

(* A value after padding, or no value: SM_ERR_INVALID_ARGUMENT. *)
RefuseChar ==
    /\ Reading /\ Char \notin {Space, Padding}
    /\ padding_seen \/ Char = Foreign
    /\ status' = "invalid"
    /\ UNCHANGED <<arguments, pos, accumulator, bits, output, padding_seen>>

(* Mutant of Shift: an accumulator as wide as the byte it yields. *)
ShiftByte(acc, v) == (acc * 32 + v) % 256

(* (accumulator << 5) | value *)
Shift(acc, v) == (acc * 32 + v) % Pow2[AccBits]

(* The oldest eight of b bits. *)
Oldest(acc, b) == (acc \div Pow2[b - 8]) % 256

ShiftIn ==
    /\ Reading /\ ~padding_seen /\ Char \in Digit
    /\ accumulator' = Shift(accumulator, Char)
    /\ UNCHANGED <<arguments, padding_seen>>

(* Fewer than eight bits: the next character. *)
Gather ==
    /\ ShiftIn /\ bits + 5 < 8
    /\ bits' = bits + 5
    /\ pos' = pos + 1
    /\ UNCHANGED <<output, status>>

Emit ==
    /\ ShiftIn /\ bits + 5 >= 8
    /\ Len(output) < capacity
    /\ output' = Append(output, Oldest(accumulator', bits + 5))
    /\ bits' = bits + 5 - 8
    /\ pos' = pos + 1
    /\ UNCHANGED status

(* out_pos >= output_len: the buffer is cleared. *)
Overflow ==
    /\ ShiftIn /\ bits + 5 >= 8
    /\ Len(output) >= capacity
    /\ output' = <<>>
    /\ status' = "invalid"
    /\ bits' = bits + 5
    /\ UNCHANGED pos

(* No byte is an error too. *)
Return ==
    /\ status = "running" /\ pos = Len(input)
    /\ status' = IF output = <<>> THEN "invalid" ELSE "ok"
    /\ UNCHANGED <<arguments, pos, accumulator, bits, output, padding_seen>>

DecodeNext ==
    \/ SkipSpace \/ SkipPadding \/ RefuseChar
    \/ Gather \/ Emit \/ Overflow
    \/ Return

DecodeSpec == DecodeInit /\ [][DecodeNext]_decodeVars

-----------------------------------------------------------------------------
(* The reference: the values of a text are the digits of one number in base *)
(* 32, whose highest bits are cut into bytes.                               *)

WithDigit(num, c) ==
    IF c \in Digit THEN [digits |-> num.digits + 1, value |-> 32 * num.value + c]
                   ELSE num

(* The number that the first k characters write. *)
Numeral(text) ==
    LET num[k \in Nat] == IF k = 0 THEN [digits |-> 0, value |-> 0]
                          ELSE WithDigit(num[k - 1], text[k])
    IN  num

Bytes(num) ==
    [j \in 1..((5 * num.digits) \div 8) |->
        (num.value \div Pow2[5 * num.digits - 8 * j]) % 256]

Decoded(text) == Bytes(Numeral(text)[Len(text)])

(* White space anywhere; nothing but padding after padding. *)
WellFormed(text) ==
    \A k \in 1..Len(text) :
        /\ text[k] # Foreign
        /\ \A j \in 1..(k - 1) : text[j] = Padding => text[k] \in {Padding, Space}

(* The seed of a TOTP code is decoded exactly, five bits a character,       *)
(* however many bits have been shifted out of the accumulator: the bytes    *)
(* are the reference's, never more than fit, and a text is refused just     *)
(* when it is malformed, yields no byte or more than fit.                   *)
SeedsExact ==
    /\ Len(output) <= capacity
    /\ status # "running" =>
         (status = "ok" <=> WellFormed(input) /\ Len(Decoded(input)) \in 1..capacity)
    /\ status = "ok" => output = Decoded(input)
=============================================================================
