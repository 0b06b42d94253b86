------------------------------ MODULE CliProofs ------------------------------
(***************************************************************************)
(* What the command line keeps to itself.  The helper that clears the      *)
(* clipboard, for any number of commands, texts and copies of the user: it *)
(* clears in time and nothing but its own secret.  The decoder of a TOTP   *)
(* seed, for every text and buffer: its bytes are those of the number the  *)
(* text writes, though the accumulator forgets the oldest bits.            *)
(***************************************************************************)
EXTENDS Clipboard, Base32, WellFoundedInduction, TLAPS

TextChar == UNION {ToSet(text) : text \in Texts}

(* Texts are sequences of the characters in use. *)
ClipTypes ==
    /\ clip \in Seq(TextChar)
    /\ value \in [Commands -> Seq(TextChar)] /\ pipe \in [Commands -> Seq(TextChar)]
    /\ pc \in [Commands -> {"idle", "write", "schedule", "feed", "done", "failed"}]
    /\ helper \in [Commands -> {"none", "read", "sleep", "paste", "clear", "gone",
                                "broken"}]
    /\ left \in [Commands -> Nat]

(* The helper lives after its command, has all of the secret once it        *)
(* sleeps, and when it goes on to clear has found the clipboard holding     *)
(* just that secret; only a later text can have come in between.            *)
HelperKnows(c) ==
    /\ pc[c] \in {"idle", "write", "schedule", "failed"} => helper[c] = "none"
    /\ helper[c] \in {"sleep", "paste", "clear"} =>
         pc[c] = "done" /\ pipe[c] = value[c]
    /\ pc[c] = "idle" => pipe[c] = <<>>
    /\ Len(pipe[c]) = Len(value[c]) => pipe[c] = value[c]
    /\ Len(pipe[c]) <= Len(value[c])
    /\ helper[c] \in {"paste", "clear"} => left[c] = 0
    /\ helper[c] = "clear" => clip = value[c] \/ c \in stale

ClipInv == ClipTypes /\ \A c \in Commands : HelperKnows(c)

-----------------------------------------------------------------------------
(* Texts are sequences of characters. *)
LEMMA TextTypes == Texts \subseteq Seq(TextChar)
<1> SUFFICES ASSUME NEW text \in Texts PROVE text \in Seq(TextChar)
  OBVIOUS
<1>1. text \in Seq(ToSet(text)) /\ ToSet(text) \subseteq TextChar
  BY ClipboardAssumption DEF TextChar
<1> QED
  BY <1>1

(* A prefix as long as the whole is the whole. *)
LEMMA PrefixTypes ==
    ASSUME NEW s \in Seq(TextChar), NEW t \in Prefixes(s)
    PROVE  t \in Seq(TextChar) /\ Len(t) <= Len(s) /\ (Len(t) = Len(s) => t = s)
<1>1. PICK l \in 0..Len(s) : t = SubSeq(s, 1, l)
  BY DEF Prefixes
<1>2. t \in Seq(TextChar) /\ Len(t) = l
  BY <1>1
<1>3. l = Len(s) => t = s
  BY <1>1, <1>2
<1> QED
  BY <1>2, <1>3

(* cli_clipboard_read_current: reading one byte more than expected tells a  *)
(* longer text apart.                                                       *)
LEMMA ReadTellsApart ==
    ASSUME NEW text \in Seq(TextChar), NEW s \in Seq(TextChar), ReadCurrent(text, Len(s)) = s
    PROVE  text = s
<1>1. CASE Len(text) < Len(s) + 1
  <2>1. s = SubSeq(text, 1, Len(text))
    BY <1>1 DEF ReadCurrent
  <2> QED
    BY <2>1
<1>2. CASE ~(Len(text) < Len(s) + 1)
  <2>1. s = SubSeq(text, 1, Len(s) + 1)
    BY <1>2 DEF ReadCurrent
  <2>2. Len(SubSeq(text, 1, Len(s) + 1)) = Len(s) + 1
    BY <1>2
  <2> QED
    BY <2>1, <2>2
<1> QED
  BY <1>1, <1>2

(* A step that leaves this command and its helper alone, whatever it does   *)
(* to the clipboard.                                                        *)
LEMMA OthersKept ==
    ASSUME NEW c \in Commands, HelperKnows(c),
           pc'[c] = pc[c], value'[c] = value[c], pipe'[c] = pipe[c],
           helper'[c] = helper[c], left'[c] = left[c],
           Keep \/ \E text, by : Put(text, by)
    PROVE  HelperKnows(c)'
  BY DEF HelperKnows, Keep, Put

(* The steps of a command. *)
LEMMA CommandKept ==
    ASSUME ClipInv, NEW c \in Commands,
           \/ \E text \in Texts : Copy(c, text)
           \/ Write(c) \/ WriteFail(c) \/ Schedule(c) \/ Feed(c) \/ ScheduleFail(c)
    PROVE  ClipInv'
<1> USE DEF Goto
<1>0. ClipTypes /\ HelperKnows(c)
  BY DEF ClipInv
<1>1. ClipTypes'
  <2>1. ASSUME NEW text \in Texts, Copy(c, text) PROVE ClipTypes'
    BY <1>0, <2>1, TextTypes DEF ClipTypes, Copy, Keep
  <2>2. CASE Write(c)
    BY <1>0, <2>2 DEF ClipTypes, Write, Put
  <2>3. CASE WriteFail(c)
    <3>1. clip' \in Seq(TextChar)
      BY <1>0, <2>3, PrefixTypes DEF ClipTypes, WriteFail, Put, Keep
    <3> QED
      BY <1>0, <2>3, <3>1 DEF ClipTypes, WriteFail
  <2>4. CASE Schedule(c)
    BY <1>0, <2>4 DEF ClipTypes, Schedule, Keep
  <2>5. CASE Feed(c)
    BY <1>0, <2>5 DEF ClipTypes, Feed, Keep
  <2>6. CASE ScheduleFail(c)
    BY <1>0, <2>6, PrefixTypes DEF ClipTypes, ScheduleFail, Keep
  <2> QED
    BY <2>1, <2>2, <2>3, <2>4, <2>5, <2>6
<1>2. HelperKnows(c)'
  <2>1. ASSUME NEW text \in Texts, Copy(c, text) PROVE HelperKnows(c)'
    BY <1>0, <2>1, TextTypes DEF ClipTypes, HelperKnows, Copy, Keep
  <2>2. CASE Write(c) \/ WriteFail(c)
    BY <1>0, <2>2 DEF ClipTypes, HelperKnows, Write, WriteFail
  <2>3. CASE Schedule(c)
    BY <1>0, <2>3 DEF ClipTypes, HelperKnows, Schedule, Keep
  <2>4. CASE Feed(c)
    BY <1>0, <2>4 DEF ClipTypes, HelperKnows, Feed, Keep
  <2>5. CASE ScheduleFail(c)
    BY <1>0, <2>5, PrefixTypes DEF ClipTypes, HelperKnows, ScheduleFail, Keep
  <2> QED
    BY <2>1, <2>2, <2>3, <2>4, <2>5
<1>3. ASSUME NEW d \in Commands, d # c PROVE HelperKnows(d)'
  <2>1. /\ pc'[d] = pc[d] /\ value'[d] = value[d] /\ pipe'[d] = pipe[d]
        /\ helper'[d] = helper[d] /\ left'[d] = left[d]
    BY <1>0, <1>3 DEF ClipTypes, Copy, Write, WriteFail, Schedule, Feed, ScheduleFail
  <2>2. Keep \/ \E text, by : Put(text, by)
    BY DEF Copy, Write, WriteFail, Schedule, Feed, ScheduleFail
  <2> QED
    BY <2>1, <2>2, OthersKept DEF ClipInv
<1> QED
  BY <1>1, <1>2, <1>3 DEF ClipInv

(* The steps of a helper. *)
LEMMA HelperKept ==
    ASSUME ClipInv, NEW c \in Commands, HelperStep(c) \/ HelperFail(c)
    PROVE  ClipInv'
<1> USE DEF Enter
<1>0. ClipTypes /\ HelperKnows(c)
  BY DEF ClipInv
<1>1. ClipTypes'
  <2>1. CASE HelperRead(c)
    BY <1>0, <2>1, ClipboardAssumption, ZenonT(40) DEF ClipTypes, HelperRead, Keep, command
  <2>2. CASE Wake(c) \/ Paste(c) \/ HelperFail(c)
    BY <1>0, <2>2 DEF ClipTypes, Wake, Paste, HelperFail, Keep, command
  <2>3. CASE Clear(c)
    BY <1>0, <2>3 DEF ClipTypes, Clear, Put, command
  <2> QED
    BY <2>1, <2>2, <2>3 DEF HelperStep
<1>2. HelperKnows(c)'
  <2>1. CASE HelperRead(c)
    BY <1>0, <2>1 DEF ClipTypes, HelperKnows, HelperRead, Complete, Keep, command
  <2>2. CASE Wake(c) \/ HelperFail(c)
    BY <1>0, <2>2 DEF ClipTypes, HelperKnows, Wake, HelperFail, Keep, command
  <2>3. CASE Paste(c)
    <3>1. ReadCurrent(clip, Len(value[c])) = value[c] => clip = value[c]
      BY <1>0, ReadTellsApart DEF ClipTypes
    <3> QED
      BY <1>0, <2>3, <3>1 DEF ClipTypes, HelperKnows, Paste, Keep, command
  <2>4. CASE Clear(c)
    BY <1>0, <2>4 DEF ClipTypes, HelperKnows, Clear, command
  <2> QED
    BY <2>1, <2>2, <2>3, <2>4 DEF HelperStep
<1>3. ASSUME NEW d \in Commands, d # c PROVE HelperKnows(d)'
  <2>1. /\ pc'[d] = pc[d] /\ value'[d] = value[d] /\ pipe'[d] = pipe[d]
        /\ helper'[d] = helper[d] /\ left'[d] = left[d]
    BY <1>0, <1>3 DEF ClipTypes, HelperStep, HelperRead, Wake, Paste, Clear, HelperFail,
                      command
  <2>2. Keep \/ \E text, by : Put(text, by)
    BY DEF HelperStep, HelperRead, Wake, Paste, Clear, HelperFail
  <2> QED
    BY <2>1, <2>2, OthersKept DEF ClipInv
<1> QED
  BY <1>1, <1>2, <1>3 DEF ClipInv

(* The user and the time. *)
LEMMA WorldKept ==
    ASSUME ClipInv, (\E text \in Texts : UserCopy(text)) \/ Tick
    PROVE  ClipInv'
<1>0. ClipTypes
  BY DEF ClipInv
<1>1. ASSUME NEW text \in Texts, UserCopy(text) PROVE ClipInv'
  <2>1. ClipTypes'
    BY <1>0, <1>1, TextTypes DEF ClipTypes, UserCopy, Put, command
  <2> QED
    BY <1>1, <2>1, OthersKept DEF ClipInv, UserCopy, command
<1>2. CASE Tick
  <2>1. ClipTypes'
    BY <1>0, <1>2 DEF ClipTypes, Tick, Keep, command
  <2>2. ASSUME NEW c \in Commands PROVE HelperKnows(c)'
    BY <1>0, <1>2 DEF ClipInv, ClipTypes, HelperKnows, Tick, Keep, command
  <2> QED
    BY <2>1, <2>2 DEF ClipInv
<1> QED
  BY <1>1, <1>2

-----------------------------------------------------------------------------
(* The invariant of every behaviour. *)
LEMMA ClipInvariant == Spec => []ClipInv
<1>1. Init => ClipInv
  BY DEF Init, ClipInv, ClipTypes, HelperKnows
<1>2. ClipInv /\ Next => ClipInv'
  BY CommandKept, HelperKept, WorldKept DEF Next
<1>3. ClipInv /\ UNCHANGED vars => ClipInv'
  <2> SUFFICES ASSUME ClipInv, UNCHANGED vars PROVE ClipInv'
    OBVIOUS
  <2>1. ClipTypes'
    BY DEF ClipInv, ClipTypes, vars
  <2> QED
    BY <2>1 DEF ClipInv, HelperKnows, vars
<1> QED
  BY <1>1, <1>2, <1>3, PTL DEF Spec

(* cli_clipboard_clear_helper clears when its time is up, and only the      *)
(* secret of its command or what was put there after it had looked.         *)
THEOREM ClearIsDueHolds == Spec => ClearIsDue
<1>1. ClipInv => \A c \in Commands :
        helper[c] = "clear" => left[c] = 0 /\ (clip = value[c] \/ c \in stale)
  BY DEF ClipInv, HelperKnows
<1>2. ClipInv /\ [Next]_vars =>
        [\A c \in Commands : helper[c] = "clear" /\ clip' # clip /\ helper'[c] = "gone" =>
            left[c] = 0 /\ (clip = value[c] \/ c \in stale)]_vars
  BY <1>1
<1> QED
  BY <1>2, ClipInvariant, PTL DEF Spec, ClearIsDue

-----------------------------------------------------------------------------
(* Induction and loops *)

Below == {s \in Nat \X Nat : s[1] < s[2]}

(* A set with 0 and with the successor of each natural in it has them all:  *)
(* otherwise the least natural that is missing would be in it.              *)
LEMMA NatsIn ==
    ASSUME NEW S, 0 \in S, \A n \in Nat : n \in S => n + 1 \in S
    PROVE  \A n \in Nat : n \in S
<1> SUFFICES ASSUME NEW x \in Nat, x \notin S PROVE FALSE
  OBVIOUS
<1> DEFINE T == Nat \ S
<1>1. IsWellFoundedOn(Below, Nat)
  BY NatLessThanWellFounded DEF OpToRel, Below
<1>2. PICK m \in T : \A k \in T : ~ (<<k, m>> \in Below)
  BY <1>1, WFMin
<1>3. m \in Nat /\ m # 0 /\ m - 1 \in Nat /\ m - 1 < m /\ (m - 1) + 1 = m
  BY <1>2
<1>4. <<m - 1, m>> \in Below
  BY <1>3 DEF Below
<1>5. m - 1 \in S
  BY <1>2, <1>3, <1>4
<1> QED
  BY <1>2, <1>3, <1>5

(* The two recursions, each named by what it runs over, so that existence   *)
(* is shown once for both.                                                  *)
PowerLoop == [of |-> "power"]
NumeralLoop(text) == [of |-> "numeral", text |-> text]

First(c) == IF c.of = "power" THEN 1 ELSE [digits |-> 0, value |-> 0]

Round(c, k, v) == IF c.of = "power" THEN 2 * v ELSE WithDigit(v, c.text[k])

(* g holds the values of c up to round n. *)
RunsTo(c, g, n) ==
    g = [k \in 0..n |-> IF k = 0 THEN First(c) ELSE Round(c, k, g[k - 1])]

(* Two runs agree as far as both go. *)
LEMMA RunsAgree ==
    ASSUME NEW c, NEW g, NEW h, NEW n \in Nat, NEW m \in Nat,
           RunsTo(c, g, n), RunsTo(c, h, m)
    PROVE  \A k \in Nat : k <= n /\ k <= m => g[k] = h[k]
<1> DEFINE S == {k \in Nat : k <= n /\ k <= m => g[k] = h[k]}
<1>1. 0 \in S
  BY DEF RunsTo
<1>2. ASSUME NEW k \in Nat, k \in S PROVE k + 1 \in S
  <2> SUFFICES ASSUME k + 1 <= n, k + 1 <= m PROVE g[k + 1] = h[k + 1]
    OBVIOUS
  <2>1. g[k] = h[k] /\ k + 1 \in 0..n /\ k + 1 \in 0..m /\ k + 1 # 0 /\ (k + 1) - 1 = k
    BY <1>2
  <2>2. /\ g[k + 1] = Round(c, k + 1, g[(k + 1) - 1])
        /\ h[k + 1] = Round(c, k + 1, h[(k + 1) - 1])
    BY <2>1 DEF RunsTo
  <2> QED
    BY <2>1, <2>2
<1>3. \A k \in Nat : k \in S
  <2> HIDE DEF S
  <2> QED
    BY <1>1, <1>2, NatsIn
<1> QED
  BY <1>3

(* There is one for every number of rounds. *)
LEMMA RunExists ==
    ASSUME NEW c
    PROVE  \A n \in Nat : \E g : RunsTo(c, g, n)
<1> DEFINE S == {n \in Nat : \E g : RunsTo(c, g, n)}
<1>1. 0 \in S
  <2> DEFINE g == [k \in 0..0 |-> First(c)]
  <2>1. RunsTo(c, g, 0)
    BY DEF RunsTo
  <2> QED
    BY <2>1
<1>2. ASSUME NEW n \in Nat, n \in S PROVE n + 1 \in S
  <2>1. PICK g : RunsTo(c, g, n)
    BY <1>2
  <2> DEFINE h == [k \in 0..(n + 1) |-> IF k = n + 1 THEN Round(c, n + 1, g[n]) ELSE g[k]]
  <2>2. ASSUME NEW k \in 0..(n + 1)
        PROVE  h[k] = IF k = 0 THEN First(c) ELSE Round(c, k, h[k - 1])
    <3>1. CASE k = n + 1
      <4>1. h[n] = g[n] /\ (n + 1) - 1 = n /\ n + 1 # 0
        OBVIOUS
      <4> QED
        BY <3>1, <4>1
    <3>2. CASE k # n + 1
      <4>1. k \in 0..n /\ h[k] = g[k]
        BY <3>2
      <4>2. g[k] = IF k = 0 THEN First(c) ELSE Round(c, k, g[k - 1])
        BY <2>1, <4>1 DEF RunsTo
      <4>3. k # 0 => h[k - 1] = g[k - 1]
        BY <4>1
      <4> HIDE DEF h
      <4> QED
        BY <4>1, <4>2, <4>3
    <3> QED
      BY <3>1, <3>2
  <2>3. RunsTo(c, h, n + 1)
    <3>1. h = [k \in 0..(n + 1) |-> h[k]]
      OBVIOUS
    <3> HIDE DEF h
    <3> QED
      BY <2>2, <3>1 DEF RunsTo
  <2> QED
    BY <2>3
<1>3. \A n \in Nat : n \in S
  <2> HIDE DEF S
  <2> QED
    BY <1>1, <1>2, NatsIn
<1> QED
  BY <1>3

(* So there is a function that is the whole recursion. *)
LEMMA LoopExists ==
    ASSUME NEW c
    PROVE  \E f : f = [k \in Nat |-> IF k = 0 THEN First(c) ELSE Round(c, k, f[k - 1])]
<1> DEFINE G(k) == CHOOSE g : RunsTo(c, g, k)
           f == [k \in Nat |-> G(k)[k]]
<1>1. \A k \in Nat : RunsTo(c, G(k), k)
  BY RunExists
<1>2. ASSUME NEW k \in Nat
      PROVE  f[k] = IF k = 0 THEN First(c) ELSE Round(c, k, f[k - 1])
  <2>1. G(k)[k] = IF k = 0 THEN First(c) ELSE Round(c, k, G(k)[k - 1])
    <3>1. RunsTo(c, G(k), k) /\ k \in 0..k
      BY <1>1
    <3> HIDE DEF G
    <3> QED
      BY <3>1 DEF RunsTo
  <2>2. k # 0 => G(k)[k - 1] = G(k - 1)[k - 1]
    <3> SUFFICES ASSUME k # 0 PROVE G(k)[k - 1] = G(k - 1)[k - 1]
      OBVIOUS
    <3>1. k - 1 \in Nat /\ RunsTo(c, G(k), k) /\ RunsTo(c, G(k - 1), k - 1)
      BY <1>1
    <3> HIDE DEF G
    <3> QED
      BY <3>1, RunsAgree
  <2>3. f[k] = G(k)[k] /\ (k # 0 => f[k - 1] = G(k - 1)[k - 1])
    OBVIOUS
  <2> HIDE DEF f, G
  <2> QED
    BY <2>1, <2>2, <2>3
<1>3. f = [k \in Nat |-> f[k]]
  OBVIOUS
<1>4. f = [k \in Nat |-> IF k = 0 THEN First(c) ELSE Round(c, k, f[k - 1])]
  <2> HIDE DEF f
  <2> QED
    BY <1>2, <1>3
<1> QED
  BY <1>4

(* The powers of two. *)
LEMMA PowersRun == Pow2[0] = 1 /\ \A n \in Nat : Pow2[n + 1] = 2 * Pow2[n]
<1> DEFINE F == CHOOSE f : f = [n \in Nat |-> IF n = 0 THEN 1 ELSE 2 * f[n - 1]]
<1>1. \E f : f = [n \in Nat |-> IF n = 0 THEN 1 ELSE 2 * f[n - 1]]
  <2> DEFINE c == PowerLoop
  <2>1. First(c) = 1 /\ \A k, v : Round(c, k, v) = 2 * v
    BY DEF First, Round, PowerLoop
  <2> HIDE DEF c
  <2>2. PICK f : f = [k \in Nat |-> IF k = 0 THEN First(c) ELSE Round(c, k, f[k - 1])]
    BY LoopExists
  <2>3. f = [k \in Nat |-> IF k = 0 THEN 1 ELSE 2 * f[k - 1]]
    BY <2>1, <2>2
  <2> QED
    BY <2>3
<1>2. F = [n \in Nat |-> IF n = 0 THEN 1 ELSE 2 * F[n - 1]]
  BY <1>1
<1>3. Pow2 = F
  BY DEF Pow2
<1> HIDE DEF F
<1>4. ASSUME NEW n \in Nat PROVE F[n + 1] = 2 * F[n]
  <2>1. n + 1 \in Nat /\ n + 1 # 0 /\ (n + 1) - 1 = n
    OBVIOUS
  <2> QED
    BY <1>2, <2>1
<1> QED
  BY <1>2, <1>3, <1>4

(* The number a text writes, character by character. *)
LEMMA NumeralRun ==
    ASSUME NEW text
    PROVE  /\ Numeral(text)[0] = [digits |-> 0, value |-> 0]
           /\ \A k \in Nat :
                Numeral(text)[k + 1] = WithDigit(Numeral(text)[k], text[k + 1])
<1> DEFINE F == CHOOSE f : f = [k \in Nat |-> IF k = 0 THEN [digits |-> 0, value |-> 0]
                                            ELSE WithDigit(f[k - 1], text[k])]
<1>1. \E f : f = [k \in Nat |-> IF k = 0 THEN [digits |-> 0, value |-> 0]
                               ELSE WithDigit(f[k - 1], text[k])]
  <2> DEFINE c == NumeralLoop(text)
  <2>1. c.of # "power" /\ c.text = text
    BY DEF NumeralLoop
  <2>2. /\ First(c) = [digits |-> 0, value |-> 0]
        /\ \A k, v : Round(c, k, v) = WithDigit(v, text[k])
    BY <2>1 DEF First, Round
  <2> HIDE DEF c
  <2>3. PICK f : f = [k \in Nat |-> IF k = 0 THEN First(c) ELSE Round(c, k, f[k - 1])]
    BY LoopExists
  <2>4. f = [k \in Nat |-> IF k = 0 THEN [digits |-> 0, value |-> 0]
                           ELSE WithDigit(f[k - 1], text[k])]
    BY <2>2, <2>3
  <2> QED
    BY <2>4
<1>2. F = [k \in Nat |-> IF k = 0 THEN [digits |-> 0, value |-> 0]
                         ELSE WithDigit(F[k - 1], text[k])]
  BY <1>1
<1>3. Numeral(text) = F
  BY DEF Numeral
<1> HIDE DEF F
<1>4. ASSUME NEW k \in Nat PROVE F[k + 1] = WithDigit(F[k], text[k + 1])
  <2>1. k + 1 \in Nat /\ k + 1 # 0 /\ (k + 1) - 1 = k
    OBVIOUS
  <2> QED
    BY <1>2, <2>1
<1> QED
  BY <1>2, <1>3, <1>4

-----------------------------------------------------------------------------
(* Arithmetic *)

(* Powers of two are positive. *)
LEMMA PowerType == \A n \in Nat : Pow2[n] \in Nat /\ Pow2[n] > 0
<1> DEFINE S == {n \in Nat : Pow2[n] \in Nat /\ Pow2[n] > 0}
<1>1. 0 \in S
  BY PowersRun
<1>2. ASSUME NEW n \in Nat, n \in S PROVE n + 1 \in S
  BY <1>2, PowersRun
<1>3. \A n \in Nat : n \in S
  <2> HIDE DEF S
  <2> QED
    BY <1>1, <1>2, NatsIn
<1> QED
  BY <1>3

(* Exponents add up. *)
LEMMA PowerSum ==
    ASSUME NEW m \in Nat
    PROVE  \A n \in Nat : Pow2[m + n] = Pow2[m] * Pow2[n]
<1> DEFINE S == {n \in Nat : Pow2[m + n] = Pow2[m] * Pow2[n]}
<1>1. 0 \in S
  <2>1. Pow2[m] \in Nat /\ Pow2[0] = 1 /\ m + 0 = m
    BY PowersRun, PowerType
  <2> QED
    BY <2>1
<1>2. ASSUME NEW n \in Nat, n \in S PROVE n + 1 \in S
  <2>1. m + n \in Nat /\ m + (n + 1) = (m + n) + 1
    OBVIOUS
  <2>2. Pow2[m + (n + 1)] = 2 * Pow2[m + n] /\ Pow2[n + 1] = 2 * Pow2[n]
    BY <2>1, PowersRun
  <2>3. Pow2[m] \in Nat /\ Pow2[n] \in Nat
    BY PowerType
  <2>4. 2 * (Pow2[m] * Pow2[n]) = Pow2[m] * (2 * Pow2[n])
    BY <2>3
  <2>5. Pow2[m + n] = Pow2[m] * Pow2[n]
    BY <1>2
  <2>6. Pow2[m + (n + 1)] = Pow2[m] * Pow2[n + 1]
    BY <2>2, <2>4, <2>5
  <2> QED
    BY <2>6
<1>3. \A n \in Nat : n \in S
  <2> HIDE DEF S
  <2> QED
    BY <1>1, <1>2, NatsIn
<1> QED
  BY <1>3

(* The powers that appear by name. *)
LEMMA SmallPowers == Pow2[5] = 32 /\ Pow2[8] = 256
<1>1. Pow2[0 + 1] = 2 /\ Pow2[1 + 1] = 2 * Pow2[1] /\ Pow2[2 + 1] = 2 * Pow2[2]
      /\ Pow2[3 + 1] = 2 * Pow2[3] /\ Pow2[4 + 1] = 2 * Pow2[4]
      /\ Pow2[5 + 1] = 2 * Pow2[5] /\ Pow2[6 + 1] = 2 * Pow2[6]
      /\ Pow2[7 + 1] = 2 * Pow2[7]
  BY PowersRun
<1> QED
  BY <1>1

(* Quotient and remainder. *)
LEMMA DivMod ==
    ASSUME NEW a \in Nat, NEW d \in Nat, d > 0
    PROVE  /\ a \div d \in Nat /\ a % d \in Nat /\ a % d < d
           /\ a = d * (a \div d) + (a % d)
<1>1. a \div d \in Nat /\ a % d \in Nat /\ a % d < d
  OBVIOUS
<1>2. a - d * (a \div d) = a % d
  OBVIOUS
<1>3. ASSUME NEW q \in Nat, NEW r \in Nat, a - d * q = r
      PROVE  a = d * q + r
  <2>1. d * q \in Int
    OBVIOUS
  <2> QED
    BY <1>3, <2>1
<1>4. a = d * (a \div d) + (a % d)
  BY <1>1, <1>2, <1>3, Zenon
<1> QED
  BY <1>1, <1>4, Zenon

(* They are determined by what they add up to. *)
LEMMA DivModUnique ==
    ASSUME NEW a \in Nat, NEW d \in Nat, NEW q \in Nat, NEW r \in Nat,
           r < d, a = d * q + r
    PROVE  a \div d = q /\ a % d = r
  OBVIOUS

(* Five more bits below leave the bits above where they were. *)
LEMMA HighBitsKept ==
    ASSUME NEW x \in Nat, NEW v \in Digit, NEW p \in Nat, p > 0
    PROVE  (32 * x + v) \div (32 * p) = x \div p
<1> DEFINE q == x \div p
           r == x % p
<1>1. q \in Nat /\ r \in Nat /\ r < p /\ x = p * q + r
  BY DivMod
<1> HIDE DEF q, r
<1>2. v \in Nat /\ v < 32
  BY DEF Digit
<1>3. 32 * r + v \in Nat /\ 32 * r + v < 32 * p
  BY <1>1, <1>2
<1>4. 32 * x + v = (32 * p) * q + (32 * r + v)
  <2>1. 32 * (p * q + r) = (32 * p) * q + 32 * r
    BY <1>1
  <2> QED
    BY <1>1, <1>2, <2>1
<1>5. (32 * x + v) \div (32 * p) = q
  <2>1. 32 * x + v \in Nat /\ 32 * p \in Nat
    BY <1>2
  <2> QED
    BY <1>1, <1>3, <1>4, <2>1, DivModUnique
<1> QED
  BY <1>5 DEF q

(* Shifting what is left modulo m is shifting the whole modulo m. *)
LEMMA ShiftMod ==
    ASSUME NEW x \in Nat, NEW v \in Digit, NEW m \in Nat, m > 0
    PROVE  ((x % m) * 32 + v) % m = (32 * x + v) % m
<1> DEFINE q == x \div m
           r == x % m
           y == r * 32 + v
           s == y \div m
           t == y % m
<1>1. q \in Nat /\ r \in Nat /\ r < m /\ x = m * q + r
  BY DivMod
<1> HIDE DEF q, r
<1>2. v \in Nat /\ y \in Nat
  BY <1>1 DEF Digit
<1>3. y = 32 * r + v
  BY <1>1, <1>2
<1> HIDE DEF y
<1>4. s \in Nat /\ t \in Nat /\ t < m /\ y = m * s + t
  BY <1>2, DivMod
<1> HIDE DEF s, t
<1>5. 32 * x + v = m * (32 * q + s) + t
  <2>1. 32 * (m * q + r) = m * (32 * q) + 32 * r
    BY <1>1
  <2>2. m * (32 * q + s) = m * (32 * q) + m * s
    BY <1>1, <1>4
  <2>3. m * (32 * q) \in Int /\ m * s \in Int
    BY <1>1, <1>4
  <2> QED
    BY <1>1, <1>2, <1>3, <1>4, <2>1, <2>2, <2>3
<1>6. (32 * x + v) % m = t
  <2>1. 32 * x + v \in Nat /\ 32 * q + s \in Nat
    BY <1>1, <1>2, <1>4
  <2> QED
    BY <1>4, <1>5, <2>1, DivModUnique
<1> QED
  BY <1>6 DEF t, y, r

(* A modulus with room for eight bits above p. *)
Window(p, w) == p * (256 * w)

(* Eight bits that lie within the accumulator are those of the whole. *)
LEMMA ByteWithin ==
    ASSUME NEW x \in Nat, NEW p \in Nat, p > 0, NEW w \in Nat, w > 0
    PROVE  ((x % Window(p, w)) \div p) % 256 = (x \div p) % 256
<1> DEFINE m == Window(p, w)
           q == x \div m
           r == x % m
           s == r \div p
           t == r % p
           u == s \div 256
           z == s % 256
<1>1. m \in Nat /\ m > 0
  BY DEF Window
<1> HIDE DEF m
<1>2. q \in Nat /\ r \in Nat /\ x = m * q + r
  BY <1>1, DivMod
<1> HIDE DEF q, r
<1>3. s \in Nat /\ t \in Nat /\ t < p /\ r = p * s + t
  BY <1>2, DivMod
<1> HIDE DEF s, t
<1>4. u \in Nat /\ z \in Nat /\ z < 256 /\ s = 256 * u + z
  BY <1>3
<1> HIDE DEF u, z
<1> DEFINE a == w * q
<1>5. a \in Nat
  BY <1>2
<1>6. m * q = p * (256 * a)
  BY <1>2 DEF m, Window
<1> HIDE DEF a
<1>7. x = p * (256 * a + s) + t
  <2>1. p * (256 * a + s) = p * (256 * a) + p * s
    BY <1>3, <1>5
  <2>2. p * (256 * a) \in Int /\ p * s \in Int
    BY <1>3, <1>5
  <2> QED
    BY <1>2, <1>3, <1>6, <2>1, <2>2
<1>8. x \div p = 256 * a + s
  BY <1>3, <1>5, <1>7, DivModUnique
<1>9. 256 * a + s = 256 * (a + u) + z
  BY <1>3, <1>4, <1>5
<1>10. (256 * a + s) % 256 = z
  BY <1>3, <1>4, <1>5, <1>9, DivModUnique
<1> QED
  BY <1>8, <1>10 DEF z, s, r, m

-----------------------------------------------------------------------------
(* The number read so far and its bytes *)

Numbers == [digits: Nat, value: Nat]

(* One more digit. *)
LEMMA DigitAdded ==
    ASSUME NEW num \in Numbers, NEW c
    PROVE  /\ WithDigit(num, c) \in Numbers
           /\ c \notin Digit => WithDigit(num, c) = num
           /\ c \in Digit => /\ WithDigit(num, c).digits = num.digits + 1
                             /\ WithDigit(num, c).value = 32 * num.value + c
           /\ num.digits <= WithDigit(num, c).digits
<1>1. num.digits \in Nat /\ num.value \in Nat
  BY DEF Numbers
<1>2. CASE c \in Digit
  <2>1. c \in Nat
    BY <1>2 DEF Digit
  <2>2. WithDigit(num, c) = [digits |-> num.digits + 1, value |-> 32 * num.value + c]
    BY <1>2 DEF WithDigit
  <2>3. num.digits + 1 \in Nat /\ 32 * num.value + c \in Nat
    BY <1>1, <2>1
  <2> QED
    BY <1>1, <1>2, <2>2, <2>3 DEF Numbers
<1>3. CASE c \notin Digit
  BY <1>1, <1>3 DEF WithDigit
<1> QED
  BY <1>2, <1>3

(* Every part of a text writes a number. *)
LEMMA NumeralType ==
    ASSUME NEW text
    PROVE  \A k \in Nat : Numeral(text)[k] \in Numbers
<1> DEFINE S == {k \in Nat : Numeral(text)[k] \in Numbers}
<1>1. 0 \in S
  BY NumeralRun DEF Numbers
<1>2. ASSUME NEW k \in Nat, k \in S PROVE k + 1 \in S
  BY <1>2, NumeralRun, DigitAdded
<1>3. \A k \in Nat : k \in S
  <2> HIDE DEF S
  <2> QED
    BY <1>1, <1>2, NatsIn
<1> QED
  BY <1>3

(* More characters never have fewer digits. *)
LEMMA DigitsGrow ==
    ASSUME NEW text, NEW i \in Nat
    PROVE  \A k \in Nat : i <= k => Numeral(text)[i].digits <= Numeral(text)[k].digits
<1> DEFINE S == {k \in Nat : i <= k => Numeral(text)[i].digits <= Numeral(text)[k].digits}
<1>0. \A k \in Nat : Numeral(text)[k].digits \in Nat
  BY NumeralType DEF Numbers
<1>1. 0 \in S
  BY <1>0
<1>2. ASSUME NEW k \in Nat, k \in S PROVE k + 1 \in S
  <2>1. Numeral(text)[k].digits <= Numeral(text)[k + 1].digits
    <3>1. Numeral(text)[k] \in Numbers
          /\ Numeral(text)[k + 1] = WithDigit(Numeral(text)[k], text[k + 1])
      BY NumeralType, NumeralRun
    <3> QED
      BY <3>1, DigitAdded
  <2>2. CASE i <= k
    <3>1. Numeral(text)[i].digits <= Numeral(text)[k].digits
      BY <1>2, <2>2
    <3>2. /\ Numeral(text)[i].digits \in Nat /\ Numeral(text)[k].digits \in Nat
          /\ Numeral(text)[k + 1].digits \in Nat
      BY <1>0
    <3> QED
      BY <2>1, <3>1, <3>2
  <2>3. CASE i = k + 1
    BY <1>0, <2>3
  <2> QED
    BY <2>2, <2>3
<1>3. \A k \in Nat : k \in S
  <2> HIDE DEF S
  <2> QED
    BY <1>1, <1>2, NatsIn
<1> QED
  BY <1>3

(* A number has as many bytes as its bits fill. *)
LEMMA BytesType ==
    ASSUME NEW num \in Numbers
    PROVE  /\ Bytes(num) \in Seq(Nat) /\ Len(Bytes(num)) = (5 * num.digits) \div 8
           /\ \A j \in 1..((5 * num.digits) \div 8) :
                /\ 5 * num.digits - 8 * j \in Nat
                /\ Bytes(num)[j] = (num.value \div Pow2[5 * num.digits - 8 * j]) % 256
<1> DEFINE n == (5 * num.digits) \div 8
<1>1. num.digits \in Nat /\ num.value \in Nat
  BY DEF Numbers
<1>2. n \in Nat /\ 8 * n <= 5 * num.digits
  BY <1>1
<1> HIDE DEF n
<1>3. ASSUME NEW j \in 1..n
      PROVE  /\ 5 * num.digits - 8 * j \in Nat
             /\ (num.value \div Pow2[5 * num.digits - 8 * j]) % 256 \in Nat
  <2>1. 5 * num.digits - 8 * j \in Nat
    BY <1>1, <1>2
  <2> DEFINE p == Pow2[5 * num.digits - 8 * j]
  <2>2. p \in Nat /\ p > 0
    BY <2>1, PowerType
  <2> HIDE DEF p
  <2>3. num.value \div p \in Nat
    BY <1>1, <2>2, DivMod
  <2>4. (num.value \div p) % 256 \in Nat
    BY <2>3
  <2> QED
    BY <2>1, <2>4 DEF p
<1>4. Bytes(num) = [j \in 1..n |-> (num.value \div Pow2[5 * num.digits - 8 * j]) % 256]
  BY DEF Bytes, n
<1>5. Bytes(num) \in [1..n -> Nat]
  BY <1>3, <1>4
<1>6. Bytes(num) \in Seq(Nat) /\ Len(Bytes(num)) = n
  BY <1>2, <1>5
<1> QED
  BY <1>3, <1>4, <1>6 DEF n

(* Five bits more fill a byte, or not. *)
LEMMA FiveBits ==
    ASSUME NEW d \in Nat, NEW n, n = (5 * d) \div 8, NEW k, k = (5 * d + 5) \div 8,
           NEW b, b = 5 * d - 8 * n
    PROVE  /\ n \in Nat /\ k \in Nat /\ b \in 0..7
           /\ b + 5 < 8 => k = n
           /\ b + 5 >= 8 => k = n + 1
<1>1. n \in Nat /\ k \in Nat /\ b \in 0..7
  OBVIOUS
<1>2. b + 5 < 8 => k = n
  OBVIOUS
<1>3. b + 5 >= 8 => k = n + 1
  OBVIOUS
<1> QED
  BY <1>1, <1>2, <1>3

(* Sequences are their elements. *)
LEMMA SameElements ==
    ASSUME NEW s \in Seq(Nat), NEW t \in Seq(Nat), Len(s) = Len(t),
           \A j \in 1..Len(s) : s[j] = t[j]
    PROVE  s = t
  OBVIOUS

(* A digit more: the bytes are the same, and with eight bits one more. *)
LEMMA BytesAdded ==
    ASSUME NEW num \in Numbers, NEW c \in Digit,
           NEW b, b = 5 * num.digits - 8 * Len(Bytes(num))
    PROVE  /\ b \in 0..7
           /\ b + 5 < 8 => Bytes(WithDigit(num, c)) = Bytes(num)
           /\ b + 5 >= 8 => Bytes(WithDigit(num, c)) =
                Append(Bytes(num), (WithDigit(num, c).value \div Pow2[b + 5 - 8]) % 256)
<1> DEFINE d == num.digits
           x == num.value
           next == WithDigit(num, c)
           n == Len(Bytes(num))
           k == Len(Bytes(next))
<1>1. d \in Nat /\ x \in Nat
  BY DEF Numbers
<1>2. next \in Numbers /\ next.digits = d + 1 /\ next.value = 32 * x + c
  BY DigitAdded
<1>3. n = (5 * d) \div 8 /\ k = (5 * next.digits) \div 8
      /\ Bytes(num) \in Seq(Nat) /\ Bytes(next) \in Seq(Nat)
  BY <1>2, BytesType
<1>4. k = (5 * d + 5) \div 8
  BY <1>1, <1>2, <1>3
<1>6. /\ n \in Nat /\ k \in Nat /\ b \in 0..7
      /\ b + 5 < 8 => k = n
      /\ b + 5 >= 8 => k = n + 1
  <2> HIDE DEF n, k, d
  <2>1. b = 5 * d - 8 * n
    BY DEF n, d
  <2>2. n = (5 * d) \div 8
    BY <1>3
  <2> QED
    BY <1>1, <1>4, <2>1, <2>2, FiveBits, SMTT(30)
<1>5. ASSUME NEW j \in 1..n
      PROVE  j \in 1..k /\ Bytes(next)[j] = Bytes(num)[j]
  <2> DEFINE e == 5 * d - 8 * j
  <2>1. e \in Nat /\ Bytes(num)[j] = (x \div Pow2[e]) % 256
    BY <1>3, BytesType
  <2>2. j \in 1..k
    <3> HIDE DEF n, k
    <3>1. k = n \/ k = n + 1
      BY <1>6
    <3> QED
      BY <1>6, <3>1
  <2>3. 5 * next.digits - 8 * j = 5 + e
    BY <1>1, <1>2
  <2>4. Bytes(next)[j] = ((32 * x + c) \div Pow2[5 + e]) % 256
    <3>1. Bytes(next)[j] = (next.value \div Pow2[5 * next.digits - 8 * j]) % 256
      BY <1>2, <1>3, <2>2, BytesType, SMTT(30)
    <3> QED
      BY <1>2, <2>3, <3>1
  <2> HIDE DEF e
  <2>5. Pow2[5 + e] = 32 * Pow2[e] /\ Pow2[e] \in Nat /\ Pow2[e] > 0
    <3>1. Pow2[5 + e] = Pow2[5] * Pow2[e]
      BY <2>1, PowerSum
    <3> QED
      BY <2>1, <3>1, SmallPowers, PowerType
  <2>6. (32 * x + c) \div (32 * Pow2[e]) = x \div Pow2[e]
    BY <1>1, <2>5, HighBitsKept
  <2> QED
    BY <2>1, <2>2, <2>4, <2>5, <2>6
<1>7. ASSUME b + 5 < 8 PROVE Bytes(next) = Bytes(num)
  <2>1. k = n
    BY <1>6, <1>7
  <2>2. \A j \in 1..Len(Bytes(next)) : Bytes(next)[j] = Bytes(num)[j]
    BY <1>5, <2>1
  <2> QED
    BY <1>3, <2>1, <2>2, SameElements
<1>8. ASSUME b + 5 >= 8
      PROVE  Bytes(next) = Append(Bytes(num), (next.value \div Pow2[b + 5 - 8]) % 256)
  <2> DEFINE y == (next.value \div Pow2[b + 5 - 8]) % 256
  <2>1. k = n + 1 /\ n \in Nat
    BY <1>6, <1>8
  <2>2. Bytes(next)[k] = y
    <3>1. k \in 1..k
      BY <2>1
    <3>2. Bytes(next)[k] = (next.value \div Pow2[5 * next.digits - 8 * k]) % 256
      BY <1>2, <1>3, <3>1, BytesType, SMTT(30)
    <3>3. 5 * next.digits - 8 * k = b + 5 - 8
      <4>1. next.digits = d + 1 /\ b = 5 * d - 8 * n /\ d \in Nat
        BY <1>1, <1>2
      <4> HIDE DEF n, k, d, next
      <4> QED
        BY <2>1, <4>1
    <3> QED
      BY <3>2, <3>3
  <2>3. y \in Nat
    <3>1. Bytes(next)[k] \in Nat
      BY <1>3, <2>1
    <3> QED
      BY <2>2, <3>1
  <2> HIDE DEF y
  <2>4. Len(Append(Bytes(num), y)) = k /\ Append(Bytes(num), y) \in Seq(Nat)
    BY <1>3, <2>1, <2>3
  <2>5. ASSUME NEW j \in 1..k PROVE Bytes(next)[j] = Append(Bytes(num), y)[j]
    <3>1. CASE j = k
      BY <1>3, <2>1, <2>2, <3>1
    <3>2. CASE j # k
      <4>1. j \in 1..n
        BY <2>1, <3>2
      <4> QED
        BY <1>3, <1>5, <4>1
    <3> QED
      BY <3>1, <3>2
  <2>6. Bytes(next) = Append(Bytes(num), y)
    BY <1>3, <2>4, <2>5, SameElements
  <2> QED
    BY <2>6 DEF y
<1> QED
  BY <1>6, <1>7, <1>8

(* utils_base32_decode takes a byte from an accumulator that has lost its   *)
(* oldest bits: it is the byte of the whole number.                         *)
LEMMA OldestIsByte ==
    ASSUME NEW x \in Nat, NEW v \in Digit, NEW b \in 8..12
    PROVE  /\ Shift(x % Pow2[AccBits], v) = (32 * x + v) % Pow2[AccBits]
           /\ Oldest((32 * x + v) % Pow2[AccBits], b) =
                ((32 * x + v) \div Pow2[b - 8]) % 256
<1> DEFINE m == Pow2[AccBits]
           y == 32 * x + v
           p == Pow2[b - 8]
           w == Pow2[AccBits - b]
<1>1. AccBits \in Nat /\ AccBits - b \in Nat /\ b - 8 \in Nat /\ v \in Nat
  BY Base32Assumption DEF Digit
<1>2. /\ m \in Nat /\ m > 0 /\ p \in Nat /\ p > 0 /\ w \in Nat /\ w > 0
      /\ y \in Nat
  BY <1>1, PowerType
<1>3. m = p * (256 * w)
  <2>1. 8 + (AccBits - b) \in Nat /\ (b - 8) + (8 + (AccBits - b)) = AccBits
    BY <1>1
  <2>2. Pow2[(b - 8) + (8 + (AccBits - b))] = p * Pow2[8 + (AccBits - b)]
    BY <1>1, <2>1, PowerSum
  <2>3. Pow2[8 + (AccBits - b)] = Pow2[8] * w
    BY <1>1, PowerSum
  <2> QED
    BY <2>1, <2>2, <2>3, SmallPowers
<1> HIDE DEF m, p, w
<1>4. ((x % m) * 32 + v) % m = y % m
  BY <1>2, ShiftMod
<1> HIDE DEF y
<1>5. ((y % m) \div p) % 256 = (y \div p) % 256
  <2>1. m = Window(p, w)
    BY <1>3 DEF Window
  <2> QED
    BY <1>2, <2>1, ByteWithin
<1>6. Shift(x % m, v) = y % m
  BY <1>4 DEF Shift, m
<1>7. Oldest(y % m, b) = (y \div p) % 256
  BY <1>5 DEF Oldest, p
<1> QED
  BY <1>6, <1>7 DEF m, p, y

-----------------------------------------------------------------------------
(* The decoder                                                             *)

(* What the decoder asks of the characters it has read. *)
SoundTo(text, n) ==
    \A k \in 1..n :
        /\ text[k] # Foreign
        /\ \A j \in 1..(k - 1) : text[j] = Padding => text[k] \in {Padding, Space}

(* The decoder accepts: what SeedsExact says of "ok". *)
Accepted == WellFormed(input) /\ Len(Decoded(input)) \in 1..capacity

(* After pos characters: the bytes are those of the number read, the        *)
(* accumulator holds its lowest bits and bits counts those not yet written. *)
InStep ==
    LET num == Numeral(input)[pos] IN
    /\ SoundTo(input, pos)
    /\ padding_seen <=> \E k \in 1..pos : input[k] = Padding
    /\ accumulator = num.value % Pow2[AccBits]
    /\ output = Bytes(num)
    /\ bits = 5 * num.digits - 8 * Len(output)

DecodeInv ==
    /\ input \in Seq(Character) /\ capacity \in Nat /\ pos \in 0..Len(input)
    /\ status \in {"running", "ok", "invalid"} /\ padding_seen \in BOOLEAN
    /\ output \in Seq(Nat) /\ Len(output) <= capacity
    /\ status # "invalid" => InStep
    /\ status = "ok" => pos = Len(input) /\ output # <<>>
    /\ status = "invalid" => ~Accepted

(* One more character is sound after those before it. *)
LEMMA SoundGrows ==
    ASSUME NEW text, NEW n \in Nat, SoundTo(text, n), text[n + 1] # Foreign,
           \A j \in 1..n : text[j] = Padding => text[n + 1] \in {Padding, Space}
    PROVE  SoundTo(text, n + 1)
<1> SUFFICES ASSUME NEW k \in 1..(n + 1)
             PROVE  /\ text[k] # Foreign
                    /\ \A j \in 1..(k - 1) : text[j] = Padding => text[k] \in {Padding, Space}
  BY DEF SoundTo
<1>1. CASE k = n + 1
  <2>1. k - 1 = n
    BY <1>1
  <2> QED
    BY <1>1, <2>1
<1>2. CASE k # n + 1
  <2>1. k \in 1..n
    BY <1>2
  <2> QED
    BY <2>1 DEF SoundTo
<1> QED
  BY <1>1, <1>2

(* The kinds of character. *)
LEMMA Kinds == Space \notin Digit /\ Padding \notin Digit /\ Foreign \notin Digit
               /\ Space # Padding /\ Space # Foreign /\ Padding # Foreign
  BY Base32Assumption

(* A prefix never has more bytes than the text. *)
LEMMA BytesGrow ==
    ASSUME NEW text, NEW i \in Nat, NEW k \in Nat, i <= k
    PROVE  Len(Bytes(Numeral(text)[i])) <= Len(Bytes(Numeral(text)[k]))
<1> DEFINE d == Numeral(text)[i].digits
           e == Numeral(text)[k].digits
<1>1. Numeral(text)[i] \in Numbers /\ Numeral(text)[k] \in Numbers
  BY NumeralType
<1>2. d \in Nat /\ e \in Nat
  BY <1>1 DEF Numbers
<1>3. d <= e
  BY DigitsGrow
<1>4. Len(Bytes(Numeral(text)[i])) = (5 * d) \div 8
      /\ Len(Bytes(Numeral(text)[k])) = (5 * e) \div 8
  BY <1>1, BytesType
<1> HIDE DEF d, e
<1>5. (5 * d) \div 8 <= (5 * e) \div 8
  BY <1>2, <1>3
<1> QED
  BY <1>4, <1>5

LEMMA DecodeStart == DecodeInit => DecodeInv
<1> SUFFICES ASSUME DecodeInit PROVE DecodeInv
  OBVIOUS
<1> DEFINE num == Numeral(input)[0]
<1>1. num = [digits |-> 0, value |-> 0] /\ num \in Numbers
  BY NumeralRun, NumeralType
<1>2. Bytes(num) \in Seq(Nat) /\ Len(Bytes(num)) = 0
  <2>1. (5 * num.digits) \div 8 = 0
    BY <1>1
  <2> QED
    BY <1>1, <2>1, BytesType
<1>3. Bytes(num) = <<>>
  BY <1>2
<1>4. Pow2[AccBits] \in Nat /\ Pow2[AccBits] > 0
  BY Base32Assumption, PowerType
<1>5. 0 % Pow2[AccBits] = 0
  BY <1>4
<1>6. InStep
  <2>1. SoundTo(input, 0) /\ ~\E k \in 1..0 : input[k] = Padding
    BY DEF SoundTo
  <2> QED
    BY <1>1, <1>3, <1>5, <2>1 DEF InStep, DecodeInit
<1>7. input \in Seq(Character) /\ capacity \in Nat
  BY Base32Assumption DEF DecodeInit
<1>8. pos \in 0..Len(input)
  BY <1>7 DEF DecodeInit
<1>9. output \in Seq(Nat) /\ Len(output) <= capacity
  BY <1>7 DEF DecodeInit
<1>10. status = "running" /\ padding_seen \in BOOLEAN
  BY DEF DecodeInit
<1> QED
  BY <1>6, <1>7, <1>8, <1>9, <1>10 DEF DecodeInv

(* One iteration reads one character. *)
LEMMA ReadOne ==
    ASSUME DecodeInv, Reading
    PROVE  /\ InStep /\ pos \in Nat /\ pos + 1 \in 1..Len(input)
           /\ Numeral(input)[pos] \in Numbers
           /\ Numeral(input)[pos + 1] = WithDigit(Numeral(input)[pos], Char)
           /\ Numeral(input)[pos + 1] \in Numbers
<1>1. InStep /\ pos \in Nat /\ pos + 1 \in 1..Len(input)
  BY DEF DecodeInv, Reading
<1>2. Numeral(input)[pos + 1] = WithDigit(Numeral(input)[pos], Char)
  BY <1>1, NumeralRun DEF Char
<1> QED
  BY <1>1, <1>2, NumeralType

(* A character without a value: the number is the same. *)
LEMMA SkipStep ==
    ASSUME DecodeInv, SkipSpace \/ SkipPadding
    PROVE  DecodeInv'
<1>1. Reading /\ Char \in {Space, Padding}
  BY DEF SkipSpace, SkipPadding
<1>2. /\ InStep /\ pos \in Nat /\ pos + 1 \in 1..Len(input)
      /\ Numeral(input)[pos] \in Numbers
      /\ Numeral(input)[pos + 1] = WithDigit(Numeral(input)[pos], Char)
  BY <1>1, ReadOne
<1>3. Numeral(input)[pos + 1] = Numeral(input)[pos]
  BY <1>1, <1>2, Kinds, DigitAdded
<1>4. SoundTo(input, pos + 1)
  BY <1>1, <1>2, Kinds, SoundGrows DEF Char, InStep
<1>5. /\ pos' = pos + 1 /\ input' = input /\ capacity' = capacity /\ output' = output
      /\ accumulator' = accumulator /\ bits' = bits /\ status' = status
      /\ padding_seen' = (padding_seen \/ Char = Padding)
  BY Kinds DEF SkipSpace, SkipPadding, arguments, DecodeInv
<1>6. padding_seen' <=> \E k \in 1..(pos + 1) : input[k] = Padding
  <2>1. padding_seen <=> \E k \in 1..pos : input[k] = Padding
    BY <1>2 DEF InStep
  <2>2. \A k : k \in 1..(pos + 1) <=> k \in 1..pos \/ k = pos + 1
    BY <1>2
  <2> QED
    BY <1>5, <2>1, <2>2 DEF Char
<1>7. InStep'
  BY <1>2, <1>3, <1>4, <1>5, <1>6 DEF InStep
<1>8. pos' \in 0..Len(input') /\ padding_seen' \in BOOLEAN
  BY <1>2, <1>5 DEF DecodeInv
<1> QED
  BY <1>1, <1>5, <1>7, <1>8 DEF DecodeInv, Reading

(* The character that is refused makes the text malformed. *)
LEMMA RefuseStep ==
    ASSUME DecodeInv, RefuseChar
    PROVE  DecodeInv'
<1>1. Reading /\ Char \notin {Space, Padding} /\ (padding_seen \/ Char = Foreign)
  BY DEF RefuseChar
<1>2. InStep /\ pos \in Nat /\ pos + 1 \in 1..Len(input)
  BY <1>1, ReadOne
<1>3. ~WellFormed(input)
  <2>1. CASE Char = Foreign
    BY <1>2, <2>1 DEF WellFormed, Char
  <2>2. CASE padding_seen
    <3>1. PICK j \in 1..pos : input[j] = Padding
      BY <1>2, <2>2 DEF InStep
    <3>2. j \in 1..((pos + 1) - 1)
      BY <1>2
    <3> QED
      BY <1>1, <1>2, <3>1, <3>2 DEF WellFormed, Char
  <2> QED
    BY <1>1, <2>1, <2>2
<1>4. /\ input' = input /\ capacity' = capacity /\ pos' = pos /\ output' = output
      /\ padding_seen' = padding_seen /\ status' = "invalid"
  BY DEF RefuseChar, arguments
<1>5. ~Accepted'
  BY <1>3, <1>4 DEF Accepted
<1> QED
  BY <1>4, <1>5 DEF DecodeInv

(* A value is shifted in: the accumulator keeps the lowest bits of the new  *)
(* number.                                                                  *)
LEMMA ShiftStep ==
    ASSUME DecodeInv, ShiftIn
    PROVE  LET num  == Numeral(input)[pos]
               next == Numeral(input)[pos + 1]
           IN  /\ input' = input /\ capacity' = capacity /\ padding_seen' = padding_seen
               /\ num \in Numbers /\ next \in Numbers
               /\ next = WithDigit(num, Char) /\ Char \in Digit
               /\ pos \in Nat /\ pos + 1 \in 1..Len(input)
               /\ output = Bytes(num) /\ bits = 5 * num.digits - 8 * Len(output)
               /\ accumulator' = next.value % Pow2[AccBits]
               /\ next.value = 32 * num.value + Char /\ next.digits = num.digits + 1
               /\ SoundTo(input, pos + 1)
               /\ padding_seen' <=> \E k \in 1..(pos + 1) : input[k] = Padding
<1> DEFINE num  == Numeral(input)[pos]
           next == Numeral(input)[pos + 1]
<1>1. Reading /\ ~padding_seen /\ Char \in Digit
      /\ accumulator' = Shift(accumulator, Char)
      /\ input' = input /\ capacity' = capacity /\ padding_seen' = padding_seen
  BY DEF ShiftIn, arguments
<1>2. /\ InStep /\ pos \in Nat /\ pos + 1 \in 1..Len(input)
      /\ num \in Numbers /\ next = WithDigit(num, Char) /\ next \in Numbers
  BY <1>1, ReadOne
<1>3. /\ output = Bytes(num) /\ bits = 5 * num.digits - 8 * Len(output)
      /\ accumulator = num.value % Pow2[AccBits] /\ SoundTo(input, pos)
      /\ ~\E k \in 1..pos : input[k] = Padding
  BY <1>1, <1>2 DEF InStep
<1>4. next.digits = num.digits + 1 /\ next.value = 32 * num.value + Char
  BY <1>1, <1>2, DigitAdded
<1>5. accumulator' = next.value % Pow2[AccBits]
  <2>1. num.value \in Nat /\ 8 \in 8..12
    BY <1>2 DEF Numbers
  <2>2. Shift(num.value % Pow2[AccBits], Char) = (32 * num.value + Char) % Pow2[AccBits]
    BY <1>1, <2>1, OldestIsByte
  <2> QED
    BY <1>1, <1>3, <1>4, <2>2
<1>6. Char # Foreign /\ Char # Padding
  BY <1>1, Kinds
<1>7. SoundTo(input, pos + 1)
  BY <1>2, <1>3, <1>6, SoundGrows DEF Char
<1>8. ~\E k \in 1..(pos + 1) : input[k] = Padding
  <2>1. \A k : k \in 1..(pos + 1) => k \in 1..pos \/ k = pos + 1
    BY <1>2
  <2> QED
    BY <1>3, <1>6, <2>1 DEF Char
<1> QED
  BY <1>1, <1>2, <1>3, <1>4, <1>5, <1>7, <1>8

(* Gather and Emit write the bytes of the new number. *)
LEMMA WriteStep ==
    ASSUME DecodeInv, Gather \/ Emit
    PROVE  DecodeInv'
<1> DEFINE num  == Numeral(input)[pos]
           next == Numeral(input)[pos + 1]
<1>1. ShiftIn /\ status' = status /\ pos' = pos + 1 /\ status = "running"
  BY DEF Gather, Emit, ShiftIn, Reading
<1>2. /\ input' = input /\ capacity' = capacity /\ padding_seen' = padding_seen
      /\ num \in Numbers /\ next \in Numbers
      /\ next = WithDigit(num, Char) /\ Char \in Digit
      /\ pos \in Nat /\ pos + 1 \in 1..Len(input)
      /\ output = Bytes(num) /\ bits = 5 * num.digits - 8 * Len(output)
      /\ accumulator' = next.value % Pow2[AccBits]
      /\ next.value = 32 * num.value + Char /\ next.digits = num.digits + 1
      /\ SoundTo(input, pos + 1)
      /\ padding_seen' <=> \E k \in 1..(pos + 1) : input[k] = Padding
  BY <1>1, ShiftStep
<1> HIDE DEF num, next
<1>3. /\ bits \in 0..7
      /\ bits + 5 < 8 => Bytes(next) = Bytes(num)
      /\ bits + 5 >= 8 => Bytes(next) =
           Append(Bytes(num), (next.value \div Pow2[bits + 5 - 8]) % 256)
  <2>1. /\ num \in Numbers /\ Char \in Digit /\ next = WithDigit(num, Char)
        /\ bits = 5 * num.digits - 8 * Len(Bytes(num))
    BY <1>2
  <2> QED
    BY <2>1, BytesAdded
<1>4. num.digits \in Nat /\ num.value \in Nat /\ Bytes(next) \in Seq(Nat)
      /\ Bytes(num) \in Seq(Nat)
  BY <1>2, BytesType DEF Numbers
<1>5. /\ output' = Bytes(next) /\ bits' = 5 * next.digits - 8 * Len(output')
      /\ Len(output') <= capacity
  <2>1. CASE Gather
    <3>1. bits + 5 < 8 /\ bits' = bits + 5 /\ output' = output
      BY <2>1 DEF Gather
    <3>2. output' = Bytes(next)
      BY <1>2, <1>3, <3>1
    <3>3. Len(output) \in Nat /\ Len(output) <= capacity
      BY <1>2, <1>4 DEF DecodeInv
    <3>4. bits' = 5 * next.digits - 8 * Len(output)
      BY <1>2, <1>4, <3>1, <3>3, SMTT(30)
    <3> QED
      BY <3>1, <3>2, <3>3, <3>4
  <2>2. CASE Emit
    <3>1. /\ bits + 5 >= 8 /\ bits' = bits + 5 - 8 /\ Len(output) < capacity
          /\ output' = Append(output, Oldest(accumulator', bits + 5))
      BY <2>2 DEF Emit
    <3>2. Oldest(accumulator', bits + 5) = (next.value \div Pow2[bits + 5 - 8]) % 256
      <4>1. bits + 5 \in 8..12
        BY <1>3, <3>1
      <4> DEFINE b == bits + 5
      <4> HIDE DEF b
      <4>2. Oldest((32 * num.value + Char) % Pow2[AccBits], b) =
              ((32 * num.value + Char) \div Pow2[b - 8]) % 256
        BY <1>2, <1>4, <4>1, OldestIsByte, ZenonT(40) DEF b
      <4> QED
        BY <1>2, <4>2 DEF b
    <3>3. output' = Bytes(next)
      BY <1>2, <1>3, <3>1, <3>2
    <3>4. Len(output) \in Nat /\ Len(output') = Len(output) + 1 /\ capacity \in Nat
      BY <1>2, <1>4, <3>1 DEF DecodeInv
    <3>5. bits' = 5 * next.digits - 8 * Len(output')
      <4>1. bits' = bits + 5 - 8
        BY <3>1
      <4>2. bits = 5 * num.digits - 8 * Len(output) /\ next.digits = num.digits + 1
        BY <1>2
      <4> QED
        BY <1>4, <3>4, <4>1, <4>2, SMTT(30)
    <3> QED
      BY <3>1, <3>3, <3>4, <3>5
  <2> QED
    BY <2>1, <2>2
<1>6. InStep'
  BY <1>1, <1>2, <1>5 DEF InStep, next
<1>7. pos' \in 0..Len(input')
  BY <1>1, <1>2
<1> QED
  BY <1>1, <1>2, <1>4, <1>5, <1>6, <1>7 DEF DecodeInv

(* The buffer is full and the text has at least one byte more. *)
LEMMA OverflowStep ==
    ASSUME DecodeInv, Overflow
    PROVE  DecodeInv'
<1> DEFINE num  == Numeral(input)[pos]
           next == Numeral(input)[pos + 1]
<1>1. /\ ShiftIn /\ bits + 5 >= 8 /\ Len(output) >= capacity /\ output' = <<>>
      /\ status' = "invalid" /\ pos' = pos
  BY DEF Overflow
<1>2. /\ input' = input /\ capacity' = capacity /\ padding_seen' = padding_seen
      /\ num \in Numbers /\ next = WithDigit(num, Char) /\ Char \in Digit
      /\ pos \in Nat /\ pos + 1 \in 1..Len(input)
      /\ output = Bytes(num) /\ bits = 5 * num.digits - 8 * Len(output)
  BY <1>1, ShiftStep
<1>3. Len(Bytes(next)) = Len(output) + 1
  <2>1. Bytes(next) = Append(Bytes(num), (next.value \div Pow2[bits + 5 - 8]) % 256)
    BY <1>1, <1>2, BytesAdded, SMTT(30)
  <2>2. Bytes(num) \in Seq(Nat)
    BY <1>2, BytesType
  <2> HIDE DEF num, next
  <2> QED
    BY <1>2, <2>1, <2>2
<1>4. Len(Bytes(next)) <= Len(Decoded(input))
  <2>1. Len(input) \in Nat /\ pos + 1 \in Nat /\ pos + 1 <= Len(input)
    BY <1>2 DEF DecodeInv
  <2> QED
    BY <2>1, BytesGrow DEF Decoded
<1>5. ~Accepted
  <2>1. Len(output) \in Nat /\ capacity \in Nat
    BY DEF DecodeInv
  <2>2. Decoded(input) = Bytes(Numeral(input)[Len(input)])
        /\ Numeral(input)[Len(input)] \in Numbers
    BY NumeralType DEF Decoded, DecodeInv
  <2>3. Len(Decoded(input)) \in Nat
    BY <2>2, BytesType
  <2> HIDE DEF num, next
  <2>4. Len(Decoded(input)) > capacity
    BY <1>1, <1>3, <1>4, <2>1, <2>3
  <2> QED
    BY <2>1, <2>3, <2>4 DEF Accepted
<1>6. ~Accepted'
  BY <1>2, <1>5 DEF Accepted
<1> QED
  BY <1>1, <1>2, <1>6 DEF DecodeInv

(* At the end of the text the bytes are those of the whole. *)
LEMMA ReturnStep ==
    ASSUME DecodeInv, Return
    PROVE  DecodeInv'
<1>1. /\ status = "running" /\ pos = Len(input)
      /\ status' = (IF output = <<>> THEN "invalid" ELSE "ok")
      /\ input' = input /\ capacity' = capacity /\ pos' = pos /\ output' = output
      /\ accumulator' = accumulator /\ bits' = bits /\ padding_seen' = padding_seen
  BY DEF Return, arguments
<1>2. InStep /\ InStep'
  BY <1>1 DEF DecodeInv, InStep
<1>3. output = <<>> => ~Accepted'
  <2>1. Decoded(input) = output
    BY <1>1, <1>2 DEF InStep, Decoded
  <2> QED
    BY <1>1, <2>1 DEF Accepted
<1> QED
  BY <1>1, <1>2, <1>3 DEF DecodeInv

LEMMA DecodeKept == DecodeInv /\ [DecodeNext]_decodeVars => DecodeInv'
<1> SUFFICES ASSUME DecodeInv, [DecodeNext]_decodeVars
             PROVE  DecodeInv'
  OBVIOUS
<1>1. CASE UNCHANGED decodeVars
  BY <1>1 DEF decodeVars, DecodeInv, InStep, Accepted
<1> QED
  BY <1>1, SkipStep, RefuseStep, WriteStep, OverflowStep, ReturnStep DEF DecodeNext

(* The seed of a TOTP code is decoded exactly, for every text, buffer and   *)
(* width of the accumulator from 12 bits on.                                *)
THEOREM SeedsExactHolds == DecodeSpec => []SeedsExact
<1>1. DecodeInv => SeedsExact
  <2> SUFFICES ASSUME DecodeInv PROVE SeedsExact
    OBVIOUS
  <2>1. CASE status = "ok"
    <3>1. InStep /\ pos = Len(input) /\ output # <<>> /\ output \in Seq(Nat)
          /\ Len(output) <= capacity /\ capacity \in Nat
      BY <2>1 DEF DecodeInv
    <3>2. output = Decoded(input) /\ WellFormed(input)
      BY <3>1 DEF InStep, Decoded, SoundTo, WellFormed
    <3>3. Len(output) \in 1..capacity
      BY <3>1
    <3> QED
      BY <2>1, <3>1, <3>2, <3>3 DEF SeedsExact
  <2>2. CASE status # "ok"
    BY <2>2 DEF DecodeInv, Accepted, SeedsExact
  <2> QED
    BY <2>1, <2>2
<1> QED
  BY <1>1, DecodeStart, DecodeKept, PTL DEF DecodeSpec
=============================================================================
