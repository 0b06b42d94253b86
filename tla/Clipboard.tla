----------------------------- MODULE Clipboard -----------------------------
(***************************************************************************)
(* get, generate and totp with --copy (src/src/main.c): the command closes *)
(* the vault, hands the secret to the clipboard tool and starts a helper   *)
(* process that sleeps and then clears the clipboard, if it still holds    *)
(* that secret.  The clipboard is shared with other commands, their        *)
(* helpers and the user.  Texts are sequences of characters, because the   *)
(* helper compares what it was sent with what it reads, up to a length.    *)
(***************************************************************************)
EXTENDS Naturals, SequencesExt

CONSTANTS
    Commands,   \* the commands that copy, one secret each
    Texts,      \* what can be copied
    None,       \* no command
    Delay,      \* CLI_CLIPBOARD_CLEAR_SECONDS
    MaxCopies   \* bound: copies made by the user

ASSUME ClipboardAssumption ==
    /\ None \notin Commands
    /\ \A text \in Texts : text \in Seq(ToSet(text))
    /\ Delay \in Nat \ {0} /\ MaxCopies \in Nat

VARIABLES
    clip,      \* the clipboard's text
    owner,     \* the command that put it there, or None
    pc,        \* the next step of each command
    value,     \* the secret it copies
    pipe,      \* what it has written to its helper
    announced, \* it has said "clearing in N seconds"
    helper,    \* the next step of its helper
    left,      \* seconds its helper still has to sleep
    stale,     \* history: helpers that read a text since replaced
    copies     \* copies made by the user

vars == <<clip, owner, pc, value, pipe, announced, helper, left, stale, copies>>

command == <<pc, value, pipe, announced>>

Init ==
    /\ clip = <<>> /\ owner = None
    /\ pc = [c \in Commands |-> "idle"]
    /\ value = [c \in Commands |-> <<>>]
    /\ pipe = [c \in Commands |-> <<>>]
    /\ announced = [c \in Commands |-> FALSE]
    /\ helper = [c \in Commands |-> "none"]
    /\ left = [c \in Commands |-> 0]
    /\ stale = {}
    /\ copies = 0

(* The clipboard gets a new text: whoever is between reading and clearing   *)
(* it now acts on an old one.                                               *)
Put(text, by) ==
    /\ clip' = text
    /\ owner' = by
    /\ stale' = stale \cup {c \in Commands : helper[c] = "clear"}

Keep == UNCHANGED <<clip, owner, stale>>

Goto(c, step) == pc' = [pc EXCEPT ![c] = step]

-----------------------------------------------------------------------------
(* cli_copy_secret_to_clipboard *)

(* The secret is decrypted; vault_close comes first: no child may inherit   *)
(* the keys or the database.                                                *)
Copy(c, text) ==
    /\ pc[c] = "idle"
    /\ value' = [value EXCEPT ![c] = text]
    /\ Goto(c, "write")
    /\ Keep /\ UNCHANGED <<pipe, announced, helper, left, copies>>

(* cli_clipboard_write: the tool is spawned, fed and waited for. *)
Write(c) ==
    /\ pc[c] = "write"
    /\ Put(value[c], c)
    /\ Goto(c, "schedule")
    /\ UNCHANGED <<value, pipe, announced, helper, left, copies>>

(* vault_close, the pipe or the tool fails, or the process dies: the tool   *)
(* may have got some or all of the text, and no helper is started.          *)
WriteFail(c) ==
    /\ pc[c] = "write"
    /\ Keep \/ \E text \in Prefixes(value[c]) : Put(text, c)
    /\ Goto(c, "failed")
    /\ UNCHANGED <<value, pipe, announced, helper, left, copies>>

(* cli_clipboard_schedule_clear: nothing to clear, or a helper of its own   *)
(* session; the helper is told the length and the delay.                    *)
Schedule(c) ==
    /\ pc[c] = "schedule"
    /\ IF value[c] = <<>>
         THEN /\ Goto(c, "done")
              /\ announced' = [announced EXCEPT ![c] = TRUE]
              /\ UNCHANGED helper
         ELSE /\ Goto(c, "feed")
              /\ helper' = [helper EXCEPT ![c] = "read"]
              /\ UNCHANGED announced
    /\ Keep /\ UNCHANGED <<value, pipe, left, copies>>

(* cli_write_all_ignore_sigpipe: a pipe keeps what is written to it, so     *)
(* this succeeds whether or not the helper gets to read it.                 *)
Feed(c) ==
    /\ pc[c] = "feed"
    /\ pipe' = [pipe EXCEPT ![c] = value[c]]
    /\ announced' = [announced EXCEPT ![c] = TRUE]
    /\ Goto(c, "done")
    /\ Keep /\ UNCHANGED <<value, helper, left, copies>>

(* "auto-clear unavailable": no helper, or one that got part of the text;   *)
(* or the command dies.                                                     *)
ScheduleFail(c) ==
    /\ pc[c] \in {"schedule", "feed"}
    /\ \E text \in Prefixes(value[c]) :
         /\ pc[c] = "feed" \/ text = <<>>
         /\ text # value[c]
         /\ pipe' = [pipe EXCEPT ![c] = text]
    /\ Goto(c, "done")
    /\ Keep /\ UNCHANGED <<value, announced, helper, left, copies>>

-----------------------------------------------------------------------------
(* cli_clipboard_clear_helper *)

Enter(c, step) == helper' = [helper EXCEPT ![c] = step]

(* Mutant of Complete: one byte more is expected than is sent. *)
CompleteOffByOne(got, len) == Len(got) > len

(* cli_read_exact_fd got all the bytes announced, not an end of file. *)
Complete(got, len) == Len(got) >= len

HelperRead(c) ==
    /\ helper[c] = "read" /\ pc[c] = "done"
    /\ IF Complete(pipe[c], Len(value[c]))
         THEN Enter(c, "sleep") /\ left' = [left EXCEPT ![c] = Delay]
         ELSE Enter(c, "gone") /\ UNCHANGED left
    /\ Keep /\ UNCHANGED <<command, copies>>

(* A second passes. *)
Tick ==
    /\ \E c \in Commands : helper[c] = "sleep" /\ left[c] > 0
    /\ left' = [c \in Commands |->
                  IF helper[c] = "sleep" /\ left[c] > 0 THEN left[c] - 1 ELSE left[c]]
    /\ Keep /\ UNCHANGED <<command, helper, copies>>

(* sleep() returns what is left when a signal ends it, and is called again. *)
Wake(c) ==
    /\ helper[c] = "sleep" /\ left[c] = 0
    /\ Enter(c, "paste")
    /\ Keep /\ UNCHANGED <<command, left, copies>>

(* Mutant of ReadCurrent: no byte more than the secret has. *)
ReadNoMore(text, max) == SubSeq(text, 1, IF Len(text) < max THEN Len(text) ELSE max)

(* cli_clipboard_read_current: one byte more than expected at most, so that *)
(* a longer text is seen to be longer.                                      *)
ReadCurrent(text, max) ==
    SubSeq(text, 1, IF Len(text) < max + 1 THEN Len(text) ELSE max + 1)

Paste(c) ==
    /\ helper[c] = "paste"
    /\ Enter(c, IF ReadCurrent(clip, Len(value[c])) = pipe[c] THEN "clear" ELSE "gone")
    /\ Keep /\ UNCHANGED <<command, left, copies>>

Clear(c) ==
    /\ helper[c] = "clear"
    /\ Put(<<>>, None)
    /\ Enter(c, "gone")
    /\ UNCHANGED <<command, left, copies>>

(* The helper dies, or a tool fails: it gives up without a word. *)
HelperFail(c) ==
    /\ helper[c] \in {"read", "sleep", "paste", "clear"}
    /\ Enter(c, "broken")
    /\ Keep /\ UNCHANGED <<command, left, copies>>

UserCopy(text) ==
    /\ copies < MaxCopies
    /\ copies' = copies + 1
    /\ Put(text, None)
    /\ UNCHANGED <<command, helper, left>>

HelperStep(c) == HelperRead(c) \/ Wake(c) \/ Paste(c) \/ Clear(c)

Next ==
    \/ \E c \in Commands :
         \/ \E text \in Texts : Copy(c, text)
         \/ Write(c) \/ WriteFail(c) \/ Schedule(c) \/ Feed(c) \/ ScheduleFail(c)
         \/ HelperStep(c) \/ HelperFail(c)
    \/ \E text \in Texts : UserCopy(text)
    \/ Tick

(* Time passes and the system runs the helper; nothing else is assumed.     *)
Fairness == WF_vars(Tick) /\ \A c \in Commands : WF_vars(HelperStep(c))

Spec == Init /\ [][Next]_vars /\ Fairness

-----------------------------------------------------------------------------
(* Properties *)

(* A helper clears the clipboard when its time is up, and only the secret   *)
(* its command copied, "only if it still holds the value we copied"         *)
(* (main.c:1980), not a longer text that begins with it: the one thing it   *)
(* may take away besides is a text put there after it had looked.           *)
ClearIsDue ==
    [][\A c \in Commands : helper[c] = "clear" /\ clip' # clip /\ helper'[c] = "gone" =>
          left[c] = 0 /\ (clip = value[c] \/ c \in stale)]_vars

(* "clearing in N seconds" is kept: in the end the clipboard no longer      *)
(* holds what the command put there, unless its helper died or could not    *)
(* use the clipboard tool; no copy by somebody else makes it forget.        *)
SecretCleared ==
    \A c \in Commands :
        announced[c] ~> (owner # c \/ clip = <<>> \/ helper[c] = "broken")
=============================================================================
