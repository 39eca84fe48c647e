---------------------------- MODULE TextMessage ----------------------------
(***************************************************************************)
(* Text messages: key 2 of the debugger's terminal reads the text typed    *)
(* after it into chat.buf (readBuf) and publishes it up to its first NUL   *)
(* (cmd_message2, bt_mesh_chat_cli_message_send); the other nodes copy and *)
(* log it (handle_message).  The terminal's channel is shared by keys and  *)
(* text, and the host writes to it at any moment, between the steps of the *)
(* handler too.  Characters are model values.                              *)
(***************************************************************************)
EXTENDS Naturals, Sequences, FiniteSets

CONSTANTS
  Chars,        \* what the host may type
  MessageKey,   \* '2'
  NUL,
  ChannelSize,  \* characters the down channel holds (127, by the linker map)
  BufSize,      \* of chat.buf and, in handle_message, of buf (100)
  Padding,      \* zero bytes between chat.buf and the next field (2)
  MaxTyped      \* bound of the model: characters typed

ASSUME TextAssumption ==
  /\ MessageKey \in Chars /\ NUL \notin Chars
  /\ ChannelSize \in Nat \ {0} /\ MaxTyped \in Nat
  /\ BufSize \in Nat \ {0} /\ Padding \in Nat \ {0}

VARIABLES
  at,       \* where button_event_handler is
  channel,  \* characters typed and not read
  typed,
  buf,      \* chat.buf and the padding behind it
  text,     \* the characters the last readBuf read
  air,      \* messages published: the text read, and the bytes sent
  copied    \* bytes the last handle_message put into its buf

vars == <<at, channel, typed, buf, text, air, copied>>

Bytes == Chars \cup {NUL}
Place == 1 .. BufSize + Padding
Smaller(m, n) == IF m <= n THEN m ELSE n

Init ==
  /\ at = "idle" /\ channel = <<>> /\ typed = 0
  /\ buf = [i \in Place |-> NUL] /\ text = <<>>
  /\ air = {} /\ copied = 0

Type(c) ==
  /\ typed < MaxTyped /\ Len(channel) < ChannelSize
  /\ typed' = typed + 1 /\ channel' = Append(channel, c)
  /\ UNCHANGED <<at, buf, text, air, copied>>

\* The input timer hands over one character at a time; every other key is
\* App's.
app_rtt_input_handler ==
  /\ at = "idle" /\ channel # <<>>
  /\ channel' = Tail(channel)
  /\ at' = IF Head(channel) = MessageKey THEN "readBuf" ELSE "idle"
  /\ UNCHANGED <<typed, buf, text, air, copied>>

\* Mutant: the read starts after what an earlier text left in the buffer.
WrittenBehind(read) ==
  [i \in Place |->
     IF buf[i] = NUL /\ i <= Len(read) THEN read[i] ELSE buf[i]]

\* Nothing is put behind the characters read: what was there stays.
Written(read) == [i \in Place |-> IF i <= Len(read) THEN read[i] ELSE buf[i]]

\* Mutant: the number of characters read is not limited.
ReadAll ==
  LET n == Smaller(Len(channel), BufSize + Padding)
      read == SubSeq(channel, 1, n)
  IN
  /\ at = "readBuf"
  /\ at' = "send"
  /\ text' = read /\ buf' = Written(read)
  /\ channel' = SubSeq(channel, n + 1, Len(channel))
  /\ UNCHANGED <<typed, air, copied>>

readBuf ==
  LET n == Smaller(Len(channel), BufSize)
      read == SubSeq(channel, 1, n)
  IN
  /\ at = "readBuf"
  /\ at' = "send"
  /\ text' = read /\ buf' = Written(read)
  /\ channel' = SubSeq(channel, n + 1, Len(channel))
  /\ UNCHANGED <<typed, air, copied>>

\* The padding ends the longest text.
strlen ==
  CHOOSE n \in 0 .. BufSize + Padding - 1 :
    buf[n + 1] = NUL /\ \A i \in 1 .. n : buf[i] # NUL

MessageLength == strlen + 1

bt_mesh_chat_cli_message_send ==
  /\ at = "send"
  /\ at' = "idle"
  /\ air' = air \cup
       {[text |-> text, bytes |-> [i \in 1 .. MessageLength |-> buf[i]]]}
  /\ UNCHANGED <<channel, typed, buf, text, copied>>

\* One byte more than the message is copied.  Any number of nodes, any order.
handle_message(m) ==
  /\ copied' = Len(m.bytes) + 1
  /\ UNCHANGED <<at, channel, typed, buf, text, air>>

Next ==
  \/ \E c \in Chars : Type(c)
  \/ app_rtt_input_handler \/ readBuf \/ bt_mesh_chat_cli_message_send
  \/ \E m \in air : handle_message(m)

Spec == Init /\ [][Next]_vars

---------------------------------------------------------------------------
(* Properties *)

\* Every place of the buffer holds a byte, and what is sent ends with a NUL.
TypeOK ==
  /\ at \in {"idle", "readBuf", "send"}
  /\ channel \in Seq(Chars) /\ Len(channel) <= ChannelSize
  /\ typed \in Nat
  /\ buf \in [Place -> Bytes] /\ buf[BufSize + Padding] = NUL
  /\ text \in Seq(Chars) /\ copied \in Nat
  /\ \A m \in air :
       /\ m.text \in Seq(Chars) /\ Len(m.text) <= BufSize
       /\ m.bytes \in Seq(Bytes) /\ m.bytes # <<>>
       /\ m.bytes[Len(m.bytes)] = NUL

\* The longest text a readBuf can read.
LongestText == Smaller(ChannelSize, BufSize)

\* handle_message puts no more into its buffer than the longest text one readBuf
\* reads and two bytes, whatever longer or shorter texts were in chat.buf before:
\* what they left there never makes a message longer than one text can be.  (It
\* stays inside the buffer of 100 when a text has at most 98 characters.)
CopyIsBounded == copied <= LongestText + 2

\* Everything that was typed when the buffer was read is sent, in its order,
\* whatever the buffer held and the host typed meanwhile.
TextIsWhole ==
  \A m \in air : \A i \in 1 .. Len(m.text) :
    i < Len(m.bytes) /\ m.bytes[i] = m.text[i]

\* What is sent is the text that was read and the NUL that ends it.
TextIsTerminated == \A m \in air : Len(m.bytes) = Len(m.text) + 1
=============================================================================
