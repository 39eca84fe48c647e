------------------------- MODULE TextMessageProofs -------------------------
(***************************************************************************)
(* What is proved of TextMessage for every size of channel and buffer and  *)
(* any number of characters: no text is cut, and what a receiver copies is *)
(* bounded by the longest text.  The argument: readBuf always writes from  *)
(* the start of the buffer, so nothing but NUL is ever found behind the    *)
(* first LongestText places (NothingBehind), whatever texts went before.   *)
(***************************************************************************)
EXTENDS TextMessage, TLAPS, WellFoundedInduction

NothingBehind == \A i \in Place : i > LongestText => buf[i] = NUL

\* Until it is sent the text that was read stands at the start of the buffer.
TextIsInBuf ==
  at = "send" => Len(text) <= BufSize /\ \A i \in 1 .. Len(text) : buf[i] = text[i]

Short == \A m \in air : Len(m.bytes) <= LongestText + 1

IInv ==
  /\ TypeOK /\ NothingBehind /\ TextIsInBuf /\ Short /\ TextIsWhole
  /\ CopyIsBounded

---------------------------------------------------------------------------

\* A text fits the channel it comes from and the buffer it is read into.
LEMMA LongestFits ==
  LongestText \in Nat /\ LongestText <= ChannelSize /\ LongestText <= BufSize
BY TextAssumption DEF LongestText, Smaller

\* A set of natural numbers that is not empty has a least one.
LEMMA LeastElement ==
  ASSUME NEW T, T \subseteq Nat, T # {}
  PROVE  \E x \in T : \A y \in T : ~(y < x)
<1> DEFINE R == {ss \in Nat \X Nat : ss[1] < ss[2]}
<1>1. IsWellFoundedOn(R, Nat)
  BY NatLessThanWellFounded DEF OpToRel
<1>2. \E x \in T : \A y \in T : ~ (<<y, x>> \in R)
  <2> HIDE DEF R
  <2> QED
    BY <1>1, WFMin
<1> QED
  BY <1>2

\* strlen counts up to the first NUL; the padding holds one.
LEMMA Strlen ==
  ASSUME TypeOK
  PROVE  /\ strlen \in 0 .. BufSize + Padding - 1
         /\ buf[strlen + 1] = NUL /\ \A i \in 1 .. strlen : buf[i] # NUL
<1> USE TextAssumption, LongestFits
<1> DEFINE T == {n \in 0 .. BufSize + Padding - 1 : buf[n + 1] = NUL}
<1>1. BufSize + Padding - 1 \in T
  BY DEF TypeOK
<1>2. PICK x \in T : \A y \in T : ~(y < x)
  <2>1. T \subseteq Nat
    OBVIOUS
  <2>2. T # {}
    BY <1>1
  <2> HIDE DEF T
  <2> QED
    BY <2>1, <2>2, LeastElement
<1>3. ASSUME NEW i \in 1 .. x PROVE buf[i] # NUL
  <2>1. i - 1 \in 0 .. BufSize + Padding - 1 /\ i - 1 < x /\ (i - 1) + 1 = i
    BY <1>2, <1>3
  <2>2. i - 1 \notin T
    BY <1>2, <2>1
  <2> QED
    BY <2>1, <2>2
<1>4. \E n \in 0 .. BufSize + Padding - 1 :
        buf[n + 1] = NUL /\ \A i \in 1 .. n : buf[i] # NUL
  BY <1>2, <1>3
<1> QED
  BY <1>4 DEF strlen

\* At first the buffer is zero.
LEMMA InitIInv == Init => IInv
<1> USE TextAssumption, LongestFits
<1> SUFFICES ASSUME Init PROVE IInv
  OBVIOUS
<1>1. TypeOK
  BY DEF Init, TypeOK, Place, Bytes
<1>2. NothingBehind /\ TextIsInBuf /\ Short /\ TextIsWhole /\ CopyIsBounded
  BY DEF Init, NothingBehind, TextIsInBuf, Short, TextIsWhole, CopyIsBounded
<1> QED
  BY <1>1, <1>2 DEF IInv

\* Typing and keys leave the buffer and the messages alone.
LEMMA ChannelIInv ==
  ASSUME IInv, (\E c \in Chars : Type(c)) \/ app_rtt_input_handler
  PROVE  IInv'
<1> USE TextAssumption, LongestFits
<1>1. UNCHANGED <<buf, text, air, copied>> /\ (at' = "send" => at = "send")
  BY DEF Type, app_rtt_input_handler, IInv, TypeOK
<1>2. at' \in {"idle", "readBuf", "send"} /\ typed' \in Nat
      /\ channel' \in Seq(Chars) /\ Len(channel') <= ChannelSize
  <2>1. CASE \E c \in Chars : Type(c)
    BY <2>1 DEF Type, IInv, TypeOK
  <2>2. CASE app_rtt_input_handler
    BY <2>2 DEF app_rtt_input_handler, IInv, TypeOK
  <2> QED
    BY <2>1, <2>2
<1>3. TypeOK'
  BY <1>1, <1>2 DEF IInv, TypeOK, Place, Bytes
<1>4. (NothingBehind /\ TextIsInBuf /\ Short /\ TextIsWhole)'
  BY <1>1 DEF IInv, NothingBehind, TextIsInBuf, Short, TextIsWhole, Place
<1> QED
  BY <1>1, <1>3, <1>4 DEF IInv, CopyIsBounded

\* The characters read fill the start of the buffer, no further than the
\* longest text.
LEMMA ReadIInv == ASSUME IInv, readBuf PROVE IInv'
<1> USE TextAssumption, LongestFits
<1> DEFINE n == Smaller(Len(channel), BufSize)
           read == SubSeq(channel, 1, n)
<1>1. /\ at' = "send" /\ text' = read /\ buf' = Written(read)
      /\ channel' = SubSeq(channel, n + 1, Len(channel))
      /\ UNCHANGED <<typed, air, copied>>
  BY DEF readBuf
<1>2. /\ Len(channel) \in Nat /\ n \in 0 .. Len(channel)
      /\ n <= BufSize /\ n <= LongestText /\ channel \in Seq(Chars)
  BY DEF IInv, TypeOK, Smaller, LongestText
<1>3. /\ read \in Seq(Chars) /\ Len(read) = n
      /\ \A i \in 1 .. n : read[i] \in Chars
  BY <1>2
<1>4. channel' \in Seq(Chars) /\ Len(channel') <= ChannelSize
  BY SMTT(30), <1>1, <1>2 DEF IInv, TypeOK
<1> HIDE DEF n, read
<1>5. /\ buf' \in [Place -> Bytes]
      /\ \A i \in Place : buf'[i] = IF i <= n THEN read[i] ELSE buf[i]
  BY <1>1, <1>2, <1>3 DEF Written, IInv, TypeOK, Place, Bytes
<1>6. TypeOK'
  <2>1. buf'[BufSize + Padding] = NUL
    BY <1>2, <1>5 DEF IInv, TypeOK, Place
  <2> QED
    BY <1>1, <1>3, <1>4, <1>5, <2>1 DEF IInv, TypeOK
<1>7. NothingBehind'
  BY <1>2, <1>5 DEF IInv, NothingBehind, Place
<1>8. TextIsInBuf'
  BY <1>1, <1>2, <1>3, <1>5 DEF TextIsInBuf, Place
<1>9. (Short /\ TextIsWhole)'
  BY <1>1 DEF IInv, Short, TextIsWhole
<1> QED
  BY <1>1, <1>6, <1>7, <1>8, <1>9 DEF IInv, CopyIsBounded

\* The message is the text, whatever lies behind it in the buffer, and a NUL.
LEMMA SendIInv == ASSUME IInv, bt_mesh_chat_cli_message_send PROVE IInv'
<1> USE TextAssumption, LongestFits
<1> DEFINE bytes == [i \in 1 .. MessageLength |-> buf[i]]
           m0 == [text |-> text, bytes |-> bytes]
<1>1. /\ at = "send" /\ at' = "idle" /\ air' = air \cup {m0}
      /\ UNCHANGED <<channel, typed, buf, text, copied>>
  BY DEF bt_mesh_chat_cli_message_send
<1>2. /\ strlen \in 0 .. BufSize + Padding - 1 /\ MessageLength = strlen + 1
      /\ buf[strlen + 1] = NUL /\ \A i \in 1 .. strlen : buf[i] # NUL
  BY Strlen DEF IInv, MessageLength
<1>3. \A i \in 1 .. strlen + 1 : i \in Place /\ buf[i] \in Bytes
  BY <1>2 DEF IInv, TypeOK, Place
<1>4. /\ bytes \in Seq(Bytes) /\ Len(bytes) = strlen + 1
      /\ \A i \in 1 .. strlen + 1 : bytes[i] = buf[i]
  BY <1>2, <1>3
<1>5. strlen <= LongestText
  <2> SUFFICES ASSUME strlen > LongestText PROVE FALSE
    BY <1>2
  <2>1. strlen \in Place /\ strlen \in 1 .. strlen
    BY <1>2 DEF Place
  <2> QED
    BY <1>2, <2>1 DEF IInv, NothingBehind
<1>6. Len(text) <= strlen
  <2> SUFFICES ASSUME Len(text) > strlen PROVE FALSE
    BY <1>2 DEF IInv, TypeOK
  <2>1. strlen + 1 \in 1 .. Len(text)
    BY <1>2 DEF IInv, TypeOK
  <2>2. buf[strlen + 1] \in Chars
    BY <1>1, <2>1 DEF IInv, TypeOK, TextIsInBuf
  <2> QED
    BY <1>2, <2>2
<1> HIDE DEF bytes
<1>7. TypeOK'
  <2>1. m0.text \in Seq(Chars) /\ Len(m0.text) <= BufSize
    BY <1>1 DEF IInv, TypeOK, TextIsInBuf
  <2>2. m0.bytes \in Seq(Bytes) /\ m0.bytes # <<>> /\ m0.bytes[Len(m0.bytes)] = NUL
    BY <1>2, <1>4
  <2> QED
    BY <1>1, <2>1, <2>2 DEF IInv, TypeOK
<1>8. Short'
  BY <1>1, <1>2, <1>4, <1>5 DEF IInv, Short
<1>9. TextIsWhole'
  <2>1. \A i \in 1 .. Len(text) : i < Len(bytes) /\ bytes[i] = text[i]
    BY <1>1, <1>2, <1>4, <1>6 DEF IInv, TypeOK, TextIsInBuf
  <2> QED
    BY <1>1, <2>1 DEF IInv, TextIsWhole
<1>10. NothingBehind' /\ TextIsInBuf'
  BY <1>1 DEF IInv, NothingBehind, TextIsInBuf, Place
<1> QED
  BY <1>1, <1>7, <1>8, <1>9, <1>10 DEF IInv, CopyIsBounded

\* A receiver copies a byte more than it was sent.
LEMMA HandleIInv ==
  ASSUME IInv, NEW m \in air, handle_message(m) PROVE IInv'
<1> USE TextAssumption, LongestFits
<1>1. copied' = Len(m.bytes) + 1 /\ UNCHANGED <<at, channel, typed, buf, text, air>>
  BY DEF handle_message
<1>2. Len(m.bytes) \in Nat /\ Len(m.bytes) <= LongestText + 1
  BY DEF IInv, TypeOK, Short
<1>3. TypeOK'
  BY <1>1, <1>2 DEF IInv, TypeOK, Place, Bytes
<1>4. (NothingBehind /\ TextIsInBuf /\ Short /\ TextIsWhole)'
  BY <1>1 DEF IInv, NothingBehind, TextIsInBuf, Short, TextIsWhole, Place
<1> QED
  BY <1>1, <1>2, <1>3, <1>4 DEF IInv, CopyIsBounded

\* The inductive invariant holds throughout.
THEOREM Invariant == Spec => []IInv
<1>1. IInv /\ UNCHANGED vars => IInv'
  BY DEF vars, IInv, TypeOK, NothingBehind, TextIsInBuf, Short, TextIsWhole,
         CopyIsBounded, Place, Bytes
<1>2. IInv /\ [Next]_vars => IInv'
  BY <1>1, ChannelIInv, ReadIInv, SendIInv, HandleIInv DEF Next
<1> QED
  BY <1>2, InitIInv, PTL DEF Spec

\* The state keeps its types, and every message ends with a NUL.
THEOREM TypeCorrect == Spec => []TypeOK
<1>1. IInv => TypeOK
  BY DEF IInv
<1> QED
  BY <1>1, Invariant, PTL

\* Everything that was typed when the buffer was read is sent.
THEOREM NothingIsCut == Spec => []TextIsWhole
<1>1. IInv => TextIsWhole
  BY DEF IInv
<1> QED
  BY <1>1, Invariant, PTL

\* What handle_message copies is bounded by the longest text, however many
\* texts of whatever lengths went before.
THEOREM CopyBounded == Spec => []CopyIsBounded
<1>1. IInv => CopyIsBounded
  BY DEF IInv
<1> QED
  BY <1>1, Invariant, PTL

\* It stays inside its buffer when the sender's channel is two characters
\* smaller.
THEOREM CopyStaysInside ==
  ASSUME ChannelSize + 2 <= BufSize
  PROVE  Spec => [](copied <= BufSize)
<1>1. IInv => copied <= BufSize
  BY TextAssumption, LongestFits DEF IInv, TypeOK, CopyIsBounded
<1> QED
  BY <1>1, Invariant, PTL
=============================================================================
