---------------------------- MODULE ToChanProofs ----------------------------
(***************************************************************************)
(* Theorems about ToChan, proved with TLAPS: types, the absence of a panic *)
(* on the channel transport, and the books of the channel: what it and its *)
(* consumer hold are the messages whose handler call returned nil.         *)
(***************************************************************************)
EXTENDS ToChan, SequenceTheorems, TLAPS

\* Every variable keeps its type, whatever the transports do.
THEOREM TypeCorrect == SafeSpec => []TypeOK
<1>1. Init => TypeOK
  <2> SUFFICES ASSUME Init PROVE TypeOK
    OBVIOUS
  <2>1. buffer \in Seq(Calls) /\ consumed \in Seq(Calls)
    BY DEF Init
  <2>2. Len(buffer) <= bufSize
    BY ToChanAssumption DEF Init
  <2> QED
    BY <2>1, <2>2 DEF Init, TypeOK
<1>2. TypeOK /\ [Next]_vars => TypeOK'
  <2> SUFFICES ASSUME TypeOK, [Next]_vars PROVE TypeOK'
    OBVIOUS
  <2> USE DEF TypeOK
  <2>1. CASE Ready \/ RegistrationFails \/ Return \/ Close \/ Cancel
    BY <2>1 DEF Ready, RegistrationFails, Return, Close, Cancel
  <2>2. ASSUME NEW c \in Calls, Begin(c) \/ Refuse(c) \/ SendOnClosed(c) PROVE TypeOK'
    BY <2>2 DEF Begin, Refuse, SendOnClosed
  <2>3. ASSUME NEW c \in Calls, Put(c) PROVE TypeOK'
    BY <2>3, ToChanAssumption DEF Put
  <2>4. ASSUME NEW c \in Calls, HandOver(c) PROVE TypeOK'
    BY <2>4 DEF HandOver, Reading
  <2>5. CASE Consume
    BY <2>5, ToChanAssumption DEF Consume, Reading
  <2>6. CASE End \/ Quit
    BY <2>6 DEF End, Quit
  <2>7. CASE UNCHANGED vars
    BY <2>7 DEF vars
  <2> QED
    BY <2>1, <2>2, <2>3, <2>4, <2>5, <2>6, <2>7 DEF Next, Step
<1> QED
  BY <1>1, <1>2, PTL DEF SafeSpec

-----------------------------------------------------------------------------
(* The channel transport *)

\* Once its subscription has returned, no handler call is in its select, and
\* none begins: the session that would call it is the goroutine that returned.
NoneInSelect ==
  transport = "channel" /\ sub \in {"returned", "closed"} =>
    \A c \in Calls : cb[c] # "select"

ChannelInv == NoneInSelect /\ ChannelNeverPanics

\* Over the channel transport closing the channel never meets a send on it.
THEOREM ChannelDoesNotPanic == SafeSpec => []ChannelNeverPanics
<1>1. Init => ChannelInv
  BY DEF Init, ChannelInv, NoneInSelect, ChannelNeverPanics, NeverPanics
<1>2. TypeOK /\ ChannelInv /\ [Next]_vars => ChannelInv'
  <2> SUFFICES ASSUME TypeOK, ChannelInv, [Next]_vars PROVE ChannelInv'
    OBVIOUS
  <2> USE DEF TypeOK, ChannelInv, NoneInSelect, ChannelNeverPanics, NeverPanics
  <2>1. CASE Return
    BY <2>1 DEF Return, Waits
  <2>2. CASE Ready \/ RegistrationFails \/ Close \/ Cancel
    BY <2>2, ToChanAssumption DEF Ready, RegistrationFails, Close, Cancel
  <2>3. ASSUME NEW c \in Calls, Begin(c) PROVE ChannelInv'
    BY <2>3 DEF Begin, Stops
  <2>4. ASSUME NEW c \in Calls, Put(c) \/ HandOver(c) \/ Refuse(c) \/ SendOnClosed(c)
        PROVE  ChannelInv'
    BY <2>4 DEF Put, HandOver, Refuse, SendOnClosed
  <2>5. CASE Consume \/ End \/ Quit
    BY <2>5 DEF Consume, Reading, End, Quit
  <2>6. CASE UNCHANGED vars
    BY <2>6 DEF vars
  <2> QED
    BY <2>1, <2>2, <2>3, <2>4, <2>5, <2>6 DEF Next, Step
<1>3. ChannelInv => ChannelNeverPanics
  BY DEF ChannelInv
<1> QED
  BY <1>1, <1>2, <1>3, TypeCorrect, PTL DEF SafeSpec

-----------------------------------------------------------------------------
(* The books *)

Forwarded == consumed \o buffer

\* Reading moves a message within the books.
LEMMA ReadingKeepsBooks ==
  ASSUME TypeOK, Consume PROVE Forwarded' = Forwarded
<1> DEFINE new == Append(consumed, Head(buffer)) \o Tail(buffer)
<1> USE DEF TypeOK, Consume
<1>1. Forwarded' = new
  BY DEF Forwarded
<1>2. Len(new) = Len(Forwarded)
  BY DEF Forwarded
<1>3. ASSUME NEW i \in 1 .. Len(Forwarded) PROVE new[i] = Forwarded[i]
  <2>1. CASE i <= Len(consumed)
    BY <2>1, <1>3 DEF Forwarded
  <2>2. CASE i = Len(consumed) + 1
    BY <2>2, <1>3 DEF Forwarded
  <2>3. CASE i > Len(consumed) + 1
    BY <2>3, <1>3 DEF Forwarded
  <2> QED
    <3>1. Len(consumed) \in Nat /\ i \in Int
      BY <1>3 DEF Forwarded
    <3> HIDE DEF new, TypeOK, Consume
    <3> QED
      BY <2>1, <2>2, <2>3, <3>1
<1>4. new \in Seq(Calls) /\ Forwarded \in Seq(Calls)
  BY DEF Forwarded
<1> HIDE DEF new
<1> QED
  BY <1>1, <1>2, <1>3, <1>4, SeqEqual

\* A send appends to them.
LEMMA SendingExtendsBooks ==
  ASSUME TypeOK, NEW c \in Calls, Put(c)
  PROVE  Forwarded' = Append(Forwarded, c)
  BY DEF TypeOK, Put, Forwarded

\* So does handing over, because the buffer of an unbuffered channel is empty.
LEMMA HandingOverExtendsBooks ==
  ASSUME TypeOK, NEW c \in Calls, HandOver(c)
  PROVE  Forwarded' = Append(Forwarded, c)
<1>1. buffer = <<>>
  BY DEF TypeOK, HandOver
<1>2. Forwarded = consumed /\ Forwarded' = Append(consumed, c)
  BY <1>1 DEF TypeOK, HandOver, Forwarded
<1> QED
  BY <1>2

\* What is forwarded has been answered with nil, once, and is all that was.
THEOREM ForwardsWhatIsNil == SafeSpec => []ForwardedIsNil
<1>1. Init => ForwardedIsNil
  BY DEF Init, ForwardedIsNil
<1>2. TypeOK /\ ForwardedIsNil /\ [Next]_vars => ForwardedIsNil'
  <2> SUFFICES ASSUME TypeOK, ForwardedIsNil, [Next]_vars PROVE ForwardedIsNil'
    OBVIOUS
  <2>0. /\ Forwarded \in Seq(Calls)
        /\ \A c \in Calls : cb[c] = "nil" <=> \E i \in 1 .. Len(Forwarded) : Forwarded[i] = c
        /\ \A i, j \in 1 .. Len(Forwarded) : Forwarded[i] = Forwarded[j] => i = j
    BY DEF ForwardedIsNil, Forwarded, TypeOK
  <2>1. ASSUME Forwarded' = Forwarded, \A c \in Calls : cb'[c] = "nil" <=> cb[c] = "nil"
        PROVE  ForwardedIsNil'
    BY <2>0, <2>1 DEF ForwardedIsNil, Forwarded
  <2>2. CASE Consume
    BY <2>1, <2>2, ReadingKeepsBooks DEF Consume
  <2>3. ASSUME NEW c \in Calls, Put(c) \/ HandOver(c) PROVE ForwardedIsNil'
    <3>1. Forwarded' = Append(Forwarded, c)
      BY <2>3, SendingExtendsBooks, HandingOverExtendsBooks
    <3>2. cb[c] # "nil" /\ cb' = [cb EXCEPT ![c] = "nil"]
      BY <2>3 DEF Put, HandOver
    <3>3. \A i \in 1 .. Len(Forwarded) : Forwarded[i] # c
      BY <3>2, <2>0
    <3>4. /\ Len(Forwarded') = Len(Forwarded) + 1
          /\ \A i \in 1 .. Len(Forwarded) : Forwarded'[i] = Forwarded[i]
          /\ Forwarded'[Len(Forwarded) + 1] = c
      BY <3>1, <2>0
    <3>5. \A d \in Calls :
            cb'[d] = "nil" <=> \E i \in 1 .. Len(Forwarded') : Forwarded'[i] = d
      <4> TAKE d \in Calls
      <4>1. CASE d = c
        <5>1. cb'[d] = "nil"
          BY <4>1, <3>2 DEF TypeOK
        <5>2. Len(Forwarded) + 1 \in 1 .. Len(Forwarded')
          BY <3>4, <2>0
        <5> QED
          BY <4>1, <5>1, <5>2, <3>4
      <4>2. CASE d # c
        <5>1. cb'[d] = cb[d]
          BY <4>2, <3>2 DEF TypeOK
        <5>2. \A i \in 1 .. Len(Forwarded') :
                Forwarded'[i] = d => i \in 1 .. Len(Forwarded) /\ Forwarded[i] = d
          BY <4>2, <3>4, <2>0
        <5>3. \A i \in 1 .. Len(Forwarded) :
                Forwarded[i] = d => i \in 1 .. Len(Forwarded') /\ Forwarded'[i] = d
          BY <3>4, <2>0
        <5> QED
          BY <5>1, <5>2, <5>3, <2>0
      <4> QED
        BY <4>1, <4>2
    <3>6. \A i, j \in 1 .. Len(Forwarded') : Forwarded'[i] = Forwarded'[j] => i = j
      BY <3>3, <3>4, <2>0
    <3> QED
      BY <3>5, <3>6 DEF ForwardedIsNil, Forwarded
  <2>4. ASSUME NEW c \in Calls, Begin(c) \/ Refuse(c) \/ SendOnClosed(c)
        PROVE  ForwardedIsNil'
    BY <2>1, <2>4 DEF Begin, Refuse, SendOnClosed, Forwarded, TypeOK
  <2>5. CASE Ready \/ RegistrationFails \/ Return \/ Close \/ Cancel \/ End \/ Quit
    BY <2>1, <2>5 DEF Ready, RegistrationFails, Return, Close, Cancel, End, Quit, Forwarded
  <2>6. CASE UNCHANGED vars
    BY <2>1, <2>6 DEF vars, Forwarded
  <2> QED
    BY <2>2, <2>3, <2>4, <2>5, <2>6 DEF Next, Step
<1> QED
  BY <1>1, <1>2, TypeCorrect, PTL DEF SafeSpec

\* A consumer that has come to the end of the channel finds nothing more there.
AtTheEnd == consumer = "ended" => sub = "closed" /\ buffer = <<>>

\* Closing loses nothing: a consumer whose range over the channel has ended has
\* read every message that was answered with nil, over any transport, although
\* the close does not wait for the handlers.
THEOREM ClosingLosesNothing ==
  SafeSpec => [](consumer = "ended" =>
                   \A c \in Calls : cb[c] = "nil" => \E i \in 1 .. Len(consumed) : consumed[i] = c)
<1>1. Init => AtTheEnd
  BY DEF Init, AtTheEnd
<1>2. AtTheEnd /\ [Next]_vars => AtTheEnd'
  <2> SUFFICES ASSUME AtTheEnd, [Next]_vars PROVE AtTheEnd'
    OBVIOUS
  <2> USE DEF AtTheEnd
  <2>1. CASE Ready \/ RegistrationFails \/ Return \/ Close \/ Cancel
    BY <2>1 DEF Ready, RegistrationFails, Return, Close, Cancel
  <2>2. ASSUME NEW c \in Calls, Begin(c) \/ Put(c) \/ HandOver(c) \/ Refuse(c) \/ SendOnClosed(c)
        PROVE  AtTheEnd'
    BY <2>2 DEF Begin, Put, HandOver, Reading, Refuse, SendOnClosed
  <2>3. CASE Consume \/ End \/ Quit
    BY <2>3 DEF Consume, Reading, End, Quit
  <2>4. CASE UNCHANGED vars
    BY <2>4 DEF vars
  <2> QED
    BY <2>1, <2>2, <2>3, <2>4 DEF Next, Step
<1>3. TypeOK /\ ForwardedIsNil /\ AtTheEnd =>
        (consumer = "ended" =>
           \A c \in Calls : cb[c] = "nil" => \E i \in 1 .. Len(consumed) : consumed[i] = c)
  <2> SUFFICES ASSUME TypeOK, ForwardedIsNil, AtTheEnd, consumer = "ended",
                      NEW c \in Calls, cb[c] = "nil"
               PROVE  \E i \in 1 .. Len(consumed) : consumed[i] = c
    OBVIOUS
  <2>1. Forwarded = consumed
    BY DEF AtTheEnd, Forwarded, TypeOK
  <2>2. \E i \in 1 .. Len(Forwarded) : Forwarded[i] = c
    BY DEF ForwardedIsNil, Forwarded
  <2> QED
    BY <2>1, <2>2
<1> QED
  BY <1>1, <1>2, <1>3, TypeCorrect, ForwardsWhatIsNil, PTL DEF SafeSpec
=============================================================================
