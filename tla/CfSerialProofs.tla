--------------------------- MODULE CfSerialProofs ---------------------------
(***************************************************************************)
(* The emulator never sends an access to an Arduino that still resets, and *)
(* from then on the card at the other end of the line does what the card   *)
(* itself would do: CfSerial implements CardPort.  Both whatever the line  *)
(* held before it was opened, whatever the program accesses and however    *)
(* often, and however open, the Arduino and Ctrl-C are timed.              *)
(***************************************************************************)
EXTENDS CfSerial, NandyWordProofs

Hosts == {"first_access", "opened", "waiting", "ready", "reading", "exited"}
Sketches == {"reset", "loop", "read_reg", "data"}

\* Where the two processes are.
PlacesOK == /\ host \in Hosts /\ fd \in BOOLEAN
            /\ ack \in {"none", "read", "garbage"}
            /\ sketch \in Sketches

\* ListensFirst is not inductive: a byte on the way up while the emulator
\* waits must be known to come from an Arduino that has left its reset, and
\* the emulator opens the line only once.
Listening == /\ PlacesOK
             /\ host = "waiting" /\ fd /\ up # <<>> => sketch # "reset"
             /\ ack = "read" => host \notin {"first_access", "opened", "waiting"}
             /\ ListensFirst

LEMMA ListeningInit == Init => Listening
  BY DEF Init, Listening, PlacesOK, ListensFirst, Hosts, Sketches

\* The emulator's steps.
LEMMA ListeningHost == Listening /\ Host => Listening'
<1> SUFFICES ASSUME Listening, Host PROVE Listening'
  OBVIOUS
<1> USE DEF Listening, PlacesOK, ListensFirst, Hosts, Sketches, sketchVars
<1>1. CASE Open
  BY <1>1 DEF Open
<1>2. CASE OpenFails
  BY <1>2 DEF OpenFails
<1>3. CASE Compute
  BY <1>3 DEF Compute
<1>4. CASE tcflush
  BY <1>4 DEF tcflush
<1>5. CASE ReadAck
  BY <1>5 DEF ReadAck, Acknowledge
<1>6. CASE AckFails
  BY <1>6 DEF AckFails, NoAck, Acknowledge
<1>7. CASE Answered
  BY <1>7 DEF Answered
<1>8. CASE AckCut
  BY <1>8 DEF AckCut, NoAck, Acknowledge
<1>9. ASSUME NEW r \in Used, WriteReg(r) \/ AskReg(r) PROVE Listening'
  BY <1>9 DEF WriteReg, AskReg, Access
<1>10. CASE NoLine
  BY <1>10 DEF NoLine, Access, Exit
<1>11. CASE AnswerCut
  BY <1>11 DEF AnswerCut, Exit
<1> QED
  BY <1>1, <1>2, <1>3, <1>4, <1>5, <1>6, <1>7, <1>8, <1>9, <1>10, <1>11 DEF Host, Await

\* The Arduino's.
LEMMA ListeningSketch == Listening /\ (Bootloader \/ Sketch) => Listening'
<1> SUFFICES ASSUME Listening, Bootloader \/ Sketch PROVE Listening'
  OBVIOUS
<1> USE DEF Listening, PlacesOK, ListensFirst, Hosts, Sketches, hostVars
<1>1. CASE Bootloader
  BY <1>1 DEF Bootloader, sketchVars
<1>2. CASE Setup
  BY <1>2 DEF Setup
<1>3. CASE Loop
  BY <1>3 DEF Loop
<1>4. CASE ReadReg
  BY <1>4 DEF ReadReg
<1>5. CASE write_reg
  BY <1>5 DEF write_reg
<1> QED BY <1>1, <1>2, <1>3, <1>4, <1>5 DEF Sketch

\* When the acknowledgement was really read, the boot loader is done
\* (ios_compactflash.c:194-205).
THEOREM ListensFirstTheorem == Spec => []ListensFirst
<1>1. Listening /\ [Next]_vars => Listening'
  <2> SUFFICES ASSUME Listening, [Next]_vars PROVE Listening'
    OBVIOUS
  <2>1. CASE UNCHANGED vars
    BY <2>1 DEF Listening, PlacesOK, ListensFirst, vars, hostVars, sketchVars
  <2> QED BY <2>1, ListeningHost, ListeningSketch DEF Next
<1>2. Listening => ListensFirst
  BY DEF Listening
<1> QED BY ListeningInit, <1>1, <1>2, PTL DEF Spec
-----------------------------------------------------------------------------
(* Types.                                                                  *)

Cards == [regs : [Register -> Byte], taken : Nat]

LEMMA SmallBytes == 0 \in Byte /\ ACK \in Byte /\ \A b \in Byte : b % 8 \in Register
  BY ByteRange DEF ACK, Register

LEMMA CommandBytes == \A r \in Used : r \in Byte /\ 128 + r \in Byte
  BY UsedAssumption, ByteRange DEF Register

\* An access leaves a card, and gives a byte.
LEMMA PortType ==
  ASSUME NEW c \in Cards, NEW r \in Register, NEW b \in Byte
  PROVE  /\ Port!Value(c, r) \in Byte
         /\ Port!AfterRead(c, r) \in Cards
         /\ Port!AfterWrite(c, r, b) \in Cards
<1>1. c.regs[r] \in Byte /\ c.taken \in Nat
  BY DEF Cards
<1>2. (c.regs[r] + c.taken) % 256 \in Byte
  BY <1>1, ByteRange
<1>3. c.taken + 1 \in Nat
  BY <1>1
<1> QED BY <1>1, <1>2, <1>3 DEF Cards, Port!Value, Port!AfterRead, Port!AfterWrite

LEMMA TypeInit == Init => TypeOK
<1> SUFFICES ASSUME Init PROVE TypeOK
  OBVIOUS
<1>1. card \in Cards
  BY SmallBytes DEF Init, Cards
<1>2. down \in Seq(Byte) /\ up \in Seq(Byte)
  BY StaleAssumption DEF Init
<1>3. made \in 0..MaxAccesses /\ reg_sel \in Register
  BY AccessesAssumption DEF Init, Register
<1> QED BY <1>1, <1>2, <1>3, SmallBytes DEF Init, TypeOK, Cards

LEMMA TypeHost == TypeOK /\ Host => TypeOK'
<1> SUFFICES ASSUME TypeOK, Host PROVE TypeOK'
  OBVIOUS
<1> USE DEF TypeOK, sketchVars
<1>1. CASE Open
  BY <1>1 DEF Open
<1>2. CASE OpenFails
  BY <1>2 DEF OpenFails
<1>3. CASE Compute
  BY <1>3, ValuesAssumption DEF Compute
<1>4. CASE tcflush
  BY <1>4 DEF tcflush
<1>5. CASE ReadAck
  BY <1>5 DEF ReadAck, Acknowledge
<1>6. CASE AckFails
  BY <1>6 DEF AckFails, NoAck, Acknowledge
<1>7. CASE Answered
  BY <1>7 DEF Answered
<1>8. CASE AckCut
  BY <1>8 DEF AckCut, NoAck, Acknowledge
<1>9. ASSUME NEW r \in Used, WriteReg(r) \/ AskReg(r) PROVE TypeOK'
  <2>1. made' \in 0..MaxAccesses /\ reg_sel' \in Register
    BY <1>9, AccessesAssumption, UsedAssumption DEF WriteReg, AskReg, Access
  <2>2. down' \in Seq(Byte)
    <3> DEFINE sent == <<128 + r, acc>>
    <3>1. r \in Byte /\ sent \in Seq(Byte)
      BY CommandBytes
    <3>2. CASE WriteReg(r)
      <4>1. down' = down \o sent
        BY <3>2 DEF WriteReg
      <4> HIDE DEF sent
      <4> QED BY <3>1, <4>1
    <3>3. CASE AskReg(r)
      BY <3>1, <3>3 DEF AskReg
    <3> QED BY <1>9, <3>2, <3>3
  <2> QED BY <1>9, <2>1, <2>2 DEF WriteReg, AskReg
<1>10. CASE NoLine
  BY <1>10, AccessesAssumption DEF NoLine, Access, Exit
<1>11. CASE AnswerCut
  BY <1>11 DEF AnswerCut, Exit
<1> QED
  BY <1>1, <1>2, <1>3, <1>4, <1>5, <1>6, <1>7, <1>8, <1>9, <1>10, <1>11 DEF Host, Await

LEMMA TypeSketch == TypeOK /\ (Bootloader \/ Sketch) => TypeOK'
<1> SUFFICES ASSUME TypeOK, Bootloader \/ Sketch PROVE TypeOK'
  OBVIOUS
<1> USE DEF TypeOK, hostVars
<1>1. CASE Bootloader
  BY <1>1 DEF Bootloader, sketchVars
<1>2. CASE Setup
  BY <1>2, SmallBytes DEF Setup
<1>3. CASE Loop
  BY <1>3 DEF Loop
<1>4. CASE ReadReg
  <2>1. command % 8 \in Register /\ card \in Cards
    BY SmallBytes DEF Cards
  <2>2. /\ Port!Value(card, command % 8) \in Byte
        /\ Port!AfterRead(card, command % 8) \in Cards
    BY <2>1, SmallBytes, PortType
  <2> QED BY <1>4, <2>2 DEF ReadReg, Cards
<1>5. CASE write_reg
  <2>1. command % 8 \in Register /\ card \in Cards
    BY SmallBytes DEF Cards
  <2>2. Head(down) \in Byte /\ Tail(down) \in Seq(Byte)
    BY <1>5 DEF write_reg
  <2>3. Port!AfterWrite(card, command % 8, Head(down)) \in Cards
    BY <2>1, <2>2, PortType
  <2> QED BY <1>5, <2>2, <2>3 DEF write_reg, Cards
<1> QED BY <1>1, <1>2, <1>3, <1>4, <1>5 DEF Sketch

\* What travels on the line and what the card holds are bytes.
THEOREM TypeCorrect == Spec => []TypeOK
<1>1. TypeOK /\ [Next]_vars => TypeOK'
  <2> SUFFICES ASSUME TypeOK, [Next]_vars PROVE TypeOK'
    OBVIOUS
  <2>1. CASE UNCHANGED vars
    BY <2>1 DEF TypeOK, vars, hostVars, sketchVars
  <2> QED BY <2>1, TypeHost, TypeSketch DEF Next
<1> QED BY TypeInit, <1>1, PTL DEF Spec
-----------------------------------------------------------------------------
(* The writes on their way.                                                *)

\* The cards that each write on its way leaves.
Posts(f, c, s) ==
  /\ f \in [0..(Len(s) \div 2) -> Cards] /\ f[0] = c
  /\ \A n \in 1..(Len(s) \div 2) :
       f[n] = Port!AfterWrite(f[n - 1], s[2 * n - 1] % 8, s[2 * n])

LEMMA PostedIs ==
  ASSUME NEW c \in Cards, NEW s \in Seq(Byte)
  PROVE  \E f : Posts(f, c, s) /\ Posted(c, s) = f[Len(s) \div 2]
<1> DEFINE N == Len(s) \div 2
           to(n, b) == Port!AfterWrite(b, s[2 * n - 1] % 8, s[2 * n])
           step == [p \in Nat \X Cards |-> IF p[1] \in 1..N THEN to(p[1], p[2]) ELSE p[2]]
           body(f) == [n \in 0..N |-> IF n = 0 THEN c ELSE to(n, f[n - 1])]
           posted == CHOOSE f : f = body(f)
<1>1. Len(s) \in Nat /\ N \in Nat /\ 2 * N <= Len(s)
  OBVIOUS
<1>2. ASSUME NEW n \in 1..N, NEW b \in Cards PROVE to(n, b) \in Cards
  <2>1. 2 * n \in 1..Len(s) /\ 2 * n - 1 \in 1..Len(s)
    BY <1>1
  <2>2. s[2 * n] \in Byte /\ s[2 * n - 1] \in Byte
    BY <2>1
  <2> QED BY <2>2, SmallBytes, PortType
<1> HIDE DEF N, to
<1>3. step \in [Nat \X Cards -> Cards]
  BY <1>2
<1>4. PICK g \in [0..N -> Cards] : Iteration(g, c, step, N)
  <2> HIDE DEF step
  <2> QED BY <1>1, <1>3, Iterated
<1>5. ASSUME NEW n \in 1..N PROVE g[n] = to(n, g[n - 1])
  <2>1. g[n - 1] \in Cards /\ n \in Nat
    BY <1>1
  <2> QED BY <1>4, <2>1 DEF Iteration
<1>6. g = body(g)
  BY <1>1, <1>4, <1>5 DEF Iteration
<1>7. posted = body(posted)
  <2> HIDE DEF body
  <2> QED BY <1>6, Zenon
<1>8. Posted(c, s) = posted[N]
  BY DEF Posted, N, to
<1> HIDE DEF posted
<1>9. posted[0] = c /\ \A n \in 1..N : posted[n] = to(n, posted[n - 1])
  BY <1>1, <1>7
<1>10. \A n \in 0..N : posted[n] \in Cards
  <2> DEFINE I == {n \in Nat : n <= N => posted[n] \in Cards}
  <2>1. 0 \in I
    BY <1>9
  <2>2. ASSUME NEW n \in Nat, n \in I PROVE n + 1 \in I
    <3> SUFFICES ASSUME n + 1 <= N PROVE posted[n + 1] \in Cards
      OBVIOUS
    <3>1. n + 1 \in 1..N /\ (n + 1) - 1 = n /\ n <= N
      BY <1>1
    <3>2. posted[n] \in Cards
      BY <2>2, <3>1
    <3> QED BY <1>2, <1>9, <3>1, <3>2
  <2> HIDE DEF I
  <2>3. Nat \subseteq I
    BY <2>1, <2>2, NatInduct
  <2> QED BY <1>1, <2>3 DEF I
<1>11. posted \in [0..N -> Cards]
  BY <1>7, <1>10
<1> QED BY <1>8, <1>9, <1>11 DEF Posts, N, to

\* With no write complete, the card is as it is.
LEMMA PostedShort ==
  ASSUME NEW c \in Cards, NEW s \in Seq(Byte), Len(s) <= 1
  PROVE  Posted(c, s) = c
<1>1. PICK f : Posts(f, c, s) /\ Posted(c, s) = f[Len(s) \div 2]
  BY PostedIs
<1>2. Len(s) \div 2 = 0
  OBVIOUS
<1> QED BY <1>1, <1>2 DEF Posts

\* What has the same writes in it leaves the same card.
LEMMA PostedSame ==
  ASSUME NEW c \in Cards, NEW s \in Seq(Byte), NEW t \in Seq(Byte),
         Len(t) \div 2 >= Len(s) \div 2, \A k \in 1..Len(s) : t[k] = s[k],
         NEW f, NEW g, Posts(f, c, s), Posts(g, c, t)
  PROVE  \A n \in 0..(Len(s) \div 2) : g[n] = f[n]
<1> DEFINE N == Len(s) \div 2
           I == {n \in Nat : n <= N => g[n] = f[n]}
<1>1. N \in Nat /\ Len(s) \in Nat /\ 2 * N <= Len(s) /\ Len(t) \div 2 \in Nat
  OBVIOUS
<1>2. 0 \in I
  BY DEF Posts
<1>3. ASSUME NEW n \in Nat, n \in I PROVE n + 1 \in I
  <2> SUFFICES ASSUME n + 1 <= N PROVE g[n + 1] = f[n + 1]
    OBVIOUS
  <2>1. /\ n + 1 \in 1..(Len(s) \div 2) /\ n + 1 \in 1..(Len(t) \div 2) /\ (n + 1) - 1 = n
        /\ 2 * (n + 1) \in 1..Len(s) /\ 2 * (n + 1) - 1 \in 1..Len(s)
    BY <1>1
  <2>2. g[n] = f[n]
    BY <1>1, <1>3
  <2>3. f[n + 1] = Port!AfterWrite(f[n], s[2 * (n + 1) - 1] % 8, s[2 * (n + 1)])
    BY <2>1 DEF Posts
  <2>4. g[n + 1] = Port!AfterWrite(g[n], t[2 * (n + 1) - 1] % 8, t[2 * (n + 1)])
    BY <2>1 DEF Posts
  <2> QED BY <2>1, <2>2, <2>3, <2>4
<1> HIDE DEF I
<1>4. Nat \subseteq I
  BY <1>2, <1>3, NatInduct
<1> QED BY <1>1, <1>4 DEF I

\* A request that follows the writes is none.
LEMMA PostedRequest ==
  ASSUME NEW c \in Cards, NEW s \in Seq(Byte), NEW t \in Seq(Byte),
         Len(s) % 2 = 0, Len(t) = Len(s) + 1, \A k \in 1..Len(s) : t[k] = s[k]
  PROVE  Posted(c, t) = Posted(c, s)
<1>1. PICK f : Posts(f, c, s) /\ Posted(c, s) = f[Len(s) \div 2]
  BY PostedIs
<1>2. PICK g : Posts(g, c, t) /\ Posted(c, t) = g[Len(t) \div 2]
  BY PostedIs
<1>3. Len(t) \div 2 = Len(s) \div 2 /\ Len(s) \div 2 \in Nat
  OBVIOUS
<1>4. \A n \in 0..(Len(s) \div 2) : g[n] = f[n]
  BY <1>1, <1>2, <1>3, PostedSame
<1> QED BY <1>1, <1>2, <1>3, <1>4

\* One more write is made after the others.
LEMMA PostedWrite ==
  ASSUME NEW c \in Cards, NEW s \in Seq(Byte), NEW t \in Seq(Byte),
         Len(s) % 2 = 0, Len(t) = Len(s) + 2, \A k \in 1..Len(s) : t[k] = s[k]
  PROVE  Posted(c, t) = Port!AfterWrite(Posted(c, s), t[Len(t) - 1] % 8, t[Len(t)])
<1>1. PICK f : Posts(f, c, s) /\ Posted(c, s) = f[Len(s) \div 2]
  BY PostedIs
<1>2. PICK g : Posts(g, c, t) /\ Posted(c, t) = g[Len(t) \div 2]
  BY PostedIs
<1> DEFINE N == Len(s) \div 2
<1>3. N \in Nat /\ Len(t) \div 2 = N + 1 /\ 2 * (N + 1) = Len(t)
  OBVIOUS
<1>4. g[N] = f[N]
  BY <1>1, <1>2, <1>3, PostedSame
<1>5. g[N + 1] = Port!AfterWrite(g[N], t[2 * (N + 1) - 1] % 8, t[2 * (N + 1)])
  <2>1. N + 1 \in 1..(Len(t) \div 2) /\ (N + 1) - 1 = N
    BY <1>3
  <2> HIDE DEF N
  <2> QED BY <1>2, <2>1 DEF Posts
<1> QED BY <1>1, <1>2, <1>3, <1>4, <1>5

\* The first write is made before the others.
LEMMA PostedFirst ==
  ASSUME NEW c \in Cards, NEW s \in Seq(Byte), NEW t \in Seq(Byte),
         Len(s) >= 2, Len(t) = Len(s) - 2, \A k \in 1..Len(t) : t[k] = s[k + 2]
  PROVE  Posted(Port!AfterWrite(c, s[1] % 8, s[2]), t) = Posted(c, s)
<1> DEFINE d == Port!AfterWrite(c, s[1] % 8, s[2])
           N == Len(s) \div 2
           M == Len(t) \div 2
<1>1. N \in Nat /\ M \in Nat /\ N = M + 1 /\ 2 * N <= Len(s) /\ 2 * M <= Len(t)
      /\ Len(s) \in Nat /\ Len(t) \in Nat
  OBVIOUS
<1>2. d \in Cards
  <2>1. s[1] \in Byte /\ s[2] \in Byte
    OBVIOUS
  <2> QED BY <2>1, SmallBytes, PortType
<1> HIDE DEF d
<1>3. PICK f : Posts(f, c, s) /\ Posted(c, s) = f[N]
  BY PostedIs
<1>4. PICK g : Posts(g, d, t) /\ Posted(d, t) = g[M]
  BY <1>2, PostedIs
<1>5. f[1] = d
  <2>1. 1 \in 1..(Len(s) \div 2) /\ 1 - 1 = 0 /\ 2 * 1 = 2 /\ 2 * 1 - 1 = 1
    BY <1>1
  <2> HIDE DEF N
  <2> QED BY <1>3, <2>1 DEF Posts, d
<1> DEFINE I == {n \in Nat : n <= M => g[n] = f[n + 1]}
<1>6. 0 \in I
  BY <1>4, <1>5 DEF Posts
<1>7. ASSUME NEW n \in Nat, n \in I PROVE n + 1 \in I
  <2> SUFFICES ASSUME n + 1 <= M PROVE g[n + 1] = f[n + 2]
    OBVIOUS
  <2> DEFINE k == 2 * (n + 1)
  <2>1. /\ n + 1 \in 1..(Len(t) \div 2) /\ (n + 1) - 1 = n
        /\ n + 2 \in 1..(Len(s) \div 2) /\ (n + 2) - 1 = n + 1
        /\ k \in 1..Len(t) /\ k - 1 \in 1..Len(t)
        /\ 2 * (n + 2) = k + 2 /\ 2 * (n + 2) - 1 = (k - 1) + 2
    <3>1. n + 1 \in 1..M /\ n + 2 \in 1..N
      BY <1>1
    <3>2. k \in 1..Len(t) /\ k - 1 \in 1..Len(t)
      <4> HIDE DEF M, N
      <4> QED BY <1>1, <3>1
    <3>3. /\ (n + 1) - 1 = n /\ (n + 2) - 1 = n + 1
          /\ 2 * (n + 2) = k + 2 /\ 2 * (n + 2) - 1 = (k - 1) + 2
      <4> HIDE DEF M, N
      <4> QED OBVIOUS
    <3>4. n + 1 \in 1..(Len(t) \div 2) /\ n + 2 \in 1..(Len(s) \div 2)
      BY <3>1
    <3> HIDE DEF k, M, N
    <3> QED BY <3>2, <3>3, <3>4
  <2>2. g[n] = f[n + 1]
    BY <1>1, <1>7
  <2>3. t[k] = s[k + 2] /\ t[k - 1] = s[(k - 1) + 2]
    BY <2>1
  <2>4. f[n + 2] = Port!AfterWrite(f[n + 1], s[2 * (n + 2) - 1] % 8, s[2 * (n + 2)])
    BY <1>3, <2>1 DEF Posts
  <2>5. g[n + 1] = Port!AfterWrite(g[n], t[k - 1] % 8, t[k])
    BY <1>4, <2>1 DEF Posts
  <2> HIDE DEF k
  <2> QED BY <2>1, <2>2, <2>3, <2>4, <2>5
<1> HIDE DEF I
<1>8. Nat \subseteq I
  BY <1>6, <1>7, NatInduct
<1>9. g[M] = f[M + 1]
  BY <1>1, <1>8 DEF I
<1> QED BY <1>1, <1>3, <1>4, <1>9 DEF d
-----------------------------------------------------------------------------
(* The remote card is the card itself.                                     *)

\* A line of writes, with at most a request behind them: what stands where a
\* command is due is the command of a write, the last byte excepted.
Framed(s) == \A k \in 1..(Len(s) - 1) : k % 2 = 1 => s[k] \in 128..135

\* Before the first access: nothing is sent, and the one byte that can be on
\* its way once the line has been flushed is the acknowledgement.
Opening == /\ host \in {"first_access", "opened", "waiting"} /\ ack = "none"
           /\ down = <<>> /\ sketch \in {"reset", "loop"}
           /\ host = "waiting" /\ fd => up = <<>> \/ (sketch = "loop" /\ up = <<ACK>>)

\* Between two accesses: whole writes on the way, and no answer.
Idle == /\ host = "ready" /\ ack = "read"
        /\ sketch \in {"loop", "data"} /\ up = <<>>
        /\ Framed(Sent) /\ Len(Sent) % 2 = 0

\* A read on the way: its request behind the writes, at the card, or its
\* answer coming back, with nothing else on the line.
Requested == /\ host = "reading" /\ ack = "read"
             /\ sketch \in {"loop", "data"} /\ up = <<>>
             /\ Framed(Sent) /\ Len(Sent) % 2 = 1 /\ Sent[Len(Sent)] = reg_sel
Asked == /\ host = "reading" /\ ack = "read"
         /\ sketch = "read_reg" /\ down = <<>> /\ up = <<>>
         /\ command = reg_sel
Answering == /\ host = "reading" /\ ack = "read"
             /\ sketch = "loop" /\ down = <<>>
             /\ Len(up) = 1

\* AccessesInOrder needs to know where a command starts in what is sent, and
\* that the emulator and the Arduino agree on it.
InStep == \/ host = "exited" \/ (ack = "garbage" /\ host \in {"ready", "reading"})
          \/ Opening \/ Idle \/ Requested \/ Asked \/ Answering

LEMMA FramedRequest ==
  ASSUME NEW s \in Seq(Byte), NEW t \in Seq(Byte), Framed(s), Len(s) % 2 = 0,
         Len(t) = Len(s) + 1, \A k \in 1..Len(s) : t[k] = s[k]
  PROVE  Framed(t)
<1> SUFFICES ASSUME NEW k \in 1..(Len(t) - 1), k % 2 = 1 PROVE t[k] \in 128..135
  BY DEF Framed
<1>1. k \in 1..(Len(s) - 1) /\ k \in 1..Len(s)
  OBVIOUS
<1> QED BY <1>1 DEF Framed

LEMMA FramedWrite ==
  ASSUME NEW s \in Seq(Byte), NEW t \in Seq(Byte), Framed(s), Len(s) % 2 = 0,
         Len(t) = Len(s) + 2, \A k \in 1..Len(s) : t[k] = s[k],
         t[Len(s) + 1] \in 128..135
  PROVE  Framed(t)
<1> SUFFICES ASSUME NEW k \in 1..(Len(t) - 1), k % 2 = 1 PROVE t[k] \in 128..135
  BY DEF Framed
<1>1. k = Len(s) + 1 \/ (k \in 1..(Len(s) - 1) /\ k \in 1..Len(s))
  OBVIOUS
<1> QED BY <1>1 DEF Framed

LEMMA FramedRest ==
  ASSUME NEW s \in Seq(Byte), NEW t \in Seq(Byte), Framed(s),
         Len(t) = Len(s) - 2, \A k \in 1..Len(t) : t[k] = s[k + 2]
  PROVE  Framed(t)
<1> SUFFICES ASSUME NEW k \in 1..(Len(t) - 1), k % 2 = 1 PROVE t[k] \in 128..135
  BY DEF Framed
<1>1. k + 2 \in 1..(Len(s) - 1) /\ (k + 2) % 2 = 1 /\ k \in 1..Len(t)
  OBVIOUS
<1> QED BY <1>1 DEF Framed

\* What a step does to what is sent: nothing, a request more, a write more,
\* or the first write gone.
Longer(s, t, n) == Len(t) = Len(s) + n /\ \A k \in 1..Len(s) : t[k] = s[k]
Shorter(s, t) == Len(s) >= 2 /\ Len(t) = Len(s) - 2 /\ \A k \in 1..Len(t) : t[k] = s[k + 2]

LEMMA SentType == TypeOK => Sent \in Seq(Byte)
<1> SUFFICES ASSUME TypeOK PROVE Sent \in Seq(Byte)
  OBVIOUS
<1>1. down \in Seq(Byte) /\ <<command>> \in Seq(Byte)
  BY DEF TypeOK
<1> QED BY <1>1 DEF Sent

LEMMA Concatenated ==
  ASSUME NEW a \in Seq(Byte), NEW b \in Seq(Byte)
  PROVE  /\ a \o b \in Seq(Byte) /\ Len(a \o b) = Len(a) + Len(b)
         /\ \A k \in 1..Len(a) : (a \o b)[k] = a[k]
         /\ \A k \in 1..Len(b) : (a \o b)[Len(a) + k] = b[k]
  OBVIOUS

LEMMA SentMore ==
  ASSUME NEW d \in Seq(Byte), NEW e \in Seq(Byte), NEW c \in Byte, Len(e) \in {1, 2}
  PROVE  /\ Longer(d, d \o e, Len(e)) /\ Longer(<<c>> \o d, <<c>> \o (d \o e), Len(e))
         /\ \A k \in 1..Len(e) : /\ (d \o e)[Len(d) + k] = e[k]
                                 /\ (<<c>> \o (d \o e))[Len(<<c>> \o d) + k] = e[k]
<1> DEFINE f == <<c>>
           de == d \o e
           fc == f \o d
           gc == f \o de
<1>1. f \in Seq(Byte) /\ Len(f) = 1 /\ Len(d) \in Nat /\ Len(e) \in Nat
  OBVIOUS
<1> HIDE DEF f
<1>2. de \in Seq(Byte) /\ Len(de) = Len(d) + Len(e)
      /\ (\A k \in 1..Len(d) : de[k] = d[k]) /\ (\A k \in 1..Len(e) : de[Len(d) + k] = e[k])
  BY Concatenated
<1>3. fc \in Seq(Byte) /\ Len(fc) = 1 + Len(d) /\ fc[1] = f[1]
      /\ \A k \in 1..Len(d) : fc[1 + k] = d[k]
  <2>1. fc \in Seq(Byte) /\ Len(fc) = Len(f) + Len(d)
        /\ (\A k \in 1..Len(f) : fc[k] = f[k]) /\ (\A k \in 1..Len(d) : fc[Len(f) + k] = d[k])
    BY <1>1, Concatenated
  <2> HIDE DEF fc
  <2> QED BY <1>1, <2>1
<1> HIDE DEF de
<1>4. gc \in Seq(Byte) /\ Len(gc) = 1 + Len(de) /\ gc[1] = f[1]
      /\ \A k \in 1..Len(de) : gc[1 + k] = de[k]
  <2>1. gc \in Seq(Byte) /\ Len(gc) = Len(f) + Len(de)
        /\ (\A k \in 1..Len(f) : gc[k] = f[k]) /\ (\A k \in 1..Len(de) : gc[Len(f) + k] = de[k])
    BY <1>1, <1>2, Concatenated
  <2> HIDE DEF gc
  <2> QED BY <1>1, <1>2, <2>1
<1> HIDE DEF fc, gc
<1>5. ASSUME NEW k \in 1..Len(fc) PROVE gc[k] = fc[k]
  <2>1. CASE k = 1
    BY <2>1, <1>3, <1>4
  <2>2. CASE k # 1
    <3>1. k - 1 \in 1..Len(d) /\ k - 1 \in 1..Len(de) /\ k = 1 + (k - 1)
      BY <2>2, <1>1, <1>2, <1>3
    <3> QED BY <3>1, <1>2, <1>3, <1>4
  <2> QED BY <2>1, <2>2
<1>6. ASSUME NEW k \in 1..Len(e) PROVE gc[Len(fc) + k] = e[k]
  <2>1. Len(fc) + k = 1 + (Len(d) + k) /\ Len(d) + k \in 1..Len(de)
    BY <1>1, <1>2, <1>3
  <2> QED BY <2>1, <1>2, <1>4
<1>7. Longer(d, de, Len(e)) /\ Longer(fc, gc, Len(e))
  BY <1>1, <1>2, <1>3, <1>4, <1>5 DEF Longer
<1> QED BY <1>2, <1>6, <1>7 DEF de, fc, gc, f

LEMMA SentLonger ==
  ASSUME TypeOK, NEW e \in Seq(Byte), Len(e) \in {1, 2},
         down' = down \o e, sketch' = sketch, command' = command
  PROVE  /\ Sent' \in Seq(Byte) /\ Longer(Sent, Sent', Len(e))
         /\ \A k \in 1..Len(e) : Sent'[Len(Sent) + k] = e[k]
<1>1. down \in Seq(Byte) /\ command \in Byte
  BY DEF TypeOK
<1>2. down \o e \in Seq(Byte) /\ <<command>> \o (down \o e) \in Seq(Byte)
  BY <1>1, Concatenated
<1>3. CASE sketch = "data"
  <2>1. Sent = <<command>> \o down /\ Sent' = <<command>> \o (down \o e)
    BY <1>3 DEF Sent
  <2> QED BY <2>1, <1>1, <1>2, SentMore
<1>4. CASE sketch # "data"
  <2>1. Sent = down /\ Sent' = down \o e
    BY <1>4 DEF Sent
  <2> QED BY <2>1, <1>1, <1>2, SentMore
<1> QED BY <1>3, <1>4

\* The command of a write stays sent until its value has been read.
LEMMA SentCommand ==
  ASSUME TypeOK, Loop, sketch' = "data"
  PROVE  Sent' = Sent
<1>1. down \in Seq(Byte) /\ down # <<>> /\ sketch = "loop"
  BY DEF TypeOK, Loop
<1>2. Sent = down /\ Sent' = <<Head(down)>> \o Tail(down)
  BY <1>1 DEF Sent, Loop
<1>3. <<Head(down)>> \o Tail(down) = down
  <2> DEFINE h == <<Head(down)>>
             t == Tail(down)
             w == h \o t
  <2>1. h \in Seq(Byte) /\ t \in Seq(Byte) /\ Len(h) = 1 /\ h[1] = down[1]
        /\ Len(down) \in Nat /\ Len(t) = Len(down) - 1 /\ \A k \in 1..Len(t) : t[k] = down[k + 1]
    BY <1>1
  <2> HIDE DEF h, t
  <2>2. w \in Seq(Byte) /\ Len(w) = Len(h) + Len(t)
        /\ (\A k \in 1..Len(h) : w[k] = h[k]) /\ (\A k \in 1..Len(t) : w[Len(h) + k] = t[k])
    BY <2>1, Concatenated
  <2> HIDE DEF w
  <2>3. ASSUME NEW k \in 1..Len(down) PROVE w[k] = down[k]
    <3>1. CASE k = 1
      BY <3>1, <2>1, <2>2
    <3>2. CASE k # 1
      <4>1. k - 1 \in 1..Len(t) /\ 1 + (k - 1) = k /\ (k - 1) + 1 = k
        BY <3>2, <2>1
      <4>2. w[Len(h) + (k - 1)] = t[k - 1] /\ t[k - 1] = down[(k - 1) + 1]
        BY <4>1, <2>1, <2>2
      <4> QED BY <4>1, <4>2, <2>1
    <3> QED BY <3>1, <3>2
  <2>4. Len(w) = Len(down)
    BY <2>1, <2>2
  <2>5. w = down
    BY <1>1, <2>2, <2>3, <2>4
  <2> QED BY <2>5 DEF w, h, t
<1> QED BY <1>2, <1>3

LEMMA SentShorter ==
  ASSUME TypeOK, sketch = "data", down # <<>>, down' = Tail(down), sketch' = "loop"
  PROVE  /\ Sent' \in Seq(Byte) /\ Shorter(Sent, Sent')
         /\ Sent[1] = command /\ Sent[2] = Head(down)
<1> DEFINE h == <<command>>
           w == h \o down
<1>1. down \in Seq(Byte) /\ h \in Seq(Byte) /\ Len(h) = 1 /\ h[1] = command
  BY DEF TypeOK
<1>2. Sent = w /\ Sent' = Tail(down)
  BY DEF Sent
<1> HIDE DEF h
<1>3. w \in Seq(Byte) /\ Len(w) = Len(h) + Len(down)
      /\ (\A k \in 1..Len(h) : w[k] = h[k]) /\ (\A k \in 1..Len(down) : w[Len(h) + k] = down[k])
  BY <1>1, Concatenated
<1> HIDE DEF w
<1>4. Tail(down) \in Seq(Byte) /\ Len(Tail(down)) = Len(down) - 1 /\ Len(down) \in Nat
      /\ Len(down) >= 1 /\ Head(down) = down[1]
      /\ \A k \in 1..Len(Tail(down)) : Tail(down)[k] = down[k + 1]
  BY <1>1
<1>5. ASSUME NEW k \in 1..Len(Tail(down)) PROVE Tail(down)[k] = w[k + 2]
  <2>1. k + 1 \in 1..Len(down) /\ 1 + (k + 1) = k + 2
    BY <1>4
  <2> QED BY <2>1, <1>1, <1>3, <1>4
<1>6. w[1] = command /\ w[2] = Head(down)
  <2>1. 1 \in 1..Len(h) /\ 1 \in 1..Len(down) /\ 1 + 1 = 2
    BY <1>1, <1>4
  <2> QED BY <2>1, <1>1, <1>3, <1>4
<1>7. Len(w) >= 2 /\ Len(Tail(down)) = Len(w) - 2
  BY <1>1, <1>3, <1>4
<1> QED BY <1>2, <1>4, <1>5, <1>6, <1>7 DEF Shorter

\* What the remote card becomes, for one who only knows what was sent.
LEMMA PostedNext == PostedCard' = Posted(card', Sent')
  BY DEF PostedCard, Posted

LEMMA PostedStays ==
  ASSUME card' = card, Sent' = Sent
  PROVE  PostedCard' = PostedCard
  BY PostedNext DEF PostedCard


\* A step is an access of the abstract card, or none.
Refines == Direct!Next \/ UNCHANGED <<PostedCard, Received, Place, reg_sel>>

\* A step that leaves the emulator where it is, outside of a read or with
\* nothing arriving, leaves its place.
LEMMA PlaceStays ==
  ASSUME (host # "reading" /\ host' # "reading") \/ (host' = host /\ up' = up)
  PROVE  Place' = Place
  BY DEF Place

LEMMA InStepInit == Init => InStep
  BY DEF Init, InStep, Opening

\* The emulator's steps before the first access.
LEMMA InStepOpening ==
  ASSUME TypeOK, Listening, Opening,
         Open \/ OpenFails \/ tcflush \/ ReadAck \/ AckFails \/ AckCut
  PROVE  InStep' /\ Refines
<1>1. down' = down /\ command' = command /\ card' = card
      /\ acc' = acc /\ reg_sel' = reg_sel /\ host # "reading" /\ host' # "reading"
      /\ sketch # "data" /\ sketch' # "data"
  BY DEF Opening, Open, OpenFails, tcflush, ReadAck, AckFails, AckCut, NoAck, Acknowledge,
         sketchVars
<1>2. Sent = <<>> /\ Sent' = <<>>
  BY <1>1 DEF Opening, Sent
<1>3. PostedCard' = PostedCard /\ Received' = Received /\ Place' = Place
  BY <1>1, <1>2, PostedStays, PlaceStays DEF Received
<1>4. CASE Open \/ OpenFails \/ tcflush
  <2>1. Opening'
    BY <1>4 DEF Opening, Open, OpenFails, tcflush, sketchVars, Listening, PlacesOK
  <2> QED BY <1>1, <1>3, <2>1 DEF InStep, Refines
<1>5. CASE ReadAck
  <2>1. sketch = "loop" /\ up = <<ACK>> /\ up' = <<>>
    BY <1>5 DEF ReadAck, Opening
  <2>2. host' = "ready" /\ ack' = "read" /\ sketch' = sketch
    BY <1>5, <2>1 DEF ReadAck, Acknowledge, sketchVars
  <2>3. Framed(<<>>) /\ Len(<<>>) % 2 = 0
    BY DEF Framed
  <2>4. Framed(Sent)' /\ (Len(Sent) % 2 = 0)'
    BY <1>2, <2>3 DEF Framed
  <2>5. Idle'
    BY <2>1, <2>2, <2>4 DEF Idle
  <2> QED BY <1>1, <1>3, <2>5 DEF InStep, Refines
<1>6. CASE AckFails \/ AckCut
  BY <1>1, <1>3, <1>6 DEF AckFails, AckCut, NoAck, Acknowledge, InStep, Refines
<1> QED BY <1>4, <1>5, <1>6

\* The accesses.
LEMMA InStepCompute ==
  ASSUME TypeOK, Idle, Compute
  PROVE  InStep' /\ Refines
<1>1. Sent' = Sent /\ card' = card
  BY DEF Compute, Sent, sketchVars
<1>2. PostedCard' = PostedCard
  BY <1>1, PostedStays
<1>3. Received' \in Byte /\ Place = "free" /\ Place' = "free" /\ reg_sel' = reg_sel
  BY ValuesAssumption DEF Received, Place, Idle, Compute
<1>4. Idle'
  BY <1>1 DEF Idle, Compute, sketchVars, Framed
<1> QED BY <1>2, <1>3, <1>4 DEF InStep, Refines, Direct!Next, Direct!Compute

LEMMA InStepWrite ==
  ASSUME TypeOK, Idle, NEW r \in Used, WriteReg(r)
  PROVE  InStep' /\ Refines
<1> DEFINE e == <<128 + r, acc>>
<1>1. e \in Seq(Byte) /\ Len(e) = 2 /\ e[1] = 128 + r /\ e[2] = acc /\ r \in Register
  BY CommandBytes, UsedAssumption DEF TypeOK
<1>2. /\ down' = down \o e /\ card' = card /\ command' = command /\ sketch' = sketch
      /\ host' = "ready" /\ host = "ready" /\ up' = up /\ ack' = ack /\ acc' = acc
      /\ reg_sel' = r
  BY DEF WriteReg, sketchVars, Idle
<1> HIDE DEF e
<1>3. PICK s : s = Sent
  OBVIOUS
<1>4. PICK t : t = Sent'
  OBVIOUS
<1>5. /\ s \in Seq(Byte) /\ t \in Seq(Byte) /\ Longer(s, t, 2)
      /\ t[Len(s) + 1] = 128 + r /\ t[Len(s) + 2] = acc
  <2>1. 1 \in 1..Len(e) /\ 2 \in 1..Len(e)
    BY <1>1
  <2> QED BY <1>1, <1>2, <1>3, <1>4, <2>1, SentLonger, SentType
<1>6. Framed(s) /\ Len(s) % 2 = 0
  BY <1>3 DEF Idle
<1>7. /\ Len(t) = Len(s) + 2 /\ Len(t) % 2 = 0 /\ Len(t) - 1 = Len(s) + 1
      /\ \A k \in 1..Len(s) : t[k] = s[k]
  BY <1>5, <1>6 DEF Longer
<1>8. Framed(t)
  <2>1. t[Len(s) + 1] \in 128..135
    BY <1>1, <1>5 DEF Register
  <2> QED BY <1>5, <1>6, <1>7, <2>1, FramedWrite
<1>9. Posted(card, t) = Port!AfterWrite(Posted(card, s), r, acc)
  <2>1. card \in Cards
    BY DEF TypeOK, Cards
  <2>2. Posted(card, t) = Port!AfterWrite(Posted(card, s), t[Len(t) - 1] % 8, t[Len(t)])
    BY <1>5, <1>6, <1>7, <2>1, PostedWrite
  <2>3. t[Len(t) - 1] % 8 = r /\ t[Len(t)] = acc
    <3>1. (128 + r) % 8 = r
      BY <1>1 DEF Register
    <3> QED BY <1>5, <1>7, <3>1
  <2> QED BY <2>2, <2>3
<1>10. PostedCard' = Port!AfterWrite(PostedCard, r, acc)
  BY <1>2, <1>3, <1>4, <1>9, PostedNext DEF PostedCard
<1>11. Received = acc /\ Received' = acc /\ Place = "free" /\ Place' = "free"
  BY <1>2 DEF Received, Place
<1>12. Direct!Write(r)
  BY <1>2, <1>10, <1>11 DEF Direct!Write, Direct!AfterWrite, Port!AfterWrite
<1>13. Idle'
  <2>1. Framed(Sent)' /\ (Len(Sent) % 2 = 0)'
    BY <1>4, <1>7, <1>8 DEF Framed
  <2> QED BY <1>2, <2>1 DEF Idle
<1> QED BY <1>1, <1>12, <1>13 DEF InStep, Refines, Direct!Next


LEMMA InStepAsk ==
  ASSUME TypeOK, Idle, NEW r \in Used, AskReg(r)
  PROVE  InStep' /\ Refines
<1> DEFINE e == <<r>>
<1>1. e \in Seq(Byte) /\ Len(e) = 1 /\ e[1] = r /\ r \in Register /\ down \o e = Append(down, r)
  BY CommandBytes, UsedAssumption DEF TypeOK
<1>2. /\ down' = down \o e /\ card' = card /\ command' = command /\ sketch' = sketch
      /\ host' = "reading" /\ host = "ready" /\ up' = up /\ up = <<>> /\ ack' = ack
      /\ acc' = acc /\ reg_sel' = r
  BY <1>1 DEF AskReg, sketchVars, Idle
<1> HIDE DEF e
<1>3. PICK s : s = Sent
  OBVIOUS
<1>4. PICK t : t = Sent'
  OBVIOUS
<1>5. s \in Seq(Byte) /\ t \in Seq(Byte) /\ Longer(s, t, 1) /\ t[Len(s) + 1] = r
  <2>1. 1 \in 1..Len(e)
    BY <1>1
  <2> QED BY <1>1, <1>2, <1>3, <1>4, <2>1, SentLonger, SentType
<1>6. Framed(s) /\ Len(s) % 2 = 0
  BY <1>3 DEF Idle
<1>7. /\ Len(t) = Len(s) + 1 /\ Len(t) % 2 = 1
      /\ \A k \in 1..Len(s) : t[k] = s[k]
  BY <1>5, <1>6 DEF Longer
<1>8. Framed(t)
  BY <1>5, <1>6, <1>7, FramedRequest
<1>9. Posted(card, t) = Posted(card, s)
  <2>1. card \in Cards
    BY DEF TypeOK, Cards
  <2> QED BY <1>5, <1>6, <1>7, <2>1, PostedRequest
<1>10. PostedCard' = PostedCard
  BY <1>2, <1>3, <1>4, <1>9, PostedNext DEF PostedCard
<1>11. Received' = Received /\ Place = "free" /\ Place' = "asked"
  BY <1>2 DEF Received, Place
<1>12. Requested'
  <2>1. Framed(Sent)' /\ (Len(Sent) % 2 = 1)' /\ (Sent[Len(Sent)])' = r
    BY <1>4, <1>5, <1>7, <1>8 DEF Framed
  <2> QED BY <1>1, <1>2, <2>1 DEF Idle, Requested
<1>13. Direct!Ask(r)
  BY <1>2, <1>10, <1>11 DEF Direct!Ask
<1> QED BY <1>1, <1>12, <1>13 DEF InStep, Refines, Direct!Next

\* The end of the emulator.
LEMMA InStepExit ==
  ASSUME TypeOK, NoLine \/ AnswerCut
  PROVE  InStep' /\ host' = "exited"
  BY DEF NoLine, AnswerCut, Exit, InStep

LEMMA InStepAnswered ==
  ASSUME TypeOK, Requested \/ Asked \/ Answering, Answered
  PROVE  InStep' /\ Refines
<1>1. Answering
  BY DEF Requested, Asked, Answered
<1>2. card' = card /\ Sent' = Sent /\ Sent = <<>>
  BY <1>1 DEF Answering, Answered, Sent, sketchVars
<1>3. up' = <<>>
  BY <1>1 DEF Answering, Answered, TypeOK
<1>4. Received' = Received /\ reg_sel' = reg_sel /\ Place = "answered" /\ Place' = "free"
  BY DEF Answered, Received, Place
<1>5. Idle'
  <2>1. Framed(Sent)' /\ (Len(Sent) % 2 = 0)'
    BY <1>2 DEF Framed
  <2> QED BY <1>1, <1>3, <2>1 DEF Answering, Answered, sketchVars, Idle
<1>6. Direct!Return
  BY <1>2, <1>4, PostedStays DEF Direct!Return
<1> QED BY <1>5, <1>6 DEF InStep, Refines, Direct!Next

\* The Arduino's steps.
LEMMA InStepSetup ==
  ASSUME TypeOK, Opening, Setup
  PROVE  InStep' /\ Refines
<1>1. /\ card' = card /\ Sent' = Sent /\ Received' = Received
      /\ Place' = Place /\ reg_sel' = reg_sel
  BY DEF Opening, Setup, Sent, Received, Place, hostVars
<1>2. host = "waiting" /\ fd => up' = <<ACK>>
  BY DEF Opening, Setup
<1>3. Opening'
  BY <1>2 DEF Opening, Setup, hostVars
<1> QED BY <1>1, <1>3, PostedStays DEF InStep, Refines

LEMMA InStepLoop ==
  ASSUME TypeOK, Idle \/ Requested, Loop
  PROVE  InStep' /\ Refines
<1>1. /\ sketch = "loop" /\ down # <<>> /\ down \in Seq(Byte) /\ Sent = down
      /\ down' = Tail(down) /\ command' = Head(down) /\ card' = card /\ up' = up
      /\ host' = host /\ ack' = ack /\ acc' = acc /\ reg_sel' = reg_sel
  BY DEF TypeOK, Loop, Sent, hostVars
<1>2. Head(down) = down[1] /\ Head(down) \in Byte /\ Len(down) \in Nat /\ Len(down) >= 1
  BY <1>1
<1>3. Received' = Received /\ Place' = Place
  BY <1>1, PlaceStays DEF Received
<1>4. CASE Len(down) = 1
  <2>1. Requested /\ Head(down) = reg_sel /\ reg_sel \in Register
    BY <1>1, <1>2, <1>4 DEF Idle, Requested, TypeOK
  <2>2. sketch' = "read_reg" /\ down' = <<>>
    <3>1. Head(down) \div 16 = 0
      BY <2>1 DEF Register
    <3>2. sketch' = "read_reg"
      BY <3>1 DEF Loop
    <3> QED BY <3>2, <1>1, <1>4
  <2>3. Sent' = <<>>
    BY <2>2 DEF Sent
  <2>4. PostedCard' = PostedCard
    <3>1. card \in Cards /\ <<>> \in Seq(Byte) /\ Len(<<>>) <= 1
      BY DEF TypeOK, Cards
    <3>2. Posted(card, <<>>) = card /\ Posted(card, down) = card
      BY <1>1, <1>4, <3>1, PostedShort
    <3> QED BY <1>1, <2>3, <3>2, PostedNext DEF PostedCard
  <2>5. Asked'
    BY <1>1, <2>1, <2>2 DEF Requested, Asked
  <2> QED BY <1>1, <1>3, <2>4, <2>5 DEF InStep, Refines
<1>5. CASE Len(down) # 1
  <2>1. Head(down) \in 128..135
    <3>1. Framed(Sent)
      BY DEF Idle, Requested
    <3>2. 1 \in 1..(Len(down) - 1) /\ 1 % 2 = 1
      BY <1>2, <1>5
    <3> QED BY <1>1, <1>2, <3>1, <3>2 DEF Framed
  <2>2. sketch' = "data"
    <3>1. Head(down) \div 16 = 8 /\ Head(down) \div 16 # 0
      BY <2>1
    <3> QED BY <3>1 DEF Loop
  <2>3. Sent' = Sent
    BY <2>2, SentCommand
  <2>4. CASE Idle
    <3>1. Idle'
      BY <1>1, <2>2, <2>3, <2>4 DEF Idle, Framed
    <3> QED BY <1>1, <1>3, <2>3, <3>1, PostedStays DEF InStep, Refines
  <2>5. CASE Requested
    <3>1. Requested'
      BY <1>1, <2>2, <2>3, <2>5 DEF Requested, Framed
    <3> QED BY <1>1, <1>3, <2>3, <3>1, PostedStays DEF InStep, Refines
  <2> QED BY <2>4, <2>5
<1> QED BY <1>4, <1>5

LEMMA InStepRead ==
  ASSUME TypeOK, Asked, ReadReg
  PROVE  InStep' /\ Refines
<1>1. command = reg_sel /\ command \in Register /\ command % 8 = command /\ card \in Cards
  BY DEF Asked, Register, TypeOK, Cards
<1>2. /\ up = <<>> /\ up' = Append(up, Port!Value(card, command))
      /\ card' = Port!AfterRead(card, command)
      /\ sketch = "read_reg" /\ sketch' = "loop" /\ down = <<>> /\ down' = <<>>
      /\ host = "reading" /\ host' = "reading" /\ ack' = ack /\ acc' = acc /\ ack = "read"
      /\ reg_sel' = reg_sel
  BY <1>1 DEF Asked, ReadReg, hostVars
<1>3. Port!Value(card, command) \in Byte /\ Port!AfterRead(card, command) \in Cards
  BY <1>1, SmallBytes, PortType
<1>4. up' = <<Port!Value(card, command)>>
  BY <1>2
<1>5. PostedCard = card /\ PostedCard' = Port!AfterRead(card, command)
  <2>1. Sent = <<>> /\ Sent' = <<>> /\ <<>> \in Seq(Byte) /\ Len(<<>>) <= 1
    BY <1>2 DEF Sent
  <2>2. Posted(card, <<>>) = card /\ Posted(card', <<>>) = card'
    BY <1>1, <1>2, <1>3, <2>1, PostedShort
  <2> QED BY <1>2, <2>1, <2>2, PostedNext DEF PostedCard
<1>6. Received' = Port!Value(card, command) /\ Place = "asked" /\ Place' = "answered"
  BY <1>2, <1>4 DEF Received, Place
<1>7. Direct!Read
  BY <1>1, <1>2, <1>5, <1>6 DEF Direct!Read, Direct!Value, Direct!AfterRead, Port!Value, Port!AfterRead
<1>8. Answering'
  BY <1>2, <1>4 DEF Answering
<1> QED BY <1>1, <1>7, <1>8 DEF InStep, Refines, Direct!Next

LEMMA InStepValue ==
  ASSUME TypeOK, Idle \/ Requested, write_reg
  PROVE  InStep' /\ Refines
<1>1. /\ sketch = "data" /\ down # <<>> /\ down' = Tail(down) /\ sketch' = "loop"
      /\ card' = Port!AfterWrite(card, command % 8, Head(down)) /\ up' = up
      /\ host' = host /\ ack' = ack /\ acc' = acc /\ reg_sel' = reg_sel
  BY DEF write_reg, hostVars
<1>2. PICK s : s = Sent
  OBVIOUS
<1>3. PICK t : t = Sent'
  OBVIOUS
<1>4. /\ s \in Seq(Byte) /\ t \in Seq(Byte) /\ Shorter(s, t)
      /\ s[1] = command /\ s[2] = Head(down)
  BY <1>1, <1>2, <1>3, SentShorter, SentType
<1>5. Len(s) >= 2 /\ Len(t) = Len(s) - 2 /\ \A k \in 1..Len(t) : t[k] = s[k + 2]
  BY <1>4 DEF Shorter
<1>6. PostedCard' = PostedCard
  <2>1. card \in Cards
    BY DEF TypeOK, Cards
  <2>2. Posted(Port!AfterWrite(card, s[1] % 8, s[2]), t) = Posted(card, s)
    BY <1>4, <1>5, <2>1, PostedFirst
  <2> QED BY <1>1, <1>2, <1>3, <1>4, <2>2, PostedNext DEF PostedCard
<1>7. Received' = Received /\ Place' = Place /\ reg_sel' = reg_sel
  BY <1>1, PlaceStays DEF Received
<1>8. Framed(t)
  <2>1. Framed(s)
    BY <1>2 DEF Idle, Requested
  <2> QED BY <1>4, <1>5, <2>1, FramedRest
<1>9. CASE Idle
  <2>1. Len(t) % 2 = 0
    BY <1>2, <1>4, <1>5, <1>9 DEF Idle
  <2>2. Framed(Sent)' /\ (Len(Sent) % 2 = 0)'
    BY <1>3, <1>8, <2>1 DEF Framed
  <2>3. Idle'
    BY <1>1, <1>9, <2>2 DEF Idle
  <2> QED BY <1>6, <1>7, <2>3 DEF InStep, Refines
<1>10. CASE Requested
  <2>1. Len(t) % 2 = 1 /\ t[Len(t)] = reg_sel
    <3>1. Len(s) % 2 = 1 /\ s[Len(s)] = reg_sel /\ Len(s) \in Nat
      BY <1>2, <1>4, <1>10 DEF Requested
    <3>2. Len(t) % 2 = 1 /\ Len(t) \in 1..Len(t) /\ Len(t) + 2 = Len(s)
      BY <3>1, <1>4, <1>5
    <3> QED BY <3>1, <3>2, <1>5
  <2>2. Framed(Sent)' /\ (Len(Sent) % 2 = 1)' /\ (Sent[Len(Sent)] = reg_sel)'
    BY <1>3, <1>7, <1>8, <2>1 DEF Framed
  <2>3. Requested'
    BY <1>1, <1>10, <2>2 DEF Requested
  <2> QED BY <1>6, <1>7, <2>3 DEF InStep, Refines
<1> QED BY <1>9, <1>10

LEMMA InStepNext ==
  ASSUME TypeOK, Listening, InStep, Next
  PROVE  InStep' /\ (host' = "exited" \/ ack = "garbage" \/ Refines)
<1>1. CASE host = "exited"
  BY <1>1 DEF Next, Host, Open, OpenFails, Compute, Await, tcflush, ReadAck, AckFails, Answered,
     AckCut, WriteReg, AskReg, Access, NoLine, AnswerCut, Bootloader, Sketch, Setup, Loop, ReadReg,
     write_reg, hostVars, InStep
<1>2. CASE ack = "garbage" /\ host \in {"ready", "reading"}
  <2>1. ack' = ack /\ host' \in {"ready", "reading", "exited"}
    BY <1>2 DEF Next, Host, Open, OpenFails, Compute, Await, tcflush, ReadAck, AckFails, Answered,
       AckCut, WriteReg, AskReg, Access, NoLine, AnswerCut, Exit, Bootloader, Sketch, Setup, Loop,
       ReadReg, write_reg, hostVars
  <2> QED BY <1>2, <2>1 DEF InStep
<1>3. CASE Opening
  <2>1. \/ Open \/ OpenFails \/ tcflush \/ ReadAck \/ AckFails \/ AckCut
        \/ Setup \/ Loop
    BY <1>3 DEF Opening, Next, Host, Await, Compute, Answered, WriteReg, AskReg, Access, NoLine,
       AnswerCut, Bootloader, Sketch, ReadReg, write_reg
  <2>2. ~Loop
    BY <1>3 DEF Opening, Loop
  <2> QED BY <1>3, <2>1, <2>2, InStepOpening, InStepSetup
<1>4. CASE Idle
  <2>1. \/ Compute \/ (\E r \in Used : WriteReg(r) \/ AskReg(r)) \/ NoLine
        \/ Loop \/ write_reg
    BY <1>4 DEF Idle, Next, Host, Await, Open, OpenFails, tcflush, ReadAck, AckFails, AckCut,
       Answered, AnswerCut, Bootloader, Sketch, Setup, ReadReg
  <2> QED
    BY <1>4, <2>1, InStepCompute, InStepWrite, InStepAsk, InStepExit, InStepLoop, InStepValue
<1>5. CASE Requested \/ Asked \/ Answering
  <2>1. \/ Answered \/ AnswerCut
        \/ (Requested /\ (Loop \/ write_reg)) \/ (Asked /\ ReadReg)
    BY <1>5 DEF Requested, Asked, Answering, Next, Host, Await, Open, OpenFails, tcflush, ReadAck,
       AckFails, AckCut, Compute, WriteReg, AskReg, Access, NoLine, Bootloader, Sketch, Setup,
       Loop, ReadReg, write_reg
  <2> QED
    BY <1>5, <2>1, InStepAnswered, InStepExit, InStepLoop, InStepRead, InStepValue
<1> QED BY <1>1, <1>2, <1>3, <1>4, <1>5 DEF InStep

\* The card at the other end of the line does what the card itself would do:
\* every access once, in the order made, whatever is on the line
\* (ios_compactflash.c:178-236, arduino-serial-cf.ino:60-126).
THEOREM RemoteCardIsCard == Spec => AccessesInOrder
<1> DEFINE Inv == TypeOK /\ Listening /\ InStep
<1>1. Init => Inv
  BY TypeInit, ListeningInit, InStepInit
<1>2. Inv /\ [Next]_vars => Inv'
  <2> SUFFICES ASSUME Inv, [Next]_vars PROVE Inv'
    OBVIOUS
  <2>1. CASE UNCHANGED vars
    <3>1. Sent' = Sent
      BY <2>1 DEF Sent, vars, sketchVars
    <3>2. TypeOK' /\ Listening'
      BY <2>1 DEF TypeOK, Listening, PlacesOK, ListensFirst, vars, hostVars, sketchVars
    <3>3. InStep'
      BY <2>1, <3>1 DEF InStep, Opening, Idle, Requested, Asked, Answering, Framed, vars, hostVars,
         sketchVars
    <3> QED BY <3>2, <3>3
  <2>2. CASE Next
    BY <2>2, TypeHost, TypeSketch, ListeningHost, ListeningSketch, InStepNext DEF Next
  <2> QED BY <2>1, <2>2
<1>3. Inv /\ [Next]_vars
        => [host' = "exited" \/ ack = "garbage" \/ Direct!Next]_<<PostedCard, Received, Place, reg_sel>>
  <2> SUFFICES ASSUME Inv, [Next]_vars
               PROVE  host' = "exited" \/ ack = "garbage" \/ Refines
    BY DEF Refines
  <2>1. CASE UNCHANGED vars
    <3>1. /\ Sent' = Sent /\ card' = card /\ Received' = Received
          /\ Place' = Place /\ reg_sel' = reg_sel
      BY <2>1 DEF Sent, Received, Place, vars, hostVars, sketchVars
    <3> QED BY <3>1, PostedStays DEF Refines
  <2>2. CASE Next
    BY <2>2, InStepNext
  <2> QED BY <2>1, <2>2
<1> QED BY <1>1, <1>2, <1>3, PTL DEF Spec, AccessesInOrder
=============================================================================
