--------------------------- MODULE WsReaderProofs ---------------------------
(***************************************************************************)
(* Proofs about WsReader, for any frames, any answers to the upgrade, any  *)
(* limits and any way of cutting the stream.                               *)
(*                                                                         *)
(* The invariant says which frame c the reader is in and what the frames   *)
(* before c came to: the messages they complete are out, the one they      *)
(* leave open is partial, and all of them are legal.  The bytes taken so   *)
(* far end in frame c, at the place header_len or incoming says.           *)
(***************************************************************************)
EXTENDS WsReader, SequenceTheorems, TLAPS

Message == [op : Opcodes, parts : Seq(Part)]

(* Where frame c starts, or will, and the data bytes before it.            *)
StartAt(s, c)  == IF c <= Len(s) THEN s[c].start ELSE EndOfStream(s)
BeforeAt(s, c) == IF c <= Len(s) THEN s[c].before ELSE DataSent(s)

(* Frames lie one behind the other from position 0 on.                     *)
StreamOK(s) ==
    /\ s \in Seq(Sent)
    /\ StartAt(s, 1) = 0
    /\ \A i \in 1..Len(s) :
          /\ StartAt(s, i + 1) = EndOf(s[i])
          /\ BeforeAt(s, i + 1) = s[i].before + (IF IsControl(s[i]) THEN 0 ELSE s[i].len)
    /\ \A i, j \in 1..Len(s) : i < j => EndOf(s[i]) <= s[j].start

(* p is the message that the frames before c leave open.                   *)
Opened(s, c, p) ==
    /\ p.op \in {"text", "binary"} /\ p.parts \in Seq(Part) /\ p.parts # <<>>
    /\ p.len \in Nat /\ p.len <= MaxMessage
    /\ \E a \in 1..(c - 1) :
          /\ Begins(s, a, c - 1) /\ s[a].op = p.op /\ p.parts[1] = Payload(s[a])
          /\ p.len = BeforeAt(s, c) - s[a].before
    /\ \E z \in 1..(c - 1) :
          /\ ~IsControl(s[z]) /\ ~s[z].fin /\ p.parts[Len(p.parts)] = Payload(s[z])
          /\ \A y \in (z + 1)..(c - 1) : IsControl(s[y])
    /\ \A j \in 1..(Len(p.parts) - 1) : Follows(s, p.parts[j], p.parts[j + 1])

PartialOK(s, c, p) == (p = NoPartial /\ ~InMessage(s, c)) \/ Opened(s, c, p)

(* o are the messages that the frames before c complete.                   *)
OutOK(s, c, o) ==
    /\ o \in Seq(Message)
    /\ \A k \in 1..Len(o) : \E x \in 1..(c - 1) : Spells(s, o[k], x)
    /\ \A k \in 1..(Len(o) - 1) : Last(o[k].parts).start < Last(o[k + 1].parts).start
    /\ \A x \in 1..(c - 1) : s[x].fin => \E k \in 1..Len(o) : Spells(s, o[k], x)

LegalOK(s, c) == \A x \in 1..(c - 1) : Legal(s, x)

-----------------------------------------------------------------------------
(* The stream.                                                             *)

(* What Last is.                                                           *)
LEMMA LastIs ==
    ASSUME NEW S, NEW s \in Seq(S), s # <<>>
    PROVE  Last(s) = s[Len(s)] /\ Last(s) \in S /\ Len(s) \in Nat /\ Len(s) >= 1
<1>1. Len(s) \in Nat /\ Len(s) # 0
    BY EmptySeq, LenProperties
<1>2. QED
    BY <1>1, ElementOfSeq DEF Last

(* The facts about one frame.                                              *)
LEMMA SentIs ==
    ASSUME NEW f \in Sent
    PROVE  /\ f.start \in Nat /\ f.enc \in Nat /\ f.len \in Nat /\ f.before \in Nat
           /\ f.enc >= 2 /\ f.enc <= 10 /\ f.fin \in BOOLEAN /\ f.odd \in BOOLEAN
           /\ f.op \in Opcodes /\ EndOf(f) \in Nat /\ f.start + f.enc <= EndOf(f)
           /\ f.start < EndOf(f)
           /\ Payload(f) \in Part
           /\ Payload(f).start = f.start + f.enc /\ Payload(f).len = f.len
    BY DEF Sent, EndOf, Payload, Part

(* A placed frame is one of the stream and starts where that ends.         *)
LEMMA PlacedIs ==
    ASSUME NEW s, StreamOK(s), NEW f \in Frames
    PROVE  LET g == Placed(f, s)
           IN  /\ g \in Sent /\ g.start = EndOfStream(s) /\ g.before = DataSent(s)
               /\ g.op = f.op /\ g.fin = f.fin /\ g.enc = f.enc /\ g.len = f.len /\ g.odd = f.odd
<1>1. f \in FrameType
    BY ReaderAssumption
<1>2. EndOfStream(s) \in Nat /\ DataSent(s) \in Nat
    <2>1. CASE s = <<>>
        BY <2>1 DEF EndOfStream, DataSent
    <2>2. CASE s # <<>>
        <3>1. Last(s) \in Sent
            BY <2>2, LastIs DEF StreamOK
        <3>2. QED
            BY <2>2, <3>1, SentIs DEF EndOfStream, DataSent
    <2>3. QED
        BY <2>1, <2>2
<1>3. QED
    BY <1>1, <1>2 DEF Placed, Sent, FrameType

(* The stream after the server began another frame.                        *)
LEMMA StreamGrows ==
    ASSUME NEW s, StreamOK(s), NEW f \in Frames, NEW t, t = Append(s, Placed(f, s))
    PROVE  /\ StreamOK(t) /\ Len(t) = Len(s) + 1 /\ Len(s) \in Nat
           /\ \A i \in 1..Len(s) : t[i] = s[i]
           /\ \A i \in 1..(Len(s) + 1) : StartAt(t, i) = StartAt(s, i)
                                         /\ BeforeAt(t, i) = BeforeAt(s, i)
           /\ EndOfStream(s) <= EndOfStream(t)
<1> DEFINE g == Placed(f, s)
           n == Len(s)
<1>1. g \in Sent /\ g.start = EndOfStream(s) /\ g.before = DataSent(s)
    BY PlacedIs
<1>2. s \in Seq(Sent) /\ n \in Nat
    BY LenProperties DEF StreamOK
<1>3. /\ t \in Seq(Sent) /\ Len(t) = n + 1 /\ t[n + 1] = g
      /\ \A i \in 1..n : t[i] = s[i]
    BY <1>1, <1>2, AppendProperties
<1> HIDE DEF g, n
<1>4. t # <<>> /\ Last(t) = g
    BY <1>2, <1>3, EmptySeq DEF Last
<1>5. EndOfStream(t) = EndOf(g)
      /\ DataSent(t) = g.before + (IF IsControl(g) THEN 0 ELSE g.len)
    BY <1>4 DEF EndOfStream, DataSent
<1>6. ASSUME NEW i \in 1..(n + 1)
      PROVE  StartAt(t, i) = StartAt(s, i) /\ BeforeAt(t, i) = BeforeAt(s, i)
    <2>1. CASE i \in 1..n
        BY <1>2, <1>3, <2>1 DEF StartAt, BeforeAt, n
    <2>2. CASE i = n + 1
        BY <1>1, <1>2, <1>3, <2>2 DEF StartAt, BeforeAt, n
    <2>3. QED
        BY <1>2, <2>1, <2>2
<1>7. ASSUME NEW i \in 1..(n + 1)
      PROVE  /\ StartAt(t, i + 1) = EndOf(t[i])
             /\ BeforeAt(t, i + 1) = t[i].before + (IF IsControl(t[i]) THEN 0 ELSE t[i].len)
    <2>1. CASE i \in 1..n
        <3>1. i + 1 \in 1..(n + 1)
            BY <1>2, <2>1
        <3>2. /\ StartAt(s, i + 1) = EndOf(s[i])
              /\ BeforeAt(s, i + 1) = s[i].before + (IF IsControl(s[i]) THEN 0 ELSE s[i].len)
            BY <2>1 DEF StreamOK, n
        <3>3. QED
            BY <1>3, <1>6, <2>1, <3>1, <3>2
    <2>2. CASE i = n + 1
        <3>1. ~(i + 1 <= Len(t))
            BY <1>2, <1>3, <2>2
        <3>2. QED
            BY <1>3, <1>5, <2>2, <3>1 DEF StartAt, BeforeAt
    <2>3. i \in 1..n \/ i = n + 1
        BY <1>2
    <2>4. QED
        BY <2>1, <2>2, <2>3
<1>8. ASSUME NEW i \in 1..(n + 1), NEW j \in 1..(n + 1), i < j
      PROVE  EndOf(t[i]) <= t[j].start
    <2>1. CASE j \in 1..n
        BY <1>2, <1>3, <1>8, <2>1 DEF StreamOK, n
    <2>2. CASE j = n + 1
        <3>1. i \in 1..n /\ s[i] \in Sent /\ s[n] \in Sent /\ n \in 1..n
            BY <1>2, <1>8, <2>2, ElementOfSeq DEF n
        <3>2. EndOfStream(s) = EndOf(s[n])
            <4>1. n + 1 > Len(s)
                BY <1>2 DEF n
            <4>2. StartAt(s, n + 1) = EndOf(s[n])
                BY <3>1 DEF StreamOK, n
            <4>3. QED
                BY <1>2, <4>1, <4>2 DEF StartAt, n
        <3>3. EndOf(s[i]) <= EndOf(s[n])
            <4>1. CASE i = n
                BY <3>1, <4>1, SentIs
            <4>2. CASE i < n
                <5>1. EndOf(s[i]) <= s[n].start
                    BY <3>1, <4>2 DEF StreamOK, n
                <5>2. /\ EndOf(s[i]) \in Nat /\ EndOf(s[n]) \in Nat /\ s[n].start \in Nat
                      /\ s[n].enc \in Nat /\ s[n].start + s[n].enc <= EndOf(s[n])
                    BY <3>1, SentIs
                <5>3. QED
                    BY <5>1, <5>2
            <4>3. QED
                BY <1>2, <3>1, <4>1, <4>2
        <3>4. QED
            BY <1>1, <1>3, <2>2, <3>1, <3>2, <3>3
    <2>3. j \in 1..n \/ j = n + 1
        BY <1>2
    <2>4. QED
        BY <2>1, <2>2, <2>3
<1>9. StartAt(t, 1) = 0
    BY <1>2, <1>6 DEF StreamOK
<1>10. StreamOK(t)
    BY <1>3, <1>7, <1>8, <1>9 DEF StreamOK
<1>11. EndOfStream(s) <= EndOfStream(t)
    BY <1>1, <1>5, SentIs
<1>12. QED
    BY <1>2, <1>3, <1>6, <1>10, <1>11 DEF n

-----------------------------------------------------------------------------
(* What the frames before c came to does not change when more are sent.    *)

(* t is s with frames added.                                               *)
Extends(s, t) ==
    /\ Len(s) \in Nat /\ Len(t) \in Nat /\ Len(s) <= Len(t)
    /\ \A i \in 1..Len(s) : t[i] = s[i]

(* One part of a message still follows the other.                          *)
LEMMA FollowsGrows ==
    ASSUME NEW s, NEW t, Extends(s, t), NEW p, NEW q, Follows(s, p, q)
    PROVE  Follows(t, p, q)
<1>1. PICK a \in 1..Len(s), b \in 1..Len(s) :
          /\ a < b /\ p = Payload(s[a]) /\ q = Payload(s[b])
          /\ ~IsControl(s[a]) /\ ~s[a].fin /\ s[b].op = "continuation"
          /\ \A c \in (a + 1)..(b - 1) : IsControl(s[c])
    BY DEF Follows
<1>2. a \in 1..Len(t) /\ b \in 1..Len(t) /\ t[a] = s[a] /\ t[b] = s[b]
    BY DEF Extends
<1>3. \A c \in (a + 1)..(b - 1) : t[c] = s[c]
    BY DEF Extends
<1>4. QED
    BY <1>1, <1>2, <1>3 DEF Follows

(* A frame still completes the message it did.                             *)
LEMMA SpellsGrows ==
    ASSUME NEW s, NEW t, Extends(s, t), NEW m, NEW x \in 1..Len(s), Spells(s, m, x)
    PROVE  Spells(t, m, x)
<1>1. t[x] = s[x]
    BY DEF Extends
<1>2. PICK a \in 1..x : m.parts[1] = Payload(s[a]) /\ s[a].op = m.op /\ m.op # "continuation"
    BY DEF Spells
<1>3. t[a] = s[a]
    BY DEF Extends
<1>4. \A j \in 1..(Len(m.parts) - 1) : Follows(t, m.parts[j], m.parts[j + 1])
    BY FollowsGrows DEF Spells
<1>5. QED
    BY <1>1, <1>2, <1>3, <1>4 DEF Spells

(* A frame stands in a message or not, whatever is sent after it.          *)
LEMMA InMessageGrows ==
    ASSUME NEW s, NEW t, Extends(s, t), NEW x \in 1..(Len(s) + 1)
    PROVE  InMessage(t, x) <=> InMessage(s, x)
<1>1. \A i \in 1..(x - 1) : t[i] = s[i]
    BY DEF Extends
<1>2. x \in Nat
    BY DEF Extends
<1>3. \A a \in 1..(x - 1) : \A c \in (a + 1)..(x - 1) : t[c] = s[c]
    BY <1>1, <1>2
<1>4. QED
    BY <1>1, <1>3 DEF InMessage

(* The same for where its message began.                                   *)
LEMMA BeginsGrows ==
    ASSUME NEW s, NEW t, Extends(s, t), NEW x \in 0..Len(s), NEW a \in 1..x
    PROVE  Begins(t, a, x) <=> Begins(s, a, x)
<1>1. t[a] = s[a] /\ \A c \in (a + 1)..x : t[c] = s[c]
    BY DEF Extends
<1>2. QED
    BY <1>1 DEF Begins

(* A frame is legal or not, whatever is sent after it.                     *)
LEMMA LegalGrows ==
    ASSUME NEW s, NEW t, Extends(s, t), NEW x \in 1..Len(s)
    PROVE  Legal(t, x) <=> Legal(s, x)
<1>1. t[x] = s[x] /\ \A a \in 1..x : t[a] = s[a]
    BY DEF Extends
<1>2. x \in 1..(Len(s) + 1) /\ x \in 0..Len(s)
    BY DEF Extends
<1>3. InMessage(t, x) <=> InMessage(s, x)
    BY <1>2, InMessageGrows
<1>4. \A a \in 1..x : Begins(t, a, x) <=> Begins(s, a, x)
    BY <1>2, BeginsGrows
<1>5. QED
    BY <1>1, <1>3, <1>4 DEF Legal

(* All of it together.                                                     *)
LEMMA BehindGrows ==
    ASSUME NEW s, NEW t, Extends(s, t), NEW c \in 1..(Len(s) + 1),
           BeforeAt(t, c) = BeforeAt(s, c), NEW p, NEW o,
           PartialOK(s, c, p), OutOK(s, c, o), LegalOK(s, c)
    PROVE  PartialOK(t, c, p) /\ OutOK(t, c, o) /\ LegalOK(t, c)
<1>1. /\ c \in Nat /\ c - 1 \in 0..Len(s)
      /\ \A x \in 1..(c - 1) : x \in 1..Len(s) /\ t[x] = s[x]
    BY DEF Extends
<1>2. LegalOK(t, c)
    BY <1>1, LegalGrows DEF LegalOK
<1>3. OutOK(t, c, o)
    <2>1. \A k \in 1..Len(o) : \E x \in 1..(c - 1) : Spells(t, o[k], x)
        BY <1>1, SpellsGrows DEF OutOK
    <2>2. ASSUME NEW x \in 1..(c - 1), t[x].fin
          PROVE  \E k \in 1..Len(o) : Spells(t, o[k], x)
        <3>1. PICK k \in 1..Len(o) : Spells(s, o[k], x)
            BY <1>1, <2>2 DEF OutOK
        <3>2. QED
            BY <1>1, <3>1, SpellsGrows
    <2>3. QED
        BY <2>1, <2>2 DEF OutOK
<1>4. CASE p = NoPartial /\ ~InMessage(s, c)
    BY <1>2, <1>3, <1>4, InMessageGrows DEF PartialOK
<1>5. CASE Opened(s, c, p)
    <2>1. PICK a \in 1..(c - 1) :
              /\ Begins(s, a, c - 1) /\ s[a].op = p.op /\ p.parts[1] = Payload(s[a])
              /\ p.len = BeforeAt(s, c) - s[a].before
        BY <1>5 DEF Opened
    <2>2. PICK z \in 1..(c - 1) :
              /\ ~IsControl(s[z]) /\ ~s[z].fin /\ p.parts[Len(p.parts)] = Payload(s[z])
              /\ \A y \in (z + 1)..(c - 1) : IsControl(s[y])
        BY <1>5 DEF Opened
    <2>3. Begins(t, a, c - 1) /\ t[a] = s[a] /\ t[z] = s[z]
        BY <1>1, <2>1, BeginsGrows
    <2>4. \A y \in (z + 1)..(c - 1) : t[y] = s[y]
        BY <1>1
    <2>5. \A j \in 1..(Len(p.parts) - 1) : Follows(t, p.parts[j], p.parts[j + 1])
        BY <1>5, FollowsGrows DEF Opened
    <2>6. Opened(t, c, p)
        BY <1>5, <2>1, <2>2, <2>3, <2>4, <2>5 DEF Opened
    <2>7. QED
        BY <1>2, <1>3, <2>6 DEF PartialOK
<1>6. QED
    BY <1>4, <1>5 DEF PartialOK

-----------------------------------------------------------------------------
(* Frame c is dispatched.                                                  *)

(* It completes a message, which is handed out.                            *)
LEMMA DeliverKeeps ==
    ASSUME NEW s, StreamOK(s), NEW c \in 1..Len(s), NEW o, OutOK(s, c, o),
           NEW m \in Message, Spells(s, m, c)
    PROVE  OutOK(s, c + 1, Append(o, m))
<1> DEFINE r == Append(o, m)
           n == Len(o)
<1>1. o \in Seq(Message) /\ n \in Nat /\ Len(s) \in Nat
    BY LenProperties DEF OutOK, StreamOK
<1>2. /\ r \in Seq(Message) /\ Len(r) = n + 1 /\ r[n + 1] = m
      /\ \A k \in 1..n : r[k] = o[k]
    BY <1>1, AppendProperties
<1> HIDE DEF r
<1>3. ASSUME NEW k \in 1..(n + 1)
      PROVE  \E x \in 1..c : Spells(s, r[k], x)
    <2>1. CASE k \in 1..n
        <3>1. PICK x \in 1..(c - 1) : Spells(s, o[k], x)
            BY <2>1 DEF OutOK
        <3>2. QED
            BY <1>2, <2>1, <3>1
    <2>2. CASE k = n + 1
        BY <1>2, <2>2
    <2>3. QED
        BY <1>1, <2>1, <2>2
<1>4. ASSUME NEW k \in 1..n
      PROVE  Last(r[k].parts).start < Last(r[k + 1].parts).start
    <2>1. CASE k \in 1..(n - 1)
        <3>1. k + 1 \in 1..n
            BY <1>1, <2>1
        <3>2. QED
            BY <1>2, <2>1, <3>1 DEF OutOK
    <2>2. CASE k = n
        <3>1. PICK x \in 1..(c - 1) : Spells(s, o[k], x)
            BY DEF OutOK
        <3>2. /\ Last(o[k].parts) = Payload(s[x]) /\ Last(m.parts) = Payload(s[c])
              /\ x \in 1..Len(s) /\ x < c
            BY <1>1, <3>1 DEF Spells
        <3>3. s[x] \in Sent /\ s[c] \in Sent /\ EndOf(s[x]) <= s[c].start
            BY <1>1, <3>2, ElementOfSeq DEF StreamOK
        <3>4. /\ Payload(s[x]).start = s[x].start + s[x].enc
              /\ s[x].start + s[x].enc <= EndOf(s[x])
              /\ s[x].start \in Nat /\ s[x].enc \in Nat /\ EndOf(s[x]) \in Nat
            BY <3>3, SentIs
        <3>5. /\ Payload(s[c]).start = s[c].start + s[c].enc /\ s[c].enc >= 2
              /\ s[c].start \in Nat /\ s[c].enc \in Nat
            BY <3>3, SentIs
        <3>6. Payload(s[x]).start < Payload(s[c]).start
            BY <1>1, <3>3, <3>4, <3>5
        <3>7. QED
            BY <1>2, <2>2, <3>2, <3>6
    <2>3. QED
        BY <1>1, <2>1, <2>2
<1>5. ASSUME NEW x \in 1..c, s[x].fin
      PROVE  \E k \in 1..(n + 1) : Spells(s, r[k], x)
    <2>1. CASE x = c
        BY <1>1, <1>2, <2>1
    <2>2. CASE x \in 1..(c - 1)
        <3>1. PICK k \in 1..n : Spells(s, o[k], x)
            BY <1>5, <2>2 DEF OutOK
        <3>2. QED
            BY <1>1, <1>2, <3>1
    <2>3. QED
        BY <1>1, <2>1, <2>2
<1>6. (c + 1) - 1 = c /\ Len(r) - 1 = n
    BY <1>1, <1>2
<1>7. OutOK(s, c + 1, r)
    BY <1>2, <1>3, <1>4, <1>5, <1>6 DEF OutOK
<1>8. QED
    BY <1>7 DEF r

(* It completes none.                                                      *)
LEMMA KeepBackKeeps ==
    ASSUME NEW s, StreamOK(s), NEW c \in 1..Len(s), NEW o, OutOK(s, c, o), ~s[c].fin
    PROVE  OutOK(s, c + 1, o)
<1>1. Len(s) \in Nat /\ (c + 1) - 1 = c /\ \A x \in 1..c : x = c \/ x \in 1..(c - 1)
    BY LenProperties DEF StreamOK
<1>2. \A x \in 1..(c - 1) : x \in 1..c
    BY <1>1
<1>3. \A k \in 1..Len(o) : \E x \in 1..c : Spells(s, o[k], x)
    BY <1>2 DEF OutOK
<1>4. \A x \in 1..c : s[x].fin => \E k \in 1..Len(o) : Spells(s, o[k], x)
    BY <1>1 DEF OutOK
<1>5. QED
    BY <1>1, <1>3, <1>4 DEF OutOK

(* A message of one frame.                                                 *)
LEMMA WholeSpells ==
    ASSUME NEW s, StreamOK(s), NEW c \in 1..Len(s), s[c].fin, s[c].op # "continuation"
    PROVE  LET m == [op |-> s[c].op, parts |-> <<Payload(s[c])>>]
           IN  m \in Message /\ Spells(s, m, c)
<1> DEFINE q == <<Payload(s[c])>>
           m == [op |-> s[c].op, parts |-> q]
<1>1. Len(s) \in Nat /\ s[c] \in Sent
    BY ElementOfSeq, LenProperties DEF StreamOK
<1>2. q \in Seq(Part) /\ q # <<>> /\ Len(q) = 1 /\ q[1] = Payload(s[c]) /\ Last(q) = Payload(s[c])
    BY <1>1, SentIs DEF Last
<1>3. m.op = s[c].op /\ m.parts = q
    OBVIOUS
<1>4. m \in Message
    BY <1>1, <1>2, SentIs DEF Message
<1> HIDE DEF m, q
<1>5. c \in 1..c
    BY <1>1
<1>6. Len(m.parts) = 1
    BY <1>2, <1>3
<1>7. \A j \in 1..(Len(m.parts) - 1) : FALSE
    BY <1>6
<1>8. Spells(s, m, c)
    BY <1>2, <1>3, <1>5, <1>7 DEF Spells
<1>9. QED
    BY <1>4, <1>8 DEF m, q

(* A control frame leaves the message open that is, or none.               *)
LEMMA ControlPasses ==
    ASSUME NEW s, StreamOK(s), NEW c \in 1..Len(s), NEW p, PartialOK(s, c, p),
           IsControl(s[c])
    PROVE  PartialOK(s, c + 1, p)
<1>1. /\ Len(s) \in Nat /\ (c + 1) - 1 = c
      /\ \A x \in 1..c : x = c \/ x \in 1..(c - 1)
      /\ \A x \in 1..(c - 1) : x \in 1..c
    BY LenProperties DEF StreamOK
<1>2. CASE p = NoPartial /\ ~InMessage(s, c)
    <2>1. ASSUME InMessage(s, c + 1) PROVE FALSE
        <3>1. PICK a \in 1..c : /\ ~IsControl(s[a]) /\ ~s[a].fin
                                /\ \A y \in (a + 1)..c : IsControl(s[y])
            BY <1>1, <2>1 DEF InMessage
        <3>2. a \in 1..(c - 1) /\ \A y \in (a + 1)..(c - 1) : IsControl(s[y])
            BY <1>1, <3>1
        <3>3. QED
            BY <1>2, <3>1, <3>2 DEF InMessage
    <2>2. QED
        BY <1>2, <2>1 DEF PartialOK
<1>3. CASE Opened(s, c, p)
    <2>1. PICK a \in 1..(c - 1) :
              /\ Begins(s, a, c - 1) /\ s[a].op = p.op /\ p.parts[1] = Payload(s[a])
              /\ p.len = BeforeAt(s, c) - s[a].before
        BY <1>3 DEF Opened
    <2>2. PICK z \in 1..(c - 1) :
              /\ ~IsControl(s[z]) /\ ~s[z].fin /\ p.parts[Len(p.parts)] = Payload(s[z])
              /\ \A y \in (z + 1)..(c - 1) : IsControl(s[y])
        BY <1>3 DEF Opened
    <2>3. Begins(s, a, c)
        <3>1. s[c].op \notin {"text", "binary"}
            BY DEF IsControl
        <3>2. \A y \in (a + 1)..c : y = c \/ y \in (a + 1)..(c - 1)
            BY <1>1
        <3>3. QED
            BY <2>1, <3>1, <3>2 DEF Begins
    <2>4. \A y \in (z + 1)..c : IsControl(s[y])
        BY <1>1, <2>2
    <2>5. BeforeAt(s, c + 1) = BeforeAt(s, c)
        <3>1. BeforeAt(s, c) = s[c].before /\ s[c] \in Sent
            BY ElementOfSeq DEF BeforeAt, StreamOK
        <3>2. BeforeAt(s, c + 1) = s[c].before + 0
            BY DEF StreamOK
        <3>3. QED
            BY <3>1, <3>2, SentIs
    <2>6. Opened(s, c + 1, p)
        BY <1>1, <1>3, <2>1, <2>2, <2>3, <2>4, <2>5 DEF Opened
    <2>7. QED
        BY <2>6 DEF PartialOK
<1>4. QED
    BY <1>2, <1>3 DEF PartialOK

(* A data frame with the last bit ends its message: none is open behind.   *)
LEMMA LastFrameCloses ==
    ASSUME NEW s, StreamOK(s), NEW c \in 1..Len(s), ~IsControl(s[c]), s[c].fin
    PROVE  PartialOK(s, c + 1, NoPartial)
<1>1. Len(s) \in Nat /\ (c + 1) - 1 = c
    BY LenProperties DEF StreamOK
<1>2. ASSUME InMessage(s, c + 1) PROVE FALSE
    <2>1. PICK a \in 1..c : /\ ~IsControl(s[a]) /\ ~s[a].fin
                            /\ \A y \in (a + 1)..c : IsControl(s[y])
        BY <1>1, <1>2 DEF InMessage
    <2>2. a = c \/ c \in (a + 1)..c
        BY <1>1
    <2>3. QED
        BY <2>1, <2>2
<1>3. QED
    BY <1>2 DEF PartialOK

(* The first fragment of a message opens it.                               *)
LEMMA FirstFragmentOpens ==
    ASSUME NEW s, StreamOK(s), NEW c \in 1..Len(s), s[c].op \in {"text", "binary"},
           ~s[c].fin, s[c].len <= MaxMessage
    PROVE  Opened(s, c + 1, [op |-> s[c].op, parts |-> <<Payload(s[c])>>, len |-> s[c].len])
<1> DEFINE q == <<Payload(s[c])>>
           p == [op |-> s[c].op, parts |-> q, len |-> s[c].len]
<1>1. Len(s) \in Nat /\ (c + 1) - 1 = c /\ s[c] \in Sent /\ c \in 1..c
    BY ElementOfSeq, LenProperties DEF StreamOK
<1>2. q \in Seq(Part) /\ q # <<>> /\ Len(q) = 1 /\ q[1] = Payload(s[c])
    BY <1>1, SentIs
<1>3. p.op = s[c].op /\ p.parts = q /\ p.len = s[c].len
    OBVIOUS
<1> HIDE DEF p, q
<1>4. ~IsControl(s[c])
    BY DEF IsControl
<1>5. s[c].len \in Nat /\ s[c].before \in Nat
    BY <1>1, SentIs
<1>6. BeforeAt(s, c + 1) = s[c].before + s[c].len
    BY <1>4 DEF StreamOK
<1>7. p.len = BeforeAt(s, c + 1) - s[c].before
    BY <1>3, <1>5, <1>6
<1>8. \A y \in (c + 1)..c : FALSE
    BY <1>1
<1>9. Begins(s, c, c)
    BY <1>8 DEF Begins
<1>10. Len(p.parts) = 1
    BY <1>2, <1>3
<1>11. \A j \in 1..(Len(p.parts) - 1) : FALSE
    BY <1>10
<1>12. \E a \in 1..((c + 1) - 1) :
          /\ Begins(s, a, (c + 1) - 1) /\ s[a].op = p.op /\ p.parts[1] = Payload(s[a])
          /\ p.len = BeforeAt(s, c + 1) - s[a].before
    BY <1>1, <1>2, <1>3, <1>7, <1>9
<1>13. \E z \in 1..((c + 1) - 1) :
          /\ ~IsControl(s[z]) /\ ~s[z].fin /\ p.parts[Len(p.parts)] = Payload(s[z])
          /\ \A y \in (z + 1)..((c + 1) - 1) : IsControl(s[y])
    BY <1>1, <1>2, <1>3, <1>4, <1>8, <1>10
<1>14. Opened(s, c + 1, p)
    BY <1>2, <1>3, <1>5, <1>11, <1>12, <1>13 DEF Opened
<1>15. QED
    BY <1>14 DEF p, q

(* q are the parts of message p and then frame c.                          *)
Continued(s, c, p, q) ==
    /\ q \in Seq(Part) /\ q # <<>> /\ q[1] = p.parts[1]
    /\ q[Len(q)] = Payload(s[c]) /\ Last(q) = Payload(s[c])
    /\ \A j \in 1..(Len(q) - 1) : Follows(s, q[j], q[j + 1])

(* So are the parts with a continuation appended.                          *)
LEMMA PartsContinue ==
    ASSUME NEW s, StreamOK(s), NEW c \in 1..Len(s), NEW p, Opened(s, c, p),
           s[c].op = "continuation", NEW q, q = Append(p.parts, Payload(s[c]))
    PROVE  Continued(s, c, p, q)
<1> DEFINE n == Len(p.parts)
<1>1. Len(s) \in Nat /\ s[c] \in Sent /\ Payload(s[c]) \in Part
    BY ElementOfSeq, LenProperties, SentIs DEF StreamOK
<1>2. p.parts \in Seq(Part) /\ n \in Nat /\ n >= 1
    BY LastIs DEF Opened
<1>3. /\ q \in Seq(Part) /\ Len(q) = n + 1 /\ q[n + 1] = Payload(s[c])
      /\ \A j \in 1..n : q[j] = p.parts[j]
    BY <1>1, <1>2, AppendProperties
<1>4. q # <<>> /\ q[1] = p.parts[1] /\ Len(q) - 1 = n /\ Last(q) = q[n + 1]
    BY <1>2, <1>3, EmptySeq DEF Last
<1>5. PICK z \in 1..(c - 1) :
          /\ ~IsControl(s[z]) /\ ~s[z].fin /\ p.parts[n] = Payload(s[z])
          /\ \A y \in (z + 1)..(c - 1) : IsControl(s[y])
    BY DEF Opened
<1>6. \A j \in 1..(n - 1) : Follows(s, p.parts[j], p.parts[j + 1])
    BY DEF Opened
<1> HIDE DEF n
<1>7. z \in 1..Len(s) /\ z < c
    BY <1>1
<1>8. Follows(s, p.parts[n], Payload(s[c]))
    BY <1>5, <1>7 DEF Follows
<1>9. ASSUME NEW j \in 1..n
      PROVE  Follows(s, q[j], q[j + 1])
    <2>1. CASE j = n
        BY <1>3, <1>8, <2>1
    <2>2. CASE j \in 1..(n - 1)
        <3>1. j + 1 \in 1..n
            BY <1>2, <2>2
        <3>2. QED
            BY <1>3, <1>6, <2>2, <3>1
    <2>3. j = n \/ j \in 1..(n - 1)
        BY <1>1, <1>2
    <2>4. QED
        BY <2>1, <2>2, <2>3
<1>10. QED
    BY <1>3, <1>4, <1>9 DEF Continued

(* A last continuation completes the message.                              *)
LEMMA ContinuationCompletes ==
    ASSUME NEW s, StreamOK(s), NEW c \in 1..Len(s), NEW p, Opened(s, c, p),
           s[c].op = "continuation", s[c].fin
    PROVE  LET m == [op |-> p.op, parts |-> Append(p.parts, Payload(s[c]))]
           IN  m \in Message /\ Spells(s, m, c)
<1> DEFINE q == Append(p.parts, Payload(s[c]))
           m == [op |-> p.op, parts |-> q]
<1>1. q = Append(p.parts, Payload(s[c]))
    OBVIOUS
<1> HIDE DEF q
<1>2. Continued(s, c, p, q)
    BY <1>1, PartsContinue, Zenon
<1>3. /\ q \in Seq(Part) /\ q # <<>> /\ q[1] = p.parts[1] /\ Last(q) = Payload(s[c])
      /\ \A j \in 1..(Len(q) - 1) : Follows(s, q[j], q[j + 1])
    BY <1>2 DEF Continued
<1>4. m.op = p.op /\ m.parts = q
    OBVIOUS
<1>5. p.op \in {"text", "binary"}
    BY DEF Opened
<1>6. m \in Message
    BY <1>3, <1>5 DEF Message, Opcodes
<1> HIDE DEF m
<1>7. PICK a \in 1..(c - 1) : s[a].op = p.op /\ p.parts[1] = Payload(s[a])
    BY DEF Opened
<1>8. Len(s) \in Nat
    BY LenProperties DEF StreamOK
<1>9. a \in 1..c
    BY <1>8
<1>10. Spells(s, m, c)
    BY <1>3, <1>4, <1>5, <1>7, <1>9 DEF Spells
<1>11. QED
    BY <1>6, <1>10 DEF m, q

(* Another continuation leaves it open, longer by its payload.             *)
LEMMA ContinuationExtends ==
    ASSUME NEW s, StreamOK(s), NEW c \in 1..Len(s), NEW p, Opened(s, c, p),
           s[c].op = "continuation", ~s[c].fin, p.len + s[c].len <= MaxMessage
    PROVE  Opened(s, c + 1, [op |-> p.op, parts |-> Append(p.parts, Payload(s[c])),
                             len |-> p.len + s[c].len])
<1> DEFINE q == Append(p.parts, Payload(s[c]))
           r == [op |-> p.op, parts |-> q, len |-> p.len + s[c].len]
<1>1. q = Append(p.parts, Payload(s[c]))
    OBVIOUS
<1> HIDE DEF q
<1>2. Continued(s, c, p, q)
    BY <1>1, PartsContinue, Zenon
<1>3. /\ q \in Seq(Part) /\ q # <<>> /\ q[1] = p.parts[1] /\ q[Len(q)] = Payload(s[c])
      /\ \A j \in 1..(Len(q) - 1) : Follows(s, q[j], q[j + 1])
    BY <1>2 DEF Continued
<1>4. r.op = p.op /\ r.parts = q /\ r.len = p.len + s[c].len
    OBVIOUS
<1> HIDE DEF r
<1>5. p.op \in {"text", "binary"} /\ p.len \in Nat
    BY DEF Opened
<1>6. Len(s) \in Nat /\ s[c] \in Sent /\ (c + 1) - 1 = c
    BY ElementOfSeq, LenProperties DEF StreamOK
<1>7. s[c].before \in Nat /\ s[c].len \in Nat
    BY <1>6, SentIs
<1>8. ~IsControl(s[c])
    BY DEF IsControl
<1>9. BeforeAt(s, c) = s[c].before /\ BeforeAt(s, c + 1) = s[c].before + s[c].len
    BY <1>6, <1>8 DEF StreamOK, BeforeAt
<1>10. PICK a \in 1..(c - 1) :
          /\ Begins(s, a, c - 1) /\ s[a].op = p.op /\ p.parts[1] = Payload(s[a])
          /\ p.len = BeforeAt(s, c) - s[a].before
    BY DEF Opened
<1>11. a \in 1..c /\ a \in 1..Len(s) /\ \A y \in (a + 1)..c : y = c \/ y \in (a + 1)..(c - 1)
    BY <1>6
<1>12. s[a].before \in Nat
    BY <1>11, ElementOfSeq, SentIs DEF StreamOK
<1>13. Begins(s, a, c)
    BY <1>10, <1>11 DEF Begins
<1>14. r.len = BeforeAt(s, c + 1) - s[a].before
    BY <1>4, <1>5, <1>7, <1>9, <1>10, <1>12
<1>15. r.len \in Nat /\ r.len <= MaxMessage
    BY <1>4, <1>5, <1>7
<1>16. \E d \in 1..((c + 1) - 1) :
          /\ Begins(s, d, (c + 1) - 1) /\ s[d].op = r.op /\ r.parts[1] = Payload(s[d])
          /\ r.len = BeforeAt(s, c + 1) - s[d].before
    BY <1>3, <1>4, <1>6, <1>10, <1>11, <1>13, <1>14
<1>17. c \in 1..c /\ \A y \in (c + 1)..c : FALSE
    BY <1>6
<1>18. \E z \in 1..((c + 1) - 1) :
          /\ ~IsControl(s[z]) /\ ~s[z].fin /\ r.parts[Len(r.parts)] = Payload(s[z])
          /\ \A y \in (z + 1)..((c + 1) - 1) : IsControl(s[y])
    BY <1>3, <1>4, <1>6, <1>8, <1>17
<1>19. Opened(s, c + 1, r)
    BY <1>3, <1>4, <1>5, <1>15, <1>16, <1>18 DEF Opened
<1>20. QED
    BY <1>19 DEF r, q

-----------------------------------------------------------------------------
(* What the reader refuses is what is illegal.                             *)

(* The limits are numbers.                                                 *)
LEMMA LimitsAreNat ==
    /\ MaxHandshake \in Nat /\ MaxHandshake > 0 /\ Chunk \in Nat /\ Chunk > 0
    /\ MaxFrame \in Nat /\ MaxMessage \in Nat /\ MaxControl \in Nat /\ MaxScript \in Nat
    BY ReaderAssumption

(* partial is there exactly while a message is open.                       *)
LEMMA PartialTells ==
    ASSUME NEW s, NEW c, NEW p, PartialOK(s, c, p)
    PROVE  /\ p = NoPartial <=> ~InMessage(s, c)
           /\ p # NoPartial => Opened(s, c, p)
<1>1. CASE p = NoPartial /\ ~InMessage(s, c)
    BY <1>1
<1>2. CASE Opened(s, c, p)
    <2>1. p # NoPartial
        BY <1>2 DEF Opened, NoPartial
    <2>2. InMessage(s, c)
        BY <1>2 DEF Opened, InMessage
    <2>3. QED
        BY <1>2, <2>1, <2>2
<1>3. QED
    BY <1>1, <1>2 DEF PartialOK

(* Within the limit for messages, the protocol's way.                      *)
Fits(s, c) ==
    \A a \in 1..c : Begins(s, a, c) => s[c].before + s[c].len - s[a].before <= MaxMessage

(* A first fragment is measured alone.                                     *)
LEMMA FirstIsMeasured ==
    ASSUME NEW s, StreamOK(s), NEW c \in 1..Len(s), s[c].op \in {"text", "binary"}
    PROVE  Fits(s, c) <=> s[c].len <= MaxMessage
<1>1. Len(s) \in Nat /\ s[c] \in Sent /\ c \in 1..c
    BY ElementOfSeq, LenProperties DEF StreamOK
<1>2. s[c].before \in Nat /\ s[c].len \in Nat
    BY <1>1, SentIs
<1>3. \A y \in (c + 1)..c : FALSE
    BY <1>1
<1>4. Begins(s, c, c)
    BY <1>3 DEF Begins
<1>5. ASSUME NEW a \in 1..c, Begins(s, a, c)
      PROVE  a = c
    <2>1. a = c \/ c \in (a + 1)..c
        BY <1>1
    <2>2. QED
        BY <1>5, <2>1 DEF Begins
<1>6. s[c].before + s[c].len - s[c].before = s[c].len
    BY <1>2
<1>7. QED
    BY <1>1, <1>4, <1>5, <1>6 DEF Fits

(* A continuation is measured with what is held of its message.            *)
LEMMA ContinuationIsMeasured ==
    ASSUME NEW s, StreamOK(s), NEW c \in 1..Len(s), NEW p, Opened(s, c, p),
           s[c].op = "continuation"
    PROVE  Fits(s, c) <=> p.len + s[c].len <= MaxMessage
<1>1. Len(s) \in Nat /\ s[c] \in Sent
    BY ElementOfSeq, LenProperties DEF StreamOK
<1>2. PICK d \in 1..(c - 1) : Begins(s, d, c - 1) /\ p.len = BeforeAt(s, c) - s[d].before
    BY DEF Opened
<1>3. /\ d \in 1..c /\ d \in 1..Len(s)
      /\ \A y \in (d + 1)..c : y = c \/ y \in (d + 1)..(c - 1)
    BY <1>1
<1>4. Begins(s, d, c)
    BY <1>2, <1>3 DEF Begins
<1>5. ASSUME NEW a \in 1..c, Begins(s, a, c)
      PROVE  a = d
    <2>1. a = d \/ a = c \/ d \in (a + 1)..c \/ a \in (d + 1)..(c - 1)
        BY <1>1
    <2>2. s[a].op \in {"text", "binary"} /\ s[d].op \in {"text", "binary"}
        BY <1>4, <1>5 DEF Begins
    <2>3. /\ d \notin (a + 1)..c
          /\ a \notin (d + 1)..(c - 1)
        BY <1>2, <1>5, <2>2 DEF Begins
    <2>4. QED
        BY <2>1, <2>2, <2>3
<1>6. s[c].before \in Nat /\ s[c].len \in Nat /\ s[d].before \in Nat /\ p.len \in Nat
    <2>1. s[d] \in Sent
        BY <1>3, ElementOfSeq DEF StreamOK
    <2>2. QED
        BY <1>1, <2>1, SentIs DEF Opened
<1>7. p.len = s[c].before - s[d].before
    BY <1>1, <1>2 DEF BeforeAt
<1>8. s[c].before + s[c].len - s[d].before = p.len + s[c].len
    BY <1>6, <1>7
<1>9. QED
    BY <1>3, <1>4, <1>5, <1>8 DEF Fits

(* A header is refused exactly if its frame is illegal, but for a close of *)
(* one byte, which dispatch refuses.                                       *)
LEMMA RefusedTells ==
    ASSUME NEW s, StreamOK(s), NEW c \in 1..Len(s), PartialOK(s, c, partial)
    PROVE  /\ Refused(s[c]) => ~Legal(s, c)
           /\ ~Refused(s[c]) /\ ~(s[c].op = "close" /\ s[c].len = 1) => Legal(s, c)
<1> DEFINE f == s[c]
<1>1. s[c] \in Sent
    BY ElementOfSeq DEF StreamOK
<1>2. f.op \in Opcodes /\ f.len \in Nat /\ f.fin \in BOOLEAN
    BY <1>1, SentIs
<1>3. /\ partial = NoPartial <=> ~InMessage(s, c)
      /\ partial # NoPartial => Opened(s, c, partial)
    BY PartialTells
<1>4. CASE f.odd \/ f.op = "reserved"
    BY <1>4 DEF Refused, RefusedIf, Legal
<1>5. CASE ~f.odd /\ IsControl(f)
    <2>1. f.op \in {"close", "ping", "pong"}
        BY <1>5 DEF IsControl
    <2>2. Refused(f) <=> ~f.fin \/ f.len > MaxControl
        BY <1>5, <2>1 DEF Refused, RefusedIf
    <2>3. Legal(s, c) <=> f.fin /\ f.len <= MaxControl /\ (f.op = "close" => f.len # 1)
        BY <1>5, <2>1 DEF Legal
    <2>4. QED
        BY <1>2, <2>2, <2>3, LimitsAreNat
<1>6. CASE ~f.odd /\ f.op = "continuation"
    <2>1. ~IsControl(f)
        BY <1>6 DEF IsControl
    <2>2. Refused(f) <=>
              partial = NoPartial \/ partial.len + f.len > MaxMessage \/ f.len > MaxFrame
        BY <1>6, <2>1 DEF Refused, RefusedIf
    <2>3. Legal(s, c) <=> InMessage(s, c) /\ f.len <= MaxFrame /\ Fits(s, c)
        BY <1>6, <2>1 DEF Legal, Fits
    <2>4. CASE partial = NoPartial
        BY <1>3, <2>2, <2>3, <2>4
    <2>5. CASE partial # NoPartial
        <3>1. Opened(s, c, partial) /\ InMessage(s, c)
            BY <1>3, <2>5
        <3>2. Fits(s, c) <=> partial.len + f.len <= MaxMessage
            BY <1>6, <3>1, ContinuationIsMeasured
        <3>3. partial.len \in Nat
            BY <3>1 DEF Opened
        <3>4. QED
            BY <1>2, <2>2, <2>3, <2>5, <3>1, <3>2, <3>3, LimitsAreNat
    <2>6. QED
        BY <2>4, <2>5
<1>7. CASE ~f.odd /\ f.op \in {"text", "binary"}
    <2>1. ~IsControl(f)
        BY <1>7 DEF IsControl
    <2>2. Refused(f) <=>
              partial # NoPartial \/ f.len > MaxFrame \/ (~f.fin /\ f.len > MaxMessage)
        BY <1>7, <2>1 DEF Refused, RefusedIf
    <2>3. Legal(s, c) <=>
              ~InMessage(s, c) /\ f.len <= MaxFrame /\ (~f.fin => Fits(s, c))
        BY <1>7, <2>1 DEF Legal, Fits
    <2>4. Fits(s, c) <=> f.len <= MaxMessage
        BY <1>7, FirstIsMeasured
    <2>5. QED
        BY <1>2, <1>3, <1>7, <2>2, <2>3, <2>4, LimitsAreNat
<1>8. QED
    BY <1>2, <1>4, <1>5, <1>6, <1>7 DEF Opcodes, IsControl

-----------------------------------------------------------------------------
(* Where the reader is.                                                    *)

(* h bytes of the header of frame c are read.                              *)
AtHeader(s, c, a, h) ==
    /\ a = StartAt(s, c) + h
    /\ h > 0 => c <= Len(s) /\ h < s[c].enc

(* Frame f as incoming holds it, k bytes of its payload read.              *)
Arriving(f, k) ==
    [op |-> f.op, fin |-> f.fin, start |-> f.start + f.enc, len |-> f.len, filled |-> k]

(* Some of the payload of frame c is read.                                 *)
AtPayload(s, c, a, i) ==
    /\ c <= Len(s)
    /\ \E k \in 0..s[c].len : i = Arriving(s[c], k) /\ a = s[c].start + s[c].enc + k

(* Frame c was refused.                                                    *)
AtFault(s, c, a) ==
    /\ c <= Len(s) /\ s[c].start < a /\ a <= EndOf(s[c])
    /\ s[c].op # "close" => ~Legal(s, c)

Position(c) ==
    \/ /\ incoming = NoFrame /\ status # "refused"
       /\ AtHeader(script, c, at, header_len)
    \/ /\ incoming # NoFrame /\ status # "refused" /\ header_len = 0
       /\ AtPayload(script, c, at, incoming) /\ ~Refused(script[c])
    \/ /\ incoming = NoFrame /\ status = "refused"
       /\ \/ at = 0 /\ (~Upgraded(head) \/ head.size > MaxHandshake)
          \/ AtFault(script, c, at)

(* The reader is in frame c.                                               *)
InFrame(c) ==
    /\ Position(c) /\ PartialOK(script, c, partial)
    /\ OutOK(script, c, out) /\ LegalOK(script, c)

HandshakeInv ==
    /\ head \in Responses /\ buffered \in Nat /\ buffered < MaxHandshake + Chunk
    /\ status = "upgrading" =>
          /\ at = 0 /\ header_len = 0 /\ incoming = NoFrame
          /\ buffered <= head.size + EndOfStream(script)
    /\ status = "open" => Upgraded(head) /\ at + buffered <= EndOfStream(script)
    /\ status = "upgrading" \/ ~Upgraded(head) => at = 0 /\ out = <<>>

ReaderInv ==
    /\ StreamOK(script) /\ Len(script) <= MaxScript
    /\ at \in Nat /\ header_len \in 0..10
    /\ status \in {"upgrading", "open", "refused", "broken"}
    /\ HandshakeInv
    /\ \E c \in 1..(Len(script) + 1) : InFrame(c)

(* How far the stream goes.                                                *)
LEMMA StreamReaches ==
    ASSUME NEW s, StreamOK(s)
    PROVE  /\ Len(s) \in Nat /\ EndOfStream(s) \in Nat
           /\ StartAt(s, Len(s) + 1) = EndOfStream(s)
           /\ \A c \in 1..Len(s) : s[c] \in Sent /\ StartAt(s, c) = s[c].start
<1>1. Len(s) \in Nat /\ \A c \in 1..Len(s) : s[c] \in Sent
    BY ElementOfSeq, LenProperties DEF StreamOK
<1>2. StartAt(s, Len(s) + 1) = EndOfStream(s) /\ \A c \in 1..Len(s) : StartAt(s, c) = s[c].start
    BY <1>1 DEF StartAt
<1>3. EndOfStream(s) \in Nat
    <2>1. CASE s = <<>>
        BY <2>1 DEF EndOfStream
    <2>2. CASE s # <<>>
        <3>1. Last(s) \in Sent
            BY <2>2, LastIs DEF StreamOK
        <3>2. QED
            BY <2>2, <3>1, SentIs DEF EndOfStream
    <2>3. QED
        BY <2>1, <2>2
<1>4. QED
    BY <1>1, <1>2, <1>3

(* The lesser of two numbers.                                              *)
LEMMA MinIs ==
    ASSUME NEW a \in Nat, NEW b \in Nat
    PROVE  Min({a, b}) \in Nat /\ Min({a, b}) <= a /\ Min({a, b}) <= b
<1>1. \E x \in {a, b} : \A y \in {a, b} : x <= y
    <2>1. CASE a <= b
        BY <2>1
    <2>2. CASE b <= a
        BY <2>2
    <2>3. QED
        BY <2>1, <2>2
<1>2. Min({a, b}) \in {a, b} /\ \A y \in {a, b} : Min({a, b}) <= y
    BY <1>1 DEF Min
<1>3. QED
    BY <1>2

(* What fill takes is there, left over or in the stream.                   *)
LEMMA FillTakes ==
    ASSUME at \in Nat, buffered \in Nat, NEW e \in Nat, e = EndOfStream(script),
           at + buffered <= e, NEW wanted \in Int, NEW n, Fill(n, wanted)
    PROVE  /\ n \in Nat /\ n >= 1 /\ n <= wanted /\ at' = at + n /\ at' \in Nat
           /\ at' <= e /\ buffered' \in Nat /\ buffered' <= buffered /\ at' + buffered' <= e
<1>1. n \in Nat /\ n >= 1 /\ n <= wanted /\ wanted \in Nat /\ at' = at + n
    BY DEF Fill
<1>2. CASE buffered > 0
    <2>1. n = Min({buffered, wanted}) /\ buffered' = buffered - n
        BY <1>2 DEF Fill
    <2>2. n <= buffered
        BY <1>1, <2>1, MinIs
    <2>3. QED
        BY <1>1, <2>1, <2>2
<1>3. CASE ~(buffered > 0)
    <2>1. at + n <= e /\ buffered' = buffered
        BY <1>3 DEF Fill
    <2>2. QED
        BY <1>1, <1>3, <2>1
<1>4. QED
    BY <1>2, <1>3

(* The header the reader decodes is the one it is in.                      *)
LEMMA DecodesTheFrame ==
    ASSUME StreamOK(script), at \in Nat, header_len \in Nat, NEW c \in 1..Len(script),
           at = script[c].start + header_len
    PROVE  Decoded = script[c]
<1> DEFINE here == {i \in 1..Len(script) : script[i].start = at - header_len}
<1>1. Len(script) \in Nat /\ script[c] \in Sent
    BY StreamReaches
<1>2. c \in here
    BY <1>1, SentIs
<1>3. ASSUME NEW i \in here
      PROVE  i = c
    <2>1. i \in 1..Len(script) /\ script[i] \in Sent
        BY <1>3, StreamReaches
    <2>2. script[i].start = script[c].start
        BY <1>1, <1>3, SentIs
    <2>3. script[i].start < EndOf(script[i]) /\ script[c].start < EndOf(script[c])
        BY <1>1, <2>1, SentIs
    <2>4. /\ script[i].start \in Nat /\ script[c].start \in Nat
          /\ EndOf(script[i]) \in Nat /\ EndOf(script[c]) \in Nat
        BY <1>1, <2>1, SentIs
    <2>5. ~(i < c)
        <3>1. i < c => EndOf(script[i]) <= script[c].start
            BY <2>1 DEF StreamOK
        <3>2. QED
            BY <1>1, <2>2, <2>3, <2>4, <3>1
    <2>6. ~(c < i)
        <3>1. c < i => EndOf(script[c]) <= script[i].start
            BY <2>1 DEF StreamOK
        <3>2. QED
            BY <1>1, <2>2, <2>3, <2>4, <3>1
    <2>7. QED
        BY <1>1, <2>1, <2>5, <2>6
<1>4. here # {} /\ (CHOOSE i \in here : TRUE) = c
    BY <1>2, <1>3
<1>5. QED
    BY <1>4 DEF Decoded

-----------------------------------------------------------------------------
(* Every action keeps the invariant.                                       *)

(* Nothing happens.                                                        *)
LEMMA StutterKeeps ==
    ASSUME ReaderInv, UNCHANGED vars
    PROVE  ReaderInv'
<1>1. /\ head' = head /\ buffered' = buffered /\ script' = script /\ at' = at
      /\ header_len' = header_len /\ incoming' = incoming /\ partial' = partial
      /\ out' = out /\ status' = status
    BY DEF vars, upgrade
<1>2. \A c : InFrame(c) => InFrame(c)'
    BY <1>1 DEF InFrame, Position, Refused, RefusedIf
<1>3. QED
    BY <1>1, <1>2 DEF ReaderInv, HandshakeInv

(* The first state.                                                        *)
LEMMA InitReaderInv == Init => ReaderInv
<1> SUFFICES ASSUME Init PROVE ReaderInv
    OBVIOUS
<1>1. /\ script = <<>> /\ at = 0 /\ header_len = 0 /\ incoming = NoFrame
      /\ partial = NoPartial /\ out = <<>> /\ head \in Responses /\ buffered = 0
      /\ status = "upgrading"
    BY DEF Init
<1>2. Len(script) = 0 /\ Len(out) = 0
    BY <1>1
<1>3. \A i \in 1..Len(script) : FALSE
    BY <1>2
<1>4. StartAt(script, 1) = 0 /\ EndOfStream(script) = 0
    BY <1>1, <1>2 DEF StartAt, EndOfStream
<1>5. StreamOK(script)
    BY <1>1, <1>3, <1>4 DEF StreamOK
<1>6. 1 \in 1..(Len(script) + 1) /\ \A x \in 1..(1 - 1) : FALSE
    BY <1>2
<1>7. PartialOK(script, 1, partial) /\ LegalOK(script, 1)
    BY <1>1, <1>6 DEF PartialOK, LegalOK, InMessage
<1>8. OutOK(script, 1, out)
    <2>1. \A k \in 1..Len(out) : FALSE
        BY <1>2
    <2>2. \A k \in 1..(Len(out) - 1) : FALSE
        BY <1>2
    <2>3. out \in Seq(Message)
        BY <1>1
    <2>4. QED
        BY <1>6, <2>1, <2>2, <2>3 DEF OutOK
<1>9. Position(1)
    BY <1>1, <1>4 DEF Position, AtHeader
<1>10. HandshakeInv
    <2>1. head.size \in Nat
        BY <1>1, ReaderAssumption DEF ResponseType
    <2>2. QED
        BY <1>1, <1>4, <2>1, LimitsAreNat DEF HandshakeInv
<1>11. QED
    BY <1>1, <1>2, <1>5, <1>6, <1>7, <1>8, <1>9, <1>10, LimitsAreNat DEF ReaderInv, InFrame

(* The server begins another frame.                                        *)
LEMMA ServerSendsKeeps ==
    ASSUME ReaderInv, NEW f \in Frames, ServerSends(f)
    PROVE  ReaderInv'
<1>1. /\ script' = Append(script, Placed(f, script)) /\ Len(script) < MaxScript
      /\ head' = head /\ buffered' = buffered /\ at' = at /\ header_len' = header_len
      /\ incoming' = incoming /\ partial' = partial /\ out' = out /\ status' = status
      /\ status \in {"open", "upgrading"} /\ (status = "open" => incoming = NoFrame)
    BY DEF ServerSends, upgrade
<1>2. /\ StreamOK(script) /\ at \in Nat /\ header_len \in 0..10 /\ HandshakeInv
    BY DEF ReaderInv
<1>3. PICK c \in 1..(Len(script) + 1) : InFrame(c)
    BY DEF ReaderInv
<1>4. /\ StreamOK(script') /\ Len(script') = Len(script) + 1 /\ Len(script) \in Nat
      /\ \A i \in 1..Len(script) : script'[i] = script[i]
      /\ StartAt(script', c) = StartAt(script, c) /\ BeforeAt(script', c) = BeforeAt(script, c)
      /\ EndOfStream(script) <= EndOfStream(script')
    BY <1>1, <1>2, StreamGrows
<1>5. Extends(script, script')
    BY <1>4 DEF Extends
<1>6. /\ PartialOK(script', c, partial) /\ OutOK(script', c, out) /\ LegalOK(script', c)
    BY <1>3, <1>4, <1>5, BehindGrows DEF InFrame
<1>7. incoming = NoFrame /\ status # "refused"
    BY <1>1, <1>2 DEF HandshakeInv
<1>8. AtHeader(script, c, at, header_len)
    BY <1>3, <1>7 DEF InFrame, Position
<1>9. AtHeader(script', c, at, header_len)
    <2>1. header_len > 0 => c <= Len(script) /\ header_len < script[c].enc
        BY <1>8 DEF AtHeader
    <2>2. header_len > 0 => c <= Len(script') /\ header_len < script'[c].enc
        BY <1>4, <2>1
    <2>3. QED
        BY <1>4, <1>8, <2>2 DEF AtHeader
<1>10. InFrame(c)'
    BY <1>1, <1>6, <1>7, <1>9 DEF InFrame, Position
<1>11. HandshakeInv'
    <2>1. EndOfStream(script) \in Nat /\ EndOfStream(script') \in Nat
        BY <1>2, <1>4, StreamReaches
    <2>2. head.size \in Nat /\ buffered \in Nat
        BY <1>2, ReaderAssumption DEF HandshakeInv, ResponseType
    <2>3. QED
        BY <1>1, <1>2, <1>4, <2>1, <2>2 DEF HandshakeInv
<1>12. c \in 1..(Len(script') + 1) /\ Len(script') <= MaxScript
    BY <1>1, <1>4, LimitsAreNat
<1>13. QED
    BY <1>1, <1>2, <1>4, <1>10, <1>11, <1>12 DEF ReaderInv

(* More of the answer arrives.                                             *)
LEMMA HandshakeReadKeeps ==
    ASSUME ReaderInv, NEW n, HandshakeRead(n)
    PROVE  ReaderInv'
<1>1. /\ head' = head /\ script' = script /\ at' = at /\ header_len' = header_len
      /\ incoming' = incoming /\ partial' = partial /\ out' = out /\ status' = status
      /\ status = "upgrading" /\ buffered < MaxHandshake /\ n \in 1..Chunk
      /\ buffered' = buffered + n /\ buffered + n <= head.size + EndOfStream(script)
    BY DEF HandshakeRead
<1>2. \A c : InFrame(c) => InFrame(c)'
    BY <1>1 DEF InFrame, Position, Refused, RefusedIf
<1>3. HandshakeInv /\ buffered \in Nat
    BY DEF ReaderInv, HandshakeInv
<1>4. buffered' \in Nat /\ buffered' < MaxHandshake + Chunk
    BY <1>1, <1>3, LimitsAreNat
<1>5. HandshakeInv'
    BY <1>1, <1>3, <1>4 DEF HandshakeInv
<1>6. QED
    BY <1>1, <1>2, <1>5 DEF ReaderInv

(* The answer is given up, or the stream fails.                            *)
LEMMA GivesUpKeeps ==
    ASSUME ReaderInv, HandshakeTooLarge \/ ReadFails
    PROVE  ReaderInv'
<1>1. /\ head' = head /\ buffered' = buffered /\ script' = script /\ at' = at
      /\ header_len' = header_len /\ incoming' = incoming /\ partial' = partial /\ out' = out
    BY DEF HandshakeTooLarge, ReadFails, upgrade
<1>2. HandshakeInv /\ buffered \in Nat /\ head \in Responses
    BY DEF ReaderInv, HandshakeInv
<1>3. ASSUME NEW c, InFrame(c) PROVE InFrame(c)'
    <2>1. CASE ReadFails
        <3>1. status # "refused" /\ status' = "broken"
            BY <2>1 DEF ReadFails
        <3>2. QED
            BY <1>1, <1>3, <3>1 DEF InFrame, Position, Refused, RefusedIf
    <2>2. CASE HandshakeTooLarge
        <3>1. /\ status = "upgrading" /\ status' = "refused"
              /\ buffered < head.size /\ buffered >= MaxHandshake
            BY <2>2 DEF HandshakeTooLarge
        <3>2. head.size \in Nat
            BY <1>2, ReaderAssumption DEF ResponseType
        <3>3. head.size > MaxHandshake
            BY <1>2, <3>1, <3>2, LimitsAreNat
        <3>4. at = 0 /\ incoming = NoFrame
            BY <1>2, <3>1 DEF HandshakeInv
        <3>5. QED
            BY <1>1, <1>3, <3>1, <3>3, <3>4 DEF InFrame, Position
    <2>3. QED
        BY <2>1, <2>2
<1>4. status' \in {"refused", "broken"}
    BY DEF HandshakeTooLarge, ReadFails
<1>5. HandshakeInv'
    BY <1>1, <1>2, <1>4 DEF HandshakeInv
<1>6. QED
    BY <1>1, <1>3, <1>4, <1>5 DEF ReaderInv

(* The answer is whole.                                                    *)
LEMMA HandshakeDoneKeeps ==
    ASSUME ReaderInv, HandshakeDone
    PROVE  ReaderInv'
<1>1. /\ head' = head /\ script' = script /\ at' = at /\ header_len' = header_len
      /\ incoming' = incoming /\ partial' = partial /\ out' = out
      /\ status = "upgrading" /\ buffered >= head.size /\ buffered' = buffered - head.size
      /\ Upgraded(head) => status' = "open"
      /\ ~Upgraded(head) => status' = "refused"
    BY DEF HandshakeDone
<1>2. HandshakeInv /\ StreamOK(script)
    BY DEF ReaderInv
<1>3. /\ buffered \in Nat /\ buffered < MaxHandshake + Chunk /\ head \in Responses
      /\ at = 0 /\ header_len = 0 /\ incoming = NoFrame /\ out = <<>>
      /\ buffered <= head.size + EndOfStream(script)
    BY <1>1, <1>2 DEF HandshakeInv
<1>4. head.size \in Nat /\ EndOfStream(script) \in Nat
    BY <1>2, <1>3, StreamReaches, ReaderAssumption DEF ResponseType
<1>5. /\ buffered' \in Nat /\ buffered' < MaxHandshake + Chunk
      /\ at + buffered' <= EndOfStream(script)
    BY <1>1, <1>3, <1>4, LimitsAreNat
<1>6. status' \in {"open", "refused"} /\ (status' = "open" => Upgraded(head))
    BY <1>1
<1>7. HandshakeInv'
    BY <1>1, <1>3, <1>5, <1>6 DEF HandshakeInv
<1>8. ASSUME NEW c, InFrame(c) PROVE InFrame(c)'
    BY <1>1, <1>3, <1>8 DEF InFrame, Position
<1>9. QED
    BY <1>1, <1>6, <1>7, <1>8 DEF ReaderInv

(* A read never takes more than the header.                                *)
LEMMA HeaderIsNotPassed ==
    ASSUME NEW h \in Nat, NEW n \in Nat, NEW d \in Nat, d >= 2,
           n <= (IF h < 2 THEN 2 ELSE d) - h
    PROVE  h + n <= d
<1>1. CASE h < 2
    BY <1>1
<1>2. CASE ~(h < 2)
    BY <1>2
<1>3. QED
    BY <1>1, <1>2

(* Some of a header arrives: it is still short, it is taken, or refused.   *)
LEMMA ReadHeaderKeeps ==
    ASSUME ReaderInv, NEW n, ReadHeader(n)
    PROVE  ReaderInv'
<1> DEFINE e == EndOfStream(script)
<1>1. /\ head' = head /\ script' = script /\ partial' = partial /\ out' = out
      /\ status = "open" /\ incoming = NoFrame /\ Fill(n, HeaderWanted)
    BY DEF ReadHeader
<1>2. /\ StreamOK(script) /\ HandshakeInv /\ at \in Nat /\ header_len \in 0..10
    BY DEF ReaderInv
<1>3. PICK c \in 1..(Len(script) + 1) : InFrame(c)
    BY DEF ReaderInv
<1>4. /\ buffered \in Nat /\ at + buffered <= e /\ Upgraded(head)
      /\ buffered < MaxHandshake + Chunk /\ head \in Responses
    BY <1>1, <1>2 DEF HandshakeInv
<1>5. /\ at = StartAt(script, c) + header_len
      /\ header_len > 0 => c <= Len(script) /\ header_len < script[c].enc
    BY <1>1, <1>3 DEF InFrame, Position, AtHeader
<1>6. e \in Nat /\ Len(script) \in Nat
    BY <1>2, StreamReaches
<1>7. ASSUME c <= Len(script)
      PROVE  /\ script[c] \in Sent /\ Decoded = script[c]
             /\ at = script[c].start + header_len /\ c \in 1..Len(script)
    <2>1. c \in 1..Len(script)
        BY <1>6, <1>7
    <2>2. script[c] \in Sent /\ StartAt(script, c) = script[c].start
        BY <1>2, <2>1, StreamReaches
    <2>3. at = script[c].start + header_len /\ header_len \in Nat
        BY <1>2, <1>5, <2>2
    <2>4. QED
        BY <1>2, <2>1, <2>2, <2>3, DecodesTheFrame
<1>8. HeaderWanted \in Int
    <2>1. CASE header_len < 2
        BY <1>2, <2>1 DEF HeaderWanted
    <2>2. CASE ~(header_len < 2)
        <3>1. c <= Len(script)
            BY <1>2, <1>5, <2>2
        <3>2. Decoded.enc \in Nat
            BY <1>7, <3>1, SentIs
        <3>3. QED
            BY <1>2, <3>2 DEF HeaderWanted
    <2>3. QED
        BY <2>1, <2>2
<1>9. /\ n \in Nat /\ n >= 1 /\ n <= HeaderWanted /\ at' = at + n /\ at' \in Nat
      /\ at' <= e /\ buffered' \in Nat /\ buffered' <= buffered /\ at' + buffered' <= e
    BY <1>1, <1>2, <1>4, <1>6, <1>8, FillTakes
<1> HIDE DEF e
<1>10. c <= Len(script)
    <2>1. SUFFICES ASSUME c = Len(script) + 1 PROVE FALSE
        BY <1>6
    <2>2. StartAt(script, c) = e /\ header_len = 0
        BY <1>2, <1>5, <1>6, <2>1, StreamReaches DEF e
    <2>3. QED
        BY <1>2, <1>5, <1>6, <1>9, <2>2
<1> DEFINE g == script[c]
<1>11. /\ g \in Sent /\ Decoded = g /\ at = g.start + header_len /\ c \in 1..Len(script)
       /\ StartAt(script, c) = g.start
    BY <1>2, <1>7, <1>10, StreamReaches
<1>12. /\ g.start \in Nat /\ g.enc \in Nat /\ g.enc >= 2 /\ g.enc <= 10 /\ g.len \in Nat
       /\ g.op \in Opcodes /\ EndOf(g) \in Nat /\ g.start + g.enc <= EndOf(g)
    BY <1>11, SentIs
<1> HIDE DEF g
<1>13. /\ header_len \in Nat /\ n \in Nat /\ header_len + n \in Nat
       /\ header_len + n <= g.enc /\ at' = g.start + (header_len + n)
    <2>1. n <= (IF header_len < 2 THEN 2 ELSE g.enc) - header_len
        BY <1>9, <1>11 DEF HeaderWanted
    <2>2. header_len \in Nat
        BY <1>2
    <2>3. header_len + n <= g.enc
        BY <1>9, <1>12, <2>1, <2>2, HeaderIsNotPassed
    <2>4. at = g.start + header_len
        BY <1>11
    <2>5. n \in Nat /\ at' = at + n
        BY <1>9
    <2>6. g.start \in Nat
        BY <1>12
    <2>7. at' = g.start + (header_len + n) /\ header_len + n \in Nat
        BY <2>2, <2>4, <2>5, <2>6
    <2>8. QED
        BY <2>2, <2>3, <2>5, <2>7
<1>14. PartialOK(script, c, partial) /\ OutOK(script, c, out) /\ LegalOK(script, c)
    BY <1>3 DEF InFrame
<1>15. Refused(g) => ~Legal(script, c)
    BY <1>2, <1>11, <1>14, RefusedTells DEF g
<1>16. ASSUME /\ ~HeaderComplete(n) /\ header_len' = header_len + n
              /\ incoming' = incoming /\ status' = status
       PROVE  Position(c)' /\ header_len' \in 0..10 /\ status' \in {"open", "refused"}
    <2>1. header_len + n # g.enc
        BY <1>11, <1>12, <1>13, <1>16 DEF HeaderComplete
    <2>2. header_len + n < g.enc
        BY <1>12, <1>13, <2>1
    <2>3. header_len + n \in 0..10
        BY <1>12, <1>13
    <2>4. header_len' \in 0..10
        BY <1>16, <2>3
    <2>5. at' = StartAt(script, c) + header_len'
        BY <1>11, <1>13, <1>16
    <2>6. AtHeader(script, c, at', header_len')
        BY <1>10, <1>16, <2>2, <2>5 DEF AtHeader, g
    <2>7. Position(c)'
        BY <1>1, <1>16, <2>6 DEF Position
    <2>8. QED
        BY <1>1, <1>16, <2>4, <2>7
<1>17. ASSUME /\ HeaderComplete(n) /\ ~Refused(Decoded) /\ header_len' = 0 /\ status' = status
              /\ incoming' = [op |-> Decoded.op, fin |-> Decoded.fin, start |-> at',
                              len |-> Decoded.len, filled |-> 0]
       PROVE  Position(c)' /\ header_len' \in 0..10 /\ status' \in {"open", "refused"}
    <2>1. at' = g.start + g.enc + 0
        BY <1>9, <1>11, <1>12, <1>13, <1>17 DEF HeaderComplete
    <2>2. incoming' = Arriving(g, 0) /\ incoming'.op = g.op
        BY <1>11, <1>12, <1>17, <2>1 DEF Arriving
    <2>3. incoming' # NoFrame
        BY <1>12, <2>2 DEF Opcodes, NoFrame
    <2>4. AtPayload(script, c, at', incoming')
        BY <1>10, <1>12, <2>1, <2>2 DEF AtPayload, g
    <2>5. ~Refused(script[c])'
        BY <1>1, <1>11, <1>17 DEF Refused, RefusedIf, g
    <2>6. Position(c)'
        BY <1>1, <1>17, <2>3, <2>4, <2>5 DEF Position
    <2>7. QED
        BY <1>1, <1>17, <2>6
<1>18. ASSUME /\ \/ Decoded.odd /\ header_len + n = 2 /\ header_len' = 2
                 \/ ~Decoded.odd /\ HeaderComplete(n) /\ Refused(Decoded) /\ header_len' = 0
              /\ status' = "refused" /\ incoming' = incoming
       PROVE  Position(c)' /\ header_len' \in 0..10 /\ status' \in {"open", "refused"}
    <2>1. Refused(g) /\ header_len' \in {0, 2}
        BY <1>11, <1>18 DEF Refused, RefusedIf
    <2>2. header_len + n \in 2..g.enc
        BY <1>11, <1>12, <1>13, <1>18 DEF HeaderComplete
    <2>3. g.start < at' /\ at' <= EndOf(g)
        BY <1>12, <1>13, <2>2
    <2>4. AtFault(script, c, at')
        BY <1>10, <1>15, <2>1, <2>3 DEF AtFault, g
    <2>5. Position(c)'
        BY <1>1, <1>18, <2>4 DEF Position
    <2>6. QED
        BY <1>18, <2>1, <2>5
<1>19. Position(c)' /\ header_len' \in 0..10 /\ status' \in {"open", "refused"}
    BY <1>1, <1>16, <1>17, <1>18 DEF ReadHeader
<1>20. InFrame(c)'
    BY <1>1, <1>14, <1>19 DEF InFrame
<1>21. HandshakeInv'
    BY <1>1, <1>4, <1>9, <1>19, LimitsAreNat DEF HandshakeInv, e
<1>22. QED
    BY <1>1, <1>2, <1>9, <1>19, <1>20, <1>21 DEF ReaderInv

(* What a payload that is arriving says of its frame.                      *)
LEMMA ArrivingIs ==
    ASSUME ReaderInv, NEW c \in 1..(Len(script) + 1), InFrame(c), incoming # NoFrame
    PROVE  /\ c \in 1..Len(script) /\ script[c] \in Sent /\ header_len = 0
           /\ ~Refused(script[c]) /\ status # "refused"
           /\ incoming.op = script[c].op /\ incoming.fin = script[c].fin
           /\ incoming.len = script[c].len /\ ThisPart = Payload(script[c])
           /\ incoming.filled \in 0..script[c].len
           /\ incoming = Arriving(script[c], incoming.filled)
           /\ at = script[c].start + script[c].enc + incoming.filled
<1>1. /\ AtPayload(script, c, at, incoming) /\ ~Refused(script[c])
      /\ header_len = 0 /\ status # "refused"
    BY DEF InFrame, Position
<1>2. StreamOK(script) /\ Len(script) \in Nat
    BY StreamReaches DEF ReaderInv
<1>3. c <= Len(script)
    BY <1>1 DEF AtPayload
<1>4. c \in 1..Len(script) /\ script[c] \in Sent
    BY <1>2, <1>3, StreamReaches
<1>5. PICK k \in 0..script[c].len :
          incoming = Arriving(script[c], k) /\ at = script[c].start + script[c].enc + k
    BY <1>1 DEF AtPayload
<1>6. /\ incoming.op = script[c].op /\ incoming.fin = script[c].fin
      /\ incoming.len = script[c].len /\ incoming.filled = k
      /\ incoming.start = script[c].start + script[c].enc
    BY <1>5 DEF Arriving
<1>7. ThisPart = Payload(script[c])
    BY <1>6 DEF ThisPart, Payload
<1>8. QED
    BY <1>1, <1>4, <1>5, <1>6, <1>7

(* Some of a payload arrives.                                              *)
LEMMA ReadPayloadKeeps ==
    ASSUME ReaderInv, NEW n, ReadPayload(n)
    PROVE  ReaderInv'
<1> DEFINE e == EndOfStream(script)
<1>1. /\ head' = head /\ script' = script /\ header_len' = header_len
      /\ partial' = partial /\ out' = out /\ status' = status
      /\ status = "open" /\ incoming # NoFrame /\ Fill(n, incoming.len - incoming.filled)
      /\ incoming' = [incoming EXCEPT !.filled = @ + n]
    BY DEF ReadPayload
<1>2. /\ StreamOK(script) /\ HandshakeInv /\ at \in Nat
    BY DEF ReaderInv
<1>3. PICK c \in 1..(Len(script) + 1) : InFrame(c)
    BY DEF ReaderInv
<1> DEFINE g == script[c]
           k == incoming.filled
<1>4. /\ c \in 1..Len(script) /\ g \in Sent /\ header_len = 0 /\ ~Refused(g)
      /\ incoming.len = g.len /\ k \in 0..g.len /\ incoming = Arriving(g, k)
      /\ at = g.start + g.enc + k
    BY <1>1, <1>3, ArrivingIs
<1>5. /\ g.start \in Nat /\ g.enc \in Nat /\ g.len \in Nat /\ g.op \in Opcodes
    BY <1>4, SentIs
<1>6. /\ buffered \in Nat /\ at + buffered <= e /\ Upgraded(head)
      /\ buffered < MaxHandshake + Chunk /\ head \in Responses
    BY <1>1, <1>2 DEF HandshakeInv
<1>7. e \in Nat /\ incoming.len - k \in Int /\ k \in Nat
    BY <1>2, <1>4, <1>5, StreamReaches
<1>8. /\ n \in Nat /\ n >= 1 /\ n <= incoming.len - k /\ at' = at + n /\ at' \in Nat
      /\ at' <= e /\ buffered' \in Nat /\ buffered' <= buffered /\ at' + buffered' <= e
    BY <1>1, <1>2, <1>6, <1>7, FillTakes
<1>9. incoming' = Arriving(g, k + n) /\ incoming'.op = g.op
    BY <1>1, <1>4 DEF Arriving
<1> HIDE DEF g, k, e
<1>10. k + n \in 0..g.len
    <2>1. n \in Nat /\ n <= g.len - k
        BY <1>4, <1>8
    <2>2. k \in Nat /\ g.len \in Nat
        BY <1>5, <1>7
    <2>3. QED
        BY <2>1, <2>2
<1>11. at' = g.start + g.enc + (k + n)
    <2>1. at' = at + n /\ n \in Nat
        BY <1>8
    <2>2. at = g.start + g.enc + k
        BY <1>4
    <2>3. QED
        BY <1>5, <1>7, <2>1, <2>2
<1>12. incoming' # NoFrame
    BY <1>5, <1>9 DEF NoFrame, Opcodes
<1>13. c <= Len(script)
    BY <1>2, <1>4, StreamReaches
<1>14. AtPayload(script, c, at', incoming')
    BY <1>9, <1>10, <1>11, <1>13 DEF AtPayload, g
<1>15. ~Refused(script[c])'
    BY <1>1, <1>4 DEF Refused, RefusedIf, g
<1>16. InFrame(c)'
    BY <1>1, <1>3, <1>4, <1>12, <1>14, <1>15 DEF InFrame, Position
<1>17. HandshakeInv'
    BY <1>1, <1>6, <1>8, LimitsAreNat DEF HandshakeInv, e
<1>18. QED
    BY <1>1, <1>2, <1>8, <1>16, <1>17 DEF ReaderInv

(* The frame that was read is legal too.                                   *)
LEMMA LegalPasses ==
    ASSUME NEW s, NEW c \in Nat, LegalOK(s, c), Legal(s, c)
    PROVE  LegalOK(s, c + 1)
<1>1. (c + 1) - 1 = c /\ \A x \in 1..c : x = c \/ x \in 1..(c - 1)
    OBVIOUS
<1>2. QED
    BY <1>1 DEF LegalOK

(* The caller gets the frame or the message it completes.                  *)
LEMMA DispatchKeeps ==
    ASSUME ReaderInv, Dispatch
    PROVE  ReaderInv'
<1>1. /\ head' = head /\ buffered' = buffered /\ script' = script /\ at' = at
      /\ header_len' = header_len /\ incoming' = NoFrame
      /\ status = "open" /\ incoming # NoFrame /\ incoming.filled = incoming.len
      /\ DispatchControl \/ DispatchData \/ DispatchContinuation
    BY DEF Dispatch, upgrade
<1>2. /\ StreamOK(script) /\ HandshakeInv /\ at \in Nat /\ Len(script) \in Nat
    BY StreamReaches DEF ReaderInv
<1>3. PICK c \in 1..(Len(script) + 1) : InFrame(c)
    BY DEF ReaderInv
<1> DEFINE g == script[c]
<1>4. /\ c \in 1..Len(script) /\ g \in Sent /\ header_len = 0 /\ ~Refused(g)
      /\ incoming.op = g.op /\ incoming.fin = g.fin /\ incoming.len = g.len
      /\ ThisPart = Payload(g) /\ at = g.start + g.enc + g.len
    BY <1>1, <1>3, ArrivingIs
<1>5. /\ g.start \in Nat /\ g.enc \in Nat /\ g.len \in Nat /\ g.fin \in BOOLEAN
      /\ EndOf(g) \in Nat /\ g.start < EndOf(g) /\ at = EndOf(g)
    BY <1>4, SentIs DEF EndOf
<1>6. PartialOK(script, c, partial) /\ OutOK(script, c, out) /\ LegalOK(script, c)
    BY <1>3 DEF InFrame
<1>7. /\ ~(g.op = "close" /\ g.len = 1) => Legal(script, c)
      /\ partial # NoPartial => Opened(script, c, partial)
    BY <1>2, <1>4, <1>6, RefusedTells, PartialTells
<1>8. c \in Nat /\ c + 1 \in 1..(Len(script) + 1) /\ c <= Len(script)
    BY <1>2, <1>4
<1>9. AtHeader(script, c + 1, at, 0)
    <2>1. StartAt(script, c + 1) = EndOf(g)
        BY <1>2, <1>4 DEF StreamOK
    <2>2. QED
        BY <1>5, <2>1 DEF AtHeader
<1> DEFINE whole == [op |-> g.op, parts |-> <<Payload(g)>>]
           more  == Append(partial.parts, Payload(g))
           Passed == /\ PartialOK(script, c + 1, partial') /\ OutOK(script, c + 1, out')
                     /\ LegalOK(script, c + 1) /\ status' = status
           Fails  == /\ AtFault(script, c, at) /\ partial' = partial
                     /\ out' = out /\ status' = "refused"
<1>10. ASSUME g.fin, g.op # "continuation", out' = Append(out, whole)
       PROVE  OutOK(script, c + 1, out')
    <2>1. whole \in Message /\ Spells(script, whole, c)
        BY <1>2, <1>4, <1>10, WholeSpells
    <2> HIDE DEF whole, g
    <2>2. QED
        BY <1>2, <1>4, <1>6, <1>10, <2>1, DeliverKeeps
<1>11. ASSUME ~g.fin, out' = out
       PROVE  OutOK(script, c + 1, out')
    BY <1>2, <1>4, <1>6, <1>11, KeepBackKeeps
<1>12. ASSUME ~(g.op = "close" /\ g.len = 1)
       PROVE  LegalOK(script, c + 1)
    BY <1>6, <1>7, <1>8, <1>12, LegalPasses
<1>13. ASSUME DispatchControl
       PROVE  Passed \/ Fails
    <2>1. IsControl(g) /\ partial' = partial
        BY <1>4, <1>13 DEF DispatchControl, IsControl
    <2>2. CASE /\ ~(incoming.op = "close" /\ incoming.len = 1)
               /\ Deliver(incoming.op, <<ThisPart>>) /\ status' = status
        <3>1. g.fin /\ g.op # "continuation"
            BY <1>4, <1>5, <2>1 DEF Refused, RefusedIf, IsControl
        <3>2. out' = Append(out, whole)
            BY <1>4, <2>2 DEF Deliver
        <3>3. OutOK(script, c + 1, out')
            BY <1>10, <3>1, <3>2
        <3>4. PartialOK(script, c + 1, partial')
            BY <1>2, <1>4, <1>6, <2>1, ControlPasses
        <3>5. LegalOK(script, c + 1)
            BY <1>4, <1>12, <2>2
        <3>6. QED
            BY <2>2, <3>3, <3>4, <3>5
    <2>3. CASE incoming.op = "close" /\ status' = "refused" /\ out' = out
        <3>1. g.op = "close" /\ g.start < at /\ at <= EndOf(g)
            BY <1>4, <1>5, <2>3
        <3>2. AtFault(script, c, at)
            BY <1>8, <3>1 DEF AtFault
        <3>3. QED
            BY <2>1, <2>3, <3>2
    <2>4. QED
        BY <1>13, <2>2, <2>3 DEF DispatchControl
<1>14. ASSUME DispatchData
       PROVE  Passed
    <2>1. g.op \in {"text", "binary"} /\ status' = status
        BY <1>4, <1>14 DEF DispatchData
    <2>2. ~IsControl(g)
        BY <2>1 DEF IsControl
    <2>3. partial = NoPartial /\ (~g.fin => ~(g.len > MaxMessage))
        BY <1>4, <2>1 DEF Refused, RefusedIf
    <2>4. LegalOK(script, c + 1)
        BY <1>12, <2>1
    <2>5. CASE g.fin
        <3>1. out' = Append(out, whole) /\ partial' = partial
            BY <1>4, <1>14, <2>5 DEF DispatchData, Deliver
        <3>2. PartialOK(script, c + 1, partial')
            BY <1>2, <1>4, <2>2, <2>3, <2>5, <3>1, LastFrameCloses
        <3>3. OutOK(script, c + 1, out')
            BY <1>10, <2>1, <2>5, <3>1
        <3>4. QED
            BY <2>1, <2>4, <3>2, <3>3
    <2>6. CASE ~g.fin
        <3>1. /\ partial' = [op |-> g.op, parts |-> <<Payload(g)>>, len |-> g.len]
              /\ out' = out
            BY <1>4, <1>14, <2>6 DEF DispatchData
        <3>2. g.len <= MaxMessage
            BY <1>5, <2>3, <2>6, LimitsAreNat
        <3>3. Opened(script, c + 1, [op |-> g.op, parts |-> <<Payload(g)>>, len |-> g.len])
            BY <1>2, <1>4, <2>1, <2>6, <3>2, FirstFragmentOpens
        <3>4. PartialOK(script, c + 1, partial')
            BY <3>1, <3>3 DEF PartialOK
        <3>5. OutOK(script, c + 1, out')
            BY <1>11, <2>6, <3>1
        <3>6. QED
            BY <2>1, <2>4, <3>4, <3>5
    <2>7. QED
        BY <2>5, <2>6
<1>15. ASSUME DispatchContinuation
       PROVE  Passed
    <2>1. g.op = "continuation" /\ status' = status
        BY <1>4, <1>15 DEF DispatchContinuation
    <2>2. ~IsControl(g)
        BY <2>1 DEF IsControl
    <2>3. partial # NoPartial /\ ~(partial.len + g.len > MaxMessage)
        BY <1>4, <2>1 DEF Refused, RefusedIf
    <2>4. Opened(script, c, partial) /\ partial.len \in Nat
        BY <1>7, <2>3 DEF Opened
    <2>5. LegalOK(script, c + 1)
        BY <1>12, <2>1
    <2>6. CASE g.fin
        <3> DEFINE m == [op |-> partial.op, parts |-> more]
        <3>1. out' = Append(out, m) /\ partial' = NoPartial
            BY <1>4, <1>15, <2>6 DEF DispatchContinuation, Deliver
        <3>2. m \in Message /\ Spells(script, m, c)
            BY <1>2, <1>4, <2>1, <2>4, <2>6, ContinuationCompletes
        <3>3. PartialOK(script, c + 1, partial')
            BY <1>2, <1>4, <2>2, <2>6, <3>1, LastFrameCloses
        <3> HIDE DEF m, g
        <3>4. OutOK(script, c + 1, out')
            BY <1>2, <1>4, <1>6, <3>1, <3>2, DeliverKeeps
        <3>5. QED
            BY <2>1, <2>5, <3>3, <3>4
    <2>7. CASE ~g.fin
        <3> DEFINE r == [op |-> partial.op, parts |-> more, len |-> partial.len + g.len]
        <3>1. partial' = r /\ out' = out
            BY <1>4, <1>15, <2>7 DEF DispatchContinuation
        <3>2. partial.len + g.len <= MaxMessage
            BY <1>5, <2>3, <2>4, LimitsAreNat
        <3>3. Opened(script, c + 1, r)
            BY <1>2, <1>4, <2>1, <2>4, <2>7, <3>2, ContinuationExtends
        <3>4. PartialOK(script, c + 1, partial')
            BY <3>1, <3>3 DEF PartialOK
        <3>5. OutOK(script, c + 1, out')
            BY <1>11, <2>7, <3>1
        <3>6. QED
            BY <2>1, <2>5, <3>4, <3>5
    <2>8. QED
        BY <2>6, <2>7
<1>16. Passed \/ Fails
    <2> HIDE DEF Passed, Fails
    <2> QED BY <1>1, <1>13, <1>14, <1>15
<1>17. CASE Passed
    <2>1. Position(c + 1)'
        BY <1>1, <1>4, <1>9, <1>17 DEF Position
    <2>2. InFrame(c + 1)'
        BY <1>1, <1>17, <2>1 DEF InFrame
    <2>3. HandshakeInv'
        BY <1>1, <1>2, <1>17 DEF HandshakeInv
    <2>4. QED
        BY <1>1, <1>8, <1>17, <2>2, <2>3 DEF ReaderInv
<1>18. CASE Fails
    <2>1. Position(c)'
        BY <1>1, <1>18 DEF Position
    <2>2. InFrame(c)'
        BY <1>1, <1>6, <1>18, <2>1 DEF InFrame
    <2>3. HandshakeInv'
        BY <1>1, <1>2, <1>18 DEF HandshakeInv
    <2>4. QED
        BY <1>1, <1>18, <2>2, <2>3 DEF ReaderInv
<1>19. QED
    BY <1>16, <1>17, <1>18

(* The invariant holds in every reachable state, whatever the server sends *)
(* and however the socket cuts it: the reader of ws.rs never loses its     *)
(* place in the stream.                                                    *)
THEOREM ReaderInvariance == Spec => []ReaderInv
<1>1. Init => ReaderInv
    BY InitReaderInv
<1>2. ReaderInv /\ [Next]_vars => ReaderInv'
    <2> SUFFICES ASSUME ReaderInv, [Next]_vars PROVE ReaderInv'
        OBVIOUS
    <2>1. ASSUME NEW f \in Frames, ServerSends(f) PROVE ReaderInv'
        BY <2>1, ServerSendsKeeps
    <2>2. ASSUME NEW n \in 1..Chunk, HandshakeRead(n) PROVE ReaderInv'
        BY <2>2, HandshakeReadKeeps
    <2>3. CASE HandshakeTooLarge \/ ReadFails
        BY <2>3, GivesUpKeeps
    <2>4. CASE HandshakeDone
        BY <2>4, HandshakeDoneKeeps
    <2>5. ASSUME NEW n \in 1..10, ReadHeader(n) PROVE ReaderInv'
        BY <2>5, ReadHeaderKeeps
    <2>6. ASSUME NEW n \in 1..incoming.len, ReadPayload(n) PROVE ReaderInv'
        BY <2>6, ReadPayloadKeeps
    <2>7. CASE Dispatch
        BY <2>7, DispatchKeeps
    <2>8. CASE ReadBlocks \/ Ended \/ UNCHANGED vars
        BY <2>8, StutterKeeps DEF ReadBlocks, Ended
    <2>9. QED
        BY <2>1, <2>2, <2>3, <2>4, <2>5, <2>6, <2>7, <2>8 DEF Next
<1>3. QED
    BY <1>1, <1>2, PTL DEF Spec

-----------------------------------------------------------------------------
(* What the invariant says of the caller's messages and of memory.         *)

(* Part of a payload ends no later than the whole.                         *)
LEMMA SumGrows ==
    ASSUME NEW a \in Nat, NEW b \in Nat, NEW k \in Nat, NEW l \in Nat, k <= l
    PROVE  a + b + k <= a + b + l
    OBVIOUS

(* Frames that end before the last byte taken are behind the reader.       *)
LEMMA PassedAreBehind ==
    ASSUME ReaderInv, NEW c \in 1..(Len(script) + 1), InFrame(c),
           NEW x \in 1..Len(script), EndOf(script[x]) < at
    PROVE  x \in 1..(c - 1)
<1>1. StreamOK(script) /\ Len(script) \in Nat /\ at \in Nat /\ script[x] \in Sent
    BY StreamReaches DEF ReaderInv
<1>2. EndOf(script[x]) \in Nat /\ at # 0
    BY <1>1, SentIs
<1>3. SUFFICES ASSUME c <= x PROVE FALSE
    BY <1>1
<1>4. c \in 1..Len(script) /\ script[c] \in Sent
    BY <1>1, <1>3, StreamReaches
<1>5. /\ script[c].start \in Nat /\ script[c].enc \in Nat /\ script[c].len \in Nat
      /\ EndOf(script[c]) = script[c].start + script[c].enc + script[c].len
      /\ StartAt(script, c) = script[c].start
    BY <1>1, <1>4, SentIs, StreamReaches DEF EndOf
<1>6. EndOf(script[c]) <= EndOf(script[x])
    <2>1. CASE c = x
        BY <1>2, <2>1
    <2>2. CASE c < x
        <3>1. EndOf(script[c]) <= script[x].start
            BY <1>1, <1>4, <2>2 DEF StreamOK
        <3>2. script[x].start \in Nat /\ script[x].start < EndOf(script[x])
            BY <1>1, SentIs
        <3>3. EndOf(script[c]) \in Nat
            BY <1>4, SentIs
        <3>4. QED
            BY <1>1, <1>2, <3>1, <3>2, <3>3
    <2>3. QED
        BY <1>1, <1>3, <2>1, <2>2
<1>7. at <= EndOf(script[c])
    <2>1. CASE AtHeader(script, c, at, header_len)
        <3>1. header_len \in Nat /\ at = script[c].start + header_len
              /\ (header_len > 0 => header_len < script[c].enc)
            BY <1>5, <2>1 DEF AtHeader, ReaderInv
        <3>2. header_len <= script[c].enc
            BY <1>5, <3>1
        <3>3. QED
            BY <1>5, <3>1, <3>2
    <2>2. CASE AtPayload(script, c, at, incoming)
        <3>1. PICK k \in 0..script[c].len : at = script[c].start + script[c].enc + k
            BY <2>2 DEF AtPayload
        <3>2. k \in Nat /\ k <= script[c].len
            BY <1>5
        <3>3. script[c].start + script[c].enc + k <= script[c].start + script[c].enc + script[c].len
            BY <1>5, <3>2, SumGrows
        <3>4. QED
            BY <1>5, <3>1, <3>3
    <2>3. CASE AtFault(script, c, at)
        BY <2>3 DEF AtFault
    <2>4. QED
        BY <1>2, <2>1, <2>2, <2>3 DEF InFrame, Position
<1>8. EndOf(script[c]) \in Nat
    BY <1>4, SentIs
<1>9. QED
    BY <1>1, <1>2, <1>6, <1>7, <1>8

(* Whatever the server sends and however it is cut, the caller of          *)
(* WsClient::read_frame gets exactly the messages the frames spell, in     *)
(* order, none left out.                                                   *)
THEOREM MessagesStayExact == Spec => []MessagesAreExact
<1>1. ReaderInv => MessagesAreExact
    <2> SUFFICES ASSUME ReaderInv PROVE MessagesAreExact
        OBVIOUS
    <2>1. PICK c \in 1..(Len(script) + 1) : InFrame(c)
        BY DEF ReaderInv
    <2>2. OutOK(script, c, out)
        BY <2>1 DEF InFrame
    <2>3. Len(script) \in Nat
        BY StreamReaches DEF ReaderInv
    <2>4. \A x \in 1..(c - 1) : x \in 1..Len(script)
        BY <2>3
    <2>5. \A k \in 1..Len(out) : \E x \in 1..Len(script) : Spells(script, out[k], x)
        BY <2>2, <2>4 DEF OutOK
    <2>6. \A x \in 1..Len(script) : script[x].fin /\ EndOf(script[x]) < at =>
              \E k \in 1..Len(out) : Spells(script, out[k], x)
        BY <2>1, <2>2, PassedAreBehind DEF OutOK
    <2>7. QED
        BY <2>2, <2>5, <2>6 DEF MessagesAreExact, OutOK
<1>2. QED
    BY <1>1, ReaderInvariance, PTL

(* The reader of ws.rs refuses illegal frames only (a close's reason       *)
(* aside), passes no illegal one over, and never refuses a genuine upgrade *)
(* of a fair size.                                                         *)
THEOREM RefusalsStayExact == Spec => []RefusesExactlyIllegal
<1>1. ReaderInv => RefusesExactlyIllegal
    <2> SUFFICES ASSUME ReaderInv PROVE RefusesExactlyIllegal
        OBVIOUS
    <2>1. PICK c \in 1..(Len(script) + 1) : InFrame(c)
        BY DEF ReaderInv
    <2>2. Len(script) \in Nat
        BY StreamReaches DEF ReaderInv
    <2>3. ~Upgraded(head) => at = 0 /\ out = <<>>
        BY DEF ReaderInv, HandshakeInv
    <2>4. ASSUME status = "refused", Upgraded(head), head.size <= MaxHandshake
          PROVE  \E x \in 1..Len(script) :
                     /\ script[x].start < at /\ at <= EndOf(script[x])
                     /\ script[x].op # "close" => ~Legal(script, x)
        <3>1. head.size \in Nat
            BY ReaderAssumption DEF ReaderInv, HandshakeInv, ResponseType
        <3>2. ~(head.size > MaxHandshake)
            BY <2>4, <3>1, LimitsAreNat
        <3>3. AtFault(script, c, at)
            BY <2>1, <2>4, <3>2 DEF InFrame, Position
        <3>4. c \in 1..Len(script)
            BY <2>2, <3>3 DEF AtFault
        <3>5. QED
            BY <3>3, <3>4 DEF AtFault
    <2>5. ASSUME NEW x \in 1..Len(script), EndOf(script[x]) < at
          PROVE  Legal(script, x)
        BY <2>1, <2>5, PassedAreBehind DEF InFrame, LegalOK
    <2>6. QED
        BY <2>3, <2>4, <2>5 DEF RefusesExactlyIllegal
<1>2. QED
    BY <1>1, ReaderInvariance, PTL

(* What a server can make WsClient hold is bounded by the limits at every  *)
(* moment, and every variable keeps its type.                              *)
THEOREM MemoryStaysBounded == Spec => []MemoryIsBounded
<1>1. ReaderInv => MemoryIsBounded
    <2> SUFFICES ASSUME ReaderInv PROVE MemoryIsBounded
        OBVIOUS
    <2>1. PICK c \in 1..(Len(script) + 1) : InFrame(c)
        BY DEF ReaderInv
    <2>2. /\ partial.parts \in Seq(Part) /\ partial.len \in Nat /\ partial.len <= MaxMessage
        <3>1. PartialOK(script, c, partial)
            BY <2>1 DEF InFrame
        <3>2. CASE partial = NoPartial
            BY <3>2, LimitsAreNat DEF NoPartial
        <3>3. CASE Opened(script, c, partial)
            BY <3>3 DEF Opened
        <3>4. QED
            BY <3>1, <3>2, <3>3 DEF PartialOK
    <2>3. CASE incoming = NoFrame
        <3>1. incoming.op = "none" /\ incoming.len = 0 /\ ~IsControl(incoming)
            BY <2>3 DEF NoFrame, IsControl
        <3>2. TypeOK
            BY <2>2, <2>3 DEF TypeOK, ReaderInv, HandshakeInv, StreamOK
        <3>3. QED
            BY <2>2, <3>1, <3>2, LimitsAreNat DEF MemoryIsBounded, ReaderInv, HandshakeInv
    <2>4. CASE incoming # NoFrame
        <3>1. /\ script[c] \in Sent /\ ~Refused(script[c]) /\ header_len = 0
              /\ incoming.op = script[c].op /\ incoming.len = script[c].len
              /\ incoming.filled \in 0..script[c].len
            BY <2>1, <2>4, ArrivingIs
        <3>2. script[c].op \in Opcodes /\ incoming.len \in Nat
            BY <3>1, SentIs
        <3>3. TypeOK
            BY <2>2, <3>1 DEF TypeOK, ReaderInv, HandshakeInv, StreamOK
        <3>4. IsControl(incoming) <=> IsControl(script[c])
            BY <3>1 DEF IsControl
        <3>5. CASE IsControl(script[c])
            <4>1. ~(script[c].len > MaxControl) /\ incoming.op # "continuation"
                BY <3>1, <3>5 DEF Refused, RefusedIf, IsControl
            <4>2. incoming.len <= MaxControl
                BY <3>1, <3>2, <4>1, LimitsAreNat
            <4>3. QED
                BY <2>2, <3>3, <3>4, <3>5, <4>1, <4>2 DEF MemoryIsBounded, ReaderInv, HandshakeInv
        <3>6. CASE ~IsControl(script[c])
            <4>1. /\ ~(incoming.len > MaxFrame)
                  /\ incoming.op = "continuation" => ~(partial.len + incoming.len > MaxMessage)
                BY <3>1, <3>2, <3>6 DEF Refused, RefusedIf, IsControl, Opcodes
            <4>2. /\ incoming.len <= MaxFrame
                  /\ incoming.op = "continuation" => partial.len + incoming.len <= MaxMessage
                BY <2>2, <3>2, <4>1, LimitsAreNat
            <4>3. QED
                BY <2>2, <3>3, <3>4, <3>6, <4>2 DEF MemoryIsBounded, ReaderInv, HandshakeInv
        <3>7. QED
            BY <3>5, <3>6
    <2>5. QED
        BY <2>3, <2>4
<1>2. QED
    BY <1>1, ReaderInvariance, PTL
=============================================================================
