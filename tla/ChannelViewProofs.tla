-------------------------- MODULE ChannelViewProofs --------------------------
(***************************************************************************)
(* Proofs about ChannelView, for any people, any number of events, faults  *)
(* and logins, and any order of deltas.  The invariant has four parts:     *)
(*   LinesInv   the lines under way lead from what the relay has to what   *)
(*              the IRC server sees, each of them an expected one;         *)
(*   StoredInv  in a channel the copy in Redis is whole, and a 332 is      *)
(*              always followed by a line whose handler saves;             *)
(*   CopyInv    what info and copy say of an element is right if it is as  *)
(*              recent as the last change, and it is unless that was quiet;*)
(*   ClientInv  the same of deltas, answers and the view, or a delta that  *)
(*              is as recent is on its way.                                *)
(***************************************************************************)
EXTENDS ChannelView, SequenceTheorems, TLAPS

-----------------------------------------------------------------------------
(* Lines under way: what a line can say, what its handler makes of the     *)
(* contents, and where the lines lead that are still to be handled.        *)

LineShape(l) ==
  /\ l.cmd \in {"JOIN", "KICK", "NICK"} => \E n \in Others : l.who = {n}
  /\ l.cmd = "NICK" => \E n \in Others : l.to = {n} /\ l.who # {n}
  /\ l.cmd = "PART" => \E n \in Nicks : l.who = {n}
  /\ l.cmd = "353" => l.who \subseteq Nicks
  /\ l.cmd \in {"TOPIC", "332"} => l.who \subseteq {"topic"}

AnyLine == [cmd : {"JOIN", "PART", "NICK", "TOPIC", "332", "353", "366",
                   "KICK", "disconnected"}, who : SUBSET Attrs, to : SUBSET Nicks]
GoodLine == {l \in AnyLine : LineShape(l)}

(* What the handler of a line makes of the contents.  Of those that are    *)
(* certain it also takes the people who may have left unheard.             *)
Given(l) ==
  IF l.cmd \in {"JOIN", "353", "TOPIC", "332"} THEN l.who
  ELSE IF l.cmd = "NICK" THEN l.to
  ELSE IF l.cmd = "366" THEN {"joined"} ELSE {}
Taken(l) ==
  IF l.cmd = "PART" /\ l.who = {Me} THEN Attrs \ {"topic"}
  ELSE IF l.cmd \in {"PART", "NICK"} THEN l.who
  ELSE IF l.cmd \in {"TOPIC", "332"} THEN {"topic"}
  ELSE IF l.cmd = "disconnected" THEN {"joined"} ELSE {}
Doubted(l) ==
  IF l.cmd = "KICK" THEN l.who
  ELSE IF l.cmd = "disconnected" THEN Attrs \ {"topic"} ELSE Taken(l)

After(x, l) == (x \ Taken(l)) \cup Given(l)
SureAfter(s, l) == (s \ Doubted(l)) \cup Given(l)

(* A line is heard by one who is in the channel, or begins to be.          *)
Expected(x, l) ==
  /\ l.cmd = "NICK" => l.who \subseteq x
  /\ l.cmd \in {"332", "353", "366"} => "joined" \notin x

(* The lines q turn contents x, of which s are certain, into xe and se.    *)
Trail(q, in, sure) ==
  /\ in \in [0..Len(q) -> SUBSET Attrs] /\ sure \in [0..Len(q) -> SUBSET Attrs]
  /\ \A i \in 1..Len(q) :
       /\ Expected(in[i - 1], q[i])
       /\ in[i] = After(in[i - 1], q[i])
       /\ sure[i] = SureAfter(sure[i - 1], q[i])

Leads(x, s, q, xe, se) ==
  \E in, sure :
    /\ Trail(q, in, sure)
    /\ in[0] = x /\ sure[0] = s
    /\ in[Len(q)] = xe /\ sure[Len(q)] = se

(* The handlers keep the contents within the elements there are.           *)
LEMMA AfterType ==
  ASSUME NEW x \in SUBSET Attrs, NEW l \in GoodLine
  PROVE  After(x, l) \in SUBSET Attrs /\ SureAfter(x, l) \in SUBSET Attrs
BY DEF After, SureAfter, Given, GoodLine, AnyLine, Attrs

(* No lines lead nowhere else.                                             *)
LEMMA LeadsEmpty ==
  ASSUME NEW x \in SUBSET Attrs, NEW s \in SUBSET Attrs, NEW xe, NEW se
  PROVE  Leads(x, s, <<>>, xe, se) <=> xe = x /\ se = s
<1>1. ASSUME xe = x, se = s PROVE Leads(x, s, <<>>, xe, se)
  <2> DEFINE in == [i \in 0..0 |-> x]
  <2> DEFINE sure == [i \in 0..0 |-> s]
  <2>1. Len(<<>>) = 0
    OBVIOUS
  <2>2. Trail(<<>>, in, sure)
    BY <2>1 DEF Trail
  <2>3. in[0] = x /\ sure[0] = s
    OBVIOUS
  <2> QED
    BY <1>1, <2>1, <2>2, <2>3 DEF Leads
<1>2. ASSUME Leads(x, s, <<>>, xe, se) PROVE xe = x /\ se = s
  BY <1>2 DEF Leads
<1> QED
  BY <1>1, <1>2

(* A line that is sent leads one step further.                             *)
LEMMA LeadsAppend ==
  ASSUME NEW x, NEW s, NEW xe, NEW se, NEW q \in Seq(GoodLine), NEW l \in GoodLine,
         Leads(x, s, q, xe, se), Expected(xe, l)
  PROVE  Leads(x, s, Append(q, l), After(xe, l), SureAfter(se, l))
<1>1. PICK in, sure : /\ Trail(q, in, sure) /\ in[0] = x /\ sure[0] = s
                      /\ in[Len(q)] = xe /\ sure[Len(q)] = se
  BY DEF Leads
<1>2. Len(q) \in Nat /\ in[Len(q)] \in SUBSET Attrs /\ sure[Len(q)] \in SUBSET Attrs
  BY <1>1 DEF Trail
<1>3. After(xe, l) \in SUBSET Attrs /\ SureAfter(se, l) \in SUBSET Attrs
  BY <1>1, <1>2, AfterType
<1>4. /\ Len(Append(q, l)) = Len(q) + 1
      /\ \A i \in 1..Len(q) : Append(q, l)[i] = q[i]
      /\ Append(q, l)[Len(q) + 1] = l
  OBVIOUS
<1>5. PICK k : k = Len(q)
  OBVIOUS
<1> DEFINE in2 == [i \in 0..(k + 1) |-> IF i = k + 1 THEN After(xe, l) ELSE in[i]]
<1> DEFINE sure2 == [i \in 0..(k + 1) |-> IF i = k + 1 THEN SureAfter(se, l) ELSE sure[i]]
<1>6. /\ in2 \in [0..(k + 1) -> SUBSET Attrs]
      /\ sure2 \in [0..(k + 1) -> SUBSET Attrs]
  BY <1>1, <1>2, <1>3, <1>5 DEF Trail
<1>7. /\ \A i \in 0..k : in2[i] = in[i] /\ sure2[i] = sure[i]
      /\ in2[k + 1] = After(xe, l) /\ sure2[k + 1] = SureAfter(se, l)
  BY <1>2, <1>5
<1> HIDE DEF in2, sure2
<1>8. ASSUME NEW i \in 1..(k + 1)
      PROVE  /\ Expected(in2[i - 1], Append(q, l)[i])
             /\ in2[i] = After(in2[i - 1], Append(q, l)[i])
             /\ sure2[i] = SureAfter(sure2[i - 1], Append(q, l)[i])
  <2>1. CASE i = k + 1
    <3>1. i - 1 = k
      BY <2>1, <1>2, <1>5
    <3>2. in2[i - 1] = xe /\ sure2[i - 1] = se
      BY <3>1, <1>1, <1>2, <1>5, <1>7
    <3> QED
      BY <2>1, <3>2, <1>4, <1>5, <1>7
  <2>2. CASE i \in 1..k
    <3>1. i - 1 \in 0..k /\ i \in 0..k
      BY <2>2, <1>2, <1>5
    <3>2. in2[i - 1] = in[i - 1] /\ sure2[i - 1] = sure[i - 1] /\ in2[i] = in[i] /\ sure2[i] = sure[i]
      BY <3>1, <1>7
    <3> QED
      BY <2>2, <3>2, <1>1, <1>4, <1>5 DEF Trail
  <2> QED
    BY <2>1, <2>2, <1>2, <1>5
<1>9. Trail(Append(q, l), in2, sure2)
  BY <1>4, <1>5, <1>6, <1>8 DEF Trail
<1>10. in2[0] = x /\ sure2[0] = s
  BY <1>1, <1>2, <1>5, <1>7
<1> QED
  BY <1>4, <1>5, <1>7, <1>9, <1>10 DEF Leads

(* A line that is handled leaves a shorter way to the same place.          *)
LEMMA LeadsTail ==
  ASSUME NEW x, NEW s, NEW xe, NEW se, NEW q \in Seq(GoodLine), q # <<>>,
         Leads(x, s, q, xe, se)
  PROVE  /\ Expected(x, Head(q))
         /\ Leads(After(x, Head(q)), SureAfter(s, Head(q)), Tail(q), xe, se)
<1>1. PICK in, sure : /\ Trail(q, in, sure) /\ in[0] = x /\ sure[0] = s
                      /\ in[Len(q)] = xe /\ sure[Len(q)] = se
  BY DEF Leads
<1>2. /\ Len(Tail(q)) = Len(q) - 1
      /\ \A i \in 1..Len(Tail(q)) : Tail(q)[i] = q[i + 1]
      /\ Head(q) = q[1] /\ Len(q) \in Nat \ {0}
  BY HeadTailProperties, EmptySeq
<1>3. PICK k : k = Len(q) - 1
  OBVIOUS
<1> DEFINE in2 == [i \in 0..k |-> in[i + 1]]
<1> DEFINE sure2 == [i \in 0..k |-> sure[i + 1]]
<1>4. /\ in2 \in [0..k -> SUBSET Attrs] /\ sure2 \in [0..k -> SUBSET Attrs]
  BY <1>1, <1>2, <1>3 DEF Trail
<1>5. /\ \A i \in 0..k : in2[i] = in[i + 1] /\ sure2[i] = sure[i + 1]
      /\ k \in Nat /\ k + 1 = Len(q) /\ k = Len(Tail(q))
  BY <1>2, <1>3
<1> HIDE DEF in2, sure2
<1>6. ASSUME NEW i \in 1..k
      PROVE  /\ Expected(in2[i - 1], Tail(q)[i])
             /\ in2[i] = After(in2[i - 1], Tail(q)[i])
             /\ sure2[i] = SureAfter(sure2[i - 1], Tail(q)[i])
  <2>1. i - 1 \in 0..k /\ i \in 0..k /\ i + 1 \in 1..Len(q) /\ (i - 1) + 1 = i
        /\ (i + 1) - 1 = i
    BY <1>5
  <2>2. in2[i - 1] = in[i] /\ sure2[i - 1] = sure[i] /\ in2[i] = in[i + 1] /\ sure2[i] = sure[i + 1]
    BY <2>1, <1>5
  <2>3. /\ Expected(in[(i + 1) - 1], q[i + 1])
        /\ in[i + 1] = After(in[(i + 1) - 1], q[i + 1])
        /\ sure[i + 1] = SureAfter(sure[(i + 1) - 1], q[i + 1])
    BY <2>1, <1>1 DEF Trail
  <2> QED
    BY <2>1, <2>2, <2>3, <1>2, <1>5
<1>7. Trail(Tail(q), in2, sure2)
  BY <1>4, <1>5, <1>6 DEF Trail
<1>8. /\ Expected(in[1 - 1], q[1])
      /\ in[1] = After(in[1 - 1], q[1])
      /\ sure[1] = SureAfter(sure[1 - 1], q[1])
  <2>1. 1 \in 1..Len(q)
    BY <1>2
  <2> QED
    BY <2>1, <1>1 DEF Trail
<1>9. /\ in2[0] = After(x, Head(q)) /\ sure2[0] = SureAfter(s, Head(q))
      /\ in2[k] = xe /\ sure2[k] = se
  BY <1>1, <1>2, <1>5, <1>8
<1> QED
  BY <1>1, <1>2, <1>5, <1>7, <1>8, <1>9 DEF Leads

(* The first k elements of a sequence.                                     *)
LEMMA Prefix ==
  ASSUME NEW S, NEW q \in Seq(S), NEW k \in 0..Len(q)
  PROVE  /\ SubSeq(q, 1, k) \in Seq(S) /\ Len(SubSeq(q, 1, k)) = k
         /\ \A i \in 1..k : SubSeq(q, 1, k)[i] = q[i]
<1>1. /\ Len(q) \in Nat /\ k \in Nat /\ k <= Len(q) /\ k \in Int /\ 1 \in Int
      /\ \A i \in 1..k : q[i] \in S
  BY ElementOfSeq
<1>2. PICK p : p = SubSeq(q, 1, k)
  OBVIOUS
<1>3. /\ p \in Seq(S)
      /\ Len(p) = IF 1 <= k THEN k - 1 + 1 ELSE 0
      /\ \A i \in 1..(k - 1 + 1) : p[i] = q[1 + i - 1]
  BY <1>1, <1>2, SubSeqProperties
<1> QED
  BY <1>1, <1>2, <1>3

(* Lines that were lost leave a trail that breaks off earlier.             *)
LEMMA LeadsPrefix ==
  ASSUME NEW x, NEW s, NEW xe, NEW se, NEW q \in Seq(GoodLine),
         Leads(x, s, q, xe, se), NEW k \in 0..Len(q)
  PROVE  \E xk, sk \in SUBSET Attrs : Leads(x, s, SubSeq(q, 1, k), xk, sk)
<1>1. PICK in, sure : Trail(q, in, sure) /\ in[0] = x /\ sure[0] = s
  BY DEF Leads
<1>2. Len(q) \in Nat /\ k \in Nat /\ k <= Len(q)
  OBVIOUS
<1>3. PICK p : p = SubSeq(q, 1, k)
  OBVIOUS
<1>4. Len(p) = k /\ \A i \in 1..k : p[i] = q[i]
  BY <1>3, Prefix
<1> DEFINE in2 == [i \in 0..k |-> in[i]]
<1> DEFINE sure2 == [i \in 0..k |-> sure[i]]
<1>5. /\ in2 \in [0..k -> SUBSET Attrs] /\ sure2 \in [0..k -> SUBSET Attrs]
  <2>1. \A i \in 0..k : i \in 0..Len(q)
    BY <1>2
  <2>2. \A i \in 0..k : in[i] \in SUBSET Attrs /\ sure[i] \in SUBSET Attrs
    BY <2>1, <1>1 DEF Trail
  <2> QED
    BY <2>2
<1>6. \A i \in 0..k : in2[i] = in[i] /\ sure2[i] = sure[i]
  OBVIOUS
<1> HIDE DEF in2, sure2
<1>7. ASSUME NEW i \in 1..k
      PROVE  /\ Expected(in2[i - 1], p[i])
             /\ in2[i] = After(in2[i - 1], p[i])
             /\ sure2[i] = SureAfter(sure2[i - 1], p[i])
  <2>1. i - 1 \in 0..k /\ i \in 0..k /\ i \in 1..Len(q)
    BY <1>2
  <2>2. /\ Expected(in[i - 1], q[i])
        /\ in[i] = After(in[i - 1], q[i])
        /\ sure[i] = SureAfter(sure[i - 1], q[i])
    BY <2>1, <1>1 DEF Trail
  <2> QED
    BY <2>1, <2>2, <1>4, <1>6
<1>8. Trail(p, in2, sure2)
  BY <1>4, <1>5, <1>7 DEF Trail
<1>9. in2[0] = x /\ sure2[0] = s /\ in2[k] \in SUBSET Attrs /\ sure2[k] \in SUBSET Attrs
  BY <1>1, <1>2, <1>5, <1>6
<1> QED
  BY <1>3, <1>4, <1>8, <1>9 DEF Leads

-----------------------------------------------------------------------------
(* Type correctness: the variables of TypeOK by component, with what only  *)
(* the proofs need: the shapes of the lines, no delta from the future, and *)
(* nothing on its way to a client that is not there.                       *)

LinesType ==
  /\ actual \subseteq Nicks /\ topic \subseteq {"topic"}
  /\ session \in {"up", "down"} /\ lines \in Seq(GoodLine)
BoundsType == events \in 0..MaxLines /\ faults \in 0..MaxFaults /\ logins \in 0..MaxLogins
RelayType ==
  /\ members \subseteq Nicks /\ info \subseteq Attrs /\ ghosts \subseteq Nicks
  /\ quiet \subseteq Attrs /\ delta \in Deltas \cup {NoMsg}
  /\ delta # NoMsg => delta.n <= clock
ClockType ==
  /\ clock \in Nat /\ written \in 0..clock /\ news \in [Attrs -> 0..clock]
  /\ stored \subseteq Attrs /\ storedAt \in [Attrs -> 0..clock] /\ unsaved \in BOOLEAN
ClientType ==
  /\ pending \subseteq Deltas /\ flying \subseteq Deltas
  /\ \A m \in pending \cup flying : m.n <= clock
  /\ conn \in {"off", "on"}
  /\ reply \in [at : [Attrs -> 0..clock], contents : SUBSET Attrs, current : BOOLEAN] \cup {NoMsg}
  /\ view = NoView \/ view \subseteq Attrs
  /\ disorder \subseteq Attrs /\ age \in [Attrs -> 0..clock]
  /\ conn = "off" => flying = {} /\ reply = NoMsg /\ view = NoView

TypeInv == LinesType /\ BoundsType /\ RelayType /\ ClockType /\ ClientType

(* The typing the proofs work with says what TypeOK says.                  *)
LEMMA TypeInvImplies == TypeInv => TypeOK
<1> SUFFICES ASSUME TypeInv PROVE TypeOK
  OBVIOUS
<1>1. GoodLine \subseteq AnyLine
  BY DEF GoodLine
<1>2. lines \in Seq(AnyLine)
  BY <1>1, SeqMonotonic DEF TypeInv, LinesType
<1>3. /\ actual \subseteq Nicks /\ topic \subseteq {"topic"} /\ session \in {"up", "down"}
      /\ events \in 0..MaxLines /\ faults \in 0..MaxFaults /\ logins \in 0..MaxLogins
  BY DEF TypeInv, LinesType, BoundsType
<1>4. /\ members \subseteq Nicks /\ info \subseteq Attrs /\ stored \subseteq Attrs
      /\ delta \in Deltas \cup {NoMsg} /\ quiet \subseteq Attrs /\ ghosts \subseteq Nicks
      /\ clock \in Nat /\ written \in 0..clock /\ news \in [Attrs -> 0..clock]
      /\ storedAt \in [Attrs -> 0..clock] /\ unsaved \in BOOLEAN
  BY DEF TypeInv, RelayType, ClockType
<1>5. /\ pending \subseteq Deltas /\ conn \in {"off", "on"} /\ flying \subseteq Deltas
      /\ reply \in [at : [Attrs -> 0..clock], contents : SUBSET Attrs, current : BOOLEAN] \cup {NoMsg}
      /\ view = NoView \/ view \subseteq Attrs
      /\ disorder \subseteq Attrs /\ age \in [Attrs -> 0..clock]
  BY DEF TypeInv, ClientType
<1> QED
  BY <1>2, <1>3, <1>4, <1>5, Zenon DEF TypeOK, AnyLine

(* Typing, at the start.                                                   *)
LEMMA InitType == Init => TypeInv
<1> SUFFICES ASSUME Init PROVE TypeInv
  OBVIOUS
<1> USE BoundAssumption DEF Init
<1>1. LinesType
  BY DEF LinesType, Nicks
<1>2. BoundsType
  BY DEF BoundsType
<1>3. RelayType
  BY DEF RelayType
<1>4. ClockType
  <2>1. 0 \in 0..0 /\ 0 \in Nat
    OBVIOUS
  <2>2. [x \in Attrs |-> 0] \in [Attrs -> 0..0]
    BY <2>1
  <2> QED
    BY <2>1, <2>2, Zenon DEF ClockType
<1>5. ClientType
  BY DEF ClientType
<1> QED
  BY <1>1, <1>2, <1>3, <1>4, <1>5 DEF TypeInv

(* Handling a line leaves lines of the shapes above.                       *)
LEMMA HeadIsGood ==
  ASSUME LinesType, lines # <<>>
  PROVE  Head(lines) \in GoodLine /\ Tail(lines) \in Seq(GoodLine)
BY HeadTailProperties DEF LinesType

(* The lines about others have one of the shapes,                          *)
LEMMA GoodLines ==
  ASSUME NEW n \in Others, NEW to \in Others, n # to
  PROVE  /\ Line("JOIN", {n}, {}) \in GoodLine /\ Line("PART", {n}, {}) \in GoodLine
         /\ Line("KICK", {n}, {}) \in GoodLine /\ Line("NICK", {n}, {to}) \in GoodLine
<1> USE DEF Line, AnyLine, LineShape, GoodLine, Nicks, Attrs
<1>1. Line("JOIN", {n}, {}) \in GoodLine
  OBVIOUS
<1>2. Line("PART", {n}, {}) \in GoodLine
  OBVIOUS
<1>3. Line("KICK", {n}, {}) \in GoodLine
  OBVIOUS
<1>4. Line("NICK", {n}, {to}) \in GoodLine
  <2>1. {n} # {to}
    OBVIOUS
  <2> QED
    BY <2>1
<1> QED
  BY <1>1, <1>2, <1>3, <1>4

(* and so have all the rest.                                               *)
LEMMA MoreGoodLines ==
  ASSUME NEW t \in SUBSET {"topic"}, NEW p \in SUBSET Nicks
  PROVE  /\ Line("TOPIC", t, {}) \in GoodLine /\ Line("332", t, {}) \in GoodLine
         /\ Line("353", p, {}) \in GoodLine /\ Line("366", {}, {}) \in GoodLine
         /\ Line("PART", {Me}, {}) \in GoodLine
         /\ Line("disconnected", {}, {}) \in GoodLine
<1> USE DEF Line, AnyLine, LineShape, GoodLine, Nicks, Attrs
<1>1. Line("TOPIC", t, {}) \in GoodLine
  OBVIOUS
<1>2. Line("332", t, {}) \in GoodLine
  OBVIOUS
<1>3. Line("353", p, {}) \in GoodLine
  OBVIOUS
<1>4. Line("366", {}, {}) \in GoodLine
  OBVIOUS
<1>5. Line("PART", {Me}, {}) \in GoodLine
  OBVIOUS
<1>6. Line("disconnected", {}, {}) \in GoodLine
  OBVIOUS
<1> QED
  BY <1>1, <1>2, <1>3, <1>4, <1>5, <1>6

(* A line that is heard joins lines of the same shapes.                    *)
LEMMA HearType ==
  ASSUME LinesType, NEW l \in GoodLine, Hear(l)
  PROVE  lines' \in Seq(GoodLine)
BY DEF LinesType, Hear

(* The answer to a JOIN, line by line.                                     *)
LEMMA AppendThree ==
  ASSUME NEW S, NEW q \in Seq(S), NEW a \in S, NEW b \in S, NEW c \in S
  PROVE  q \o <<a, b, c>> = Append(Append(Append(q, a), b), c)
<1>1. PICK t : t = <<a, b, c>>
  OBVIOUS
<1>2. t \in Seq(S) /\ Len(t) = 3 /\ t[1] = a /\ t[2] = b /\ t[3] = c
  BY <1>1
<1>3. /\ q \o t \in Seq(S) /\ Len(q \o t) = Len(q) + Len(t)
      /\ \A i \in 1..(Len(q) + Len(t)) : (q \o t)[i] = IF i <= Len(q) THEN q[i] ELSE t[i - Len(q)]
  BY <1>2, ConcatProperties
<1>4. PICK p : p = Append(Append(Append(q, a), b), c)
  OBVIOUS
<1>5. /\ p \in Seq(S) /\ Len(p) = Len(q) + 3
      /\ \A i \in 1..Len(q) : p[i] = q[i]
      /\ p[Len(q) + 1] = a /\ p[Len(q) + 2] = b /\ p[Len(q) + 3] = c
  BY <1>4
<1>6. Len(q) \in Nat
  OBVIOUS
<1>7. \A i \in 1..Len(p) : (q \o t)[i] = p[i]
  BY <1>2, <1>3, <1>5, <1>6
<1> QED
  BY <1>1, <1>2, <1>3, <1>4, <1>5, <1>7, SeqEqual

(* The steps of the IRC server leave the relay and the client alone.       *)
LEMMA OtherTypesKept ==
  ASSUME RelayType, ClockType, ClientType,
         UNCHANGED <<relay, client, kept, saved, known, pending>>
  PROVE  RelayType' /\ ClockType' /\ ClientType'
<1> USE DEF relay, client, kept, saved, known
<1>1. RelayType'
  BY DEF RelayType
<1>2. ClockType'
  BY DEF ClockType
<1>3. ClientType'
  BY DEF ClientType
<1> QED
  BY <1>1, <1>2, <1>3

(* Typing, at the steps of the IRC server.                                 *)
LEMMA ServerStepType ==
  ASSUME TypeInv, ServerStep
  PROVE  TypeInv'
<1> USE DEF TypeInv
<1>1. ASSUME Event, lines' \in Seq(GoodLine), actual' \subseteq Nicks, topic' \subseteq {"topic"}
      PROVE  TypeInv'
  <2>1. RelayType' /\ ClockType' /\ ClientType'
    BY <1>1, OtherTypesKept DEF Event
  <2>2. LinesType' /\ BoundsType'
    BY <1>1, BoundAssumption DEF Event, LinesType, BoundsType
  <2> QED
    BY <2>1, <2>2
<1>2. ASSUME NEW n \in Others, OtherJoins(n) PROVE TypeInv'
  <2>1. Line("JOIN", {n}, {}) \in GoodLine
    BY DEF Line, AnyLine, LineShape, GoodLine, Nicks, Attrs
  <2> QED
    BY <1>1, <1>2, <2>1, HearType DEF OtherJoins, LinesType, Nicks
<1>3. ASSUME NEW n \in Others, OtherLeaves(n) PROVE TypeInv'
  <2>1. Line("PART", {n}, {}) \in GoodLine
    BY DEF Line, AnyLine, LineShape, GoodLine, Nicks, Attrs
  <2> QED
    BY <1>1, <1>3, <2>1, HearType DEF OtherLeaves, LinesType, Nicks
<1>4. ASSUME NEW n \in Others, OtherIsKicked(n) PROVE TypeInv'
  <2>1. Line("KICK", {n}, {}) \in GoodLine
    BY DEF Line, AnyLine, LineShape, GoodLine, Nicks, Attrs
  <2> QED
    BY <1>1, <1>4, <2>1, HearType DEF OtherIsKicked, LinesType, Nicks
<1>5. ASSUME NEW n \in Others, NEW to \in Others, OtherRenames(n, to) PROVE TypeInv'
  <2>1. Line("NICK", {n}, {to}) \in GoodLine
    BY <1>5, GoodLines DEF OtherRenames
  <2> QED
    BY <1>1, <1>5, <2>1, HearType DEF OtherRenames, LinesType, Nicks
<1>6. ASSUME TopicChanges PROVE TypeInv'
  <2>1. topic' \subseteq {"topic"}
    BY <1>6 DEF TopicChanges
  <2>2. Line("TOPIC", topic', {}) \in GoodLine
    BY <2>1, MoreGoodLines
  <2> QED
    BY <1>1, <1>6, <2>1, <2>2, HearType DEF TopicChanges, LinesType
<1>7. ASSUME IJoin PROVE TypeInv'
  <2>1. actual' \subseteq Nicks /\ topic \subseteq {"topic"} /\ lines \in Seq(GoodLine)
    BY <1>7 DEF IJoin, LinesType, Nicks
  <2>2. /\ Line("332", topic, {}) \in GoodLine /\ Line("353", actual', {}) \in GoodLine
        /\ Line("366", {}, {}) \in GoodLine
    BY <2>1, MoreGoodLines
  <2>3. lines' \in Seq(GoodLine)
    BY <1>7, <2>1, <2>2, AppendThree DEF IJoin
  <2> QED
    BY <1>1, <1>7, <2>1, <2>3 DEF IJoin
<1>8. ASSUME ILeave PROVE TypeInv'
  <2>1. Line("PART", {Me}, {}) \in GoodLine
    BY MoreGoodLines
  <2> QED
    BY <1>1, <1>8, <2>1, HearType DEF ILeave, LinesType
<1>9. ASSUME Break PROVE TypeInv'
  <2>1. PICK k \in 0..Len(lines) : lines' = SubSeq(lines, 1, k) \o <<Line("disconnected", {}, {})>>
    BY <1>9 DEF Break
  <2>2. SubSeq(lines, 1, k) \in Seq(GoodLine) /\ Line("disconnected", {}, {}) \in GoodLine
    BY Prefix, MoreGoodLines DEF LinesType
  <2>3. lines' \in Seq(GoodLine)
    BY <2>1, <2>2
  <2>4. LinesType' /\ BoundsType'
    BY <1>9, <2>3, BoundAssumption DEF Break, Fault, LinesType, BoundsType
  <2>5. RelayType' /\ ClockType' /\ ClientType'
    BY <1>9, OtherTypesKept DEF Break
  <2> QED
    BY <2>4, <2>5
<1>10. ASSUME Reconnect PROVE TypeInv'
  <2>1. LinesType' /\ BoundsType'
    BY <1>10 DEF Reconnect, bounds, LinesType, BoundsType
  <2>2. RelayType' /\ ClockType' /\ ClientType'
    BY <1>10, OtherTypesKept DEF Reconnect
  <2> QED
    BY <2>1, <2>2
<1> QED
  BY <1>2, <1>3, <1>4, <1>5, <1>6, <1>7, <1>8, <1>9, <1>10 DEF ServerStep

(* A change of the contents moves the clock, and no change is from the     *)
(* future.                                                                 *)
LEMMA ChangeType ==
  ASSUME ClockType, Change
  PROVE  clock' \in Nat /\ clock <= clock' /\ news' \in [Attrs -> 0..clock']
<1>1. clock' = clock + 1 /\ clock \in Nat
  BY DEF ClockType, Change
<1>2. \A x \in Attrs : news[x] \in 0..clock'
  BY <1>1 DEF ClockType
<1> QED
  BY <1>1, <1>2 DEF Change

(* What RedisSave writes, or fails to write, is typed.                     *)
LEMMA SaveType ==
  ASSUME ClockType, BoundsType, Save, info' \subseteq Attrs,
         written' = written \/ written' = clock + 1,
         news' \in [Attrs -> 0..clock'], UNCHANGED <<events, logins>>
  PROVE  ClockType' /\ BoundsType'
<1>1. clock' = clock + 1 /\ clock \in Nat
  BY DEF ClockType, Save
<1>2. written' \in 0..clock'
  BY <1>1 DEF ClockType
<1>3. \A x \in Attrs : storedAt[x] \in 0..clock'
  BY <1>1 DEF ClockType
<1>4. storedAt' \in [Attrs -> 0..clock']
  BY <1>1, <1>2, <1>3 DEF Save, ClockType
<1>5. stored' \subseteq Attrs /\ unsaved' \in BOOLEAN
  BY DEF Save, ClockType
<1>6. faults' \in 0..MaxFaults
  BY BoundAssumption DEF Save, Fault, BoundsType
<1> QED
  BY <1>1, <1>2, <1>4, <1>5, <1>6 DEF ClockType, BoundsType

(* A change that nobody writes. *)
LEMMA UnwrittenType ==
  ASSUME ClockType, BoundsType, Change, UNCHANGED <<unwritten, events, logins>>
  PROVE  ClockType' /\ BoundsType'
<1>1. clock' = clock + 1 /\ clock \in Nat
  BY DEF ClockType, Change
<1>2. written \in 0..clock' /\ \A x \in Attrs : storedAt[x] \in 0..clock'
  BY <1>1 DEF ClockType
<1>3. news' \in [Attrs -> 0..clock']
  BY ChangeType
<1> QED
  BY <1>1, <1>2, <1>3 DEF ClockType, BoundsType, unwritten, saved

(* The client's part while the clock advances. *)
LEMMA ClientKept ==
  ASSUME ClientType, clock \in Nat, clock' \in Nat, clock <= clock',
         UNCHANGED <<client, known, pending>>
  PROVE  ClientType'
<1>1. \A i \in 0..clock : i \in 0..clock'
  OBVIOUS
<1>2. age' \in [Attrs -> 0..clock']
  BY <1>1 DEF ClientType, known
<1>3. reply' \in [at : [Attrs -> 0..clock'], contents : SUBSET Attrs, current : BOOLEAN] \cup {NoMsg}
  <2>1. CASE reply = NoMsg
    BY <2>1 DEF client
  <2>2. CASE reply # NoMsg
    <3>1. reply \in [at : [Attrs -> 0..clock], contents : SUBSET Attrs, current : BOOLEAN]
      BY <2>2 DEF ClientType
    <3>2. [Attrs -> 0..clock] \subseteq [Attrs -> 0..clock']
      BY <1>1
    <3> QED
      BY <3>1, <3>2 DEF client
  <2> QED
    BY <2>1, <2>2
<1>4. \A m \in pending' \cup flying' : m.n <= clock'
  <2>1. \A m \in pending \cup flying : m.n \in Nat /\ m.n <= clock
    BY DEF ClientType, Deltas
  <2> QED
    BY <2>1 DEF client
<1> QED
  BY <1>2, <1>3, <1>4 DEF ClientType, client, known

(* The relay after a change of the contents.                               *)
LEMMA ChangeRelayType ==
  ASSUME RelayType, ClockType, Change,
         members' \subseteq Nicks, info' \subseteq Attrs, ghosts' \subseteq Nicks,
         quiet' \subseteq Attrs,
         \/ delta = NoMsg /\ delta' = delta
         \/ \E plus, minus \in SUBSET Attrs :
              delta' = [n |-> clock', plus |-> plus, minus |-> minus]
  PROVE  RelayType'
<1>1. clock' \in Nat
  BY ChangeType
<1> QED
  BY <1>1 DEF RelayType, Deltas

(* What the handlers of a line have in common. *)
TakesLine ==
  /\ lines # <<>> /\ delta = NoMsg /\ lines' = Tail(lines)
  /\ UNCHANGED <<actual, topic, session, client, events, logins, known, pending>>

(* What a handler finds at the head of the lines.                          *)
LEMMA HandleType ==
  ASSUME TypeInv, TakesLine
  PROVE  /\ Head(lines) \in GoodLine
         /\ Head(lines).who \subseteq Attrs /\ Head(lines).to \subseteq Nicks
         /\ LineShape(Head(lines)) /\ delta = NoMsg
         /\ LinesType' /\ UNCHANGED <<client, known, pending, events, logins>>
<1>1. Head(lines) \in GoodLine /\ Tail(lines) \in Seq(GoodLine)
  BY HeadIsGood DEF TakesLine, TypeInv
<1>2. Head(lines).who \subseteq Attrs /\ Head(lines).to \subseteq Nicks /\ LineShape(Head(lines))
  BY <1>1 DEF GoodLine, AnyLine
<1>3. LinesType'
  BY <1>1 DEF TakesLine, LinesType, TypeInv
<1> QED
  BY <1>1, <1>2, <1>3 DEF TakesLine

(* A handler that returns early.                                           *)
LEMMA NothingChangesType ==
  ASSUME TypeInv, UNCHANGED <<members, info, delta, quiet, unwritten, clock, news, client, known, pending, events, logins>>,
         LinesType', ghosts' \subseteq Nicks
  PROVE  TypeInv'
<1> USE DEF unwritten, saved, client, known, TypeInv
<1>1. BoundsType'
  BY DEF BoundsType
<1>2. RelayType'
  BY DEF RelayType
<1>3. ClockType'
  BY DEF ClockType
<1>4. ClientType'
  BY DEF ClientType
<1> QED
  BY <1>1, <1>2, <1>3, <1>4

(* A handler that saves.                                                   *)
LEMMA SavingType ==
  ASSUME TypeInv, Save, Change, written' = written \/ written' = clock + 1,
         members' \subseteq Nicks, info' \subseteq Attrs, ghosts' \subseteq Nicks,
         quiet' \subseteq Attrs, delta = NoMsg,
         \/ delta' = delta
         \/ \E plus, minus \in SUBSET Attrs : delta' = [n |-> clock', plus |-> plus, minus |-> minus],
         LinesType', UNCHANGED <<client, known, pending, events, logins>>
  PROVE  TypeInv'
<1>1. ClockType' /\ BoundsType'
  BY ChangeType, SaveType DEF TypeInv
<1>2. RelayType'
  BY ChangeRelayType DEF TypeInv
<1>3. ClientType'
  BY ClientKept, ChangeType DEF TypeInv, ClockType
<1> QED
  BY <1>1, <1>2, <1>3 DEF TypeInv

(* A handler that neither saves nor sends.                                 *)
LEMMA QuietType ==
  ASSUME TypeInv, NEW e \in SUBSET Attrs, ChangeQuietly(e), UNCHANGED <<delta, unwritten>>, delta = NoMsg,
         members' \subseteq Nicks, info' \subseteq Attrs, ghosts' \subseteq Nicks,
         LinesType', UNCHANGED <<client, known, pending, events, logins>>
  PROVE  TypeInv'
<1>0. Change /\ quiet' \subseteq Attrs
  BY DEF ChangeQuietly, TypeInv, RelayType
<1>1. ClockType' /\ BoundsType'
  BY <1>0, UnwrittenType DEF TypeInv
<1>2. RelayType'
  BY <1>0, ChangeRelayType DEF TypeInv
<1>3. ClientType'
  BY <1>0, ClientKept, ChangeType DEF TypeInv, ClockType
<1> QED
  BY <1>1, <1>2, <1>3 DEF TypeInv

(* Typing, at the handlers of the relay, one by one.                       *)
LEMMA RelayStepType ==
  ASSUME TypeInv, RelayStep
  PROVE  TypeInv'
<1> USE NickAssumption
<1>a. /\ members \subseteq Nicks /\ info \subseteq Attrs /\ ghosts \subseteq Nicks
      /\ quiet \subseteq Attrs
  BY DEF TypeInv, RelayType
<1>1. ASSUME JoinUser PROVE TypeInv'
  <2>1. /\ TakesLine /\ Head(lines).cmd = "JOIN" /\ WriteMembers /\ Announce(Head(lines).who, {})
        /\ members' = members \cup Head(lines).who /\ ghosts' = ghosts \ Head(lines).who
    BY <1>1 DEF JoinUser, Handle, TakesLine
  <2>2. Head(lines).who \subseteq Nicks
    BY <2>1, HandleType DEF LineShape, Nicks
  <2>3. members' \subseteq Nicks /\ info' \subseteq Attrs /\ ghosts' \subseteq Nicks /\ quiet' \subseteq Attrs
    BY <1>a, <2>1, <2>2 DEF WriteMembers, Flags, Attrs, Announce
  <2>4. \E plus, minus \in SUBSET Attrs : delta' = [n |-> clock', plus |-> plus, minus |-> minus]
    BY <2>1, <2>2 DEF Announce, Attrs
  <2> QED
    BY <2>1, <2>3, <2>4, HandleType, SavingType DEF WriteMembers, Announce
<1>2. ASSUME PartUser PROVE TypeInv'
  <2>1. TakesLine /\ Head(lines).cmd = "PART" /\ ghosts' = ghosts \ Head(lines).who
    BY <1>2 DEF PartUser, Handle, TakesLine
  <2>2. Head(lines).who \subseteq Nicks /\ ghosts' \subseteq Nicks
    BY <1>a, <2>1, HandleType DEF LineShape
  <2>3. CASE Head(lines).who \subseteq members
    <3>1. /\ WriteMembers /\ Announce({}, Head(lines).who)
          /\ members' = members \ Head(lines).who
      BY <1>2, <2>3 DEF PartUser, Handle, TakesLine
    <3>2. members' \subseteq Nicks /\ info' \subseteq Attrs /\ quiet' \subseteq Attrs
      BY <1>a, <3>1, <2>2 DEF WriteMembers, Flags, Attrs, Announce
    <3>3. \E plus, minus \in SUBSET Attrs : delta' = [n |-> clock', plus |-> plus, minus |-> minus]
      BY <3>1, <2>2 DEF Announce, Attrs
    <3> QED
      BY <2>1, <2>2, <3>1, <3>2, <3>3, HandleType, SavingType DEF WriteMembers, Announce
  <2>4. CASE ~(Head(lines).who \subseteq members)
    <3>1. UNCHANGED <<relay, unwritten, clock, news, quiet>>
      BY <1>2, <2>4 DEF PartUser, Handle, TakesLine
    <3> QED
      BY <2>1, <2>2, <3>1, HandleType, NothingChangesType DEF relay
  <2> QED
    BY <2>3, <2>4
<1>3. ASSUME NickChange PROVE TypeInv'
  <2>1. TakesLine /\ Head(lines).cmd = "NICK" /\ ghosts' = ghosts \ (Head(lines).who \cup Head(lines).to)
    BY <1>3 DEF NickChange, Handle, TakesLine
  <2>2. Head(lines).who \subseteq Nicks /\ Head(lines).to \subseteq Nicks /\ ghosts' \subseteq Nicks
    BY <1>a, <2>1, HandleType DEF LineShape, Nicks
  <2>3. CASE Head(lines).who \subseteq members
    <3>1. /\ WriteMembers /\ Announce(Head(lines).to, Head(lines).who)
          /\ members' = (members \ Head(lines).who) \cup Head(lines).to
      BY <1>3, <2>3 DEF NickChange, Handle, TakesLine
    <3>2. members' \subseteq Nicks /\ info' \subseteq Attrs /\ quiet' \subseteq Attrs
      BY <1>a, <3>1, <2>2 DEF WriteMembers, Flags, Attrs, Announce
    <3>3. \E plus, minus \in SUBSET Attrs : delta' = [n |-> clock', plus |-> plus, minus |-> minus]
      BY <3>1, <2>2 DEF Announce, Attrs
    <3> QED
      BY <2>1, <2>2, <3>1, <3>2, <3>3, HandleType, SavingType DEF WriteMembers, Announce
  <2>4. CASE ~(Head(lines).who \subseteq members)
    <3>1. UNCHANGED <<relay, unwritten, clock, news, quiet>>
      BY <1>3, <2>4 DEF NickChange, Handle, TakesLine
    <3> QED
      BY <2>1, <2>2, <3>1, HandleType, NothingChangesType DEF relay
  <2> QED
    BY <2>3, <2>4
<1>4. ASSUME SetTopic PROVE TypeInv'
  <2>1. /\ TakesLine /\ Head(lines).cmd = "TOPIC" /\ Save /\ written' = written
        /\ Announce(Head(lines).who, {"topic"} \ Head(lines).who)
        /\ members' = members /\ ghosts' = ghosts
        /\ info' = (info \ {"topic"}) \cup Head(lines).who
    BY <1>4 DEF SetTopic, Handle, TakesLine
  <2>2. Head(lines).who \subseteq {"topic"}
    BY <2>1, HandleType DEF LineShape
  <2>3. members' \subseteq Nicks /\ info' \subseteq Attrs /\ ghosts' \subseteq Nicks /\ quiet' \subseteq Attrs
    BY <1>a, <2>1, <2>2 DEF Attrs, Announce
  <2>4. \E plus, minus \in SUBSET Attrs : delta' = [n |-> clock', plus |-> plus, minus |-> minus]
    BY <2>1, <2>2 DEF Announce, Attrs
  <2> QED
    BY <2>1, <2>3, <2>4, HandleType, SavingType DEF Announce
<1>5. ASSUME Part PROVE TypeInv'
  <2>1. /\ TakesLine /\ Head(lines).cmd = "PART" /\ Save /\ written' = clock + 1
        /\ ChangeQuietly(members \cup {"joined"})
        /\ members' = {} /\ ghosts' = {} /\ info' = info \cap {"topic"}
        /\ delta' = [n |-> clock', plus |-> {}, minus |-> {}]
    BY <1>5 DEF Part, Handle, TakesLine
  <2>3. members' \subseteq Nicks /\ info' \subseteq Attrs /\ ghosts' \subseteq Nicks /\ quiet' \subseteq Attrs
    BY <1>a, <2>1 DEF Attrs, ChangeQuietly
  <2>4. \E plus, minus \in SUBSET Attrs : delta' = [n |-> clock', plus |-> plus, minus |-> minus]
    BY <2>1
  <2> QED
    BY <2>1, <2>3, <2>4, HandleType, SavingType DEF ChangeQuietly
<1>6. ASSUME TopicReply PROVE TypeInv'
  <2>1. /\ TakesLine /\ Head(lines).cmd = "332" /\ ChangeQuietly({"topic"})
        /\ UNCHANGED <<members, delta, unwritten, ghosts>>
        /\ info' = (info \ {"topic"}) \cup Head(lines).who
    BY <1>6 DEF TopicReply, Handle, TakesLine
  <2>2. Head(lines).who \subseteq {"topic"}
    BY <2>1, HandleType DEF LineShape
  <2>3. members' \subseteq Nicks /\ info' \subseteq Attrs /\ ghosts' \subseteq Nicks
        /\ {"topic"} \in SUBSET Attrs
    BY <1>a, <2>1, <2>2 DEF Attrs
  <2> QED
    BY <2>1, <2>3, HandleType, QuietType
<1>7. ASSUME NamesReply PROVE TypeInv'
  <2>1. /\ TakesLine /\ Head(lines).cmd = "353" /\ ChangeQuietly(Head(lines).who)
        /\ UNCHANGED <<info, delta, unwritten>>
        /\ members' = members \cup Head(lines).who
        /\ ghosts' = ghosts \ Head(lines).who
    BY <1>7 DEF NamesReply, Handle, TakesLine
  <2>2. Head(lines).who \subseteq Nicks
    BY <2>1, HandleType DEF LineShape
  <2>3. members' \subseteq Nicks /\ info' \subseteq Attrs /\ ghosts' \subseteq Nicks
        /\ Head(lines).who \in SUBSET Attrs
    BY <1>a, <2>1, <2>2 DEF Attrs
  <2> QED
    BY <2>1, <2>3, HandleType, QuietType
<1>8. ASSUME EndOfNames PROVE TypeInv'
  <2>1. /\ TakesLine /\ Head(lines).cmd = "366" /\ Save /\ written' = clock + 1
        /\ Announce(info', {"topic"} \ info')
        /\ members' = members /\ ghosts' = ghosts
        /\ info' = members \cup Flags(info) \cup {"joined"}
    BY <1>8 DEF EndOfNames, Handle, TakesLine
  <2>3. members' \subseteq Nicks /\ info' \subseteq Attrs /\ ghosts' \subseteq Nicks /\ quiet' \subseteq Attrs
    BY <1>a, <2>1 DEF Attrs, Announce, Flags
  <2>4. \E plus, minus \in SUBSET Attrs : delta' = [n |-> clock', plus |-> plus, minus |-> minus]
    BY <2>1, <2>3 DEF Announce, Attrs
  <2> QED
    BY <2>1, <2>3, <2>4, HandleType, SavingType DEF Announce
<1>9. ASSUME Disconnected PROVE TypeInv'
  <2>1. /\ TakesLine /\ Head(lines).cmd = "disconnected" /\ Save /\ written' = written
        /\ ChangeQuietly({"joined"}) /\ UNCHANGED <<members, delta>>
        /\ ghosts' = members /\ info' = info \ {"joined"}
    BY <1>9 DEF Disconnected, Handle, TakesLine
  <2>3. members' \subseteq Nicks /\ info' \subseteq Attrs /\ ghosts' \subseteq Nicks /\ quiet' \subseteq Attrs
    BY <1>a, <2>1 DEF Attrs, ChangeQuietly
  <2> QED
    BY <2>1, <2>3, HandleType, SavingType DEF ChangeQuietly
<1>10. ASSUME NoHandler PROVE TypeInv'
  <2>1. /\ TakesLine /\ Head(lines).cmd = "KICK" /\ ghosts' = ghosts \cup Head(lines).who
        /\ UNCHANGED <<relay, unwritten, clock, news, quiet>>
    BY <1>10 DEF NoHandler, Handle, TakesLine
  <2>2. ghosts' \subseteq Nicks
    BY <1>a, <2>1, HandleType DEF LineShape, Nicks
  <2> QED
    BY <2>1, <2>2, HandleType, NothingChangesType DEF relay
<1>11. ASSUME SendDelta PROVE TypeInv'
  <2> USE <1>11 DEF SendDelta, server, client, bounds, kept, saved, known, TypeInv
  <2>1. delta \in Deltas /\ delta.n <= clock
    BY DEF RelayType
  <2>2. LinesType' /\ BoundsType'
    BY DEF LinesType, BoundsType
  <2>3. RelayType'
    BY DEF RelayType
  <2>4. ClockType'
    BY DEF ClockType
  <2>5. ClientType'
    BY <2>1 DEF ClientType
  <2> QED
    BY <2>2, <2>3, <2>4, <2>5
<1> QED
  BY <1>1, <1>2, <1>3, <1>4, <1>5, <1>6, <1>7, <1>8, <1>9, <1>10, <1>11 DEF RelayStep

(* Typing, when the relay starts again.                                    *)
LEMMA RestartType ==
  ASSUME TypeInv, Restart
  PROVE  TypeInv'
<1> USE DEF TypeInv
<1>1. /\ members \subseteq Nicks /\ info \subseteq Attrs /\ clock \in Nat /\ clock' = clock + 1
      /\ clock' \in Nat /\ clock <= clock'
  BY DEF RelayType, ClockType, Restart, ChangeQuietly, Change
<1>2. Contents \subseteq Attrs
  BY <1>1 DEF Contents, Flags, Attrs
<1>3. news' \in [Attrs -> 0..clock']
  BY ChangeType DEF Restart, ChangeQuietly
<1>4. LinesType' /\ BoundsType'
  BY BoundAssumption DEF LinesType, BoundsType, Restart, Fault
<1>5. RelayType'
  BY <1>2 DEF RelayType, Restart, ChangeQuietly
<1>6. ClockType'
  <2>1. clock' \in 0..clock'
    BY <1>1
  <2>2. storedAt' \in [Attrs -> 0..clock'] /\ written' \in 0..clock'
    BY <1>1, <2>1 DEF Restart
  <2> QED
    BY <1>1, <1>3, <2>2 DEF ClockType, Restart
<1>7. ClientType'
  <2>1. PICK lost \in SUBSET pending :
          /\ pending' = pending \ lost
          /\ disorder' = disorder \cup UNION {About(m) : m \in lost \cup ({delta} \ {NoMsg})}
    BY DEF Restart
  <2>2. \A m \in lost \cup ({delta} \ {NoMsg}) : m \in Deltas
    BY DEF ClientType, RelayType
  <2>3. disorder' \subseteq Attrs
    BY <2>1, <2>2 DEF ClientType, About, Deltas
  <2>4. \A i \in 0..clock : i \in 0..clock'
    BY <1>1
  <2>5. age' \in [Attrs -> 0..clock']
    BY <2>4 DEF ClientType, Restart
  <2>6. reply' \in [at : [Attrs -> 0..clock'], contents : SUBSET Attrs, current : BOOLEAN] \cup {NoMsg}
    <3>1. CASE reply = NoMsg
      BY <3>1 DEF client, Restart
    <3>2. CASE reply # NoMsg
      <4>1. reply \in [at : [Attrs -> 0..clock], contents : SUBSET Attrs, current : BOOLEAN]
        BY <3>2 DEF ClientType
      <4>2. [Attrs -> 0..clock] \subseteq [Attrs -> 0..clock']
        BY <2>4
      <4> QED
        BY <4>1, <4>2 DEF client, Restart
    <3> QED
      BY <3>1, <3>2
  <2>7. \A m \in pending' \cup flying' : m.n <= clock'
    <3>1. \A m \in pending \cup flying : m.n \in Nat /\ m.n <= clock
      BY DEF ClientType, Deltas
    <3> QED
      BY <1>1, <2>1, <3>1 DEF client, Restart
  <2> QED
    BY <2>1, <2>3, <2>5, <2>6, <2>7 DEF ClientType, client, Restart
<1> QED
  BY <1>4, <1>5, <1>6, <1>7

(* A step of the client leaves the relay and Redis as they are.            *)
LEMMA RelayTypesKept ==
  ASSUME TypeInv, UNCHANGED <<server, relay, kept, saved, events, faults>>,
         logins' \in 0..MaxLogins, ClientType'
  PROVE  TypeInv'
<1> USE DEF server, relay, kept, saved, TypeInv
<1>1. LinesType' /\ BoundsType'
  BY DEF LinesType, BoundsType
<1>2. RelayType'
  BY DEF RelayType
<1>3. ClockType'
  BY DEF ClockType
<1> QED
  BY <1>1, <1>2, <1>3

(* Typing, at the steps of the websocket server and the client.            *)
LEMMA ClientStepType ==
  ASSUME TypeInv, ClientStep \/ \E m \in pending : Broadcast(m)
  PROVE  TypeInv'
<1>a. /\ ClientType /\ ClockType /\ logins \in 0..MaxLogins
      /\ clock \in Nat /\ stored \subseteq Attrs /\ storedAt \in [Attrs -> 0..clock] /\ unsaved \in BOOLEAN
  BY DEF TypeInv, BoundsType, ClockType
<1>b. \A m \in pending \cup flying : m \in Deltas /\ m.n \in Nat /\ m.n \in 0..clock /\ About(m) \subseteq Attrs
  BY <1>a DEF ClientType, Deltas, About
<1>1. ASSUME Login PROVE TypeInv'
  <2>1. logins' \in 0..MaxLogins
    BY <1>1, <1>a, BoundAssumption DEF Login
  <2>2. age' \in [Attrs -> 0..clock]
    <3>1. 0 \in 0..clock
      BY <1>a
    <3> QED
      BY <3>1, <1>1 DEF Login
  <2>3. ClientType'
    BY <1>1, <1>a, <2>2 DEF Login, ClientType, kept
  <2> QED
    BY <1>1, <2>1, <2>3, RelayTypesKept DEF Login
<1>2. ASSUME Logout PROVE TypeInv'
  <2>1. ClientType'
    BY <1>2, <1>a DEF Logout, ClientType, kept, known
  <2> QED
    BY <1>2, <1>a, <2>1, RelayTypesKept DEF Logout, bounds
<1>3. ASSUME GetServers PROVE TypeInv'
  <2>1. reply' \in [at : [Attrs -> 0..clock], contents : SUBSET Attrs, current : BOOLEAN]
    BY <1>3, <1>a DEF GetServers
  <2>2. ClientType'
    BY <1>3, <1>a, <2>1 DEF GetServers, ClientType, kept, known
  <2> QED
    BY <1>3, <1>a, <2>2, RelayTypesKept DEF GetServers, bounds
<1>4. ASSUME ReceiveReply PROVE TypeInv'
  <2>1. reply \in [at : [Attrs -> 0..clock], contents : SUBSET Attrs, current : BOOLEAN]
    BY <1>4, <1>a DEF ReceiveReply, ClientType
  <2>2. age' \in [Attrs -> 0..clock] /\ view' \subseteq Attrs /\ disorder' \subseteq Attrs
    BY <1>4, <1>a, <2>1 DEF ReceiveReply, ClientType
  <2>3. conn = "on"
    BY <1>4, <1>a DEF ReceiveReply, ClientType
  <2>4. ClientType'
    BY <1>4, <1>a, <2>2, <2>3 DEF ReceiveReply, ClientType, kept
  <2> QED
    BY <1>4, <1>a, <2>4, RelayTypesKept DEF ReceiveReply, bounds
<1>5. ASSUME NEW m \in flying, Receive(m) PROVE TypeInv'
  <2>1. age' \in [Attrs -> 0..clock]
    BY <1>5, <1>a, <1>b DEF Receive, ClientType
  <2>2. disorder' \subseteq Attrs
    BY <1>5, <1>a, <1>b DEF Receive, ClientType
  <2>3. view' = NoView \/ view' \subseteq Attrs
    BY <1>5, <1>a, <1>b DEF Receive, ClientType, Deltas
  <2>4. conn = "on"
    BY <1>5, <1>a DEF ClientType
  <2>5. ClientType'
    BY <1>5, <1>a, <2>1, <2>2, <2>3, <2>4 DEF Receive, ClientType, kept
  <2> QED
    BY <1>5, <1>a, <2>5, RelayTypesKept DEF Receive, bounds
<1>6. ASSUME NEW m \in flying, Drop(m) PROVE TypeInv'
  <2>1. disorder' \subseteq Attrs
    BY <1>6, <1>a, <1>b DEF Drop, ClientType
  <2>2. conn = "on"
    BY <1>6, <1>a DEF ClientType
  <2>3. ClientType'
    BY <1>6, <1>a, <2>1, <2>2 DEF Drop, ClientType, kept
  <2> QED
    BY <1>6, <1>a, <2>3, RelayTypesKept DEF Drop, bounds
<1>7. ASSUME NEW m \in pending, Broadcast(m) PROVE TypeInv'
  <2>1. ClientType'
    BY <1>7, <1>a, <1>b DEF Broadcast, ClientType, kept, known
  <2> QED
    BY <1>7, <1>a, <2>1, RelayTypesKept DEF Broadcast, bounds
<1> QED
  BY <1>1, <1>2, <1>3, <1>4, <1>5, <1>6, <1>7 DEF ClientStep

(* Typing, when nothing happens.                                           *)
LEMMA StutterType ==
  ASSUME TypeInv, UNCHANGED vars
  PROVE  TypeInv'
<1>1. ClientType'
  BY DEF TypeInv, ClientType, vars, client, known, kept
<1>2. logins' \in 0..MaxLogins
  BY DEF TypeInv, BoundsType, vars, bounds
<1> QED
  BY <1>1, <1>2, RelayTypesKept DEF vars, bounds

(* Typing is inductive.                                                    *)
LEMMA StepType ==
  ASSUME TypeInv, [Next]_vars
  PROVE  TypeInv'
BY ServerStepType, RelayStepType, RestartType, ClientStepType, StutterType DEF Next

-----------------------------------------------------------------------------
(* The members and the IRC server. *)

(* How the server sees what the lines make of the contents: nobody is      *)
(* missing while the user is in the channel, nobody is certain who is not  *)
(* there, and the topic is right.                                          *)
Agrees(xe, se) ==
  /\ "joined" \in xe <=> Me \in actual
  /\ Me \in actual => actual \subseteq xe /\ xe \cap {"topic"} = topic
  /\ se \cap Nicks \subseteq actual
  /\ Me \notin actual => se \cap Nicks = {}

(* There is such a trail for the lines under way.                          *)
LinesInv ==
  \E xe, se \in SUBSET Attrs :
    Leads(Contents, Contents \ ghosts, lines, xe, se) /\ Agrees(xe, se)

(* The contents are elements.                                              *)
LEMMA ContentsType ==
  ASSUME TypeInv
  PROVE  Contents \in SUBSET Attrs /\ Contents \ ghosts \in SUBSET Attrs
BY DEF TypeInv, RelayType, Contents, Flags, Attrs

(* When no line is under way the trail ends where it begins.               *)
LEMMA LinesInvImplies ==
  ASSUME TypeInv, LinesInv
  PROVE  ChannelIsTrue
<1> SUFFICES ASSUME lines = <<>>, "joined" \in info
             PROVE  /\ actual \subseteq members /\ members \subseteq actual \cup ghosts
                    /\ info \cap {"topic"} = topic
  BY DEF ChannelIsTrue, Handled
<1>1. PICK xe \in SUBSET Attrs, se \in SUBSET Attrs :
        Leads(Contents, Contents \ ghosts, lines, xe, se) /\ Agrees(xe, se)
  BY DEF LinesInv
<1>2. xe = Contents /\ se = Contents \ ghosts
  BY <1>1, ContentsType, LeadsEmpty
<1>3. Me \in actual /\ actual \subseteq Nicks /\ members \subseteq Nicks
  BY <1>1, <1>2 DEF Agrees, Contents, Flags, TypeInv, LinesType, RelayType
<1> QED
  BY <1>1, <1>2, <1>3, NickAssumption DEF Agrees, Contents, Flags

(* The trail, at the start: no lines, no contents.                         *)
LEMMA InitLines == Init => LinesInv
<1> SUFFICES ASSUME Init PROVE LinesInv
  OBVIOUS
<1>1. Contents = {} /\ Contents \ ghosts = {} /\ lines = <<>>
  BY DEF Init, Contents, Flags
<1>2. {} \in SUBSET Attrs
  OBVIOUS
<1>3. Leads({}, {}, <<>>, {}, {})
  BY <1>2, LeadsEmpty
<1>4. Agrees({}, {})
  BY NickAssumption DEF Init, Agrees
<1> QED
  BY <1>1, <1>2, <1>3, <1>4 DEF LinesInv

(* A line that is sent. *)
LEMMA HearLines ==
  ASSUME TypeInv, LinesInv, NEW l \in GoodLine, Hear(l),
         UNCHANGED <<members, info, ghosts>>,
         Me \notin actual => Me \notin actual',
         \A xe, se \in SUBSET Attrs : Agrees(xe, se) /\ Me \in actual =>
           Expected(xe, l) /\ Agrees(After(xe, l), SureAfter(se, l))'
  PROVE  LinesInv'
<1>1. PICK xe \in SUBSET Attrs, se \in SUBSET Attrs :
        Leads(Contents, Contents \ ghosts, lines, xe, se) /\ Agrees(xe, se)
  BY DEF LinesInv
<1>2. Contents' = Contents /\ (Contents \ ghosts)' = Contents \ ghosts
  BY DEF Contents, Flags
<1>3. CASE Me \in actual
  <2>1. lines' = Append(lines, l)
    BY <1>3 DEF Hear
  <2>2. Leads(Contents, Contents \ ghosts, lines', After(xe, l), SureAfter(se, l))
    BY <1>1, <1>3, <2>1, LeadsAppend DEF TypeInv, LinesType
  <2>3. After(xe, l) \in SUBSET Attrs /\ SureAfter(se, l) \in SUBSET Attrs
    BY AfterType
  <2>4. Agrees(After(xe, l), SureAfter(se, l))'
    BY <1>1, <1>3
  <2> QED
    BY <1>2, <2>2, <2>3, <2>4 DEF LinesInv
<1>4. CASE Me \notin actual
  <2>1. Agrees(xe, se)'
    BY <1>1, <1>4 DEF Agrees
  <2>2. lines' = lines
    BY <1>4 DEF Hear
  <2> QED
    BY <1>1, <1>2, <2>1, <2>2 DEF LinesInv
<1> QED
  BY <1>3, <1>4

(* Each event in the channel sends the line that leads to what the server  *)
(* sees; the answer to a JOIN sends three.                                 *)
LEMMA ServerStepLines ==
  ASSUME TypeInv, LinesInv, ServerStep
  PROVE  LinesInv'
<1> USE NickAssumption
<1>a. actual \subseteq Nicks /\ topic \subseteq {"topic"} /\ lines \in Seq(GoodLine)
  BY DEF TypeInv, LinesType
<1>b. /\ Event \/ Break => UNCHANGED <<members, info, ghosts>>
  BY DEF Event, Break, relay, kept
<1>1. ASSUME NEW n \in Others, OtherJoins(n) PROVE LinesInv'
  <2>1. PICK l : l = Line("JOIN", {n}, {})
    OBVIOUS
  <2>2. l \in GoodLine
    BY <2>1 DEF Line, AnyLine, LineShape, GoodLine, Nicks, Attrs
  <2>3. Given(l) = {n} /\ Taken(l) = {} /\ Doubted(l) = {}
    BY <2>1 DEF Line, Given, Taken, Doubted
  <2>4. actual' = actual \cup {n} /\ topic' = topic /\ n # Me /\ n \in Nicks
    BY <1>1 DEF OtherJoins, Nicks
  <2>5. ASSUME NEW xe \in SUBSET Attrs, NEW se \in SUBSET Attrs, Agrees(xe, se), Me \in actual
        PROVE  Expected(xe, l) /\ Agrees(After(xe, l), SureAfter(se, l))'
    <3>1. Expected(xe, l)
      BY <2>1 DEF Expected, Line
    <3>2. After(xe, l) = xe \cup {n} /\ SureAfter(se, l) = se \cup {n}
      BY <2>3 DEF After, SureAfter
    <3>3. n \notin {"joined", "topic"}
      BY <2>4
    <3> QED
      BY <2>4, <2>5, <3>1, <3>2, <3>3 DEF Agrees
  <2> QED
    BY <1>1, <1>b, <2>1, <2>2, <2>4, <2>5, HearLines DEF OtherJoins
<1>2. ASSUME NEW n \in Others, OtherLeaves(n) PROVE LinesInv'
  <2>1. PICK l : l = Line("PART", {n}, {})
    OBVIOUS
  <2>2. l \in GoodLine
    BY <2>1 DEF Line, AnyLine, LineShape, GoodLine, Nicks, Attrs
  <2>3. Given(l) = {} /\ Taken(l) = {n} /\ Doubted(l) = {n}
    BY <2>1 DEF Line, Given, Taken, Doubted
  <2>4. actual' = actual \ {n} /\ topic' = topic /\ n # Me /\ n \in Nicks
    BY <1>2 DEF OtherLeaves, Nicks
  <2>5. ASSUME NEW xe \in SUBSET Attrs, NEW se \in SUBSET Attrs, Agrees(xe, se), Me \in actual
        PROVE  Expected(xe, l) /\ Agrees(After(xe, l), SureAfter(se, l))'
    <3>1. Expected(xe, l)
      BY <2>1 DEF Expected, Line
    <3>2. After(xe, l) = xe \ {n} /\ SureAfter(se, l) = se \ {n}
      BY <2>3 DEF After, SureAfter
    <3>3. n \notin {"joined", "topic"}
      BY <2>4
    <3> QED
      BY <2>4, <2>5, <3>1, <3>2, <3>3 DEF Agrees
  <2> QED
    BY <1>2, <1>b, <2>1, <2>2, <2>4, <2>5, HearLines DEF OtherLeaves
<1>3. ASSUME NEW n \in Others, OtherIsKicked(n) PROVE LinesInv'
  <2>1. PICK l : l = Line("KICK", {n}, {})
    OBVIOUS
  <2>2. l \in GoodLine
    BY <2>1 DEF Line, AnyLine, LineShape, GoodLine, Nicks, Attrs
  <2>3. Given(l) = {} /\ Taken(l) = {} /\ Doubted(l) = {n}
    BY <2>1 DEF Line, Given, Taken, Doubted
  <2>4. actual' = actual \ {n} /\ topic' = topic /\ n # Me /\ n \in Nicks
    BY <1>3 DEF OtherIsKicked, Nicks
  <2>5. ASSUME NEW xe \in SUBSET Attrs, NEW se \in SUBSET Attrs, Agrees(xe, se), Me \in actual
        PROVE  Expected(xe, l) /\ Agrees(After(xe, l), SureAfter(se, l))'
    <3>1. Expected(xe, l)
      BY <2>1 DEF Expected, Line
    <3>2. After(xe, l) = xe /\ SureAfter(se, l) = se \ {n}
      BY <2>3 DEF After, SureAfter
    <3> QED
      BY <2>4, <2>5, <3>1, <3>2 DEF Agrees
  <2> QED
    BY <1>3, <1>b, <2>1, <2>2, <2>4, <2>5, HearLines DEF OtherIsKicked
<1>4. ASSUME NEW n \in Others, NEW to \in Others, OtherRenames(n, to) PROVE LinesInv'
  <2>1. PICK l : l = Line("NICK", {n}, {to})
    OBVIOUS
  <2>2. l \in GoodLine
    BY <1>4, <2>1, GoodLines DEF OtherRenames
  <2>3. Given(l) = {to} /\ Taken(l) = {n} /\ Doubted(l) = {n}
    BY <2>1 DEF Line, Given, Taken, Doubted
  <2>4. /\ actual' = (actual \ {n}) \cup {to} /\ n # Me /\ n \in Nicks /\ to # Me /\ to \in Nicks
        /\ n \in actual /\ topic' = topic
    BY <1>4 DEF OtherRenames, Nicks
  <2>5. ASSUME NEW xe \in SUBSET Attrs, NEW se \in SUBSET Attrs, Agrees(xe, se), Me \in actual
        PROVE  Expected(xe, l) /\ Agrees(After(xe, l), SureAfter(se, l))'
    <3>1. Expected(xe, l)
      BY <2>1, <2>4, <2>5 DEF Expected, Line, Agrees
    <3>2. After(xe, l) = (xe \ {n}) \cup {to} /\ SureAfter(se, l) = (se \ {n}) \cup {to}
      BY <2>3 DEF After, SureAfter
    <3>3. n \notin {"joined", "topic"} /\ to \notin {"joined", "topic"}
      BY <2>4
    <3> QED
      BY <2>4, <2>5, <3>1, <3>2, <3>3 DEF Agrees
  <2> QED
    BY <1>4, <1>b, <2>1, <2>2, <2>4, <2>5, HearLines DEF OtherRenames
<1>5. ASSUME TopicChanges PROVE LinesInv'
  <2>1. PICK l : l = Line("TOPIC", topic', {})
    OBVIOUS
  <2>2. l \in GoodLine
    BY <1>5, <2>1, MoreGoodLines DEF TopicChanges
  <2>3. Given(l) = topic' /\ Taken(l) = {"topic"} /\ Doubted(l) = {"topic"}
    BY <2>1 DEF Line, Given, Taken, Doubted
  <2>4. actual' = actual /\ topic' \subseteq {"topic"}
    BY <1>5 DEF TopicChanges
  <2>5. ASSUME NEW xe \in SUBSET Attrs, NEW se \in SUBSET Attrs, Agrees(xe, se), Me \in actual
        PROVE  Expected(xe, l) /\ Agrees(After(xe, l), SureAfter(se, l))'
    <3>1. Expected(xe, l)
      BY <2>1 DEF Expected, Line
    <3>2. PICK t : t = topic'
      OBVIOUS
    <3>3. /\ After(xe, l) = (xe \ {"topic"}) \cup t
          /\ SureAfter(se, l) = (se \ {"topic"}) \cup t
      BY <2>3, <3>2 DEF After, SureAfter
    <3>4. Agrees((xe \ {"topic"}) \cup t, (se \ {"topic"}) \cup t)'
      BY <1>a, <2>4, <2>5, <3>2 DEF Agrees
    <3> QED
      BY <3>1, <3>3, <3>4
  <2> QED
    BY <1>5, <1>b, <2>1, <2>2, <2>4, <2>5, HearLines DEF TopicChanges
<1>6. ASSUME ILeave PROVE LinesInv'
  <2>1. PICK l : l = Line("PART", {Me}, {})
    OBVIOUS
  <2>2. l \in GoodLine
    BY <2>1, MoreGoodLines
  <2>3. Given(l) = {} /\ Taken(l) = Attrs \ {"topic"} /\ Doubted(l) = Attrs \ {"topic"}
    BY <2>1 DEF Line, Given, Taken, Doubted
  <2>4. Me \notin actual'
    BY <1>6 DEF ILeave
  <2>5. ASSUME NEW xe \in SUBSET Attrs, NEW se \in SUBSET Attrs, Agrees(xe, se), Me \in actual
        PROVE  Expected(xe, l) /\ Agrees(After(xe, l), SureAfter(se, l))'
    <3>1. Expected(xe, l)
      BY <2>1 DEF Expected, Line
    <3>2. After(xe, l) = xe \cap {"topic"} /\ SureAfter(se, l) = se \cap {"topic"}
      BY <2>3 DEF After, SureAfter
    <3> QED
      BY <2>4, <3>1, <3>2 DEF Agrees
  <2> QED
    BY <1>6, <1>b, <2>1, <2>2, <2>4, <2>5, HearLines DEF ILeave
<1>7. ASSUME IJoin PROVE LinesInv'
  <2>1. PICK xe \in SUBSET Attrs, se \in SUBSET Attrs :
          Leads(Contents, Contents \ ghosts, lines, xe, se) /\ Agrees(xe, se)
    BY DEF LinesInv
  <2>2. PICK act : act = actual'
    OBVIOUS
  <2>3. act \subseteq Nicks /\ act = actual \cup {Me} /\ Me \notin actual
    BY <1>7, <1>a, <2>2 DEF IJoin, Nicks
  <2>4. PICK a, b, c : /\ a = Line("332", topic, {}) /\ b = Line("353", act, {})
                       /\ c = Line("366", {}, {})
    OBVIOUS
  <2>5. a \in GoodLine /\ b \in GoodLine /\ c \in GoodLine
    BY <1>a, <2>3, <2>4, MoreGoodLines
  <2>6. PICK q1, q2, q3 : q1 = Append(lines, a) /\ q2 = Append(q1, b) /\ q3 = Append(q2, c)
    OBVIOUS
  <2>7. lines' = q3 /\ q1 \in Seq(GoodLine) /\ q2 \in Seq(GoodLine)
    <3>1. lines' = lines \o <<a, b, c>>
      BY <1>7, <2>2, <2>4 DEF IJoin
    <3> QED
      BY <3>1, <1>a, <2>5, <2>6, AppendThree
  <2>8. "joined" \notin xe /\ se \cap Nicks = {}
    BY <2>1, <2>3 DEF Agrees
  <2>9. /\ Given(a) = topic /\ Taken(a) = {"topic"} /\ Doubted(a) = {"topic"}
        /\ Given(b) = act /\ Taken(b) = {} /\ Doubted(b) = {}
        /\ Given(c) = {"joined"} /\ Taken(c) = {} /\ Doubted(c) = {}
    BY <2>4 DEF Line, Given, Taken, Doubted
  <2>10. "joined" \notin Nicks
    OBVIOUS
  <2>11. PICK x1, s1, x2, s2, x3, s3 :
           /\ x1 = (xe \ {"topic"}) \cup topic /\ s1 = (se \ {"topic"}) \cup topic
           /\ x2 = x1 \cup act /\ s2 = s1 \cup act
           /\ x3 = x2 \cup {"joined"} /\ s3 = s2 \cup {"joined"}
    OBVIOUS
  <2>12. /\ After(xe, a) = x1 /\ After(x1, b) = x2 /\ After(x2, c) = x3
         /\ SureAfter(se, a) = s1 /\ SureAfter(s1, b) = s2 /\ SureAfter(s2, c) = s3
    BY <2>9, <2>11 DEF After, SureAfter
  <2>13. Expected(xe, a) /\ Expected(x1, b) /\ Expected(x2, c)
    BY <1>a, <2>3, <2>4, <2>8, <2>10, <2>11 DEF Expected, Line
  <2>14. Leads(Contents, Contents \ ghosts, q1, x1, s1)
    BY <1>a, <2>1, <2>5, <2>6, <2>12, <2>13, LeadsAppend
  <2>15. Leads(Contents, Contents \ ghosts, q2, x2, s2)
    BY <2>5, <2>6, <2>7, <2>12, <2>13, <2>14, LeadsAppend
  <2>16. Leads(Contents, Contents \ ghosts, lines', x3, s3)
    BY <2>5, <2>6, <2>7, <2>12, <2>13, <2>15, LeadsAppend
  <2>17. topic' = topic /\ Contents' = Contents /\ (Contents \ ghosts)' = Contents \ ghosts
    BY <1>7, <1>b DEF IJoin, Contents, Flags
  <2>18. Agrees(x3, s3)'
    BY <1>a, <2>17, <2>2, <2>3, <2>8, <2>10, <2>11 DEF Agrees
  <2>19. x3 \in SUBSET Attrs /\ s3 \in SUBSET Attrs
    BY <1>a, <2>3, <2>11 DEF Attrs
  <2> QED
    BY <2>16, <2>17, <2>18, <2>19 DEF LinesInv
<1>8. ASSUME Break PROVE LinesInv'
  <2>1. PICK l : l = Line("disconnected", {}, {})
    OBVIOUS
  <2>2. PICK k \in 0..Len(lines) : lines' = SubSeq(lines, 1, k) \o <<l>>
    <3>1. PICK k \in 0..Len(lines) : lines' = SubSeq(lines, 1, k) \o <<Line("disconnected", {}, {})>>
      BY <1>8 DEF Break
    <3> QED
      BY <2>1, <3>1
  <2>3. PICK q : q = SubSeq(lines, 1, k)
    OBVIOUS
  <2>4. q \in Seq(GoodLine) /\ l \in GoodLine
    BY <1>a, <2>1, <2>3, Prefix, MoreGoodLines
  <2>5. lines' = Append(q, l)
    BY <2>2, <2>3, <2>4
  <2>6. PICK x \in SUBSET Attrs, s \in SUBSET Attrs : Leads(Contents, Contents \ ghosts, q, x, s)
    BY <1>a, <2>3, LeadsPrefix DEF LinesInv
  <2>7. Expected(x, l)
    BY <2>1 DEF Expected, Line
  <2>8. Given(l) = {} /\ Taken(l) = {"joined"} /\ Doubted(l) = Attrs \ {"topic"}
    BY <2>1 DEF Line, Given, Taken, Doubted
  <2>9. After(x, l) = x \ {"joined"} /\ SureAfter(s, l) = s \cap {"topic"}
    BY <2>8 DEF After, SureAfter
  <2>10. Leads(Contents, Contents \ ghosts, lines', x \ {"joined"}, s \cap {"topic"})
    <3>1. Leads(Contents, Contents \ ghosts, Append(q, l), After(x, l), SureAfter(s, l))
      BY <2>4, <2>6, <2>7, LeadsAppend
    <3> QED
      BY <3>1, <2>5, <2>9, Zenon
  <2>11. Agrees(x \ {"joined"}, s \cap {"topic"})'
    BY <1>8 DEF Break, Agrees
  <2>12. Contents' = Contents /\ (Contents \ ghosts)' = Contents \ ghosts
    BY <1>8, <1>b DEF Contents, Flags
  <2>13. x \ {"joined"} \in SUBSET Attrs /\ s \cap {"topic"} \in SUBSET Attrs
    OBVIOUS
  <2> QED
    BY <2>10, <2>11, <2>12, <2>13 DEF LinesInv
<1>9. ASSUME Reconnect PROVE LinesInv'
  BY <1>9 DEF Reconnect, relay, kept, LinesInv, Agrees, Contents, Flags
<1> QED
  BY <1>1, <1>2, <1>3, <1>4, <1>5, <1>6, <1>7, <1>8, <1>9 DEF ServerStep

(* The line to be handled is one the contents expect.                      *)
LEMMA HeadIsExpected ==
  ASSUME TypeInv, LinesInv, lines # <<>>
  PROVE  Expected(Contents, Head(lines))
<1>1. PICK xe \in SUBSET Attrs, se \in SUBSET Attrs :
        Leads(Contents, Contents \ ghosts, lines, xe, se) /\ Agrees(xe, se)
  BY DEF LinesInv
<1> QED
  BY <1>1, LeadsTail DEF TypeInv, LinesType

(* A line that is handled the way Given, Taken and Doubted say.            *)
LEMMA HandledLines ==
  ASSUME TypeInv, LinesInv, TakesLine,
         Contents' = After(Contents, Head(lines)),
         (Contents \ ghosts)' = SureAfter(Contents \ ghosts, Head(lines))
  PROVE  LinesInv'
<1>1. PICK xe \in SUBSET Attrs, se \in SUBSET Attrs :
        Leads(Contents, Contents \ ghosts, lines, xe, se) /\ Agrees(xe, se)
  BY DEF LinesInv
<1>2. Leads(Contents', (Contents \ ghosts)', lines', xe, se)
  <2>1. Leads(After(Contents, Head(lines)), SureAfter(Contents \ ghosts, Head(lines)), Tail(lines), xe, se)
    BY <1>1, LeadsTail DEF TypeInv, LinesType, TakesLine
  <2> QED
    BY <2>1 DEF TakesLine
<1>3. Agrees(xe, se)'
  BY <1>1 DEF Agrees, TakesLine
<1> QED
  BY <1>2, <1>3 DEF LinesInv

(* Each handler does with a line what Given, Taken and Doubted say; a NICK *)
(* is never for somebody who is not a member.                              *)
LEMMA RelayStepLines ==
  ASSUME TypeInv, LinesInv, RelayStep
  PROVE  LinesInv'
<1> USE NickAssumption
<1>a. members \subseteq Nicks /\ info \subseteq Attrs /\ ghosts \subseteq Nicks /\ "joined" \notin Nicks /\ "topic" \notin Nicks
  BY DEF TypeInv, RelayType
<1> DEFINE l == Head(lines)
<1>1. ASSUME JoinUser PROVE LinesInv'
  <2>1. /\ TakesLine /\ l.cmd = "JOIN" /\ info' = members' \cup Flags(info)
        /\ members' = members \cup l.who /\ ghosts' = ghosts \ l.who
    BY <1>1 DEF JoinUser, Handle, TakesLine, WriteMembers
  <2>2. l.who \subseteq Nicks
    BY <2>1, HandleType DEF LineShape, Nicks
  <2>3. Given(l) = l.who /\ Taken(l) = {} /\ Doubted(l) = {}
    BY <2>1 DEF Given, Taken, Doubted
  <2> HIDE DEF l
  <2>4. Contents' = After(Contents, l) /\ (Contents \ ghosts)' = SureAfter(Contents \ ghosts, l)
    BY <1>a, <2>1, <2>2, <2>3 DEF Contents, Flags, After, SureAfter
  <2> QED
    BY <2>1, <2>4, HandledLines DEF l
<1>2. ASSUME PartUser PROVE LinesInv'
  <2>1. /\ TakesLine /\ l.cmd = "PART" /\ l.who # {Me} /\ ghosts' = ghosts \ l.who
    BY <1>2 DEF PartUser, Handle, TakesLine
  <2>2. PICK n \in Nicks : l.who = {n}
    BY <2>1, HandleType DEF LineShape
  <2>3. Given(l) = {} /\ Taken(l) = l.who /\ Doubted(l) = l.who
    BY <2>1 DEF Given, Taken, Doubted
  <2>4. /\ members' = members \ l.who
        /\ Flags(info') = Flags(info)
    <3>1. CASE l.who \subseteq members
      <4>1. members' = members \ l.who /\ info' = members' \cup Flags(info)
        BY <1>2, <3>1 DEF PartUser, WriteMembers
      <4> QED
        BY <4>1, <1>a DEF Flags
    <3>2. CASE ~(l.who \subseteq members)
      <4>1. members' = members /\ info' = info
        BY <1>2, <3>2 DEF PartUser, relay
      <4> QED
        BY <3>2, <4>1, <2>2
    <3> QED
      BY <3>1, <3>2
  <2>5. Contents' = After(Contents, l) /\ (Contents \ ghosts)' = SureAfter(Contents \ ghosts, l)
    <3> HIDE DEF l
    <3> QED
      BY <1>a, <2>1, <2>2, <2>3, <2>4 DEF Contents, Flags, After, SureAfter
  <2> QED
    BY <2>1, <2>5, HandledLines
<1>3. ASSUME NickChange PROVE LinesInv'
  <2>1. /\ TakesLine /\ l.cmd = "NICK" /\ ghosts' = ghosts \ (l.who \cup l.to)
    BY <1>3 DEF NickChange, Handle, TakesLine
  <2>2. l.who \subseteq Nicks /\ l.to \subseteq Nicks
    BY <2>1, HandleType DEF LineShape, Nicks
  <2>3. Given(l) = l.to /\ Taken(l) = l.who /\ Doubted(l) = l.who
    BY <2>1 DEF Given, Taken, Doubted
  <2>4. l.who \subseteq members
    BY <1>a, <2>1, <2>2, HeadIsExpected DEF Expected, Contents, Flags, TakesLine
  <2>5. members' = (members \ l.who) \cup l.to /\ info' = members' \cup Flags(info)
    BY <1>3, <2>4 DEF NickChange, WriteMembers
  <2>6. Contents' = After(Contents, l) /\ (Contents \ ghosts)' = SureAfter(Contents \ ghosts, l)
    <3> HIDE DEF l
    <3> QED
      BY <1>a, <2>1, <2>2, <2>3, <2>5 DEF Contents, Flags, After, SureAfter
  <2> QED
    BY <2>1, <2>6, HandledLines
<1>4. ASSUME SetTopic PROVE LinesInv'
  <2>1. /\ TakesLine /\ l.cmd = "TOPIC" /\ members' = members /\ ghosts' = ghosts
        /\ info' = (info \ {"topic"}) \cup l.who
    BY <1>4 DEF SetTopic, Handle, TakesLine
  <2>2. l.who \subseteq {"topic"}
    BY <2>1, HandleType DEF LineShape
  <2>3. Given(l) = l.who /\ Taken(l) = {"topic"} /\ Doubted(l) = {"topic"}
    BY <2>1 DEF Given, Taken, Doubted
  <2>4. Contents' = After(Contents, l) /\ (Contents \ ghosts)' = SureAfter(Contents \ ghosts, l)
    <3> HIDE DEF l
    <3> QED
      BY <1>a, <2>1, <2>2, <2>3 DEF Contents, Flags, After, SureAfter
  <2> QED
    BY <2>1, <2>4, HandledLines
<1>5. ASSUME Part PROVE LinesInv'
  <2>1. /\ TakesLine /\ l.cmd = "PART" /\ l.who = {Me}
        /\ members' = {} /\ ghosts' = {} /\ info' = info \cap {"topic"}
    BY <1>5 DEF Part, Handle, TakesLine
  <2>2. Given(l) = {} /\ Taken(l) = Attrs \ {"topic"} /\ Doubted(l) = Attrs \ {"topic"}
    BY <2>1 DEF Given, Taken, Doubted
  <2>3. Contents' = After(Contents, l) /\ (Contents \ ghosts)' = SureAfter(Contents \ ghosts, l)
    <3> HIDE DEF l
    <3> QED
      BY <1>a, <2>1, <2>2, ContentsType DEF Contents, Flags, After, SureAfter
  <2> QED
    BY <2>1, <2>3, HandledLines
<1>6. ASSUME TopicReply PROVE LinesInv'
  <2>1. /\ TakesLine /\ l.cmd = "332" /\ members' = members /\ ghosts' = ghosts
        /\ info' = (info \ {"topic"}) \cup l.who
    BY <1>6 DEF TopicReply, Handle, TakesLine
  <2>2. l.who \subseteq {"topic"}
    BY <2>1, HandleType DEF LineShape
  <2>3. Given(l) = l.who /\ Taken(l) = {"topic"} /\ Doubted(l) = {"topic"}
    BY <2>1 DEF Given, Taken, Doubted
  <2>4. Contents' = After(Contents, l) /\ (Contents \ ghosts)' = SureAfter(Contents \ ghosts, l)
    <3> HIDE DEF l
    <3> QED
      BY <1>a, <2>1, <2>2, <2>3 DEF Contents, Flags, After, SureAfter
  <2> QED
    BY <2>1, <2>4, HandledLines
<1>7. ASSUME NamesReply PROVE LinesInv'
  <2>1. /\ TakesLine /\ l.cmd = "353" /\ info' = info
        /\ members' = members \cup l.who /\ ghosts' = ghosts \ l.who
    BY <1>7 DEF NamesReply, Handle, TakesLine
  <2>2. Given(l) = l.who /\ Taken(l) = {} /\ Doubted(l) = {}
    BY <2>1 DEF Given, Taken, Doubted
  <2>3. Contents' = After(Contents, l) /\ (Contents \ ghosts)' = SureAfter(Contents \ ghosts, l)
    <3> HIDE DEF l
    <3> QED
      BY <2>1, <2>2 DEF Contents, Flags, After, SureAfter
  <2> QED
    BY <2>1, <2>3, HandledLines
<1>8. ASSUME EndOfNames PROVE LinesInv'
  <2>1. /\ TakesLine /\ l.cmd = "366" /\ members' = members /\ ghosts' = ghosts
        /\ info' = members \cup Flags(info) \cup {"joined"}
    BY <1>8 DEF EndOfNames, Handle, TakesLine
  <2>2. Given(l) = {"joined"} /\ Taken(l) = {} /\ Doubted(l) = {}
    BY <2>1 DEF Given, Taken, Doubted
  <2>3. Contents' = After(Contents, l) /\ (Contents \ ghosts)' = SureAfter(Contents \ ghosts, l)
    <3> HIDE DEF l
    <3> QED
      BY <1>a, <2>1, <2>2 DEF Contents, Flags, After, SureAfter
  <2> QED
    BY <2>1, <2>3, HandledLines
<1>9. ASSUME Disconnected PROVE LinesInv'
  <2>1. /\ TakesLine /\ l.cmd = "disconnected" /\ members' = members /\ ghosts' = members
        /\ info' = info \ {"joined"}
    BY <1>9 DEF Disconnected, Handle, TakesLine
  <2>2. Given(l) = {} /\ Taken(l) = {"joined"} /\ Doubted(l) = Attrs \ {"topic"}
    BY <2>1 DEF Given, Taken, Doubted
  <2>3. Contents' = After(Contents, l) /\ (Contents \ ghosts)' = SureAfter(Contents \ ghosts, l)
    <3> HIDE DEF l
    <3> QED
      BY <1>a, <2>1, <2>2, ContentsType DEF Contents, Flags, After, SureAfter
  <2> QED
    BY <2>1, <2>3, HandledLines
<1>10. ASSUME NoHandler PROVE LinesInv'
  <2>1. /\ TakesLine /\ l.cmd = "KICK" /\ members' = members /\ info' = info
        /\ ghosts' = ghosts \cup l.who
    BY <1>10 DEF NoHandler, Handle, TakesLine, relay
  <2>2. Given(l) = {} /\ Taken(l) = {} /\ Doubted(l) = l.who
    BY <2>1 DEF Given, Taken, Doubted
  <2>3. Contents' = After(Contents, l) /\ (Contents \ ghosts)' = SureAfter(Contents \ ghosts, l)
    <3> HIDE DEF l
    <3> QED
      BY <2>1, <2>2 DEF Contents, Flags, After, SureAfter
  <2> QED
    BY <2>1, <2>3, HandledLines
<1>11. ASSUME SendDelta PROVE LinesInv'
  BY <1>11 DEF SendDelta, server, kept, LinesInv, Agrees, Contents, Flags
<1> QED
  BY <1>1, <1>2, <1>3, <1>4, <1>5, <1>6, <1>7, <1>8, <1>9, <1>10, <1>11 DEF RelayStep

(* A relay that starts again has no contents and is in no channel.         *)
LEMMA RestartLines ==
  ASSUME TypeInv, Restart
  PROVE  LinesInv'
<1>1. Contents' = {} /\ (Contents \ ghosts)' = {} /\ lines' = <<>> /\ actual' = actual \ {Me}
  BY DEF Restart, Contents, Flags
<1>2. {} \in SUBSET Attrs /\ Leads({}, {}, <<>>, {}, {})
  BY LeadsEmpty
<1>3. Agrees({}, {})'
  BY <1>1, NickAssumption DEF Agrees
<1> QED
  BY <1>1, <1>2, <1>3 DEF LinesInv

(* Nothing else is about the lines.                                        *)
LEMMA LinesKept ==
  ASSUME LinesInv, UNCHANGED <<actual, topic, lines, members, info, ghosts>>
  PROVE  LinesInv'
BY DEF LinesInv, Agrees, Contents, Flags

(* The trail is inductive.                                                 *)
LEMMA StepLines ==
  ASSUME TypeInv, LinesInv, [Next]_vars
  PROVE  LinesInv'
<1>1. ASSUME ClientStep PROVE LinesInv'
  <2>1. UNCHANGED <<actual, topic, lines, members, info, ghosts>>
    BY <1>1 DEF ClientStep, Login, Logout, GetServers, ReceiveReply, Receive, Drop,
                server, relay, kept
  <2> QED
    BY <2>1, LinesKept
<1>2. ASSUME NEW m \in pending, Broadcast(m) PROVE LinesInv'
  BY <1>2, LinesKept DEF Broadcast, server, relay, kept
<1>3. ASSUME UNCHANGED vars PROVE LinesInv'
  BY <1>3, LinesKept DEF vars, server, relay, kept
<1> QED
  BY <1>1, <1>2, <1>3, ServerStepLines, RelayStepLines, RestartLines DEF Next

-----------------------------------------------------------------------------
(* The copy in Redis. *)

(* A line after which the copy is right again, and there is one behind     *)
(* every 332.                                                              *)
Mending == {"366", "disconnected"}
IsMended(q) == \E i \in 1..Len(q) : q[i].cmd \in Mending
TopicsAreMended(q) ==
  \A i \in 1..Len(q) : q[i].cmd = "332" =>
    \E j \in (i + 1)..Len(q) : q[j].cmd \in Mending

(* In a channel the info has all the contents; outside of one the copy may *)
(* lack a topic (332) as long as a line is to come that saves.             *)
InfoIsWhole == "joined" \in info => info = Contents
CopyIsMended ==
  ~unsaved =>
    /\ "joined" \in info => stored = info
    /\ Flags(stored) = Flags(info) \/ IsMended(lines)
StoredInv == InfoIsWhole /\ CopyIsMended /\ TopicsAreMended(lines)

(* Without lines nothing is left to mend.                                  *)
LEMMA StoredInvImplies ==
  ASSUME StoredInv
  PROVE  StoredIsCurrent
<1> SUFFICES ASSUME lines = <<>>, ~unsaved
             PROVE  /\ Flags(stored) = Flags(info)
                    /\ "joined" \in info => stored = Contents
  BY DEF StoredIsCurrent, Handled
<1>1. ~IsMended(<<>>)
  BY DEF IsMended
<1> QED
  BY <1>1 DEF StoredInv, InfoIsWhole, CopyIsMended

(* The copy, at the start.                                                 *)
LEMMA InitStored == Init => StoredInv
BY DEF Init, StoredInv, InfoIsWhole, CopyIsMended, TopicsAreMended

(* A line that is sent.                                                    *)
LEMMA MendedAppend ==
  ASSUME NEW q \in Seq(GoodLine), NEW l \in GoodLine
  PROVE  /\ IsMended(q) => IsMended(Append(q, l))
         /\ l.cmd \in Mending => IsMended(Append(q, l)) /\ TopicsAreMended(Append(q, l))
         /\ TopicsAreMended(q) /\ l.cmd # "332" => TopicsAreMended(Append(q, l))
<1>1. PICK p : p = Append(q, l)
  OBVIOUS
<1>2. /\ Len(q) \in Nat /\ Len(p) = Len(q) + 1
      /\ \A i \in 1..Len(q) : p[i] = q[i]
      /\ p[Len(q) + 1] = l
  BY <1>1
<1>3. IsMended(q) => IsMended(p)
  BY <1>2 DEF IsMended
<1>4. ASSUME l.cmd \in Mending PROVE IsMended(p) /\ TopicsAreMended(p)
  <2>1. IsMended(p)
    BY <1>2, <1>4 DEF IsMended
  <2>2. ASSUME NEW i \in 1..Len(p), p[i].cmd = "332"
        PROVE  \E j \in (i + 1)..Len(p) : p[j].cmd \in Mending
    <3>1. i # Len(p)
      BY <1>2, <1>4, <2>2 DEF Mending
    <3>2. Len(p) \in (i + 1)..Len(p)
      BY <1>2, <3>1
    <3> QED
      BY <3>2, <1>2, <1>4
  <2> QED
    BY <2>1, <2>2 DEF TopicsAreMended
<1>5. ASSUME TopicsAreMended(q), l.cmd # "332" PROVE TopicsAreMended(p)
  <2>1. ASSUME NEW i \in 1..Len(p), p[i].cmd = "332"
        PROVE  \E j \in (i + 1)..Len(p) : p[j].cmd \in Mending
    <3>1. i \in 1..Len(q)
      BY <1>2, <1>5, <2>1
    <3>2. PICK j \in (i + 1)..Len(q) : q[j].cmd \in Mending
      BY <1>2, <1>5, <2>1, <3>1 DEF TopicsAreMended
    <3>3. j \in (i + 1)..Len(p) /\ j \in 1..Len(q)
      BY <1>2, <3>1
    <3> QED
      BY <3>2, <3>3, <1>2
  <2> QED
    BY <2>1 DEF TopicsAreMended
<1> QED
  BY <1>1, <1>3, <1>4, <1>5

(* A line that is handled.                                                 *)
LEMMA MendedTail ==
  ASSUME NEW q \in Seq(GoodLine), q # <<>>
  PROVE  /\ IsMended(q) /\ Head(q).cmd \notin Mending => IsMended(Tail(q))
         /\ TopicsAreMended(q) => TopicsAreMended(Tail(q))
         /\ TopicsAreMended(q) /\ Head(q).cmd = "332" => IsMended(Tail(q))
<1>1. PICK p : p = Tail(q)
  OBVIOUS
<1>2. /\ Len(q) \in Nat \ {0} /\ Len(p) = Len(q) - 1 /\ Head(q) = q[1]
      /\ \A i \in 1..Len(p) : p[i] = q[i + 1]
  BY <1>1, HeadTailProperties, EmptySeq
<1>3. \A j \in 2..Len(q) : j - 1 \in 1..Len(p) /\ p[j - 1] = q[j]
  BY <1>2
<1>4. ASSUME IsMended(q), Head(q).cmd \notin Mending PROVE IsMended(p)
  <2>1. PICK i \in 1..Len(q) : q[i].cmd \in Mending
    BY <1>4 DEF IsMended
  <2>2. i \in 2..Len(q)
    BY <1>2, <1>4, <2>1
  <2> QED
    BY <1>3, <2>1, <2>2 DEF IsMended
<1>5. ASSUME TopicsAreMended(q) PROVE TopicsAreMended(p)
  <2>1. ASSUME NEW i \in 1..Len(p), p[i].cmd = "332"
        PROVE  \E j \in (i + 1)..Len(p) : p[j].cmd \in Mending
    <3>1. i + 1 \in 1..Len(q) /\ q[i + 1].cmd = "332"
      BY <1>2, <2>1
    <3>2. PICK j \in ((i + 1) + 1)..Len(q) : q[j].cmd \in Mending
      BY <1>5, <3>1 DEF TopicsAreMended
    <3>3. j \in 2..Len(q) /\ j - 1 \in (i + 1)..Len(p)
      BY <1>2, <3>1, <3>2
    <3> QED
      BY <1>3, <3>2, <3>3
  <2> QED
    BY <2>1 DEF TopicsAreMended
<1>6. ASSUME TopicsAreMended(q), Head(q).cmd = "332" PROVE IsMended(p)
  <2>1. 1 \in 1..Len(q) /\ q[1].cmd = "332"
    BY <1>2, <1>6
  <2>2. PICK j \in (1 + 1)..Len(q) : q[j].cmd \in Mending
    BY <1>6, <2>1 DEF TopicsAreMended
  <2>3. j \in 2..Len(q)
    OBVIOUS
  <2> QED
    BY <1>3, <2>2, <2>3 DEF IsMended
<1> QED
  BY <1>1, <1>4, <1>5, <1>6

(* The steps of the IRC server. *)
LEMMA LongerLinesStored ==
  ASSUME StoredInv, UNCHANGED <<info, members, stored, unsaved>>,
         TopicsAreMended(lines'), IsMended(lines) => IsMended(lines')
  PROVE  StoredInv'
<1>1. InfoIsWhole'
  BY DEF StoredInv, InfoIsWhole, Contents, Flags
<1>2. CopyIsMended'
  BY DEF StoredInv, CopyIsMended, Flags
<1> QED
  BY <1>1, <1>2 DEF StoredInv

(* A line other than 332 that is sent.                                     *)
LEMMA HearStored ==
  ASSUME TypeInv, StoredInv, NEW l \in GoodLine, Hear(l), l.cmd # "332",
         UNCHANGED <<info, members, stored, unsaved>>
  PROVE  StoredInv'
<1>1. lines \in Seq(GoodLine) /\ TopicsAreMended(lines)
  BY DEF TypeInv, LinesType, StoredInv
<1>2. lines' = lines \/ lines' = Append(lines, l)
  BY DEF Hear
<1>3. TopicsAreMended(lines') /\ (IsMended(lines) => IsMended(lines'))
  BY <1>1, <1>2, MendedAppend
<1> QED
  BY <1>3, LongerLinesStored

(* The copy, at the steps of the IRC server: 332 comes with its 366, and   *)
(* a session that breaks puts its own line behind what is left.            *)
LEMMA ServerStepStored ==
  ASSUME TypeInv, StoredInv, ServerStep
  PROVE  StoredInv'
<1>a. actual \subseteq Nicks /\ topic \subseteq {"topic"} /\ lines \in Seq(GoodLine)
  BY DEF TypeInv, LinesType
<1>b. /\ Event => UNCHANGED <<info, members, stored, unsaved>>
      /\ Break => UNCHANGED <<info, members, stored, unsaved>>
      /\ Reconnect => UNCHANGED <<info, members, stored, unsaved>>
  BY DEF Event, Break, Reconnect, relay, saved
<1>1. ASSUME NEW n \in Others, OtherJoins(n) PROVE StoredInv'
  <2>1. Line("JOIN", {n}, {}) \in GoodLine /\ Line("JOIN", {n}, {}).cmd # "332"
    BY DEF Line, AnyLine, LineShape, GoodLine, Nicks, Attrs
  <2> QED
    BY <1>1, <1>b, <2>1, HearStored DEF OtherJoins
<1>2. ASSUME NEW n \in Others, OtherLeaves(n) PROVE StoredInv'
  <2>1. Line("PART", {n}, {}) \in GoodLine /\ Line("PART", {n}, {}).cmd # "332"
    BY DEF Line, AnyLine, LineShape, GoodLine, Nicks, Attrs
  <2> QED
    BY <1>2, <1>b, <2>1, HearStored DEF OtherLeaves
<1>3. ASSUME NEW n \in Others, OtherIsKicked(n) PROVE StoredInv'
  <2>1. Line("KICK", {n}, {}) \in GoodLine /\ Line("KICK", {n}, {}).cmd # "332"
    BY DEF Line, AnyLine, LineShape, GoodLine, Nicks, Attrs
  <2> QED
    BY <1>3, <1>b, <2>1, HearStored DEF OtherIsKicked
<1>4. ASSUME NEW n \in Others, NEW to \in Others, OtherRenames(n, to) PROVE StoredInv'
  <2>1. Line("NICK", {n}, {to}) \in GoodLine /\ Line("NICK", {n}, {to}).cmd # "332"
    BY <1>4, GoodLines DEF OtherRenames, Line
  <2> QED
    BY <1>4, <1>b, <2>1, HearStored DEF OtherRenames
<1>5. ASSUME TopicChanges PROVE StoredInv'
  <2>1. PICK l : l = Line("TOPIC", topic', {})
    OBVIOUS
  <2>2. l \in GoodLine /\ l.cmd # "332"
    BY <1>5, <2>1, MoreGoodLines DEF TopicChanges, Line
  <2> QED
    BY <1>5, <1>b, <2>1, <2>2, HearStored DEF TopicChanges
<1>6. ASSUME ILeave PROVE StoredInv'
  <2>1. Line("PART", {Me}, {}) \in GoodLine /\ Line("PART", {Me}, {}).cmd # "332"
    BY MoreGoodLines DEF Line
  <2> QED
    BY <1>6, <1>b, <2>1, HearStored DEF ILeave
<1>7. ASSUME IJoin PROVE StoredInv'
  <2>1. PICK act : act = actual'
    OBVIOUS
  <2>2. PICK a, b, c : /\ a = Line("332", topic, {}) /\ b = Line("353", act, {})
                       /\ c = Line("366", {}, {})
    OBVIOUS
  <2>3. act \subseteq Nicks
    BY <1>7, <1>a, <2>1 DEF IJoin, Nicks
  <2>4. a \in GoodLine /\ b \in GoodLine /\ c \in GoodLine /\ c.cmd \in Mending
    BY <1>a, <2>2, <2>3, MoreGoodLines DEF Line, Mending
  <2>5. PICK q1, q2, q3 : q1 = Append(lines, a) /\ q2 = Append(q1, b) /\ q3 = Append(q2, c)
    OBVIOUS
  <2>6. lines' = q3 /\ q1 \in Seq(GoodLine) /\ q2 \in Seq(GoodLine)
    <3>1. lines' = lines \o <<a, b, c>>
      BY <1>7, <2>1, <2>2 DEF IJoin
    <3> QED
      BY <3>1, <1>a, <2>4, <2>5, AppendThree
  <2>7. TopicsAreMended(q3) /\ IsMended(q3)
    BY <2>4, <2>5, <2>6, MendedAppend
  <2> QED
    BY <1>7, <1>b, <2>6, <2>7, LongerLinesStored DEF IJoin
<1>8. ASSUME Break PROVE StoredInv'
  <2>1. PICK l : l = Line("disconnected", {}, {})
    OBVIOUS
  <2>2. PICK k \in 0..Len(lines) : lines' = SubSeq(lines, 1, k) \o <<l>>
    <3>1. PICK k \in 0..Len(lines) : lines' = SubSeq(lines, 1, k) \o <<Line("disconnected", {}, {})>>
      BY <1>8 DEF Break
    <3> QED
      BY <2>1, <3>1
  <2>3. PICK q : q = SubSeq(lines, 1, k)
    OBVIOUS
  <2>4. q \in Seq(GoodLine) /\ l \in GoodLine /\ l.cmd \in Mending
    BY <1>a, <2>1, <2>3, Prefix, MoreGoodLines DEF Line, Mending
  <2>5. lines' = Append(q, l)
    BY <2>2, <2>3, <2>4
  <2>6. TopicsAreMended(lines') /\ IsMended(lines')
    BY <2>4, <2>5, MendedAppend
  <2> QED
    BY <1>8, <1>b, <2>6, LongerLinesStored
<1>9. ASSUME Reconnect PROVE StoredInv'
  BY <1>9, <1>b, LongerLinesStored DEF Reconnect, StoredInv
<1> QED
  BY <1>1, <1>2, <1>3, <1>4, <1>5, <1>6, <1>7, <1>8, <1>9 DEF ServerStep

(* A handler that saves, and one that leaves info and copy alone. *)
LEMMA SavedStored ==
  ASSUME TypeInv, StoredInv, TakesLine, Save, InfoIsWhole'
  PROVE  StoredInv'
<1>1. TopicsAreMended(lines')
  BY MendedTail DEF TypeInv, LinesType, StoredInv, TakesLine
<1>2. CopyIsMended'
  BY DEF Save, CopyIsMended
<1> QED
  BY <1>1, <1>2 DEF StoredInv

LEMMA UnsavedStored ==
  ASSUME TypeInv, StoredInv, TakesLine, Head(lines).cmd \notin Mending,
         UNCHANGED <<info, stored, unsaved>>, InfoIsWhole'
  PROVE  StoredInv'
<1>1. TopicsAreMended(lines') /\ (IsMended(lines) => IsMended(lines'))
  BY MendedTail DEF TypeInv, LinesType, StoredInv, TakesLine
<1>2. CopyIsMended'
  BY <1>1 DEF StoredInv, CopyIsMended
<1> QED
  BY <1>1, <1>2 DEF StoredInv

(* WriteChannelInfo(true) makes the info whole.                            *)
LEMMA WrittenIsWhole ==
  ASSUME members' \subseteq Nicks, WriteMembers
  PROVE  InfoIsWhole'
<1>1. Flags(info') = Flags(info)
  BY NickAssumption DEF WriteMembers, Flags
<1> QED
  BY <1>1 DEF InfoIsWhole, Contents, WriteMembers

(* The copy, at the handlers of the relay.                                 *)
LEMMA RelayStepStored ==
  ASSUME TypeInv, LinesInv, StoredInv, RelayStep
  PROVE  StoredInv'
<1>a. members' \subseteq Nicks
  BY RelayStepType DEF TypeInv, RelayType
<1>b. InfoIsWhole
  BY DEF StoredInv
<1>1. ASSUME JoinUser PROVE StoredInv'
  <2>1. TakesLine /\ WriteMembers /\ Save
    BY <1>1 DEF JoinUser, Handle, TakesLine, WriteMembers
  <2> QED
    BY <1>a, <2>1, WrittenIsWhole, SavedStored
<1>2. ASSUME PartUser PROVE StoredInv'
  <2>1. TakesLine /\ Head(lines).cmd \notin Mending
    BY <1>2 DEF PartUser, Handle, TakesLine, Mending
  <2>2. CASE Head(lines).who \subseteq members
    <3>1. WriteMembers /\ Save
      BY <1>2, <2>2 DEF PartUser, WriteMembers
    <3> QED
      BY <1>a, <2>1, <3>1, WrittenIsWhole, SavedStored
  <2>3. CASE ~(Head(lines).who \subseteq members)
    <3>1. UNCHANGED <<info, stored, unsaved, members>>
      BY <1>2, <2>3 DEF PartUser, relay, unwritten, saved
    <3>2. InfoIsWhole'
      BY <1>b, <3>1 DEF InfoIsWhole, Contents, Flags
    <3> QED
      BY <2>1, <3>1, <3>2, UnsavedStored
  <2> QED
    BY <2>2, <2>3
<1>3. ASSUME NickChange PROVE StoredInv'
  <2>1. TakesLine /\ Head(lines).cmd \notin Mending
    BY <1>3 DEF NickChange, Handle, TakesLine, Mending
  <2>2. CASE Head(lines).who \subseteq members
    <3>1. WriteMembers /\ Save
      BY <1>3, <2>2 DEF NickChange, WriteMembers
    <3> QED
      BY <1>a, <2>1, <3>1, WrittenIsWhole, SavedStored
  <2>3. CASE ~(Head(lines).who \subseteq members)
    <3>1. UNCHANGED <<info, stored, unsaved, members>>
      BY <1>3, <2>3 DEF NickChange, relay, unwritten, saved
    <3>2. InfoIsWhole'
      BY <1>b, <3>1 DEF InfoIsWhole, Contents, Flags
    <3> QED
      BY <2>1, <3>1, <3>2, UnsavedStored
  <2> QED
    BY <2>2, <2>3
<1>4. ASSUME SetTopic PROVE StoredInv'
  <2>1. /\ TakesLine /\ Save /\ Head(lines).cmd = "TOPIC" /\ members' = members
        /\ info' = (info \ {"topic"}) \cup Head(lines).who
    BY <1>4 DEF SetTopic, Handle, TakesLine
  <2>2. Head(lines).who \subseteq {"topic"}
    BY <2>1, HandleType DEF LineShape
  <2>3. InfoIsWhole'
    BY <1>a, <1>b, <2>1, <2>2, NickAssumption DEF InfoIsWhole, Contents, Flags
  <2> QED
    BY <2>1, <2>3, SavedStored
<1>5. ASSUME Part PROVE StoredInv'
  <2>1. TakesLine /\ Save /\ InfoIsWhole'
    BY <1>5 DEF Part, Handle, TakesLine, InfoIsWhole
  <2> QED
    BY <2>1, SavedStored
<1>6. ASSUME TopicReply PROVE StoredInv'
  <2>1. /\ TakesLine /\ Head(lines).cmd = "332"
        /\ info' = (info \ {"topic"}) \cup Head(lines).who
        /\ UNCHANGED <<stored, unsaved>>
    BY <1>6 DEF TopicReply, Handle, TakesLine, unwritten, saved
  <2>2. Head(lines).who \subseteq {"topic"}
    BY <2>1, HandleType DEF LineShape
  <2>3. "joined" \notin info'
    BY <2>1, <2>2, HeadIsExpected DEF Expected, Contents, Flags, TakesLine
  <2>4. TopicsAreMended(lines') /\ IsMended(lines')
    BY <2>1, MendedTail DEF TypeInv, LinesType, StoredInv, TakesLine
  <2> QED
    BY <2>3, <2>4 DEF StoredInv, InfoIsWhole, CopyIsMended
<1>7. ASSUME NamesReply PROVE StoredInv'
  <2>1. /\ TakesLine /\ Head(lines).cmd = "353" /\ UNCHANGED <<info, stored, unsaved>>
    BY <1>7 DEF NamesReply, Handle, TakesLine, unwritten, saved
  <2>2. "joined" \notin info'
    BY <2>1, HeadIsExpected DEF Expected, Contents, Flags, TakesLine
  <2> QED
    BY <2>1, <2>2, UnsavedStored DEF Mending, InfoIsWhole
<1>8. ASSUME EndOfNames PROVE StoredInv'
  <2>1. /\ TakesLine /\ Save /\ members' = members
        /\ info' = members \cup Flags(info) \cup {"joined"}
    BY <1>8 DEF EndOfNames, Handle, TakesLine
  <2>2. InfoIsWhole'
    BY <1>a, <2>1, NickAssumption DEF InfoIsWhole, Contents, Flags
  <2> QED
    BY <2>1, <2>2, SavedStored
<1>9. ASSUME Disconnected PROVE StoredInv'
  <2>1. TakesLine /\ Save /\ InfoIsWhole'
    BY <1>9 DEF Disconnected, Handle, TakesLine, InfoIsWhole
  <2> QED
    BY <2>1, SavedStored
<1>10. ASSUME NoHandler PROVE StoredInv'
  <2>1. /\ TakesLine /\ Head(lines).cmd \notin Mending
        /\ UNCHANGED <<info, stored, unsaved, members>>
    BY <1>10 DEF NoHandler, Handle, TakesLine, relay, unwritten, saved, Mending
  <2>2. InfoIsWhole'
    BY <1>b, <2>1 DEF InfoIsWhole, Contents, Flags
  <2> QED
    BY <2>1, <2>2, UnsavedStored
<1>11. ASSUME SendDelta PROVE StoredInv'
  BY <1>11, LongerLinesStored DEF SendDelta, server, saved, StoredInv
<1> QED
  BY <1>1, <1>2, <1>3, <1>4, <1>5, <1>6, <1>7, <1>8, <1>9, <1>10, <1>11 DEF RelayStep

(* The copy is inductive.                                                  *)
LEMMA StepStored ==
  ASSUME TypeInv, LinesInv, StoredInv, [Next]_vars
  PROVE  StoredInv'
<1>1. ASSUME Restart PROVE StoredInv'
  <2>1. lines' = <<>> /\ info' = {} /\ stored' = {}
    BY <1>1 DEF Restart
  <2>2. TopicsAreMended(<<>>)
    BY DEF TopicsAreMended
  <2> QED
    BY <2>1, <2>2 DEF StoredInv, InfoIsWhole, CopyIsMended
<1>2. ASSUME UNCHANGED <<lines, members, info, stored, unsaved>> PROVE StoredInv'
  BY <1>2, LongerLinesStored DEF StoredInv
<1>3. ASSUME ClientStep PROVE StoredInv'
  <2>1. UNCHANGED <<lines, members, info, stored, unsaved>>
    BY <1>3 DEF ClientStep, Login, Logout, GetServers, ReceiveReply, Receive, Drop,
                server, relay, saved
  <2> QED
    BY <1>2, <2>1
<1>4. ASSUME NEW m \in pending, Broadcast(m) PROVE StoredInv'
  BY <1>2, <1>4 DEF Broadcast, server, relay, saved
<1>5. ASSUME UNCHANGED vars PROVE StoredInv'
  BY <1>2, <1>5 DEF vars, server, relay, saved
<1> QED
  BY <1>1, <1>3, <1>4, <1>5, ServerStepStored, RelayStepStored DEF Next

-----------------------------------------------------------------------------
(* The client's view. *)

(* Deltas on their way, about to be sent or sent.                          *)
InTransit == ({delta} \ {NoMsg}) \cup pending \cup flying

(* What is as recent as the last change of an element is right about it.   *)
DeltasAreTrue ==
  \A m \in InTransit : \A x \in About(m) :
    m.n >= news[x] => (x \in m.plus <=> x \in Contents)
InfoIsTrue ==
  \A x \in Nicks : written >= news[x] => (x \in info <=> x \in Contents)
CopyIsTrue ==
  \A x \in Attrs : storedAt[x] >= news[x] => (x \in stored <=> x \in Contents)
ReplyIsTrue ==
  reply # NoMsg =>
    \A x \in Attrs : reply.at[x] >= news[x] => (x \in reply.contents <=> x \in Contents)
ViewIsTrue ==
  view # NoView =>
    \A x \in Attrs \ disorder : age[x] >= news[x] => (x \in view <=> x \in Contents)

(* What has been announced is in the info, in the copy, or on its way;     *)
(* only a failed save, disorder and quiet changes are excepted.            *)
Told(x) == \E m \in InTransit : x \in About(m) /\ m.n >= news[x]
InfoIsRecent == \A x \in Nicks \ quiet : written >= news[x]
CopyIsRecent == ~unsaved => \A x \in Attrs \ quiet : storedAt[x] >= news[x]
ReplyIsRecent ==
  reply # NoMsg /\ reply.current =>
    \A x \in Attrs \ (quiet \cup disorder) :
      reply.at[x] >= news[x] \/ age[x] >= news[x] \/ Told(x)
ViewIsRecent ==
  view # NoView =>
    \A x \in Attrs \ (quiet \cup disorder) : age[x] >= news[x] \/ Told(x)

CopyInv == InfoIsTrue /\ CopyIsTrue /\ InfoIsRecent /\ CopyIsRecent
ClientInv == DeltasAreTrue /\ ReplyIsTrue /\ ViewIsTrue /\ ReplyIsRecent /\ ViewIsRecent

(* With nothing on its way, what has been told has arrived.                *)
LEMMA ClientInvImplies ==
  ASSUME TypeInv, ClientInv
  PROVE  ViewIsCurrent
<1> SUFFICES ASSUME Settled, NEW x \in Attrs \ disorder, x \notin quiet \/ age[x] >= news[x]
             PROVE  x \in view <=> x \in Contents
  BY DEF ViewIsCurrent
<1>1. InTransit = {} /\ view # NoView
  BY DEF Settled, Handled, InTransit
<1>2. age[x] >= news[x]
  BY <1>1 DEF ClientInv, ViewIsRecent, Told
<1> QED
  BY <1>1, <1>2 DEF ClientInv, ViewIsTrue

(* What is on its way is a delta, and not from the future.                 *)
LEMMA TransitType ==
  ASSUME TypeInv
  PROVE  \A m \in InTransit : /\ m \in Deltas /\ m.n \in Nat /\ m.n <= clock
                              /\ About(m) \subseteq Attrs
<1>1. \A m \in InTransit : m \in Deltas /\ m.n <= clock
  BY DEF TypeInv, RelayType, ClientType, InTransit
<1> QED
  BY <1>1 DEF Deltas, About

(* What the steps of the relay have in common: the elements that change;   *)
(* those of them, and of the quiet ones, that go into no delta stay quiet. *)
Changed == {x \in Attrs : (x \in Contents) # (x \in Contents')}
Stale == quiet \cup Changed

(* To the client: a delta is right about the contents, and what is not     *)
(* quiet afterwards is in one.                                             *)
Moves ==
  /\ Change
  /\ UNCHANGED <<reply, view, age>> /\ disorder \subseteq disorder'
  /\ \A m \in InTransit' \ InTransit :
       m.n = clock' /\ \A x \in About(m) : x \in m.plus <=> x \in Contents'
  /\ \A m \in InTransit \ InTransit' : About(m) \subseteq disorder'
  /\ \A x \in Stale \ quiet' : \E m \in InTransit' : x \in About(m) /\ m.n = clock'

(* To Redis: the members go into the info, or nothing new does; the info   *)
(* goes into the copy, or the save fails, or there is none.                *)
Writes ==
  /\ Change
  /\ \/ written' = clock' /\ \A x \in Nicks : x \in info' <=> x \in Contents'
     \/ /\ written' = written /\ \A x \in Nicks : x \in info' <=> x \in info
        /\ \A x \in Nicks : x \in Stale => x \in quiet'
  /\ \/ /\ stored' = info' /\ unsaved' = FALSE
        /\ storedAt' = [x \in Attrs |-> IF x \in Nicks THEN written' ELSE clock']
     \/ unsaved' = TRUE /\ UNCHANGED <<stored, storedAt>>
     \/ UNCHANGED <<stored, storedAt, unsaved>> /\ Stale \subseteq quiet'

(* What is new after a change is what has changed.                         *)
LEMMA NewsOfChange ==
  ASSUME TypeInv, Change
  PROVE  /\ clock' \in Nat /\ clock' = clock + 1 /\ clock \in Nat
         /\ \A x \in Attrs :
              /\ news[x] \in Nat /\ news[x] <= clock /\ news'[x] \in Nat /\ news'[x] <= clock'
              /\ x \in Changed => news'[x] = clock'
              /\ x \notin Changed => news'[x] = news[x] /\ (x \in Contents <=> x \in Contents')
<1>1. clock \in Nat /\ clock' = clock + 1 /\ news \in [Attrs -> 0..clock]
  BY DEF TypeInv, ClockType, Change
<1>2. \A x \in Attrs : news'[x] = IF x \in Changed THEN clock' ELSE news[x]
  BY DEF Change, Changed
<1>3. \A x \in Attrs : x \notin Changed => (x \in Contents <=> x \in Contents')
  BY DEF Changed
<1> QED
  BY <1>1, <1>2, <1>3

(* The client's part of the invariant, at a step of the relay.             *)
LEMMA MovesClient ==
  ASSUME TypeInv, TypeInv', ClientInv, Moves
  PROVE  ClientInv'
<1>1. /\ clock' \in Nat /\ clock' = clock + 1 /\ clock \in Nat
      /\ \A x \in Attrs :
           /\ news[x] \in Nat /\ news[x] <= clock /\ news'[x] \in Nat /\ news'[x] <= clock'
           /\ x \in Changed => news'[x] = clock'
           /\ x \notin Changed => news'[x] = news[x] /\ (x \in Contents <=> x \in Contents')
  BY NewsOfChange DEF Moves
<1>2. \A m \in InTransit : m.n \in Nat /\ m.n <= clock /\ About(m) \subseteq Attrs
  BY TransitType
<1>4. \A x \in Attrs : age[x] \in Nat /\ age[x] <= clock
  BY DEF TypeInv, ClientType, ClockType
<1>5. reply # NoMsg => \A x \in Attrs : reply.at[x] \in Nat /\ reply.at[x] <= clock
  BY DEF TypeInv, ClientType, ClockType
<1>6. DeltasAreTrue'
  <2> SUFFICES ASSUME NEW m \in InTransit', NEW x \in About(m), m.n >= news'[x]
               PROVE  x \in m.plus <=> x \in Contents'
    BY DEF DeltasAreTrue
  <2>1. CASE m \in InTransit
    <3>1. x \in Attrs /\ x \notin Changed
      BY <1>1, <1>2, <2>1
    <3> QED
      BY <1>1, <2>1, <3>1 DEF ClientInv, DeltasAreTrue
  <2>2. CASE m \notin InTransit
    BY <2>2 DEF Moves
  <2> QED
    BY <2>1, <2>2
<1>7. ReplyIsTrue'
  <2> SUFFICES ASSUME reply' # NoMsg, NEW x \in Attrs, reply'.at[x] >= news'[x]
               PROVE  x \in reply'.contents <=> x \in Contents'
    BY DEF ReplyIsTrue
  <2>1. reply' = reply
    BY DEF Moves
  <2>2. x \notin Changed
    BY <1>1, <1>5, <2>1
  <2> QED
    BY <1>1, <2>1, <2>2 DEF ClientInv, ReplyIsTrue
<1>8. ViewIsTrue'
  <2> SUFFICES ASSUME view' # NoView, NEW x \in Attrs \ disorder', age'[x] >= news'[x]
               PROVE  x \in view' <=> x \in Contents'
    BY DEF ViewIsTrue
  <2>1. view' = view /\ age' = age /\ x \notin disorder
    BY DEF Moves
  <2>2. x \notin Changed
    BY <1>1, <1>4, <2>1
  <2> QED
    BY <1>1, <2>1, <2>2 DEF ClientInv, ViewIsTrue
<1>9. ASSUME NEW x \in Attrs \ (quiet' \cup disorder')
      PROVE  \/ Told(x)'
             \/ x \notin quiet \cup disorder /\ x \notin Changed /\ (Told(x) => Told(x)')
  <2>1. x \notin disorder
    BY DEF Moves
  <2>2. CASE x \in Stale
    <3>1. PICK m \in InTransit' : x \in About(m) /\ m.n = clock'
      BY <2>2 DEF Moves
    <3> QED
      BY <1>1, <3>1 DEF Told
  <2>3. CASE x \notin Stale
    <3>1. x \notin quiet /\ x \notin Changed /\ news'[x] = news[x]
      BY <1>1, <2>3 DEF Stale
    <3>2. ASSUME NEW m \in InTransit, x \in About(m), m.n >= news[x]
          PROVE  Told(x)'
      BY <3>1, <3>2 DEF Told, Moves
    <3> QED
      BY <2>1, <3>1, <3>2 DEF Told
  <2> QED
    BY <2>2, <2>3
<1>10. ReplyIsRecent'
  <2> SUFFICES ASSUME reply' # NoMsg, reply'.current, NEW x \in Attrs \ (quiet' \cup disorder')
               PROVE  reply'.at[x] >= news'[x] \/ age'[x] >= news'[x] \/ Told(x)'
    BY DEF ReplyIsRecent
  <2>1. reply' = reply /\ age' = age
    BY DEF Moves
  <2>2. x \notin quiet \cup disorder =>
          reply.at[x] >= news[x] \/ age[x] >= news[x] \/ Told(x)
    BY <2>1 DEF ClientInv, ReplyIsRecent
  <2> QED
    BY <1>1, <1>9, <2>1, <2>2
<1>11. ViewIsRecent'
  <2> SUFFICES ASSUME view' # NoView, NEW x \in Attrs \ (quiet' \cup disorder')
               PROVE  age'[x] >= news'[x] \/ Told(x)'
    BY DEF ViewIsRecent
  <2>1. view' = view /\ age' = age
    BY DEF Moves
  <2>2. x \notin quiet \cup disorder => age[x] >= news[x] \/ Told(x)
    BY <2>1 DEF ClientInv, ViewIsRecent
  <2> QED
    BY <1>1, <1>9, <2>1, <2>2
<1> QED
  BY <1>6, <1>7, <1>8, <1>10, <1>11 DEF ClientInv

(* The copy's part of the invariant, at a step of the relay.               *)
LEMMA WritesCopy ==
  ASSUME TypeInv, TypeInv', CopyInv, Writes
  PROVE  CopyInv'
<1> USE NickAssumption
<1>1. /\ clock' \in Nat /\ clock' = clock + 1 /\ clock \in Nat
      /\ \A x \in Attrs :
           /\ news[x] \in Nat /\ news[x] <= clock /\ news'[x] \in Nat /\ news'[x] <= clock'
           /\ x \in Changed => news'[x] = clock'
           /\ x \notin Changed => news'[x] = news[x] /\ (x \in Contents <=> x \in Contents')
  BY NewsOfChange DEF Writes
<1>2. written \in Nat /\ written <= clock /\ \A x \in Attrs : storedAt[x] \in Nat /\ storedAt[x] <= clock
  BY DEF TypeInv, ClockType
<1>3. Nicks \subseteq Attrs
  BY DEF Attrs
<1>4. \A x \in Attrs \ Nicks : x \in info' <=> x \in Contents'
  BY DEF TypeInv, RelayType, Attrs, Contents, Flags
<1>5. InfoIsTrue' /\ InfoIsRecent'
  <2>1. CASE written' = clock' /\ \A x \in Nicks : x \in info' <=> x \in Contents'
    BY <1>1, <1>3, <2>1 DEF InfoIsTrue, InfoIsRecent
  <2>2. CASE /\ written' = written /\ \A x \in Nicks : x \in info' <=> x \in info
             /\ \A x \in Nicks : x \in Stale => x \in quiet'
    <3>1. InfoIsTrue'
      <4> SUFFICES ASSUME NEW x \in Nicks, written' >= news'[x]
                   PROVE  x \in info' <=> x \in Contents'
        BY DEF InfoIsTrue
      <4>1. x \notin Changed
        BY <1>1, <1>2, <1>3, <2>2
      <4> QED
        BY <1>1, <1>3, <2>2, <4>1 DEF CopyInv, InfoIsTrue
    <3>2. InfoIsRecent'
      <4> SUFFICES ASSUME NEW x \in Nicks \ quiet'
                   PROVE  written' >= news'[x]
        BY DEF InfoIsRecent
      <4>1. x \notin quiet /\ x \notin Changed
        BY <2>2 DEF Stale
      <4> QED
        BY <1>1, <1>3, <2>2, <4>1 DEF CopyInv, InfoIsRecent
    <3> QED
      BY <3>1, <3>2
  <2> QED
    BY <2>1, <2>2 DEF Writes
<1>6. CASE /\ stored' = info' /\ unsaved' = FALSE
           /\ storedAt' = [x \in Attrs |-> IF x \in Nicks THEN written' ELSE clock']
  <2>1. CopyIsTrue'
    <3> SUFFICES ASSUME NEW x \in Attrs, storedAt'[x] >= news'[x]
                 PROVE  x \in stored' <=> x \in Contents'
      BY DEF CopyIsTrue
    <3>1. CASE x \in Nicks
      BY <1>5, <1>6, <3>1 DEF InfoIsTrue
    <3>2. CASE x \notin Nicks
      BY <1>4, <1>6, <3>2
    <3> QED
      BY <3>1, <3>2
  <2>2. CopyIsRecent'
    <3> SUFFICES ASSUME NEW x \in Attrs \ quiet'
                 PROVE  storedAt'[x] >= news'[x]
      BY DEF CopyIsRecent
    <3>1. CASE x \in Nicks
      BY <1>5, <1>6, <3>1 DEF InfoIsRecent
    <3>2. CASE x \notin Nicks
      BY <1>1, <1>6, <3>2
    <3> QED
      BY <3>1, <3>2
  <2> QED
    BY <1>5, <2>1, <2>2 DEF CopyInv
<1>7. CASE UNCHANGED <<stored, storedAt>> /\ (unsaved' = TRUE \/ (unsaved' = unsaved /\ Stale \subseteq quiet'))
  <2>1. CopyIsTrue'
    <3> SUFFICES ASSUME NEW x \in Attrs, storedAt'[x] >= news'[x]
                 PROVE  x \in stored' <=> x \in Contents'
      BY DEF CopyIsTrue
    <3>1. x \notin Changed
      BY <1>1, <1>2, <1>7
    <3> QED
      BY <1>1, <1>7, <3>1 DEF CopyInv, CopyIsTrue
  <2>2. CopyIsRecent'
    <3> SUFFICES ASSUME ~unsaved', NEW x \in Attrs \ quiet'
                 PROVE  storedAt'[x] >= news'[x]
      BY DEF CopyIsRecent
    <3>1. ~unsaved /\ x \notin quiet /\ x \notin Changed
      BY <1>7 DEF Stale
    <3> QED
      BY <1>1, <1>7, <3>1 DEF CopyInv, CopyIsRecent
  <2> QED
    BY <1>5, <2>1, <2>2 DEF CopyInv
<1> QED
  BY <1>6, <1>7 DEF Writes

(* A handler that announces what has changed.                              *)
LEMMA AnnounceMoves ==
  ASSUME TypeInv, TakesLine, NEW plus \in SUBSET Attrs, NEW minus \in SUBSET Attrs,
         Announce(plus, minus), Changed \subseteq plus \cup minus,
         \A x \in plus : x \in Contents', \A x \in minus : x \notin Contents'
  PROVE  Moves
<1>1. /\ delta' = [n |-> clock', plus |-> plus, minus |-> minus] /\ delta = NoMsg
      /\ quiet' = quiet \ (plus \cup minus) /\ Change /\ clock' \in Nat
      /\ UNCHANGED <<client, known, pending>>
  BY NewsOfChange DEF Announce, TakesLine
<1>2. delta' \in Deltas /\ delta' # NoMsg
  BY <1>1, NoMsgAssumption DEF Deltas
<1>3. InTransit' = InTransit \cup {delta'} /\ About(delta') = plus \cup minus /\ delta'.n = clock'
      /\ delta'.plus = plus
  BY <1>1, <1>2 DEF InTransit, About, client
<1>4. \A m \in InTransit' \ InTransit :
        m.n = clock' /\ \A x \in About(m) : x \in m.plus <=> x \in Contents'
  BY <1>1, <1>3
<1>5. \A x \in Stale \ quiet' : \E m \in InTransit' : x \in About(m) /\ m.n = clock'
  BY <1>1, <1>3 DEF Stale
<1> QED
  BY <1>1, <1>3, <1>4, <1>5 DEF Moves, client, known

(* A handler that changes the contents quietly.                            *)
LEMMA QuietMoves ==
  ASSUME TypeInv, TakesLine, NEW e, ChangeQuietly(e), Changed \subseteq e,
         \/ delta' = delta
         \/ delta' = [n |-> clock', plus |-> {}, minus |-> {}]
  PROVE  Moves
<1>1. /\ Change /\ quiet' = quiet \cup e /\ delta = NoMsg
      /\ UNCHANGED <<client, known, pending>>
  BY DEF ChangeQuietly, TakesLine
<1>2. /\ InTransit \subseteq InTransit'
      /\ \A m \in InTransit' \ InTransit : m = [n |-> clock', plus |-> {}, minus |-> {}]
  BY <1>1 DEF InTransit, client
<1>3. \A m \in InTransit' \ InTransit :
        m.n = clock' /\ \A x \in About(m) : x \in m.plus <=> x \in Contents'
  BY <1>2 DEF About
<1>4. Stale \subseteq quiet'
  BY <1>1 DEF Stale
<1> QED
  BY <1>1, <1>2, <1>3, <1>4 DEF Moves, client, known

(* A step that changes no contents and sends nothing.                      *)
LEMMA NothingMoves ==
  ASSUME ClientInv, CopyInv, InTransit' = InTransit,
         UNCHANGED <<reply, view, age, disorder, quiet, news,
                     members, info, stored, storedAt, unsaved, written>>
  PROVE  ClientInv' /\ CopyInv'
<1>1. Contents' = Contents
  BY DEF Contents, Flags
<1>2. CopyInv'
  BY <1>1 DEF CopyInv, InfoIsTrue, CopyIsTrue, InfoIsRecent, CopyIsRecent
<1>3. DeltasAreTrue'
  BY <1>1 DEF ClientInv, DeltasAreTrue
<1>4. ReplyIsTrue' /\ ViewIsTrue'
  BY <1>1 DEF ClientInv, ReplyIsTrue, ViewIsTrue
<1>5. \A x \in Attrs : Told(x)' <=> Told(x)
  BY <1>1 DEF Told
<1>6. ReplyIsRecent' /\ ViewIsRecent'
  BY <1>5 DEF ClientInv, ReplyIsRecent, ViewIsRecent
<1> QED
  BY <1>2, <1>3, <1>4, <1>6 DEF ClientInv

(* A handler that saves: the members are in the info, or old in it.        *)
LEMMA SaveWrites ==
  ASSUME Save, Change, written' = clock' \/ written' = written,
         written' = clock' => \A x \in Nicks : x \in info' <=> x \in Contents',
         written' # clock' => /\ \A x \in Nicks : x \in info' <=> x \in info
                              /\ \A x \in Nicks : x \in Stale => x \in quiet'
  PROVE  Writes
BY DEF Save, Writes

(* WriteChannelInfo(true) puts the members into the info.                  *)
LEMMA WriteMembersWrites ==
  ASSUME members' \subseteq Nicks, WriteMembers, Change
  PROVE  Writes /\ Flags(info') = Flags(info)
<1>1. Flags(info') = Flags(info)
  BY NickAssumption DEF WriteMembers, Flags
<1>2. \A x \in Nicks : x \in info' <=> x \in Contents'
  BY <1>1 DEF WriteMembers, Contents
<1>3. written' = clock'
  BY DEF WriteMembers, Save
<1> QED
  BY <1>1, <1>2, <1>3, SaveWrites DEF WriteMembers

(* Copy and client, at the handlers of the relay.                          *)
LEMMA RelayStepViews ==
  ASSUME TypeInv, TypeInv', LinesInv, CopyInv, ClientInv, RelayStep
  PROVE  CopyInv' /\ ClientInv'
<1> USE NickAssumption
<1> DEFINE l == Head(lines)
<1>a. /\ members \subseteq Nicks /\ info \subseteq Attrs /\ members' \subseteq Nicks
      /\ info' \subseteq Attrs /\ Nicks \subseteq Attrs
  BY DEF TypeInv, RelayType, Attrs
<1>b. ASSUME Moves, Writes PROVE CopyInv' /\ ClientInv'
  BY <1>b, MovesClient, WritesCopy
<1>c. ASSUME TakesLine, UNCHANGED <<relay, unwritten, quiet, news>> PROVE CopyInv' /\ ClientInv'
  BY <1>c, NothingMoves DEF TakesLine, relay, unwritten, saved, client, known, InTransit
<1>1. ASSUME JoinUser PROVE CopyInv' /\ ClientInv'
  <2>1. /\ TakesLine /\ l.cmd = "JOIN" /\ WriteMembers /\ members' = members \cup l.who
        /\ Announce(l.who, {}) /\ Change
    BY <1>1 DEF JoinUser, Handle, TakesLine, Announce
  <2>2. l.who \subseteq Nicks
    BY <2>1, HandleType DEF LineShape, Nicks
  <2>3. Writes /\ Flags(info') = Flags(info)
    BY <1>a, <2>1, WriteMembersWrites
  <2> HIDE DEF l
  <2>4. Changed \subseteq l.who \cup {} /\ \A x \in l.who : x \in Contents'
    BY <2>1, <2>3 DEF Changed, Contents
  <2>5. l.who \in SUBSET Attrs /\ {} \in SUBSET Attrs
    BY <1>a, <2>2
  <2>6. Moves
    BY <2>1, <2>4, <2>5, AnnounceMoves
  <2> QED
    BY <1>b, <2>3, <2>6
<1>2. ASSUME PartUser PROVE CopyInv' /\ ClientInv'
  <2>1. TakesLine /\ l.cmd = "PART"
    BY <1>2 DEF PartUser, Handle, TakesLine
  <2>2. l.who \subseteq Nicks
    BY <2>1, HandleType DEF LineShape
  <2>3. CASE l.who \subseteq members
    <3>1. WriteMembers /\ members' = members \ l.who /\ Announce({}, l.who) /\ Change
      BY <1>2, <2>3 DEF PartUser, Announce
    <3> HIDE DEF l
    <3>2. Writes /\ Flags(info') = Flags(info)
      BY <1>a, <3>1, WriteMembersWrites
    <3>3. Changed \subseteq {} \cup l.who /\ \A x \in l.who : x \notin Contents'
      BY <3>1, <3>2, <2>2 DEF Changed, Contents, Flags
    <3>4. l.who \in SUBSET Attrs /\ {} \in SUBSET Attrs
      BY <1>a, <2>2
    <3>5. Moves
      BY <2>1, <3>1, <3>3, <3>4, AnnounceMoves
    <3> QED
      BY <1>b, <3>2, <3>5
  <2>4. CASE ~(l.who \subseteq members)
    <3>1. UNCHANGED <<relay, unwritten, quiet, news>>
      BY <1>2, <2>4 DEF PartUser
    <3> QED
      BY <1>c, <2>1, <3>1
  <2> QED
    BY <2>3, <2>4
<1>3. ASSUME NickChange PROVE CopyInv' /\ ClientInv'
  <2>1. TakesLine /\ l.cmd = "NICK"
    BY <1>3 DEF NickChange, Handle, TakesLine
  <2>2. l.who \subseteq Nicks /\ l.to \subseteq Nicks /\ l.who \cap l.to = {}
    BY <2>1, HandleType DEF LineShape, Nicks
  <2>3. CASE l.who \subseteq members
    <3>1. /\ WriteMembers /\ members' = (members \ l.who) \cup l.to
          /\ Announce(l.to, l.who) /\ Change
      BY <1>3, <2>3 DEF NickChange, Announce
    <3> HIDE DEF l
    <3>2. Writes /\ Flags(info') = Flags(info)
      BY <1>a, <3>1, WriteMembersWrites
    <3>3. /\ Changed \subseteq l.to \cup l.who
          /\ \A x \in l.to : x \in Contents'
          /\ \A x \in l.who : x \notin Contents'
      BY <3>1, <3>2, <2>2 DEF Changed, Contents, Flags
    <3>4. l.who \in SUBSET Attrs /\ l.to \in SUBSET Attrs
      BY <1>a, <2>2
    <3>5. Moves
      BY <2>1, <3>1, <3>3, <3>4, AnnounceMoves
    <3> QED
      BY <1>b, <3>2, <3>5
  <2>4. CASE ~(l.who \subseteq members)
    <3>1. UNCHANGED <<relay, unwritten, quiet, news>>
      BY <1>3, <2>4 DEF NickChange
    <3> QED
      BY <1>c, <2>1, <3>1
  <2> QED
    BY <2>3, <2>4
<1>4. ASSUME SetTopic PROVE CopyInv' /\ ClientInv'
  <2>1. /\ TakesLine /\ l.cmd = "TOPIC" /\ Save /\ written' = written /\ members' = members
        /\ info' = (info \ {"topic"}) \cup l.who
        /\ Announce(l.who, {"topic"} \ l.who) /\ Change
    BY <1>4 DEF SetTopic, Handle, TakesLine, Announce
  <2>2. l.who \subseteq {"topic"}
    BY <2>1, HandleType DEF LineShape
  <2> HIDE DEF l
  <2>3. /\ Changed \subseteq l.who \cup ({"topic"} \ l.who)
        /\ \A x \in l.who : x \in Contents'
        /\ \A x \in {"topic"} \ l.who : x \notin Contents'
    BY <1>a, <2>1, <2>2 DEF Changed, Contents, Flags
  <2>4. l.who \in SUBSET Attrs /\ {"topic"} \ l.who \in SUBSET Attrs
    BY <2>2 DEF Attrs
  <2>5. Moves
    BY <2>1, <2>3, <2>4, AnnounceMoves
  <2>6. Writes
    <3>1. \A x \in Nicks : x \in info' <=> x \in info
      BY <2>1, <2>2
    <3>2. \A x \in Nicks : x \in Stale => x \in quiet'
      BY <2>1, <2>2, <2>3 DEF Stale, Announce
    <3>3. written' # clock'
      BY <2>1, NewsOfChange DEF TypeInv, ClockType
    <3> QED
      BY <2>1, <3>1, <3>2, <3>3, SaveWrites
  <2> QED
    BY <1>b, <2>5, <2>6
<1>5. ASSUME Part PROVE CopyInv' /\ ClientInv'
  <2>1. /\ TakesLine /\ Save /\ written' = clock + 1 /\ members' = {}
        /\ info' = info \cap {"topic"} /\ ChangeQuietly(members \cup {"joined"})
        /\ delta' = [n |-> clock', plus |-> {}, minus |-> {}] /\ Change
    BY <1>5 DEF Part, Handle, TakesLine, ChangeQuietly
  <2>2. Changed \subseteq members \cup {"joined"}
    BY <2>1 DEF Changed, Contents, Flags
  <2>3. Moves
    BY <2>1, <2>2, QuietMoves
  <2>4. \A x \in Nicks : x \in info' <=> x \in Contents'
    BY <2>1 DEF Contents, Flags
  <2>5. written' = clock'
    BY <2>1 DEF Change
  <2>6. Writes
    BY <2>1, <2>4, <2>5, SaveWrites
  <2> QED
    BY <1>b, <2>3, <2>6
<1>6. ASSUME TopicReply PROVE CopyInv' /\ ClientInv'
  <2>1. /\ TakesLine /\ l.cmd = "332" /\ ChangeQuietly({"topic"}) /\ Change
        /\ UNCHANGED <<members, delta, unwritten>>
        /\ info' = (info \ {"topic"}) \cup l.who
    BY <1>6 DEF TopicReply, Handle, TakesLine, ChangeQuietly
  <2>2. l.who \subseteq {"topic"}
    BY <2>1, HandleType DEF LineShape
  <2> HIDE DEF l
  <2>3. Changed \subseteq {"topic"}
    BY <2>1, <2>2 DEF Changed, Contents, Flags
  <2>4. Moves
    BY <2>1, <2>3, QuietMoves
  <2>5. Stale \subseteq quiet' /\ \A x \in Nicks : x \in info' <=> x \in info
    BY <2>1, <2>2, <2>3 DEF Stale, ChangeQuietly
  <2>6. Writes
    BY <2>1, <2>5 DEF Writes, unwritten, saved
  <2> QED
    BY <1>b, <2>4, <2>6
<1>7. ASSUME NamesReply PROVE CopyInv' /\ ClientInv'
  <2>1. /\ TakesLine /\ ChangeQuietly(l.who) /\ Change
        /\ UNCHANGED <<info, delta, unwritten>> /\ members' = members \cup l.who
    BY <1>7 DEF NamesReply, Handle, TakesLine, ChangeQuietly
  <2> HIDE DEF l
  <2>2. Changed \subseteq l.who
    BY <2>1 DEF Changed, Contents, Flags
  <2>3. Moves
    BY <2>1, <2>2, QuietMoves
  <2>4. Stale \subseteq quiet'
    BY <2>1, <2>2 DEF Stale, ChangeQuietly
  <2>5. Writes
    BY <2>1, <2>4 DEF Writes, unwritten, saved
  <2> QED
    BY <1>b, <2>3, <2>5
<1>8. ASSUME EndOfNames PROVE CopyInv' /\ ClientInv'
  <2>1. /\ TakesLine /\ Save /\ written' = clock + 1 /\ members' = members
        /\ info' = members \cup Flags(info) \cup {"joined"}
        /\ Announce(info', {"topic"} \ info') /\ Change
    BY <1>8 DEF EndOfNames, Handle, TakesLine, Announce
  <2>2. PICK i : i = info'
    OBVIOUS
  <2>3. i = Contents' /\ i \in SUBSET Attrs /\ {"topic"} \ i \in SUBSET Attrs
    BY <1>a, <2>1, <2>2 DEF Contents, Flags, Attrs
  <2>4. /\ Changed \subseteq i \cup ({"topic"} \ i)
        /\ \A x \in i : x \in Contents'
        /\ \A x \in {"topic"} \ i : x \notin Contents'
    BY <1>a, <2>1, <2>2, <2>3 DEF Changed, Contents, Flags
  <2>5. Moves
    BY <2>1, <2>2, <2>3, <2>4, AnnounceMoves
  <2>6. written' = clock'
    BY <2>1 DEF Change
  <2>7. Writes
    BY <2>1, <2>2, <2>3, <2>6, SaveWrites
  <2> QED
    BY <1>b, <2>5, <2>7
<1>9. ASSUME Disconnected PROVE CopyInv' /\ ClientInv'
  <2>1. /\ TakesLine /\ Save /\ written' = written /\ members' = members /\ delta' = delta
        /\ info' = info \ {"joined"} /\ ChangeQuietly({"joined"}) /\ Change
    BY <1>9 DEF Disconnected, Handle, TakesLine, ChangeQuietly
  <2>2. Changed \subseteq {"joined"}
    BY <2>1 DEF Changed, Contents, Flags
  <2>3. Moves
    BY <2>1, <2>2, QuietMoves
  <2>4. written' # clock'
    BY <2>1, NewsOfChange DEF TypeInv, ClockType
  <2>5. /\ \A x \in Nicks : x \in info' <=> x \in info
        /\ \A x \in Nicks : x \in Stale => x \in quiet'
    BY <2>1, <2>2 DEF Stale, ChangeQuietly
  <2>6. Writes
    BY <2>1, <2>4, <2>5, SaveWrites
  <2> QED
    BY <1>b, <2>3, <2>6
<1>10. ASSUME NoHandler PROVE CopyInv' /\ ClientInv'
  <2>1. TakesLine /\ UNCHANGED <<relay, unwritten, quiet, news>>
    BY <1>10 DEF NoHandler, Handle, TakesLine
  <2> QED
    BY <1>c, <2>1
<1>11. ASSUME SendDelta PROVE CopyInv' /\ ClientInv'
  <2>1. InTransit' = InTransit
    BY <1>11 DEF SendDelta, client, InTransit
  <2> QED
    BY <1>11, <2>1, NothingMoves DEF SendDelta, client, kept, saved, known
<1> QED
  BY <1>1, <1>2, <1>3, <1>4, <1>5, <1>6, <1>7, <1>8, <1>9, <1>10, <1>11 DEF RelayStep

(* Copy and client, when the relay starts again: everything that was in a  *)
(* channel is quiet, and the deltas that are lost are in disorder.         *)
LEMMA RestartViews ==
  ASSUME TypeInv, TypeInv', ClientInv, Restart
  PROVE  CopyInv' /\ ClientInv'
<1>1. PICK lost \in SUBSET pending :
        /\ pending' = pending \ lost
        /\ disorder' = disorder \cup UNION {About(m) : m \in lost \cup ({delta} \ {NoMsg})}
  BY DEF Restart
<1>2. /\ Change /\ quiet' = quiet \cup Contents /\ delta' = NoMsg
      /\ members' = {} /\ info' = {} /\ stored' = {} /\ written' = clock'
      /\ storedAt' = [x \in Attrs |-> clock'] /\ UNCHANGED <<client, age>>
  BY DEF Restart, ChangeQuietly, Change
<1>3. Changed \subseteq Contents /\ Contents' = {}
  BY <1>2 DEF Changed, Contents, Flags
<1>4. Moves
  <2>1. InTransit' \subseteq InTransit
    BY <1>1, <1>2 DEF InTransit, client
  <2>2. \A m \in InTransit \ InTransit' : About(m) \subseteq disorder'
    BY <1>1, <1>2 DEF InTransit, client
  <2>3. Stale \subseteq quiet'
    BY <1>2, <1>3 DEF Stale
  <2> QED
    BY <1>1, <1>2, <2>1, <2>2, <2>3 DEF Moves, client
<1>5. ClientInv'
  BY <1>4, MovesClient
<1>6. /\ clock' \in Nat
      /\ \A x \in Attrs : news'[x] \in Nat /\ news'[x] <= clock'
  BY <1>2, NewsOfChange
<1>7. CopyInv'
  BY <1>2, <1>3, <1>6 DEF CopyInv, InfoIsTrue, CopyIsTrue, InfoIsRecent, CopyIsRecent, Nicks, Attrs
<1> QED
  BY <1>5, <1>7

(* The relay and Redis stay as they are, and nothing new is on its way.    *)
LEMMA CopyKept ==
  ASSUME CopyInv, DeltasAreTrue, InTransit' \subseteq InTransit,
         UNCHANGED <<quiet, news, members, info, stored, storedAt, unsaved, written>>
  PROVE  CopyInv' /\ DeltasAreTrue' /\ Contents' = Contents
<1>1. Contents' = Contents
  BY DEF Contents, Flags
<1>2. CopyInv'
  BY <1>1 DEF CopyInv, InfoIsTrue, CopyIsTrue, InfoIsRecent, CopyIsRecent
<1>3. DeltasAreTrue'
  BY <1>1 DEF DeltasAreTrue
<1> QED
  BY <1>1, <1>2, <1>3

(* Copy and client, at the steps of the websocket server and the client.   *)
LEMMA ClientStepViews ==
  ASSUME TypeInv, CopyInv, ClientInv, ClientStep \/ \E m \in pending : Broadcast(m)
  PROVE  CopyInv' /\ ClientInv'
<1> DEFINE Kept == UNCHANGED <<delta, quiet, news, members, info, stored, storedAt, unsaved, written>>
<1>a. /\ CopyInv /\ DeltasAreTrue /\ ReplyIsTrue /\ ViewIsTrue /\ ReplyIsRecent /\ ViewIsRecent
      /\ conn \in {"on", "off"}
      /\ conn = "off" => flying = {} /\ reply = NoMsg /\ view = NoView
  BY DEF ClientInv, TypeInv, ClientType
<1>b. /\ clock \in Nat
      /\ \A x \in Attrs : news[x] \in Nat /\ age[x] \in Nat /\ storedAt[x] \in Nat
      /\ reply # NoMsg => \A x \in Attrs : reply.at[x] \in Nat
  BY DEF TypeInv, ClockType, ClientType
<1>c. \A m \in InTransit : m.n \in Nat /\ About(m) \subseteq Attrs
  BY TransitType
<1>1. ASSUME Login PROVE CopyInv' /\ ClientInv'
  <2>1. Kept /\ UNCHANGED <<pending, flying>> /\ reply' = NoMsg /\ view' = NoView
    BY <1>1, <1>a DEF Login, relay, kept, saved
  <2>2. InTransit' = InTransit
    BY <2>1 DEF InTransit
  <2>3. CopyInv' /\ DeltasAreTrue'
    BY <1>a, <2>1, <2>2, CopyKept
  <2> QED
    BY <2>1, <2>3 DEF ClientInv, ReplyIsTrue, ViewIsTrue, ReplyIsRecent, ViewIsRecent
<1>2. ASSUME Logout PROVE CopyInv' /\ ClientInv'
  <2>1. Kept /\ pending' = pending /\ flying' = {} /\ reply' = NoMsg /\ view' = NoView
    BY <1>2 DEF Logout, relay, kept, saved
  <2>2. InTransit' \subseteq InTransit
    BY <2>1 DEF InTransit
  <2>3. CopyInv' /\ DeltasAreTrue'
    BY <1>a, <2>1, <2>2, CopyKept
  <2> QED
    BY <2>1, <2>3 DEF ClientInv, ReplyIsTrue, ViewIsTrue, ReplyIsRecent, ViewIsRecent
<1>3. ASSUME GetServers PROVE CopyInv' /\ ClientInv'
  <2>1. /\ Kept /\ UNCHANGED <<pending, flying, view, age, disorder>> /\ view = NoView
        /\ reply' = [at |-> storedAt, contents |-> stored, current |-> ~unsaved]
    BY <1>3 DEF GetServers, relay, kept, saved, known
  <2>2. InTransit' = InTransit
    BY <2>1 DEF InTransit
  <2>3. CopyInv' /\ DeltasAreTrue' /\ Contents' = Contents
    BY <1>a, <2>1, <2>2, CopyKept
  <2>4. /\ reply'.at = storedAt /\ reply'.contents = stored /\ (reply'.current => ~unsaved)
    BY <2>1
  <2>5. ReplyIsTrue'
    BY <1>a, <2>1, <2>3, <2>4 DEF ReplyIsTrue, CopyInv, CopyIsTrue
  <2>6. ReplyIsRecent'
    BY <1>a, <2>1, <2>4 DEF ReplyIsRecent, CopyInv, CopyIsRecent
  <2> QED
    BY <2>1, <2>3, <2>5, <2>6 DEF ClientInv, ViewIsTrue, ViewIsRecent
<1>4. ASSUME ReceiveReply PROVE CopyInv' /\ ClientInv'
  <2>1. /\ Kept /\ UNCHANGED <<pending, flying>> /\ reply # NoMsg /\ reply' = NoMsg
        /\ view' = reply.contents /\ age' = reply.at
        /\ disorder' = IF reply.current
                       THEN {x \in Attrs : x \in disorder \/ age[x] > reply.at[x]} ELSE Attrs
    BY <1>4 DEF ReceiveReply, relay, kept, saved
  <2>2. InTransit' = InTransit
    BY <2>1 DEF InTransit
  <2>3. CopyInv' /\ DeltasAreTrue' /\ Contents' = Contents
    BY <1>a, <2>1, <2>2, CopyKept
  <2>4. ViewIsTrue'
    BY <1>a, <2>1, <2>3 DEF ViewIsTrue, ReplyIsTrue
  <2>5. ASSUME NEW x \in Attrs \ (quiet' \cup disorder')
        PROVE  age'[x] >= news'[x] \/ Told(x)'
    <3>1. reply.current /\ x \notin disorder /\ ~(age[x] > reply.at[x]) /\ x \notin quiet
      BY <2>1
    <3>2. reply.at[x] >= news[x] \/ age[x] >= news[x] \/ Told(x)
      BY <1>a, <2>1, <3>1 DEF ReplyIsRecent
    <3>3. Told(x) => Told(x)'
      BY <2>1, <2>2 DEF Told
    <3> QED
      BY <1>b, <2>1, <3>1, <3>2, <3>3
  <2>6. ViewIsRecent'
    BY <2>5 DEF ViewIsRecent
  <2> QED
    BY <2>1, <2>3, <2>4, <2>6 DEF ClientInv, ReplyIsTrue, ReplyIsRecent
<1>5. ASSUME NEW m \in flying, Receive(m) PROVE CopyInv' /\ ClientInv'
  <2>1. /\ Kept /\ UNCHANGED <<pending, reply>> /\ flying' = flying \ {m}
        /\ view' = IF view = NoView THEN view ELSE (view \ m.minus) \cup m.plus
        /\ age' = [x \in Attrs |-> IF x \in About(m) /\ age[x] < m.n THEN m.n ELSE age[x]]
        /\ disorder' = disorder \cup {x \in About(m) : age[x] > m.n}
    BY <1>5 DEF Receive, relay, kept, saved
  <2>2. InTransit' \subseteq InTransit /\ InTransit \subseteq InTransit' \cup {m} /\ m \in InTransit
    BY <2>1 DEF InTransit
  <2>3. CopyInv' /\ DeltasAreTrue' /\ Contents' = Contents
    BY <1>a, <2>1, <2>2, CopyKept
  <2>4. ReplyIsTrue'
    BY <1>a, <2>1, <2>3 DEF ReplyIsTrue
  <2>5. ViewIsTrue'
    <3> SUFFICES ASSUME view' # NoView, NEW x \in Attrs \ disorder', age'[x] >= news'[x]
                 PROVE  x \in view' <=> x \in Contents'
      BY DEF ViewIsTrue
    <3>1. view # NoView /\ view' = (view \ m.minus) \cup m.plus
      BY <2>1
    <3>2. CASE x \in About(m)
      <4>1. m.n >= news[x]
        BY <1>b, <1>c, <2>1, <2>2, <3>2
      <4>2. x \in m.plus <=> x \in Contents
        BY <1>a, <2>2, <3>2, <4>1 DEF DeltasAreTrue
      <4> QED
        BY <2>3, <3>1, <3>2, <4>2 DEF About
    <3>3. CASE x \notin About(m)
      <4>1. age[x] >= news[x] /\ x \notin disorder
        BY <2>1, <3>3
      <4> QED
        BY <1>a, <2>3, <3>1, <3>3, <4>1 DEF ViewIsTrue, About
    <3> QED
      BY <3>2, <3>3
  <2>6. ASSUME NEW x \in Attrs, Told(x) \/ age[x] >= news[x]
        PROVE  Told(x)' \/ age'[x] >= news'[x]
    <3>1. age'[x] >= age[x] /\ (x \in About(m) => age'[x] >= m.n) /\ age'[x] \in Nat
      BY <1>b, <1>c, <2>1, <2>2
    <3>2. CASE age[x] >= news[x]
      BY <1>b, <2>1, <3>1, <3>2
    <3>3. CASE Told(x)
      <4>1. PICK d \in InTransit : x \in About(d) /\ d.n >= news[x]
        BY <3>3 DEF Told
      <4>2. CASE d = m
        BY <1>b, <1>c, <2>1, <2>2, <3>1, <4>1, <4>2
      <4>3. CASE d # m
        BY <2>1, <2>2, <4>1, <4>3 DEF Told
      <4> QED
        BY <4>2, <4>3
    <3> QED
      BY <2>6, <3>2, <3>3
  <2>7. ReplyIsRecent' /\ ViewIsRecent'
    <3>1. \A x \in Attrs \ (quiet' \cup disorder') : x \in Attrs \ (quiet \cup disorder)
      BY <2>1
    <3>2. view' # NoView => view # NoView
      BY <2>1
    <3>3. ReplyIsRecent'
      BY <1>a, <2>1, <2>6, <3>1 DEF ReplyIsRecent
    <3>4. ViewIsRecent'
      BY <1>a, <2>6, <3>1, <3>2 DEF ViewIsRecent
    <3> QED
      BY <3>3, <3>4
  <2> QED
    BY <2>3, <2>4, <2>5, <2>7 DEF ClientInv
<1>6. ASSUME NEW m \in flying, Drop(m) PROVE CopyInv' /\ ClientInv'
  <2>1. /\ Kept /\ UNCHANGED <<pending, reply, view, age>> /\ flying' = flying \ {m}
        /\ disorder' = disorder \cup About(m)
    BY <1>6 DEF Drop, relay, kept, saved
  <2>2. InTransit' \subseteq InTransit /\ InTransit \subseteq InTransit' \cup {m}
    BY <2>1 DEF InTransit
  <2>3. CopyInv' /\ DeltasAreTrue' /\ Contents' = Contents
    BY <1>a, <2>1, <2>2, CopyKept
  <2>4. ReplyIsTrue' /\ ViewIsTrue'
    BY <1>a, <2>1, <2>3 DEF ReplyIsTrue, ViewIsTrue
  <2>5. \A x \in Attrs \ disorder' : Told(x) => Told(x)'
    BY <2>1, <2>2 DEF Told
  <2>6. ReplyIsRecent' /\ ViewIsRecent'
    BY <1>a, <2>1, <2>5 DEF ReplyIsRecent, ViewIsRecent
  <2> QED
    BY <2>3, <2>4, <2>6 DEF ClientInv
<1>7. ASSUME NEW m \in pending, Broadcast(m) PROVE CopyInv' /\ ClientInv'
  <2>1. /\ Kept /\ UNCHANGED <<reply, view, age, disorder>> /\ pending' = pending \ {m}
        /\ flying' = IF conn = "on" THEN flying \cup {m} ELSE flying
    BY <1>7 DEF Broadcast, relay, kept, saved, known
  <2>2. CASE conn = "on"
    <3>1. InTransit' = InTransit
      BY <2>1, <2>2 DEF InTransit
    <3> QED
      BY <1>a, <2>1, <3>1, NothingMoves DEF ClientInv
  <2>3. CASE conn = "off"
    <3>1. InTransit' \subseteq InTransit /\ reply' = NoMsg /\ view' = NoView
      BY <1>a, <2>1, <2>3 DEF InTransit
    <3>2. CopyInv' /\ DeltasAreTrue'
      BY <1>a, <2>1, <3>1, CopyKept
    <3> QED
      BY <3>1, <3>2 DEF ClientInv, ReplyIsTrue, ViewIsTrue, ReplyIsRecent, ViewIsRecent
  <2> QED
    BY <1>a, <2>2, <2>3
<1> QED
  BY <1>1, <1>2, <1>3, <1>4, <1>5, <1>6, <1>7 DEF ClientStep

(* Copy and client, at the start.                                          *)
LEMMA InitViews == Init => CopyInv /\ ClientInv
<1> SUFFICES ASSUME Init PROVE CopyInv /\ ClientInv
  OBVIOUS
<1>1. Contents = {} /\ InTransit = {}
  BY DEF Init, Contents, Flags, InTransit
<1>2. Nicks \subseteq Attrs
  BY DEF Attrs
<1>3. CopyInv
  BY <1>1, <1>2 DEF Init, CopyInv, InfoIsTrue, CopyIsTrue, InfoIsRecent, CopyIsRecent
<1>4. ClientInv
  BY <1>1 DEF Init, ClientInv, DeltasAreTrue, ReplyIsTrue, ViewIsTrue, ReplyIsRecent, ViewIsRecent
<1> QED
  BY <1>3, <1>4

(* Copy and client are inductive.                                          *)
LEMMA StepViews ==
  ASSUME TypeInv, TypeInv', LinesInv, CopyInv, ClientInv, [Next]_vars
  PROVE  CopyInv' /\ ClientInv'
<1>1. ASSUME UNCHANGED <<relay, client, kept, saved, known, pending>>
      PROVE  CopyInv' /\ ClientInv'
  <2>1. InTransit' = InTransit
    BY <1>1 DEF InTransit, relay, client
  <2> QED
    BY <1>1, <2>1, NothingMoves DEF relay, client, kept, saved, known
<1>2. ASSUME ServerStep PROVE CopyInv' /\ ClientInv'
  <2>1. UNCHANGED <<relay, client, kept, saved, known, pending>>
    BY <1>2 DEF ServerStep, OtherJoins, OtherLeaves, OtherIsKicked, OtherRenames,
                TopicChanges, IJoin, ILeave, Event, Break, Reconnect
  <2> QED
    BY <1>1, <2>1
<1>3. ASSUME UNCHANGED vars PROVE CopyInv' /\ ClientInv'
  BY <1>1, <1>3 DEF vars
<1> QED
  BY <1>2, <1>3, RelayStepViews, RestartViews, ClientStepViews DEF Next

-----------------------------------------------------------------------------
(* The inductive invariant, and what follows from it.                      *)
IInv == TypeInv /\ LinesInv /\ StoredInv /\ CopyInv /\ ClientInv

(* The invariant is inductive.                                             *)
LEMMA Invariance == Spec => []IInv
<1>1. Init => IInv
  BY InitType, InitLines, InitStored, InitViews DEF IInv
<1>2. IInv /\ [Next]_vars => IInv'
  <2> SUFFICES ASSUME IInv, [Next]_vars PROVE IInv'
    OBVIOUS
  <2>1. TypeInv /\ LinesInv /\ StoredInv /\ CopyInv /\ ClientInv
    BY DEF IInv
  <2>2. TypeInv'
    BY <2>1, StepType
  <2>3. LinesInv' /\ StoredInv'
    BY <2>1, StepLines, StepStored
  <2>4. CopyInv' /\ ClientInv'
    BY <2>1, <2>2, StepViews
  <2> QED
    BY <2>2, <2>3, <2>4 DEF IInv
<1> QED
  BY <1>1, <1>2, PTL DEF Spec

(* Every reachable state is well typed: only people are ever members, and  *)
(* what is written, sent or shown is made of them, of "joined" and of the  *)
(* topic (channel.go:14-85, irc_client.go:79-190).                         *)
THEOREM TypeCorrect == Spec => []TypeOK
<1>1. IInv => TypeOK
  BY TypeInvImplies DEF IInv
<1> QED
  BY <1>1, Invariance, PTL

(* However lines are lost and sessions break: once the lines are handled,  *)
(* a relay that is in the channel has its topic, everybody in it, and      *)
(* besides them only people who may have left unheard                      *)
(* (irc_client.go:99-103, 139-213, channel.go:37-85).                      *)
THEOREM ChannelFollowsServer == Spec => []ChannelIsTrue
<1>1. IInv => ChannelIsTrue
  BY LinesInvImplies DEF IInv
<1> QED
  BY <1>1, Invariance, PTL

(* Between two lines the object in Redis is the channel, unless the last   *)
(* save failed (channel.go:14-85, irc_client.go:99-103, 168-190).          *)
THEOREM CopyFollowsRelay == Spec => []StoredIsCurrent
<1>1. IInv => StoredIsCurrent
  BY StoredInvImplies DEF IInv
<1> QED
  BY <1>1, Invariance, PTL

(* In whatever order deltas and the answer to getServers arrive: a client  *)
(* at rest shows the contents, but for what it learned of out of order and *)
(* what no delta has told since it asked (zmq_message.go:154, user.go:196).*)
THEOREM ViewFollowsRelay == Spec => []ViewIsCurrent
<1>1. IInv => ViewIsCurrent
  BY ClientInvImplies DEF IInv
<1> QED
  BY <1>1, Invariance, PTL

(* From end to end: when everything has been handled and has arrived, a    *)
(* client shows who is in the channel and its topic as the IRC server has  *)
(* them, element by element, except where one of three things happened:    *)
(* it learned of the element out of order, no delta told of its last       *)
(* change, or a departure may have gone unheard.                           *)
ScreenIsTrue ==
  Settled /\ "joined" \in info =>
    \A x \in Attrs \ (disorder \cup quiet \cup ghosts) :
      x \in view <=> x \in actual \cup topic \cup {"joined"}

(* The two properties before it meet in the members and the topic of the   *)
(* relay (irc_client.go:139-213, channel.go:14-85, user.go:196).           *)
THEOREM ScreenShowsServer == Spec => []ScreenIsTrue
<1>1. IInv => ScreenIsTrue
  <2> SUFFICES ASSUME IInv, Settled, "joined" \in info,
                      NEW x \in Attrs \ (disorder \cup quiet \cup ghosts)
               PROVE  x \in view <=> x \in actual \cup topic \cup {"joined"}
    BY DEF ScreenIsTrue
  <2>1. TypeInv /\ LinesInv /\ ClientInv
    BY DEF IInv
  <2>2. x \in view <=> x \in Contents
    BY <2>1, ClientInvImplies DEF ViewIsCurrent
  <2>3. /\ actual \subseteq members /\ members \subseteq actual \cup ghosts
        /\ info \cap {"topic"} = topic
    BY <2>1, LinesInvImplies DEF ChannelIsTrue, Settled
  <2> QED
    BY <2>2, <2>3 DEF Contents, Flags
<1> QED
  BY <1>1, Invariance, PTL
=============================================================================
