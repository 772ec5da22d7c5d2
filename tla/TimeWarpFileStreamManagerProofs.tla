------------------- MODULE TimeWarpFileStreamManagerProofs -------------------
(***************************************************************************)
(* For any messages, any order of their arrival, any state period and      *)
(* number of rollbacks: no output of a processed event is missing, and     *)
(* what has been written to the file is final.                             *)
(***************************************************************************)
EXTENDS TimeWarpFileStreamManager, SequenceTheorems, WellFoundedInduction, TLAPS

-----------------------------------------------------------------------------
(* How far the two loops over the requests go.                             *)

LEMMA LeastNumber ==
    ASSUME NEW T \in SUBSET Nat, T # {}
    PROVE  \E m \in T : \A n \in T : m <= n
<1>1. PICK m \in T : \A n \in T : ~ (<<n, m>> \in OpToRel(<, Nat))
  BY NatLessThanWellFounded, WFMin
<1>2. \A n \in T : ~ (n < m)
  BY <1>1 DEF OpToRel
<1> QED
  BY <1>2

(* A loop that starts at the end stops somewhere.                          *)
LEMMA StripStops ==
    ASSUME NEW len \in Nat, NEW gone, 0 \notin gone
    PROVE  \E n \in 0 .. len : n \notin gone /\ n + 1 .. len \subseteq gone
<1> DEFINE T == {k \in 0 .. len : k + 1 .. len \subseteq gone}
<1>1. len \in T /\ T \in SUBSET Nat
  OBVIOUS
<1>2. PICK n \in T : \A k \in T : n <= k
  BY <1>1, LeastNumber
<1>3. ASSUME n \in gone PROVE FALSE
  <2>1. n # 0 /\ n - 1 \in 0 .. len
    BY <1>3
  <2>2. (n - 1) + 1 .. len \subseteq gone
    BY <1>2, <1>3
  <2> QED
    BY <1>2, <2>1, <2>2
<1> QED
  BY <1>2, <1>3

(* What StripEnd leaves: a prefix, with nothing that is to go at its end,  *)
(* and everything that is cut off was to go.                               *)
LEMMA Stripped ==
    ASSUME NEW S, NEW seq \in Seq(S), NEW gone, gone \subseteq DOMAIN seq
    PROVE  \E k \in 0 .. Len(seq) :
              /\ StripEnd(seq, gone) \in Seq(S)
              /\ Len(StripEnd(seq, gone)) = k
              /\ \A i \in 1 .. k : StripEnd(seq, gone)[i] = seq[i]
              /\ k \notin gone
              /\ \A i \in DOMAIN seq : i > k => i \in gone
<1> DEFINE P(n) == n \notin gone /\ n + 1 .. Len(seq) \subseteq gone
           k    == CHOOSE n \in 0 .. Len(seq) : P(n)
<1>0. Len(seq) \in Nat /\ DOMAIN seq = 1 .. Len(seq)
  OBVIOUS
<1>1. \E n \in 0 .. Len(seq) : P(n)
  <2>1. 0 \notin gone
    BY <1>0
  <2> QED
    BY <1>0, <2>1, StripStops
<1>2. k \in 0 .. Len(seq) /\ P(k)
  BY <1>1
<1>3. StripEnd(seq, gone) = SubSeq(seq, 1, k)
  BY DEF StripEnd
<1> HIDE DEF k
<1>4. /\ SubSeq(seq, 1, k) \in Seq(S)
      /\ Len(SubSeq(seq, 1, k)) = k
      /\ \A i \in 1 .. k : SubSeq(seq, 1, k)[i] = seq[i]
  BY <1>0, <1>2, SubSeqProperties
<1> QED
  BY <1>0, <1>2, <1>3, <1>4

(* Requests older than the GVT are committed from the front.               *)
LEMMA CommittedCountIs ==
    ASSUME NEW requests \in Seq(Event), NEW time \in Nat
    PROVE  /\ CommittedCount(requests, time) \in 0 .. Len(requests)
           /\ \A i \in 1 .. CommittedCount(requests, time) : requests[i].ts < time
<1> DEFINE P(n) == /\ n < Len(requests) => requests[n + 1].ts >= time
                   /\ \A i \in 1 .. n : requests[i].ts < time
           T    == {n \in 0 .. Len(requests) :
                       n < Len(requests) => requests[n + 1].ts >= time}
<1>0. Len(requests) \in Nat /\ \A i \in 1 .. Len(requests) : requests[i].ts \in Nat
  <2>1. \A i \in 1 .. Len(requests) : requests[i] \in Event
    OBVIOUS
  <2> QED
    BY <2>1 DEF Event
<1>1. Len(requests) \in T /\ T \in SUBSET Nat
  BY <1>0
<1>2. PICK n \in T : \A k \in T : n <= k
  BY <1>1, LeastNumber
<1>3. ASSUME NEW i \in 1 .. n PROVE requests[i].ts < time
  <2>1. n \in 0 .. Len(requests) /\ i - 1 \in 0 .. Len(requests) /\ i - 1 < Len(requests)
        /\ i \in 1 .. Len(requests) /\ (i - 1) + 1 = i /\ ~ (n <= i - 1)
    BY <1>0, <1>2
  <2>2. i - 1 \notin T
    BY <1>2, <2>1
  <2>3. ~ (requests[i].ts >= time)
    BY <2>1, <2>2
  <2> QED
    BY <1>0, <2>1, <2>3
<1>4. \E m \in 0 .. Len(requests) : P(m)
  BY <1>2, <1>3
<1>5. CommittedCount(requests, time) = CHOOSE m \in 0 .. Len(requests) : P(m)
  BY DEF CommittedCount
<1> QED
  BY <1>4, <1>5

LEMMA ToSetAppend ==
    ASSUME NEW S, NEW s \in Seq(S), NEW e \in S
    PROVE  Seqs!ToSet(Append(s, e)) = Seqs!ToSet(s) \cup {e}
<1>1. /\ DOMAIN s = 1 .. Len(s) /\ DOMAIN Append(s, e) = 1 .. Len(s) + 1 /\ Len(s) \in Nat
      /\ \A i \in 1 .. Len(s) : Append(s, e)[i] = s[i]
      /\ Append(s, e)[Len(s) + 1] = e
  OBVIOUS
<1>2. \A i \in 1 .. Len(s) + 1 : i \in 1 .. Len(s) \/ i = Len(s) + 1
  BY <1>1
<1>3. Len(s) + 1 \in 1 .. Len(s) + 1 /\ 1 .. Len(s) \subseteq 1 .. Len(s) + 1
  BY <1>1
<1>4. /\ Seqs!ToSet(s) = {s[i] : i \in 1 .. Len(s)}
      /\ Seqs!ToSet(Append(s, e)) = {Append(s, e)[i] : i \in 1 .. Len(s) + 1}
  BY <1>1 DEF Seqs!ToSet
<1> QED
  BY <1>1, <1>2, <1>3, <1>4, Zenon

LEMMA ConcatIs ==
    ASSUME NEW S, NEW s \in Seq(S), NEW t \in Seq(S)
    PROVE  /\ s \o t \in Seq(S)
           /\ Len(s \o t) = Len(s) + Len(t)
           /\ DOMAIN (s \o t) = 1 .. Len(s) + Len(t)
           /\ \A i \in 1 .. Len(s) : (s \o t)[i] = s[i]
           /\ \A i \in 1 .. Len(t) : (s \o t)[Len(s) + i] = t[i]
<1>1. Len(s) \in Nat /\ Len(t) \in Nat
  OBVIOUS
<1>2. \A i \in 1 .. Len(t) : Len(s) + i \in 1 .. Len(s) + Len(t) /\ ~ (Len(s) + i <= Len(s))
                            /\ (Len(s) + i) - Len(s) = i
  BY <1>1
<1>3. \A i \in 1 .. Len(s) : i \in 1 .. Len(s) + Len(t) /\ i <= Len(s)
  BY <1>1
<1> QED
  BY <1>1, <1>2, <1>3, ConcatProperties

LEMMA ToSetConcat ==
    ASSUME NEW S, NEW s \in Seq(S), NEW t \in Seq(S)
    PROVE  Seqs!ToSet(s \o t) = Seqs!ToSet(s) \cup Seqs!ToSet(t)
<1>1. /\ DOMAIN s = 1 .. Len(s) /\ DOMAIN t = 1 .. Len(t) /\ Len(s) \in Nat /\ Len(t) \in Nat
      /\ DOMAIN (s \o t) = 1 .. Len(s) + Len(t)
      /\ \A i \in 1 .. Len(s) : (s \o t)[i] = s[i]
      /\ \A i \in 1 .. Len(t) : (s \o t)[Len(s) + i] = t[i]
  BY ConcatIs
<1>2. \A i \in 1 .. Len(s) + Len(t) :
          i \in 1 .. Len(s) \/ \E j \in 1 .. Len(t) : i = Len(s) + j
  <2> SUFFICES ASSUME NEW i \in 1 .. Len(s) + Len(t), i \notin 1 .. Len(s)
               PROVE  \E j \in 1 .. Len(t) : i = Len(s) + j
    OBVIOUS
  <2>1. i - Len(s) \in 1 .. Len(t) /\ i = Len(s) + (i - Len(s))
    BY <1>1
  <2> QED
    BY <2>1
<1>3. /\ 1 .. Len(s) \subseteq 1 .. Len(s) + Len(t)
      /\ \A i \in 1 .. Len(t) : Len(s) + i \in 1 .. Len(s) + Len(t)
  BY <1>1
<1>4. /\ Seqs!ToSet(s) = {s[i] : i \in 1 .. Len(s)}
      /\ Seqs!ToSet(t) = {t[i] : i \in 1 .. Len(t)}
      /\ Seqs!ToSet(s \o t) = {(s \o t)[i] : i \in 1 .. Len(s) + Len(t)}
  BY <1>1 DEF Seqs!ToSet
<1>5. ASSUME NEW x \in Seqs!ToSet(s \o t) PROVE x \in Seqs!ToSet(s) \cup Seqs!ToSet(t)
  <2>1. PICK i \in 1 .. Len(s) + Len(t) : x = (s \o t)[i]
    BY <1>4
  <2> QED
    BY <1>1, <1>2, <1>4, <2>1
<1>6. ASSUME NEW x \in Seqs!ToSet(s) \cup Seqs!ToSet(t) PROVE x \in Seqs!ToSet(s \o t)
  BY <1>1, <1>3, <1>4
<1> QED
  BY <1>5, <1>6

-----------------------------------------------------------------------------
(* The inductive invariant.                                                *)

TypeInv == /\ output_requests \in Seq(Event)
           /\ file \in Seq(Event)
           /\ pending \in SUBSET Event
           /\ processed \in Seq(Event)
           /\ saved \in Seq(Nat) /\ saved # <<>> /\ saved[1] = 0
           /\ unsent \in SUBSET Messages
           /\ gvt \in Nat /\ collected \in Nat

(* The processed queue is in the order of the events.                      *)
InOrder == \A i, j \in DOMAIN processed : i < j => ~ Before(processed[j], processed[i])

(* The GVT divides what is committed from what is still to be processed.   *)
Divided == /\ \A e \in pending : gvt <= e.ts
           /\ \A i \in DOMAIN file : file[i].ts < gvt

FileInv == TypeInv /\ InOrder /\ Divided /\ NoOutputMissing

LEMMA Times ==
    ASSUME NEW e \in Event
    PROVE  e.ts \in Nat
  BY DEF Event

(* operator< on events: asymmetric, and what is not before something that  *)
(* is not before a third is not before that one.                           *)
LEMMA BeforeOrders ==
    ASSUME NEW a \in Event, NEW b \in Event, NEW c \in Event
    PROVE  /\ Before(a, b) => ~ Before(b, a)
           /\ ~ Before(a, b) /\ ~ Before(b, c) => ~ Before(a, c)
           /\ ~ Before(a, b) => b.ts <= a.ts
  BY DEF Before, Event

LEMMA FileInit == Init => FileInv
<1> SUFFICES ASSUME Init PROVE FileInv
  OBVIOUS
<1>1. TypeInv
  BY DEF Init, TypeInv
<1>2. InOrder /\ Divided /\ NoOutputMissing
  BY DEF Init, InOrder, Divided, NoOutputMissing, Seqs!ToSet
<1> QED
  BY <1>1, <1>2 DEF FileInv

LEMMA FileSend ==
    ASSUME Configured, FileInv, NEW e \in unsent, Send(e)
    PROVE  FileInv'
<1>1. e \in Event
  BY DEF FileInv, TypeInv, Configured
<1>2. TypeInv'
  BY <1>1 DEF FileInv, TypeInv, Send
<1>3. Divided'
  BY Times, <1>1 DEF FileInv, TypeInv, Divided, Send
<1> QED
  BY <1>2, <1>3 DEF FileInv, InOrder, NoOutputMissing, Send

LEMMA FileCancel ==
    ASSUME FileInv, NEW e \in pending \cup Seqs!ToSet(processed), Cancel(e)
    PROVE  FileInv'
<1>1. e \in Event
  BY DEF FileInv, TypeInv, Seqs!ToSet
<1>2. NegativeEvent(e) \in Event /\ NegativeEvent(e).ts = e.ts
  BY <1>1 DEF NegativeEvent, Event
<1>3. TypeInv'
  BY <1>2 DEF FileInv, TypeInv, Cancel
<1>4. Divided'
  BY <1>1, <1>2, Times DEF FileInv, TypeInv, Divided, Cancel
<1> QED
  BY <1>3, <1>4 DEF FileInv, InOrder, NoOutputMissing, Cancel

LEMMA FileReceive ==
    ASSUME FileInv, NEW e \in pending, ReceiveEvent(e)
    PROVE  FileInv'
<1>0. /\ TypeInv /\ InOrder /\ Divided /\ NoOutputMissing
      /\ e \in Event
  BY DEF FileInv, TypeInv
<1>1. /\ output_requests' = output_requests \o <<e>>
      /\ processed' = Append(processed, e)
      /\ pending' = pending \ {e}
      /\ UNCHANGED <<file, unsent, gvt, collected>>
  BY DEF ReceiveEvent, WrittenBy
<1>2. /\ output_requests' \in Seq(Event)
      /\ processed' \in Seq(Event)
      /\ Len(output_requests') = Len(output_requests) + 1
      /\ output_requests'[Len(output_requests) + 1] = e
      /\ \A i \in 1 .. Len(output_requests) : output_requests'[i] = output_requests[i]
      /\ Len(processed') = Len(processed) + 1
      /\ processed'[Len(processed) + 1] = e
      /\ \A i \in 1 .. Len(processed) : processed'[i] = processed[i]
  BY <1>0, <1>1 DEF TypeInv
<1>3. saved' \in Seq(Nat) /\ saved' # <<>> /\ saved'[1] = 0
  <2>1. saved' \in {saved, Append(saved, Len(processed'))}
    BY DEF ReceiveEvent
  <2>2. Len(processed') \in Nat
    BY <1>2
  <2>3. saved \in Seq(Nat) /\ saved # <<>> /\ saved[1] = 0 /\ Len(saved) >= 1
    BY <1>0 DEF TypeInv
  <2>4. \A k \in Nat : /\ Append(saved, k) \in Seq(Nat) /\ Append(saved, k) # <<>>
                      /\ Append(saved, k)[1] = saved[1]
    BY <2>3
  <2> QED
    BY <2>1, <2>2, <2>3, <2>4
<1>4. TypeInv'
  BY <1>0, <1>1, <1>2, <1>3 DEF TypeInv
<1>5. InOrder'
  <2>1. processed # <<>> => ~ Before(e, processed[Len(processed)])
    BY DEF ReceiveEvent, Straggles, Seqs!Last
  <2>2. ASSUME NEW i \in 1 .. Len(processed) PROVE ~ Before(e, processed[i])
    <3>1. /\ processed # <<>> /\ Len(processed) \in 1 .. Len(processed)
          /\ processed[i] \in Event /\ processed[Len(processed)] \in Event
      BY <1>0, <2>2 DEF TypeInv
    <3>2. i < Len(processed) => ~ Before(processed[Len(processed)], processed[i])
      BY <1>0, <3>1 DEF InOrder, TypeInv
    <3>3. i = Len(processed) \/ i < Len(processed)
      BY <1>0, <2>2 DEF TypeInv
    <3> QED
      BY <1>0, <2>1, <3>1, <3>2, <3>3, BeforeOrders
  <2>3. ASSUME NEW i \in DOMAIN processed', NEW j \in DOMAIN processed', i < j
        PROVE  ~ Before(processed'[j], processed'[i])
    <3>1. i \in 1 .. Len(processed) /\ j \in 1 .. Len(processed) + 1
      BY <1>2, <1>0, <2>3 DEF TypeInv
    <3>2. processed'[i] = processed[i] /\ (j # Len(processed) + 1 => processed'[j] = processed[j])
      BY <1>2, <3>1
    <3>3. CASE j = Len(processed) + 1
      BY <1>2, <2>2, <3>1, <3>2, <3>3
    <3>4. CASE j # Len(processed) + 1
      <4>1. i \in DOMAIN processed /\ j \in DOMAIN processed
        BY <1>0, <3>1, <3>4 DEF TypeInv
      <4> QED
        BY <1>0, <2>3, <3>2, <3>4, <4>1 DEF InOrder
    <3> QED
      BY <3>3, <3>4
  <2> QED
    BY <2>3 DEF InOrder
<1>6. Divided'
  BY <1>0, <1>1 DEF Divided
<1>7. NoOutputMissing'
  <2>1. Seqs!ToSet(processed') = Seqs!ToSet(processed) \cup {e}
    BY <1>0, <1>1, ToSetAppend DEF TypeInv
  <2>2. Seqs!ToSet(output_requests') = Seqs!ToSet(output_requests) \cup Seqs!ToSet(<<e>>)
    <3>1. output_requests \in Seq(Event) /\ <<e>> \in Seq(Event)
      BY <1>0 DEF TypeInv
    <3>2. output_requests' = output_requests \o <<e>>
      BY <1>1
    <3> QED
      BY <3>1, <3>2, ToSetConcat
  <2>3. Seqs!ToSet(<<e>>) = {e}
    BY DEF Seqs!ToSet
  <2>4. NoOutputMissing' <=>
            Seqs!ToSet(processed') \subseteq Seqs!ToSet(file') \cup Seqs!ToSet(output_requests')
    BY DEF NoOutputMissing, Seqs!ToSet
  <2> QED
    BY <1>0, <1>1, <2>1, <2>2, <2>3, <2>4 DEF NoOutputMissing
<1> QED
  BY <1>4, <1>5, <1>6, <1>7 DEF FileInv

LEMMA FileCancelEvent ==
    ASSUME FileInv, NEW e \in pending, CancelEvent(e)
    PROVE  FileInv'
  BY DEF FileInv, TypeInv, InOrder, Divided, NoOutputMissing, CancelEvent

(* A rollback removes the output of events it undoes, and only that: the   *)
(* requests it removes are after the straggler, the events it keeps before.*)
LEMMA FileRollback ==
    ASSUME FileInv, NEW e \in pending, Rollback(e)
    PROVE  FileInv'
<1> DEFINE kept   == StripEnd(processed, {i \in DOMAIN processed : SameOrAfter(processed[i], e)})
           states == StripEnd(saved, {i \in DOMAIN saved : saved[i] > Len(kept)})
           left   == removeOutputRequestsAfter(output_requests, e)
           again  == CoastForward(kept, states)
<1>0. /\ TypeInv /\ InOrder /\ Divided /\ NoOutputMissing
      /\ e \in Event
  BY DEF FileInv, TypeInv
<1>1. /\ output_requests' = left \o again
      /\ processed' = kept
      /\ saved' = states
      /\ pending' = pending \cup (Seqs!ToSet(processed) \ Seqs!ToSet(kept))
      /\ UNCHANGED <<file, unsent, gvt, collected>>
  BY DEF Rollback, WrittenBy
<1>2. PICK k \in 0 .. Len(processed) :
          /\ kept \in Seq(Event) /\ Len(kept) = k
          /\ \A i \in 1 .. k : kept[i] = processed[i]
          /\ k # 0 => Before(processed[k], e)
          /\ \A i \in DOMAIN processed : i > k => ~ Before(processed[i], e)
  <2>1. processed \in Seq(Event) /\ DOMAIN processed = 1 .. Len(processed) /\ Len(processed) \in Nat
    BY <1>0 DEF TypeInv
  <2> DEFINE gone == {i \in DOMAIN processed : SameOrAfter(processed[i], e)}
  <2>2. PICK k \in 0 .. Len(processed) :
            /\ kept \in Seq(Event) /\ Len(kept) = k
            /\ \A i \in 1 .. k : kept[i] = processed[i]
            /\ k \notin gone
            /\ \A i \in DOMAIN processed : i > k => i \in gone
    <3>1. gone \subseteq DOMAIN processed
      OBVIOUS
    <3> HIDE DEF gone
    <3>2. \E k \in 0 .. Len(processed) :
            /\ StripEnd(processed, gone) \in Seq(Event) /\ Len(StripEnd(processed, gone)) = k
            /\ \A i \in 1 .. k : StripEnd(processed, gone)[i] = processed[i]
            /\ k \notin gone
            /\ \A i \in DOMAIN processed : i > k => i \in gone
      BY <2>1, <3>1, Stripped
    <3> QED
      BY <3>2 DEF gone
  <2>3. /\ k # 0 => Before(processed[k], e)
        /\ \A i \in DOMAIN processed : i > k => ~ Before(processed[i], e)
    BY <2>1, <2>2 DEF SameOrAfter
  <2> QED
    BY <2>2, <2>3
<1>3. /\ left \in Seq(Event)
      /\ \A i \in DOMAIN output_requests :
            ~ Before(e, output_requests[i]) => output_requests[i] \in Seqs!ToSet(left)
  <2>1. output_requests \in Seq(Event) /\ DOMAIN output_requests = 1 .. Len(output_requests)
    BY <1>0 DEF TypeInv
  <2> DEFINE gone == {i \in DOMAIN output_requests : Before(e, output_requests[i])}
  <2>2. left = StripEnd(output_requests, gone)
    BY DEF removeOutputRequestsAfter
  <2>3. PICK n \in 0 .. Len(output_requests) :
            /\ left \in Seq(Event) /\ Len(left) = n
            /\ \A i \in 1 .. n : left[i] = output_requests[i]
            /\ \A i \in DOMAIN output_requests : i > n => i \in gone
    <3>1. gone \subseteq DOMAIN output_requests
      OBVIOUS
    <3> HIDE DEF gone
    <3> QED
      BY <2>1, <2>2, <3>1, Stripped
  <2>4. ASSUME NEW i \in DOMAIN output_requests, ~ Before(e, output_requests[i])
        PROVE  output_requests[i] \in Seqs!ToSet(left)
    <3>1. i \in 1 .. n /\ i \in DOMAIN left
      BY <2>1, <2>3, <2>4
    <3> QED
      BY <2>3, <3>1 DEF Seqs!ToSet
  <2> QED
    BY <2>3, <2>4
<1>4. /\ states \in Seq(Nat) /\ states # <<>> /\ states[1] = 0
      /\ Seqs!Last(states) \in Nat
  <2>1. saved \in Seq(Nat) /\ DOMAIN saved = 1 .. Len(saved) /\ Len(saved) >= 1 /\ saved[1] = 0
    BY <1>0 DEF TypeInv
  <2> DEFINE gone == {i \in DOMAIN saved : saved[i] > Len(kept)}
  <2>2. PICK n \in 0 .. Len(saved) :
            /\ states \in Seq(Nat) /\ Len(states) = n
            /\ \A i \in 1 .. n : states[i] = saved[i]
            /\ \A i \in DOMAIN saved : i > n => i \in gone
    <3>1. gone \subseteq DOMAIN saved
      OBVIOUS
    <3> HIDE DEF gone
    <3>2. \E n \in 0 .. Len(saved) :
            /\ StripEnd(saved, gone) \in Seq(Nat) /\ Len(StripEnd(saved, gone)) = n
            /\ \A i \in 1 .. n : StripEnd(saved, gone)[i] = saved[i]
            /\ \A i \in DOMAIN saved : i > n => i \in gone
      BY <2>1, <3>1, Stripped
    <3> QED
      BY <3>2 DEF gone
  <2>3. n # 0
    <3>1. ~ (0 > Len(kept))
      BY <1>2
    <3>2. 1 \in DOMAIN saved /\ 1 \notin gone
      BY <2>1, <3>1
    <3> QED
      BY <2>2, <3>2
  <2>4. states # <<>> /\ Len(states) \in 1 .. Len(states)
    BY <2>2, <2>3
  <2>5. states[1] = saved[1]
    <3>1. 1 \in 1 .. n
      BY <2>1, <2>3
    <3> QED
      BY <2>2, <3>1
  <2>6. states[Len(states)] \in Nat
    BY <2>2, <2>4
  <2> QED
    BY <2>1, <2>2, <2>4, <2>5, <2>6 DEF Seqs!Last
<1> HIDE DEF kept, states, left
<1>5. again \in Seq(Event)
  <2>1. again = SubSeq(kept, Seqs!Last(states) + 1, Len(kept))
    BY DEF CoastForward
  <2>2. Seqs!Last(states) + 1 \in Nat /\ Seqs!Last(states) + 1 >= 1
    BY <1>4
  <2> QED
    BY <1>2, <2>1, <2>2, SubSeqProperties
<1> HIDE DEF again
<1>6. /\ output_requests' \in Seq(Event)
      /\ Seqs!ToSet(left) \subseteq Seqs!ToSet(output_requests')
  <2>1. left \o again \in Seq(Event) /\ \A i \in DOMAIN left : (left \o again)[i] = left[i] /\ i \in DOMAIN (left \o again)
    BY <1>3, <1>5
  <2> QED
    BY <1>1, <2>1 DEF Seqs!ToSet
<1>7. TypeInv'
  <2>1. pending' \in SUBSET Event
    BY <1>0, <1>1 DEF TypeInv, Seqs!ToSet
  <2> QED
    BY <1>0, <1>1, <1>2, <1>4, <1>6, <2>1 DEF TypeInv
<1>8. \A i \in 1 .. k : i \in DOMAIN processed /\ i \in DOMAIN kept /\ kept[i] = processed[i]
  BY <1>0, <1>2 DEF TypeInv
<1>9. DOMAIN kept = 1 .. k
  BY <1>2
<1>10. InOrder'
  BY <1>0, <1>1, <1>8, <1>9 DEF InOrder
<1>11. \A i \in 1 .. k : Before(processed[i], e)
  <2> SUFFICES ASSUME NEW i \in 1 .. k PROVE Before(processed[i], e)
    OBVIOUS
  <2>1. k \in 1 .. k /\ k # 0 /\ (i < k \/ i = k)
    OBVIOUS
  <2>2. /\ processed[i] \in Event /\ processed[k] \in Event
        /\ i < k => ~ Before(processed[k], processed[i])
    BY <1>0, <1>8, <2>1 DEF TypeInv, InOrder
  <2>3. Before(processed[k], e)
    BY <1>2, <2>1
  <2> QED
    BY <1>0, <2>1, <2>2, <2>3, BeforeOrders
<1>12. Divided'
  <2>1. ASSUME NEW p \in Seqs!ToSet(processed) \ Seqs!ToSet(kept) PROVE gvt <= p.ts
    <3>1. PICK i \in DOMAIN processed : p = processed[i]
      BY DEF Seqs!ToSet
    <3>2. i > k
      <4>1. i \in 1 .. k => p \in Seqs!ToSet(kept)
        BY <1>8, <3>1 DEF Seqs!ToSet
      <4> QED
        BY <1>0, <3>1, <4>1 DEF TypeInv
    <3>3. ~ Before(p, e) /\ p \in Event
      BY <1>0, <1>2, <3>1, <3>2 DEF TypeInv
    <3>4. e.ts <= p.ts /\ gvt <= e.ts
      BY <1>0, <3>3, BeforeOrders DEF Divided
    <3> QED
      BY <1>0, <3>3, <3>4, Times DEF TypeInv
  <2> QED
    BY <1>0, <1>1, <2>1 DEF Divided
<1>13. NoOutputMissing'
  <2> SUFFICES ASSUME NEW i \in 1 .. k
               PROVE  processed[i] \in Seqs!ToSet(file) \cup Seqs!ToSet(output_requests')
    BY <1>1, <1>8, <1>9 DEF NoOutputMissing, Seqs!ToSet
  <2>0. processed[i] \in Event /\ processed[i] \in Seqs!ToSet(processed)
    BY <1>0, <1>8 DEF Seqs!ToSet, TypeInv
  <2>1. processed[i] \in Seqs!ToSet(file) \cup Seqs!ToSet(output_requests) /\ processed[i] \in Event
    BY <1>0, <2>0 DEF NoOutputMissing
  <2>2. ~ Before(e, processed[i])
    BY <1>0, <1>11, <2>1, BeforeOrders
  <2>3. processed[i] \in Seqs!ToSet(output_requests) => processed[i] \in Seqs!ToSet(left)
    BY <1>3, <2>2 DEF Seqs!ToSet
  <2> QED
    BY <1>6, <2>1, <2>3
<1> QED
  BY <1>7, <1>10, <1>12, <1>13 DEF FileInv

(* What a collection commits is not lost.                                  *)
LEMMA FileCollect ==
    ASSUME FileInv, fossilCollect
    PROVE  FileInv'
<1>0. TypeInv /\ InOrder /\ Divided /\ NoOutputMissing
  BY DEF FileInv
<1> DEFINE n     == CommittedCount(output_requests, gvt)
           front == SubSeq(output_requests, 1, n)
           rest  == SubSeq(output_requests, n + 1, Len(output_requests))
<1>1. /\ file' = file \o front /\ output_requests' = rest
      /\ collected' = gvt
      /\ UNCHANGED <<pending, processed, saved, unsent, gvt>>
  BY DEF fossilCollect, commitOutputRequestsBefore, lpVars
<1>2. n \in 0 .. Len(output_requests) /\ \A i \in 1 .. n : output_requests[i].ts < gvt
  BY <1>0, CommittedCountIs DEF TypeInv
<1> HIDE DEF n
<1>3. /\ front \in Seq(Event) /\ Len(front) = n
      /\ \A i \in 1 .. n : front[i] = output_requests[i]
      /\ rest \in Seq(Event) /\ Len(rest) = Len(output_requests) - n
      /\ \A i \in 1 .. Len(output_requests) - n : rest[i] = output_requests[i + n]
  <2>1. output_requests \in Seq(Event) /\ Len(output_requests) \in Nat
    BY <1>0 DEF TypeInv
  <2> QED
    BY <1>2, <2>1, SubSeqProperties
<1> HIDE DEF front, rest
<1>4. /\ file' \in Seq(Event) /\ Len(file') = Len(file) + n
      /\ \A i \in 1 .. Len(file) : file'[i] = file[i]
      /\ \A i \in 1 .. n : file'[Len(file) + i] = output_requests[i]
  <2>1. /\ file \o front \in Seq(Event) /\ Len(file \o front) = Len(file) + n
        /\ \A i \in 1 .. Len(file) : (file \o front)[i] = file[i]
        /\ \A i \in 1 .. n : (file \o front)[Len(file) + i] = front[i]
    <3>1. file \in Seq(Event) /\ front \in Seq(Event) /\ Len(front) = n
      BY <1>0, <1>3 DEF TypeInv
    <3>2. PICK s, t : s = file /\ t = front
      OBVIOUS
    <3>3. /\ s \o t \in Seq(Event) /\ Len(s \o t) = Len(s) + Len(t)
          /\ \A i \in 1 .. Len(s) : (s \o t)[i] = s[i]
          /\ \A i \in 1 .. Len(t) : (s \o t)[Len(s) + i] = t[i]
      <4>1. s \in Seq(Event) /\ t \in Seq(Event)
        BY <3>1, <3>2
      <4> QED
        BY <4>1
    <3> QED
      BY <3>1, <3>2, <3>3
  <2> QED
    BY <1>1, <1>3, <2>1
<1>5. TypeInv'
  BY <1>0, <1>1, <1>3, <1>4 DEF TypeInv
<1>6. InOrder'
  BY <1>0, <1>1 DEF InOrder
<1>7. Divided'
  <2>1. ASSUME NEW i \in DOMAIN file' PROVE file'[i].ts < gvt
    <3>1. CASE i \in 1 .. Len(file)
      BY <1>0, <1>4, <3>1 DEF TypeInv, Divided
    <3>2. CASE i \notin 1 .. Len(file)
      <4>1. i - Len(file) \in 1 .. n /\ Len(file) + (i - Len(file)) = i
        BY <1>0, <1>2, <1>4, <2>1, <3>2 DEF TypeInv
      <4>2. file'[i] = output_requests[i - Len(file)]
        BY <1>4, <4>1
      <4> QED
        BY <1>2, <4>1, <4>2
    <3> QED
      BY <3>1, <3>2
  <2> QED
    BY <1>0, <1>1, <2>1 DEF Divided
<1>8. NoOutputMissing'
  <2>1. Seqs!ToSet(file) \subseteq Seqs!ToSet(file')
    BY <1>0, <1>1, <1>3, ToSetConcat DEF TypeInv
  <2>2. ASSUME NEW i \in DOMAIN output_requests
        PROVE  output_requests[i] \in Seqs!ToSet(file') \cup Seqs!ToSet(output_requests')
    <3>0. i \in 1 .. Len(output_requests) /\ Len(output_requests) \in Nat
      BY <1>0, <2>2 DEF TypeInv
    <3>1. CASE i <= n
      <4>1. i \in 1 .. n /\ Len(file) + i \in DOMAIN file'
        BY <1>0, <1>2, <1>4, <3>0, <3>1 DEF TypeInv
      <4> QED
        BY <1>4, <4>1 DEF Seqs!ToSet
    <3>2. CASE i > n
      <4>1. i - n \in 1 .. Len(output_requests) - n /\ (i - n) + n = i
        BY <1>2, <3>0, <3>2
      <4>2. i - n \in DOMAIN rest /\ rest[i - n] = output_requests[i]
        BY <1>2, <1>3, <4>1, <3>0
      <4> QED
        BY <1>1, <4>2 DEF Seqs!ToSet
    <3> QED
      BY <1>2, <3>0, <3>1, <3>2
  <2>3. Seqs!ToSet(output_requests) \subseteq Seqs!ToSet(file') \cup Seqs!ToSet(output_requests')
    BY <2>2 DEF Seqs!ToSet
  <2> QED
    BY <1>0, <1>1, <2>1, <2>3 DEF NoOutputMissing
<1> QED
  BY <1>5, <1>6, <1>7, <1>8 DEF FileInv

LEMMA FileAdvance ==
    ASSUME Configured, FileInv, NEW time \in 1 .. EndTime, AdvanceGVT(time)
    PROVE  FileInv'
<1>1. time \in Nat
  BY DEF Configured
<1>2. TypeInv'
  BY <1>1 DEF FileInv, TypeInv, AdvanceGVT, lpVars
<1>3. Divided'
  <2>1. ASSUME NEW i \in DOMAIN file PROVE file[i].ts < time
    <3>1. file[i].ts \in Nat /\ file[i].ts < gvt /\ gvt < time /\ gvt \in Nat
      BY <2>1, Times DEF FileInv, TypeInv, Divided, AdvanceGVT
    <3> QED
      BY <1>1, <3>1
  <2> QED
    BY <2>1 DEF Divided, AdvanceGVT, lpVars
<1> QED
  BY <1>2, <1>3 DEF FileInv, InOrder, NoOutputMissing, AdvanceGVT, lpVars

LEMMA FileNext ==
    ASSUME Configured
    PROVE  FileInv /\ [Next]_vars => FileInv'
<1> SUFFICES ASSUME FileInv, [Next]_vars PROVE FileInv'
  OBVIOUS
<1>1. CASE \E e \in unsent : Send(e)
  BY <1>1, FileSend
<1>2. CASE \E e \in pending \cup Seqs!ToSet(processed) : Cancel(e)
  BY <1>2, FileCancel
<1>3. CASE \E e \in pending : ReceiveEvent(e)
  BY <1>3, FileReceive
<1>4. CASE \E e \in pending : CancelEvent(e)
  BY <1>4, FileCancelEvent
<1>5. CASE \E e \in pending : Rollback(e)
  BY <1>5, FileRollback
<1>6. CASE fossilCollect
  BY <1>6, FileCollect
<1>7. CASE \E time \in 1 .. EndTime : AdvanceGVT(time)
  BY <1>7, FileAdvance
<1>8. CASE Terminate \/ UNCHANGED vars
  BY <1>8 DEF Terminate, vars, lpVars, FileInv, TypeInv, InOrder, Divided, NoOutputMissing
<1> QED
  BY <1>1, <1>2, <1>3, <1>4, <1>5, <1>6, <1>7, <1>8 DEF Next

(* However often the LP was rolled back and whatever was committed or      *)
(* removed, each processed event has its output in the file or among the   *)
(* requests.                                                               *)
THEOREM SpecNoOutputMissing ==
    ASSUME Configured
    PROVE  Spec => []NoOutputMissing
<1>1. FileInv => NoOutputMissing
  BY DEF FileInv
<1> QED
  BY FileInit, FileNext, <1>1, PTL DEF Spec

(* Whatever the LP has yet to process comes after all that is in the file: *)
(* no rollback ever has to take back what was committed.                   *)
THEOREM SpecCommittedIsFinal ==
    ASSUME Configured
    PROVE  Spec => []CommittedIsFinal
<1>1. FileInv => CommittedIsFinal
  <2> SUFFICES ASSUME FileInv, NEW i \in DOMAIN file, NEW e \in pending
               PROVE  After(e, file[i])
    BY DEF CommittedIsFinal
  <2>1. file[i].ts \in Nat /\ e.ts \in Nat /\ gvt \in Nat /\ file[i].ts < gvt /\ gvt <= e.ts
    BY Times DEF FileInv, TypeInv, Divided
  <2> QED
    BY <2>1 DEF After, BeforeOrSame, Before, SameEvent
<1> QED
  BY FileInit, FileNext, <1>1, PTL DEF Spec
=============================================================================
