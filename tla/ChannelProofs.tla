----------------------------- MODULE ChannelProofs -----------------------------
(***************************************************************************)
(* Proofs about the channel and what it carries: no message is skipped,    *)
(* none is marked before it was processed, a receiver's side is a mailbox, *)
(* and what is read out of a document is what was put into it, whatever    *)
(* the byte orders of the two hosts.                                       *)
(***************************************************************************)
EXTENDS MessageChannel, SequenceTheorems, FiniteSetTheorems, WellFoundedInduction, TLAPS

-------------------------------------------------------------------------------
(* The safety of the channel. *)

(* What the variables are, as far as the arguments need it.                *)
Shape ==
    /\ data \in Seq(Envelope)
    /\ count \in Nat
    /\ listener = [r \in Receiver |-> [pc |-> listener[r].pc, batch |-> listener[r].batch]]
    /\ processed = [r \in Receiver |-> processed[r]]
    /\ last = [r \in Receiver |-> last[r]]

(* The head of a batch is marked only after it was processed, and a        *)
(* message that was inserted, was not dropped unread and has not been      *)
(* processed by anybody is in the collection, unread.                      *)
Marking == \A r \in Receiver : listener[r].pc = "mark" =>
    /\ Head(listener[r].batch).id \in processed[r]
    /\ last[r] \in processed[r]

InCollection(m) == \E i \in DOMAIN data : data[i].id = m /\ ~data[i].read

Unskipped == \A m \in 1..count :
    \/ m \in dropped \cup lost
    \/ \E r \in Receiver : m \in processed[r]
    \/ InCollection(m)

ChannelInv == Shape /\ Marking /\ ReadIsProcessed /\ Unskipped

-------------------------------------------------------------------------------
(* One lemma for each step of the channel. *)

LEMMA TailFacts ==
  ASSUME NEW S, NEW s \in Seq(S), s # <<>>
  PROVE  /\ Tail(s) \in Seq(S)
         /\ \A i \in DOMAIN Tail(s) : i + 1 \in DOMAIN s /\ Tail(s)[i] = s[i + 1]
         /\ \A i \in DOMAIN s \ {1} : i - 1 \in DOMAIN Tail(s) /\ Tail(s)[i - 1] = s[i]
  OBVIOUS

LEMMA AppendFacts ==
  ASSUME NEW S, NEW s \in Seq(S), NEW e \in S
  PROVE  /\ Append(s, e) \in Seq(S)
         /\ DOMAIN Append(s, e) = DOMAIN s \cup {Len(s) + 1}
         /\ Append(s, e)[Len(s) + 1] = e
         /\ \A i \in DOMAIN s : Append(s, e)[i] = s[i]
  OBVIOUS

LEMMA SendStep ==
  ASSUME ChannelInv, NEW r \in Receiver, Send(r)
  PROVE  ChannelInv'
<1> DEFINE full == Len(data) = CC_SIZE
           kept == IF full THEN Tail(data) ELSE data
           new == [id |-> count + 1, to |-> r, read |-> FALSE]
<1>1. /\ count' = count + 1 /\ count \in Nat
      /\ data' = Append(kept, new)
      /\ dropped' = dropped \cup (IF full /\ ~Head(data).read THEN {Head(data).id} ELSE {})
      /\ UNCHANGED <<listener, processed, last, lost>>
  BY DEF Send, ChannelInv, Shape
<1>2. data \in Seq(Envelope) /\ new \in Envelope /\ (full => data # <<>>)
  BY ChannelAssumption DEF Send, ChannelInv, Shape, Envelope
<1>3. /\ kept \in Seq(Envelope)
      /\ full => \A i \in DOMAIN kept : i + 1 \in DOMAIN data /\ kept[i] = data[i + 1]
      /\ full => \A i \in DOMAIN data \ {1} : i - 1 \in DOMAIN kept /\ kept[i - 1] = data[i]
      /\ ~full => kept = data
  BY <1>2, TailFacts
<1>4. /\ data' \in Seq(Envelope)
      /\ DOMAIN data' = DOMAIN kept \cup {Len(kept) + 1}
      /\ data'[Len(kept) + 1] = new
      /\ \A i \in DOMAIN kept : data'[i] = kept[i]
  <2>1. kept \in Seq(Envelope) /\ new \in Envelope /\ data' = Append(kept, new)
    BY <1>1, <1>2, <1>3
  <2>. HIDE DEF kept, new
  <2>. QED
    BY <2>1, AppendFacts
<1>a. /\ new.id = count + 1 /\ ~new.read
      /\ full /\ ~Head(data).read => Head(data).id \in dropped'
      /\ full => 1 \in DOMAIN data /\ Head(data) = data[1]
  BY <1>1, <1>2
<1>. HIDE DEF full, kept, new
<1>5. Shape' /\ Marking'
  BY <1>1, <1>4 DEF ChannelInv, Shape, Marking
<1>6. ReadIsProcessed'
  <2> SUFFICES ASSUME NEW i \in DOMAIN data', data'[i].read
               PROVE  data'[i].id \in processed[data'[i].to]
    BY <1>1 DEF ReadIsProcessed
  <2>1. i \in DOMAIN kept /\ data'[i] = kept[i]
    BY <1>4, <1>a
  <2>2. \E j \in DOMAIN data : data[j] = kept[i]
    BY <2>1, <1>3
  <2>. QED
    BY <2>1, <2>2 DEF ChannelInv, ReadIsProcessed
<1>7. Unskipped'
  <2> SUFFICES ASSUME NEW m \in 1..count', m \notin dropped' \cup lost,
                      \A s \in Receiver : m \notin processed[s]
               PROVE  \E i \in DOMAIN data' : data'[i].id = m /\ ~data'[i].read
    BY <1>1 DEF Unskipped, InCollection
  <2>1. CASE m = count + 1
    BY <2>1, <1>4, <1>a
  <2>2. CASE m # count + 1
    <3>1. m \in 1..count /\ m \notin dropped \cup lost
      BY <2>2, <1>1
    <3>2. PICK i \in DOMAIN data : data[i].id = m /\ ~data[i].read
      BY <3>1 DEF ChannelInv, Unskipped, InCollection
    <3>3. ~(full /\ i = 1)
      BY <3>1, <3>2, <1>1, <1>a
    <3>4. \E j \in DOMAIN kept : kept[j] = data[i]
      BY <3>2, <3>3, <1>3
    <3>. QED
      BY <3>2, <3>4, <1>4
  <2>. QED
    BY <2>1, <2>2
<1>. QED
  BY <1>5, <1>6, <1>7 DEF ChannelInv

LEMMA SendLostStep ==
  ASSUME ChannelInv, NEW r \in Receiver, SendLost(r)
  PROVE  ChannelInv'
<1>1. /\ count' = count + 1 /\ count \in Nat /\ lost' = lost \cup {count + 1}
      /\ UNCHANGED <<data, listener, processed, last, dropped>>
  BY DEF SendLost, ChannelInv, Shape
<1>2. Unskipped'
  <2> SUFFICES ASSUME NEW m \in 1..count', m \notin dropped \cup lost'
               PROVE  (\E s \in Receiver : m \in processed[s]) \/ InCollection(m)
    BY <1>1 DEF Unskipped, InCollection
  <2>1. m \in 1..count /\ m \notin dropped \cup lost
    BY <1>1
  <2>. QED
    BY <2>1 DEF ChannelInv, Unskipped
<1>. QED
  BY <1>1, <1>2 DEF ChannelInv, Shape, Marking, ReadIsProcessed

LEMMA FetchStep ==
  ASSUME ChannelInv, NEW r \in Receiver, Fetch(r)
  PROVE  ChannelInv'
<1>1. /\ UNCHANGED <<data, count, processed, last, dropped, lost>>
      /\ listener'[r].pc = "process"
      /\ Shape'
      /\ \A s \in Receiver \ {r} : listener'[s] = listener[s]
  BY DEF Fetch, ChannelInv, Shape
<1>2. Marking'
  BY <1>1 DEF ChannelInv, Marking
<1>. QED
  BY <1>1, <1>2 DEF ChannelInv, ReadIsProcessed, Unskipped, InCollection

LEMMA EnvelopeFacts ==
  ASSUME ChannelInv, NEW i \in DOMAIN data
  PROVE  data[i].to \in Receiver /\ data[i].id \in 1..MaxSends /\ data[i] \in Envelope
<1>1. data[i] \in Envelope
  BY DEF ChannelInv, Shape
<1>. QED
  BY <1>1 DEF Envelope

LEMMA ProcessStep ==
  ASSUME ChannelInv, NEW r \in Receiver, Process(r)
  PROVE  ChannelInv'
<1> DEFINE id == Head(listener[r].batch).id
<1>1. /\ UNCHANGED <<data, count, dropped, lost>>
      /\ \A s \in Receiver : processed'[s] = IF s = r THEN processed[r] \cup {id} ELSE processed[s]
      /\ \A s \in Receiver : last'[s] = IF s = r THEN id ELSE last[s]
      /\ listener'[r].batch = listener[r].batch
      /\ \A s \in Receiver \ {r} : listener'[s] = listener[s]
  BY DEF Process, ChannelInv, Shape
<1>2. Shape'
  <2>1. listener'[r] = [pc |-> "mark", batch |-> listener[r].batch]
    <3>1. listener[r] = [pc |-> listener[r].pc, batch |-> listener[r].batch]
          /\ listener'[r] = [listener[r] EXCEPT !.pc = "mark"]
      BY DEF Process, ChannelInv, Shape
    <3>. QED
      BY <3>1
  <2>. QED
    BY <2>1, <1>1 DEF Process, ChannelInv, Shape
<1>3. Marking'
  BY <1>1 DEF ChannelInv, Marking
<1>4. ReadIsProcessed'
  BY <1>1, EnvelopeFacts DEF ChannelInv, ReadIsProcessed
<1>5. Unskipped'
  BY <1>1 DEF ChannelInv, Unskipped, InCollection
<1>. QED
  BY <1>2, <1>3, <1>4, <1>5 DEF ChannelInv

LEMMA MarkStep ==
  ASSUME ChannelInv, NEW r \in Receiver, Mark(r)
  PROVE  ChannelInv'
<1> DEFINE id == Head(listener[r].batch).id
<1>1. /\ UNCHANGED <<count, processed, last, dropped, lost>>
      /\ data' = MarkRead(r, {id})
      /\ listener'[r].pc # "mark"
      /\ \A s \in Receiver \ {r} : listener'[s] = listener[s]
      /\ id \in processed[r]
  BY DEF Mark, ChannelInv, Shape, Marking, Idle
<1>2. /\ data \in Seq(Envelope)
      /\ DOMAIN data' = DOMAIN data
      /\ \A i \in DOMAIN data :
           /\ data'[i].id = data[i].id /\ data'[i].to = data[i].to
           /\ data'[i].read => data[i].read \/ (data[i].to = r /\ data[i].id = id)
           /\ data'[i] \in Envelope
  <2>1. data \in Seq(Envelope) /\ \A i \in DOMAIN data : data[i] \in Envelope
    BY EnvelopeFacts DEF ChannelInv, Shape
  <2>. QED
    BY <1>1, <2>1 DEF MarkRead, Envelope
<1>3. data' \in Seq(Envelope)
  <2>1. data' = [i \in 1..Len(data) |-> data'[i]]
    BY <1>1, <1>2 DEF MarkRead
  <2>. QED
    BY <2>1, <1>2
<1>4. Shape'
  BY <1>1, <1>3 DEF Mark, Idle, ChannelInv, Shape
<1>5. Marking'
  BY <1>1 DEF ChannelInv, Marking
<1>6. ReadIsProcessed'
  <2>1. ASSUME NEW i \in DOMAIN data, data'[i].read
        PROVE  data[i].id \in processed[data[i].to]
    BY <2>1, <1>1, <1>2 DEF ChannelInv, ReadIsProcessed
  <2>. QED
    BY <2>1, <1>1, <1>2 DEF ReadIsProcessed
<1>7. Unskipped'
  <2>1. ASSUME NEW m \in 1..count, InCollection(m)
        PROVE  m \in processed[r] \/ InCollection(m)'
    BY <2>1, <1>1, <1>2 DEF InCollection
  <2>. QED
    BY <2>1, <1>1 DEF ChannelInv, Unskipped
<1>. QED
  BY <1>4, <1>5, <1>6, <1>7 DEF ChannelInv

LEMMA CrashStep ==
  ASSUME ChannelInv, NEW r \in Receiver, Crash(r)
  PROVE  ChannelInv'
<1>1. /\ UNCHANGED <<data, count, processed, last, dropped, lost>>
      /\ listener'[r].pc = "query"
      /\ Shape'
      /\ \A s \in Receiver \ {r} : listener'[s] = listener[s]
  BY DEF Crash, Idle, ChannelInv, Shape
<1>2. Marking'
  BY <1>1 DEF ChannelInv, Marking
<1>. QED
  BY <1>1, <1>2 DEF ChannelInv, ReadIsProcessed, Unskipped, InCollection

-------------------------------------------------------------------------------
(* The theorems about the channel. *)

LEMMA InitChannelInv == Init => ChannelInv
  BY DEF Init, Idle, ChannelInv, Shape, Marking, ReadIsProcessed, Unskipped, InCollection

LEMMA ChannelInvUnchanged ==
  ASSUME ChannelInv, UNCHANGED cvars
  PROVE  ChannelInv'
  BY DEF cvars, ChannelInv, Shape, Marking, ReadIsProcessed, Unskipped, InCollection

(* Every step of the channel with messages is one of the bare channel.     *)
LEMMA MessageChannelIsChannel ==
  ASSUME [MessageNext]_mvars
  PROVE  [Next]_cvars
  BY DEF MessageNext, Post, Take, ListenerStep, mvars, Next

LEMMA NextChannelInv ==
  ASSUME ChannelInv, [Next]_cvars
  PROVE  ChannelInv'
<1>1. ASSUME NEW r \in Receiver,
             Send(r) \/ SendLost(r) \/ Fetch(r) \/ Process(r) \/ Mark(r) \/ Crash(r)
      PROVE  ChannelInv'
  BY <1>1, SendStep, SendLostStep, FetchStep, ProcessStep, MarkStep, CrashStep
<1>. QED
  BY <1>1, ChannelInvUnchanged DEF Next

THEOREM ChannelInductive == MessageSpec => []ChannelInv
<1>1. MessageInit => ChannelInv
  BY InitChannelInv DEF MessageInit
<1>2. ChannelInv /\ [MessageNext]_mvars => ChannelInv'
  BY MessageChannelIsChannel, NextChannelInv
<1>. QED
  BY <1>1, <1>2, PTL DEF MessageSpec

(* A document is marked as read only after it was processed, whoever       *)
(* crashes in between (listenWorker).                                      *)
THEOREM MarkedIsProcessed == MessageSpec => []ReadIsProcessed
<1>1. ChannelInv => ReadIsProcessed
  BY DEF ChannelInv
<1>. QED
  BY ChannelInductive, <1>1, PTL

(* No crash skips a message: one that was inserted and not dropped unread  *)
(* has been processed or is still to be (listenWorker marks it last).      *)
THEOREM NoneSkipped == MessageSpec => []NothingSkipped
<1>1. ASSUME ChannelInv
      PROVE  NothingSkipped
  <2> SUFFICES ASSUME NEW m \in 1..count, m \notin dropped \cup lost
               PROVE  \E r \in Receiver : m \in processed[r] \/ m \in Pending(r)
    BY DEF NothingSkipped
  <2>1. CASE InCollection(m)
    <3>1. PICK i \in DOMAIN data : data[i].id = m /\ ~data[i].read
      BY <2>1 DEF InCollection
    <3>2. data[i].to \in Receiver /\ i \in UnreadAt(data[i].to)
      BY <3>1, <1>1, EnvelopeFacts DEF UnreadAt
    <3>3. listener[data[i].to].pc = "mark" => last[data[i].to] \in processed[data[i].to]
      BY <3>2, <1>1 DEF ChannelInv, Marking
    <3>. QED
      BY <3>1, <3>2, <3>3 DEF Pending
  <2>. QED
    BY <2>1, <1>1 DEF ChannelInv, Unskipped
<1>2. ChannelInv => NothingSkipped
  BY <1>1
<1>. QED
  BY ChannelInductive, <1>2, PTL

-------------------------------------------------------------------------------
(* The order of the messages. *)

(* Induction: a set that holds zero and every successor holds every number.*)
LEMMA SetInduction ==
  ASSUME NEW T \in SUBSET Nat, 0 \in T, \A n \in T : n + 1 \in T
  PROVE  T = Nat
<1> SUFFICES ASSUME Nat \ T # {} PROVE FALSE
  OBVIOUS
<1>1. PICK n \in Nat \ T : \A m \in Nat \ T : <<m, n>> \notin OpToRel(<, Nat)
  BY NatLessThanWellFounded, WFMin, Nat \ T \subseteq Nat
<1>2. \A m \in Nat \ T : ~(m < n)
  BY <1>1 DEF OpToRel
<1>3. n # 0 /\ n - 1 \in Nat /\ n - 1 < n /\ n - 1 + 1 = n
  OBVIOUS
<1>. QED
  BY <1>2, <1>3

(* What the query of r finds among the first n documents, for n up to l.   *)
IsScan(g, r, l) == g = [n \in 0..l |->
    IF n = 0 THEN <<>>
    ELSE IF data[n].to = r /\ ~data[n].read THEN Append(g[n - 1], data[n]) ELSE g[n - 1]]

Found(r, l) == CHOOSE g : IsScan(g, r, l)

LEMMA UnreadIs == \A r : Unread(r) = Found(r, Len(data))[Len(data)]
  BY DEF Unread, Found, IsScan

LEMMA ScanExists ==
  ASSUME NEW r, NEW l \in Nat
  PROVE  \E g : IsScan(g, r, l)
<1>. DEFINE T == {k \in Nat : \E g : IsScan(g, r, k)}
<1>1. 0 \in T
  <2>1. \A n \in 0..0 : n = 0
    OBVIOUS
  <2>2. IsScan([n \in 0..0 |-> <<>>], r, 0)
    BY <2>1 DEF IsScan
  <2>. QED
    BY <2>2
<1>2. ASSUME NEW k \in T PROVE k + 1 \in T
  <2>1. k \in Nat
    OBVIOUS
  <2>2. PICK g : IsScan(g, r, k)
    OBVIOUS
  <2>. DEFINE next == IF data[k + 1].to = r /\ ~data[k + 1].read
                      THEN Append(g[k], data[k + 1]) ELSE g[k]
              h == [n \in 0..k + 1 |-> IF n = k + 1 THEN next ELSE g[n]]
  <2>3. \A n \in 0..k : n \in 0..k + 1 /\ n # k + 1 /\ (n # 0 => n - 1 \in 0..k)
    BY <2>1
  <2>4. /\ \A n \in 0..k : h[n] = g[n]
        /\ k + 1 \in 0..k + 1 /\ h[k + 1] = next
        /\ \A n \in 0..k + 1 : n \in 0..k \/ n = k + 1
        /\ k + 1 # 0 /\ k + 1 - 1 = k /\ k \in 0..k
    BY <2>1, <2>3
  <2>5. \A n \in 0..k + 1 : h[n] =
          IF n = 0 THEN <<>>
          ELSE IF data[n].to = r /\ ~data[n].read THEN Append(h[n - 1], data[n]) ELSE h[n - 1]
    <3>. TAKE n \in 0..k + 1
    <3>1. CASE n = k + 1
      <4>1. h[n - 1] = g[k]
        BY <3>1, <2>4
      <4>. QED
        BY <3>1, <2>4, <4>1
    <3>2. CASE n \in 0..k
      <4>1. g[n] = IF n = 0 THEN <<>>
                   ELSE IF data[n].to = r /\ ~data[n].read THEN Append(g[n - 1], data[n])
                                                           ELSE g[n - 1]
        BY <2>2, <3>2 DEF IsScan
      <4>2. n # 0 => h[n - 1] = g[n - 1]
        BY <3>2, <2>3, <2>4
      <4>. QED
        BY <3>2, <2>4, <4>1, <4>2
    <3>. QED
      BY <3>1, <3>2, <2>4
  <2>6. h = [n \in 0..k + 1 |-> h[n]]
    OBVIOUS
  <2>. HIDE DEF h
  <2>7. IsScan(h, r, k + 1)
    BY <2>5, <2>6 DEF IsScan
  <2>. QED
    BY <2>1, <2>7
<1>3. T \in SUBSET Nat
  OBVIOUS
<1>. HIDE DEF T
<1>4. T = Nat
  BY <1>1, <1>2, <1>3, SetInduction
<1>. QED
  BY <1>4 DEF T

LEMMA FoundSteps ==
  ASSUME NEW r, NEW l \in Nat
  PROVE  /\ Found(r, l)[0] = <<>>
         /\ \A n \in 1..l : Found(r, l)[n] =
              IF data[n].to = r /\ ~data[n].read
              THEN Append(Found(r, l)[n - 1], data[n]) ELSE Found(r, l)[n - 1]
<1>1. IsScan(Found(r, l), r, l)
  BY ScanExists DEF Found
<1>2. 0 \in 0..l /\ \A n \in 1..l : n \in 0..l /\ n # 0
  OBVIOUS
<1>. QED
  BY <1>1, <1>2 DEF IsScan

Increasing(s) == \A i, j \in DOMAIN s : i < j => s[i].id < s[j].id

(* The unread messages among the first n documents: these and no others,   *)
(* in their order.                                                         *)
Finds(u, r, n) ==
    /\ u \in Seq(Envelope)
    /\ \A k \in DOMAIN u : \E i \in 1..n : i \in UnreadAt(r) /\ u[k] = data[i]
    /\ \A i \in 1..n : i \in UnreadAt(r) => \E k \in DOMAIN u : u[k] = data[i]
    /\ Increasing(u)

LEMMA FindsNext ==
  ASSUME data \in Seq(Envelope), Increasing(data), NEW r, NEW n \in Nat, n + 1 \in DOMAIN data,
         NEW u, Finds(u, r, n)
  PROVE  Finds(IF data[n + 1].to = r /\ ~data[n + 1].read THEN Append(u, data[n + 1]) ELSE u,
               r, n + 1)
<1>1. \A i \in 1..n + 1 : i \in 1..n \/ i = n + 1
  OBVIOUS
<1>2. \A i \in 1..n : i \in 1..n + 1 /\ i \in DOMAIN data /\ i < n + 1
  OBVIOUS
<1>3. CASE ~(data[n + 1].to = r /\ ~data[n + 1].read)
  <2>1. n + 1 \notin UnreadAt(r)
    BY <1>3 DEF UnreadAt
  <2>. QED
    BY <1>1, <1>2, <1>3, <2>1 DEF Finds
<1>4. CASE data[n + 1].to = r /\ ~data[n + 1].read
  <2>. DEFINE e == data[n + 1]
              v == Append(u, e)
  <2>1. n + 1 \in UnreadAt(r) /\ n + 1 \in 1..n + 1
    BY <1>4 DEF UnreadAt
  <2>2. e \in Envelope /\ u \in Seq(Envelope)
    BY DEF Finds
  <2>3. /\ v \in Seq(Envelope)
        /\ DOMAIN v = DOMAIN u \cup {Len(u) + 1}
        /\ v[Len(u) + 1] = e
        /\ \A k \in DOMAIN u : v[k] = u[k]
    <3>. HIDE DEF e
    <3>. QED
      BY <2>2, AppendFacts
  <2>4. \A k \in DOMAIN u : u[k].id < e.id
    BY <1>2 DEF Finds, Increasing
  <2>5. Increasing(v)
    <3>. SUFFICES ASSUME NEW i \in DOMAIN v, NEW j \in DOMAIN v, i < j
                  PROVE  v[i].id < v[j].id
      BY DEF Increasing
    <3>1. DOMAIN u = 1..Len(u) /\ Len(u) \in Nat
      BY <2>2
    <3>2. i \in DOMAIN u
      BY <2>3, <3>1
    <3>. HIDE DEF v, e
    <3>3. CASE j \in DOMAIN u
      BY <2>3, <3>2, <3>3 DEF Finds, Increasing
    <3>4. CASE j = Len(u) + 1
      BY <2>3, <2>4, <3>2, <3>4
    <3>. QED
      BY <2>3, <3>3, <3>4
  <2>6. \A k \in DOMAIN v : \E i \in 1..n + 1 : i \in UnreadAt(r) /\ v[k] = data[i]
    <3>. HIDE DEF v
    <3>. QED
      BY <2>1, <2>3, <1>2 DEF Finds
  <2>7. \A i \in 1..n + 1 : i \in UnreadAt(r) => \E k \in DOMAIN v : v[k] = data[i]
    <3>. HIDE DEF v
    <3>. QED
      BY <1>1, <2>3 DEF Finds
  <2>8. Finds(v, r, n + 1)
    <3>. HIDE DEF v
    <3>. QED
      BY <2>3, <2>5, <2>6, <2>7 DEF Finds
  <2>. QED
    BY <1>4, <2>8
<1>. QED
  BY <1>3, <1>4

(* The query returns what is unread, all of it and in the order of the     *)
(* collection.                                                             *)
LEMMA UnreadFinds ==
  ASSUME data \in Seq(Envelope), Increasing(data), NEW r
  PROVE  Finds(Unread(r), r, Len(data))
<1>. DEFINE l == Len(data)
            T == {n \in Nat : n <= l => Finds(Found(r, l)[n], r, n)}
<1>1. l \in Nat /\ DOMAIN data = 1..l
  OBVIOUS
<1>. HIDE DEF l
<1>2. 0 \in T
  <2>1. Found(r, l)[0] = <<>>
    BY <1>1, FoundSteps
  <2>2. Finds(<<>>, r, 0)
    BY DEF Finds, Increasing
  <2>. QED
    BY <2>1, <2>2
<1>3. ASSUME NEW n \in T PROVE n + 1 \in T
  <2>. SUFFICES ASSUME n + 1 <= l PROVE Finds(Found(r, l)[n + 1], r, n + 1)
    OBVIOUS
  <2>1. n \in Nat /\ n + 1 \in 1..l /\ n <= l /\ n + 1 - 1 = n
    BY <1>1
  <2>2. Finds(Found(r, l)[n], r, n)
    BY <2>1
  <2>3. Found(r, l)[n + 1] = IF data[n + 1].to = r /\ ~data[n + 1].read
                             THEN Append(Found(r, l)[n], data[n + 1]) ELSE Found(r, l)[n]
    BY <1>1, <2>1, FoundSteps
  <2>. QED
    BY <1>1, <2>1, <2>2, <2>3, FindsNext
<1>4. T \in SUBSET Nat
  OBVIOUS
<1>. HIDE DEF T
<1>5. l \in T
  BY <1>1, <1>2, <1>3, <1>4, SetInduction
<1>6. Finds(Found(r, l)[l], r, l)
  BY <1>1, <1>5 DEF T
<1>. QED
  BY <1>6, UnreadIs DEF l

(* Messages are in the collection and in a batch in the order they were    *)
(* sent in, and what r has unread in the collection is in its batch or was *)
(* sent after it.                                                          *)
Ordered ==
    /\ Increasing(data)
    /\ \A i \in DOMAIN data : data[i].id <= count
    /\ \A r \in Receiver :
         /\ newest[r] <= count
         /\ Increasing(listener[r].batch)
         /\ \A k \in DOMAIN listener[r].batch : listener[r].batch[k].id <= count
         /\ \A i \in UnreadAt(r), k \in DOMAIN listener[r].batch :
              \/ data[i].id \in Ids(listener[r].batch)
              \/ data[i].id > listener[r].batch[k].id
         /\ listener[r].pc = "mark" => last[r] = Head(listener[r].batch).id

OrderInv == ChannelInv /\ ChannelTypeOK /\ Ordered

LEMMA IncreasingTail ==
  ASSUME NEW s \in Seq(Envelope), s # <<>>, Increasing(s)
  PROVE  /\ Increasing(Tail(s)) /\ Tail(s) \in Seq(Envelope) /\ Len(Tail(s)) = Len(s) - 1
         /\ Head(s) = s[1] /\ 1 \in DOMAIN s /\ Head(s) \in Envelope
         /\ \A k \in DOMAIN s : Head(s).id <= s[k].id
         /\ \A k \in DOMAIN Tail(s) : k + 1 \in DOMAIN s /\ Tail(s)[k] = s[k + 1]
         /\ Ids(Tail(s)) = Ids(s) \ {Head(s).id}
<1>1. /\ Tail(s) \in Seq(Envelope) /\ Len(Tail(s)) = Len(s) - 1
      /\ Head(s) = s[1] /\ 1 \in DOMAIN s
      /\ \A k \in DOMAIN Tail(s) : k + 1 \in DOMAIN s /\ Tail(s)[k] = s[k + 1]
      /\ \A k \in DOMAIN s \ {1} : k - 1 \in DOMAIN Tail(s) /\ Tail(s)[k - 1] = s[k]
      /\ DOMAIN s \subseteq Nat /\ DOMAIN Tail(s) \subseteq Nat
      /\ \A k \in DOMAIN s : k = 1 \/ 1 < k
  BY TailFacts
<1>2. \A k \in DOMAIN s : s[k] \in Envelope /\ s[k].id \in Nat
  <2>1. \A k \in DOMAIN s : s[k] \in Envelope
    OBVIOUS
  <2>. QED
    BY <2>1 DEF Envelope
<1>3. Increasing(Tail(s))
  <2>. SUFFICES ASSUME NEW i \in DOMAIN Tail(s), NEW j \in DOMAIN Tail(s), i < j
                PROVE  Tail(s)[i].id < Tail(s)[j].id
    BY DEF Increasing
  <2>1. i + 1 < j + 1 /\ i + 1 \in DOMAIN s /\ j + 1 \in DOMAIN s
    BY <1>1
  <2>. QED
    BY <1>1, <2>1 DEF Increasing
<1>4. \A k \in DOMAIN s \ {1} : s[1].id < s[k].id
  BY <1>1 DEF Increasing
<1>5. Ids(Tail(s)) = Ids(s) \ {s[1].id}
  <2>1. \A x \in Ids(Tail(s)) : x \in Ids(s) \ {s[1].id}
    <3>. TAKE x \in Ids(Tail(s))
    <3>1. PICK k \in DOMAIN Tail(s) : x = Tail(s)[k].id
      BY DEF Ids
    <3>2. k + 1 \in DOMAIN s \ {1} /\ x = s[k + 1].id
      <4>1. k \in Nat /\ k # 0
        BY <1>1
      <4>. QED
        BY <1>1, <3>1, <4>1
    <3>3. x # s[1].id
      BY <1>1, <1>2, <1>4, <3>2
    <3>. QED
      BY <3>2, <3>3 DEF Ids
  <2>2. \A x \in Ids(s) \ {s[1].id} : x \in Ids(Tail(s))
    BY <1>1 DEF Ids
  <2>. QED
    BY <2>1, <2>2
<1>6. \A k \in DOMAIN s : s[1].id <= s[k].id
  BY <1>1, <1>2, <1>4
<1>. QED
  BY <1>1, <1>2, <1>3, <1>5, <1>6

(* What a batch and a document are.                                        *)
LEMMA OrderTypes ==
  ASSUME OrderInv
  PROVE  /\ data \in Seq(Envelope) /\ Increasing(data) /\ count \in Nat
         /\ \A i \in DOMAIN data : /\ data[i] \in Envelope /\ data[i].id \in 1..MaxSends
                                   /\ data[i].id \in Nat /\ data[i].id # 0
         /\ \A r \in Receiver :
              /\ listener[r].batch \in Seq(Envelope) /\ newest[r] \in Nat /\ last[r] \in Nat
              /\ \A k \in DOMAIN listener[r].batch :
                   /\ listener[r].batch[k] \in Envelope
                   /\ listener[r].batch[k].id \in 1..MaxSends
                   /\ listener[r].batch[k].id \in Nat /\ listener[r].batch[k].id # 0
              /\ listener[r].pc # "query" =>
                   listener[r].batch # <<>> /\ Head(listener[r].batch) = listener[r].batch[1]
                   /\ 1 \in DOMAIN listener[r].batch
<1>1. /\ data \in Seq(Envelope) /\ Increasing(data) /\ count \in Nat /\ MaxSends \in Nat
      /\ \A i \in DOMAIN data : data[i] \in Envelope
  BY ChannelAssumption DEF OrderInv, ChannelInv, ChannelTypeOK, Shape, Ordered
<1>2. ASSUME NEW r \in Receiver
      PROVE  /\ listener[r].batch \in Seq(Envelope) /\ newest[r] \in Nat /\ last[r] \in Nat
             /\ \A k \in DOMAIN listener[r].batch : listener[r].batch[k] \in Envelope
             /\ listener[r].pc # "query" => listener[r].batch # <<>>
  BY <1>1 DEF OrderInv, ChannelTypeOK
<1>3. \A e \in Envelope : e.id \in 1..MaxSends /\ e.id \in Nat /\ e.id # 0
  BY <1>1 DEF Envelope
<1>4. \A s \in Seq(Envelope) : s # <<>> => Head(s) = s[1] /\ 1 \in DOMAIN s
  OBVIOUS
<1>. QED
  BY <1>1, <1>2, <1>3, <1>4

(* The collection after a send: the newest document comes last, and the    *)
(* oldest may be gone.                                                     *)
LEMMA SendData ==
  ASSUME OrderInv, NEW r \in Receiver, Send(r)
  PROVE  LET new == [id |-> count + 1, to |-> r, read |-> FALSE] IN
         /\ data' \in Seq(Envelope) /\ Len(data') <= CC_SIZE
         /\ new \in Envelope
         /\ Len(data') \in DOMAIN data' /\ data'[Len(data')] = new
         /\ \E d \in {0, 1} : \A i \in DOMAIN data' :
              i = Len(data') \/ (i + d \in DOMAIN data /\ data'[i] = data[i + d])
         /\ dropped' \subseteq 1..MaxSends
<1> DEFINE full == Len(data) = CC_SIZE
           kept == IF full THEN Tail(data) ELSE data
           new == [id |-> count + 1, to |-> r, read |-> FALSE]
           d == IF full THEN 1 ELSE 0
<1>1. /\ data' = Append(kept, new)
      /\ dropped' = dropped \cup (IF full /\ ~Head(data).read THEN {Head(data).id} ELSE {})
  BY DEF Send
<1>2. /\ data \in Seq(Envelope) /\ new \in Envelope /\ (full => data # <<>>)
      /\ Len(data) <= CC_SIZE /\ CC_SIZE \in Nat /\ Len(data) \in Nat
      /\ dropped \subseteq 1..MaxSends
  <2>1. /\ data \in Seq(Envelope) /\ Len(data) <= CC_SIZE /\ CC_SIZE \in Nat \ {0}
        /\ dropped \subseteq 1..MaxSends /\ count \in 0..MaxSends /\ count < MaxSends
    BY ChannelAssumption DEF Send, OrderInv, ChannelTypeOK
  <2>2. MaxSends \in Nat /\ count + 1 \in 1..MaxSends
    BY ChannelAssumption, <2>1
  <2>3. new \in Envelope
    BY <2>2 DEF Envelope
  <2>4. full => data # <<>>
    BY <2>1
  <2>. QED
    BY <2>1, <2>3, <2>4
<1>3. /\ kept \in Seq(Envelope) /\ Len(kept) \in Nat /\ Len(kept) < CC_SIZE
      /\ \A i \in DOMAIN kept : i + d \in DOMAIN data /\ kept[i] = data[i + d]
  <2>1. CASE full
    <3>1. Tail(data) \in Seq(Envelope) /\ Len(Tail(data)) = Len(data) - 1
      BY <1>2, <2>1
    <3>. QED
      BY <1>2, <2>1, <3>1, TailFacts
  <2>2. CASE ~full
    BY <1>2, <2>2
  <2>. QED
    BY <2>1, <2>2
<1>4. /\ data' \in Seq(Envelope) /\ Len(data') = Len(kept) + 1
      /\ DOMAIN data' = DOMAIN kept \cup {Len(kept) + 1}
      /\ data'[Len(kept) + 1] = new
      /\ \A i \in DOMAIN kept : data'[i] = kept[i]
  <2>. HIDE DEF kept, new
  <2>1. /\ data' \in Seq(Envelope)
        /\ DOMAIN data' = DOMAIN kept \cup {Len(kept) + 1}
        /\ data'[Len(kept) + 1] = new
        /\ \A i \in DOMAIN kept : data'[i] = kept[i]
    BY <1>1, <1>2, <1>3, AppendFacts
  <2>2. Len(data') = Len(kept) + 1
    BY <1>1, <1>3
  <2>. QED
    BY <2>1, <2>2
<1>5. full /\ ~Head(data).read => Head(data).id \in 1..MaxSends
  <2>1. full => Head(data) = data[1] /\ 1 \in DOMAIN data
    BY <1>2
  <2>. QED
    BY <2>1, OrderTypes
<1>6. d \in {0, 1}
  OBVIOUS
<1>. HIDE DEF kept, new, full, d
<1>7. /\ Len(data') <= CC_SIZE
      /\ \A i \in DOMAIN data' : i = Len(data') \/ (i + d \in DOMAIN data /\ data'[i] = data[i + d])
      /\ dropped' \subseteq 1..MaxSends
  <2>1. \A i \in DOMAIN kept : i + d \in DOMAIN data /\ data'[i] = data[i + d]
    BY <1>3, <1>4
  <2>2. Len(data') <= CC_SIZE
    BY <1>2, <1>3, <1>4
  <2>3. dropped' \subseteq 1..MaxSends
    BY <1>1, <1>2, <1>5
  <2>. QED
    BY <1>4, <2>1, <2>2, <2>3
<1>. QED
  BY <1>2, <1>4, <1>6, <1>7 DEF new

(* The collection after a mark.                                            *)
LEMMA MarkData ==
  ASSUME data \in Seq(Envelope), NEW r, NEW ids
  PROVE  LET after == MarkRead(r, ids) IN
         /\ after \in Seq(Envelope) /\ DOMAIN after = DOMAIN data /\ Len(after) = Len(data)
         /\ \A i \in DOMAIN data :
              /\ after[i].id = data[i].id /\ after[i].to = data[i].to
              /\ ~after[i].read <=> ~data[i].read /\ ~(data[i].to = r /\ data[i].id \in ids)
<1> DEFINE after == MarkRead(r, ids)
<1>1. /\ after = [i \in DOMAIN data |-> IF data[i].to = r /\ data[i].id \in ids
                                        THEN [data[i] EXCEPT !.read = TRUE] ELSE data[i]]
      /\ \A i \in DOMAIN data : data[i] \in Envelope
      /\ DOMAIN data = 1..Len(data) /\ Len(data) \in Nat
  BY DEF MarkRead
<1>2. \A e \in Envelope :
        /\ [e EXCEPT !.read = TRUE] \in Envelope
        /\ [e EXCEPT !.read = TRUE].id = e.id /\ [e EXCEPT !.read = TRUE].to = e.to
        /\ [e EXCEPT !.read = TRUE].read
  BY DEF Envelope
<1>. HIDE DEF after
<1>3. /\ DOMAIN after = 1..Len(data)
      /\ \A i \in DOMAIN data : after[i] \in Envelope
      /\ \A i \in DOMAIN data :
              /\ after[i].id = data[i].id /\ after[i].to = data[i].to
              /\ ~after[i].read <=> ~data[i].read /\ ~(data[i].to = r /\ data[i].id \in ids)
  BY <1>1, <1>2
<1>4. after = [i \in 1..Len(data) |-> after[i]]
  BY <1>1
<1>5. after \in Seq(Envelope) /\ Len(after) = Len(data)
  BY <1>1, <1>3, <1>4
<1>. QED
  BY <1>1, <1>3, <1>5 DEF after

(* What does not depend on a receiver that did not move.                   *)
ReceiverTyped(s) ==
    /\ listener[s].pc \in {"query", "process", "mark"}
    /\ listener[s].batch \in Seq(Envelope)
    /\ Len(listener[s].batch) <= PENDINGLIMIT
    /\ (listener[s].pc = "query") <=> (listener[s].batch = <<>>)

ReceiverOrdered(s) ==
    /\ newest[s] <= count
    /\ Increasing(listener[s].batch)
    /\ \A k \in DOMAIN listener[s].batch : listener[s].batch[k].id <= count
    /\ \A i \in UnreadAt(s), k \in DOMAIN listener[s].batch :
         data[i].id \in Ids(listener[s].batch) \/ data[i].id > listener[s].batch[k].id
    /\ listener[s].pc = "mark" => last[s] = Head(listener[s].batch).id

LEMMA OrderParts ==
  /\ ChannelTypeOK <=>
       /\ data \in Seq(Envelope) /\ Len(data) <= CC_SIZE
       /\ count \in 0..MaxSends
       /\ \A s \in Receiver : ReceiverTyped(s)
       /\ processed \in [Receiver -> SUBSET (1..MaxSends)]
       /\ last \in [Receiver -> 0..MaxSends] /\ newest \in [Receiver -> 0..MaxSends]
       /\ dropped \subseteq 1..MaxSends /\ lost \subseteq 1..MaxSends
       /\ crashes \in 0..MaxCrashes
  /\ Ordered <=>
       /\ Increasing(data) /\ \A i \in DOMAIN data : data[i].id <= count
       /\ \A s \in Receiver : ReceiverOrdered(s)
  BY DEF ChannelTypeOK, Ordered, ReceiverTyped, ReceiverOrdered

LEMMA SendOrder ==
  ASSUME OrderInv, NEW r \in Receiver, Send(r)
  PROVE  ChannelTypeOK' /\ Ordered'
<1>1. /\ count' = count + 1 /\ count < MaxSends /\ MaxSends \in Nat /\ count \in 0..MaxSends
      /\ newest' = [newest EXCEPT ![r] = count + 1]
      /\ UNCHANGED <<listener, processed, last, lost, crashes>>
  BY ChannelAssumption DEF Send, OrderInv, ChannelTypeOK
<1>2. count' \in 0..MaxSends /\ count \in Nat /\ count < count'
  BY <1>1
<1>3. /\ newest' \in [Receiver -> 0..MaxSends]
      /\ \A s \in Receiver : newest'[s] <= count'
  <2>1. newest \in [Receiver -> 0..MaxSends] /\ \A s \in Receiver : newest[s] <= count
    BY DEF OrderInv, ChannelTypeOK, Ordered
  <2>2. count + 1 \in 0..MaxSends
    BY <1>1, <1>2
  <2>3. newest' \in [Receiver -> 0..MaxSends]
    BY <2>1, <2>2, <1>1
  <2>4. \A s \in Receiver : newest'[s] = IF s = r THEN count + 1 ELSE newest[s]
    BY <2>1, <1>1
  <2>5. \A s \in Receiver : newest[s] \in Nat
    BY <2>1
  <2>. QED
    BY <2>1, <2>3, <2>4, <2>5, <1>1, <1>2
<1>. DEFINE new == [id |-> count + 1, to |-> r, read |-> FALSE]
<1>4. /\ data' \in Seq(Envelope) /\ Len(data') <= CC_SIZE
      /\ Len(data') \in DOMAIN data' /\ data'[Len(data')] = new
      /\ dropped' \subseteq 1..MaxSends
  BY SendData
<1>5. PICK d \in {0, 1} : \A i \in DOMAIN data' :
        i = Len(data') \/ (i + d \in DOMAIN data /\ data'[i] = data[i + d])
  BY SendData
<1>6. new.id = count + 1 /\ new.to = r /\ ~new.read
  OBVIOUS
<1>. HIDE DEF new
<1>7. \A i \in DOMAIN data : data[i].id <= count /\ data[i].id \in Nat
  BY OrderTypes DEF OrderInv, Ordered
<1>8. DOMAIN data' = 1..Len(data') /\ Len(data') \in Nat /\ d \in Nat
  BY <1>4
<1>9. \A i \in DOMAIN data' : data'[i].id <= count'
  BY <1>1, <1>2, <1>4, <1>5, <1>6, <1>7
<1>10. Increasing(data')
  <2>. SUFFICES ASSUME NEW i \in DOMAIN data', NEW j \in DOMAIN data', i < j
                PROVE  data'[i].id < data'[j].id
    BY DEF Increasing
  <2>1. i # Len(data')
    BY <1>8
  <2>2. i + d \in DOMAIN data /\ data'[i] = data[i + d]
    BY <1>5, <2>1
  <2>3. CASE j = Len(data')
    BY <2>2, <2>3, <1>2, <1>4, <1>6, <1>7
  <2>4. CASE j # Len(data')
    <3>1. j + d \in DOMAIN data /\ data'[j] = data[j + d]
      BY <1>5, <2>4
    <3>2. i + d < j + d
      BY <1>8
    <3>. QED
      BY <2>2, <3>1, <3>2, OrderTypes DEF Increasing
  <2>. QED
    BY <2>3, <2>4
<1>11. ASSUME NEW s \in Receiver
       PROVE  \A i \in UnreadAt(s)' : \/ data'[i].id = count + 1
                                      \/ \E j \in UnreadAt(s) : data'[i] = data[j]
  BY <1>4, <1>5, <1>6 DEF UnreadAt
<1>12. ASSUME NEW s \in Receiver PROVE ReceiverOrdered(s)'
  <2>1. ReceiverOrdered(s) /\ listener' = listener /\ last' = last
    BY <1>1, OrderParts DEF OrderInv
  <2>2. \A k \in DOMAIN listener[s].batch :
          listener[s].batch[k].id <= count /\ listener[s].batch[k].id \in Nat
    BY <2>1, OrderTypes DEF ReceiverOrdered
  <2>3. ASSUME NEW i \in UnreadAt(s)', NEW k \in DOMAIN listener[s].batch
        PROVE  data'[i].id \in Ids(listener[s].batch) \/ data'[i].id > listener[s].batch[k].id
    <3>1. CASE data'[i].id = count + 1
      BY <3>1, <2>2, <1>2
    <3>2. CASE \E j \in UnreadAt(s) : data'[i] = data[j]
      BY <3>2, <2>1 DEF ReceiverOrdered
    <3>. QED
      BY <3>1, <3>2, <1>11
  <2>4. \A k \in DOMAIN listener[s].batch : listener[s].batch[k].id <= count'
    BY <2>2, <1>1, <1>2
  <2>. QED
    BY <2>1, <2>3, <2>4, <1>3 DEF ReceiverOrdered, Ids, Increasing
<1>13. \A s \in Receiver : ReceiverTyped(s)'
  BY <1>1, OrderParts DEF OrderInv, ReceiverTyped
<1>14. /\ processed' \in [Receiver -> SUBSET (1..MaxSends)]
       /\ last' \in [Receiver -> 0..MaxSends]
       /\ lost' \subseteq 1..MaxSends /\ crashes' \in 0..MaxCrashes
  BY <1>1 DEF OrderInv, ChannelTypeOK
<1>15. Increasing(data)'
  BY <1>10 DEF Increasing
<1>16. ChannelTypeOK'
  BY <1>2, <1>3, <1>4, <1>13, <1>14 DEF ChannelTypeOK, ReceiverTyped
<1>17. Ordered'
  BY <1>9, <1>12, <1>15 DEF Ordered, ReceiverOrdered
<1>. QED
  BY <1>16, <1>17

LEMMA SendLostOrder ==
  ASSUME OrderInv, NEW r \in Receiver, SendLost(r)
  PROVE  ChannelTypeOK' /\ Ordered'
<1>1. /\ count' = count + 1 /\ count < MaxSends /\ MaxSends \in Nat /\ count \in 0..MaxSends
      /\ lost' = lost \cup {count + 1} /\ lost \subseteq 1..MaxSends
      /\ UNCHANGED <<data, listener, processed, last, newest, dropped, crashes>>
  BY ChannelAssumption DEF SendLost, OrderInv, ChannelTypeOK
<1>2. /\ count' \in 0..MaxSends /\ lost' \subseteq 1..MaxSends
      /\ \A n \in Nat : n <= count => n <= count'
  BY <1>1
<1>3. ChannelTypeOK'
  BY <1>1, <1>2 DEF OrderInv, ChannelTypeOK
<1>4. /\ \A i \in DOMAIN data : data[i].id \in Nat
      /\ \A s \in Receiver : newest[s] \in Nat
                           /\ \A k \in DOMAIN listener[s].batch : listener[s].batch[k].id \in Nat
  BY OrderTypes
<1>5. Ordered'
  BY <1>1, <1>2, <1>4 DEF OrderInv, Ordered, Increasing, Ids, UnreadAt
<1>. QED
  BY <1>3, <1>5

(* The batch is the first of what is unread.                               *)
LEMMA BatchFacts ==
  ASSUME OrderInv, NEW r
  PROVE  LET n == IF Len(Unread(r)) < PENDINGLIMIT THEN Len(Unread(r)) ELSE PENDINGLIMIT
             batch == SubSeq(Unread(r), 1, n)
         IN /\ batch \in Seq(Envelope) /\ Len(batch) <= PENDINGLIMIT
            /\ Increasing(batch)
            /\ \A k \in DOMAIN batch : \E i \in UnreadAt(r) : batch[k] = data[i]
            /\ \A i \in UnreadAt(r), k \in DOMAIN batch :
                 data[i].id \in Ids(batch) \/ data[i].id > batch[k].id
<1>. DEFINE u == Unread(r)
            n == IF Len(u) < PENDINGLIMIT THEN Len(u) ELSE PENDINGLIMIT
            batch == SubSeq(u, 1, n)
<1>1. Finds(u, r, Len(data))
  BY UnreadFinds, OrderTypes
<1>2. u \in Seq(Envelope) /\ Len(u) \in Nat /\ PENDINGLIMIT \in Nat
  BY <1>1, ChannelAssumption DEF Finds
<1>. HIDE DEF u
<1>3. n \in Nat /\ n <= Len(u) /\ n <= PENDINGLIMIT
  BY <1>2
<1>. HIDE DEF n
<1>4. /\ batch \in Seq(Envelope) /\ Len(batch) = n
      /\ \A k \in 1..n : batch[k] = u[k]
  <2>1. \A k \in 1..n : u[k] \in Envelope
    BY <1>2, <1>3, ElementOfSeq
  <2>2. /\ SubSeq(u, 1, n) \in Seq(Envelope)
        /\ Len(SubSeq(u, 1, n)) = IF 1 <= n THEN n - 1 + 1 ELSE 0
        /\ \A k \in 1..n - 1 + 1 : SubSeq(u, 1, n)[k] = u[1 + k - 1]
    BY <1>3, <2>1, SubSeqProperties
  <2>3. n - 1 + 1 = n /\ (~(1 <= n) => n = 0) /\ \A k \in 1..n : 1 + k - 1 = k
    BY <1>3
  <2>. QED
    BY <2>2, <2>3
<1>. HIDE DEF batch
<1>5. /\ DOMAIN batch = 1..n /\ DOMAIN u = 1..Len(u)
      /\ \A k \in DOMAIN batch : k \in DOMAIN u /\ batch[k] = u[k]
  BY <1>2, <1>3, <1>4
<1>6. Increasing(batch)
  BY <1>1, <1>5 DEF Increasing, Finds
<1>7. \A k \in DOMAIN batch : \E i \in UnreadAt(r) : batch[k] = data[i]
  BY <1>1, <1>5 DEF Finds
<1>8. ASSUME NEW i \in UnreadAt(r), NEW k \in DOMAIN batch
      PROVE  data[i].id \in Ids(batch) \/ data[i].id > batch[k].id
  <2>1. i \in 1..Len(data) /\ data[i].id \in Nat
    BY OrderTypes DEF UnreadAt
  <2>2. PICK j \in DOMAIN u : u[j] = data[i]
    BY <1>1, <2>1 DEF Finds
  <2>3. CASE j \in DOMAIN batch
    BY <2>2, <2>3, <1>5 DEF Ids
  <2>4. CASE j \notin DOMAIN batch
    <3>1. k < j
      BY <2>4, <1>2, <1>3, <1>5
    <3>2. u[k].id < u[j].id
      BY <3>1, <1>1, <1>5 DEF Finds, Increasing
    <3>3. PICK l \in UnreadAt(r) : u[k] = data[l]
      BY <1>1, <1>5 DEF Finds
    <3>4. u[k].id \in Nat
      <4>1. l \in 1..Len(data)
        BY DEF UnreadAt
      <4>2. data[l].id \in Nat
        BY <4>1, OrderTypes
      <4>. QED
        BY <3>3, <4>2
    <3>. QED
      BY <2>1, <2>2, <3>2, <3>4, <1>5
  <2>. QED
    BY <2>3, <2>4
<1>. QED
  BY <1>3, <1>4, <1>6, <1>7, <1>8 DEF batch, n, u

(* The listener of r has moved and nothing but it has changed of what the  *)
(* order is about.                                                         *)
LEMMA ListenerMoves ==
  ASSUME OrderInv, NEW r \in Receiver,
         UNCHANGED <<data, count, newest, dropped, lost>>,
         processed' \in [Receiver -> SUBSET (1..MaxSends)], last' \in [Receiver -> 0..MaxSends],
         crashes' \in 0..MaxCrashes,
         \A s \in Receiver \ {r} : listener'[s] = listener[s] /\ last'[s] = last[s],
         ReceiverTyped(r)', ReceiverOrdered(r)'
  PROVE  ChannelTypeOK' /\ Ordered'
<1>1. \A s \in Receiver : ReceiverTyped(s) /\ ReceiverOrdered(s)
  BY OrderParts DEF OrderInv
<1>2. \A s \in Receiver : ReceiverTyped(s)'
  BY <1>1 DEF ReceiverTyped
<1>3. \A s \in Receiver : ReceiverOrdered(s)'
  BY <1>1 DEF ReceiverOrdered, Increasing, UnreadAt, Ids
<1>4. ChannelTypeOK'
  BY <1>2 DEF OrderInv, ChannelTypeOK, ReceiverTyped
<1>5. Ordered'
  BY <1>3 DEF OrderInv, Ordered, ReceiverOrdered, Increasing
<1>. QED
  BY <1>4, <1>5

(* The parts of the type invariant that stay when their variables do.      *)
LEMMA SameTypes ==
  ASSUME OrderInv
  PROVE  /\ processed \in [Receiver -> SUBSET (1..MaxSends)] /\ last \in [Receiver -> 0..MaxSends]
         /\ crashes \in 0..MaxCrashes /\ MaxCrashes \in Nat
         /\ DOMAIN listener = Receiver
         /\ \A r \in Receiver : ReceiverTyped(r) /\ ReceiverOrdered(r)
<1>1. DOMAIN listener = Receiver
  BY DEF OrderInv, ChannelInv, Shape
<1>. QED
  BY <1>1, OrderParts, ChannelAssumption DEF OrderInv, ChannelTypeOK

LEMMA FetchOrder ==
  ASSUME OrderInv, NEW r \in Receiver, Fetch(r)
  PROVE  ChannelTypeOK' /\ Ordered'
<1>. DEFINE n == IF Len(Unread(r)) < PENDINGLIMIT THEN Len(Unread(r)) ELSE PENDINGLIMIT
            batch == SubSeq(Unread(r), 1, n)
<1>1. /\ UNCHANGED <<data, count, newest, dropped, lost, processed, last, crashes>>
      /\ batch # <<>>
      /\ listener' = [listener EXCEPT ![r] = [pc |-> "process", batch |-> batch]]
  BY DEF Fetch
<1>2. /\ batch \in Seq(Envelope) /\ Len(batch) <= PENDINGLIMIT /\ Increasing(batch)
      /\ \A k \in DOMAIN batch : \E i \in UnreadAt(r) : batch[k] = data[i]
      /\ \A i \in UnreadAt(r), k \in DOMAIN batch :
           data[i].id \in Ids(batch) \/ data[i].id > batch[k].id
  BY BatchFacts
<1>. HIDE DEF batch
<1>3. /\ listener'[r].pc = "process" /\ listener'[r].batch = batch
      /\ \A s \in Receiver \ {r} : listener'[s] = listener[s]
  BY <1>1, SameTypes
<1>4. ReceiverTyped(r)'
  BY <1>1, <1>2, <1>3 DEF ReceiverTyped
<1>5. \A k \in DOMAIN batch : batch[k].id <= count
  BY <1>2 DEF OrderInv, Ordered, UnreadAt
<1>6. ReceiverOrdered(r)'
  BY <1>1, <1>2, <1>3, <1>5, SameTypes DEF ReceiverOrdered, Increasing, UnreadAt, Ids
<1>7. /\ processed' \in [Receiver -> SUBSET (1..MaxSends)]
      /\ last' \in [Receiver -> 0..MaxSends] /\ crashes' \in 0..MaxCrashes
  BY <1>1, SameTypes
<1>. QED
  BY <1>1, <1>3, <1>4, <1>6, <1>7, ListenerMoves

LEMMA ProcessOrder ==
  ASSUME OrderInv, NEW r \in Receiver, Process(r)
  PROVE  ChannelTypeOK' /\ Ordered'
<1>. DEFINE id == Head(listener[r].batch).id
<1>1. /\ UNCHANGED <<data, count, newest, dropped, lost, crashes>>
      /\ listener[r].pc = "process"
      /\ processed' = [processed EXCEPT ![r] = @ \cup {id}]
      /\ last' = [last EXCEPT ![r] = id]
      /\ listener' = [listener EXCEPT ![r].pc = "mark"]
  BY DEF Process
<1>2. id \in 1..MaxSends /\ id \in 0..MaxSends /\ listener[r].batch # <<>>
  <2>1. id \in 1..MaxSends /\ listener[r].batch # <<>>
    BY <1>1, OrderTypes
  <2>. QED
    BY <2>1, ChannelAssumption
<1>. HIDE DEF id
<1>3. /\ listener'[r].pc = "mark" /\ listener'[r].batch = listener[r].batch
      /\ \A s \in Receiver \ {r} : listener'[s] = listener[s]
      /\ last'[r] = id /\ \A s \in Receiver \ {r} : last'[s] = last[s]
  <2>1. listener[r] = [pc |-> listener[r].pc, batch |-> listener[r].batch]
    BY DEF OrderInv, ChannelInv, Shape
  <2>2. listener'[r] = [listener[r] EXCEPT !.pc = "mark"]
    BY <1>1, SameTypes
  <2>3. listener'[r].pc = "mark" /\ listener'[r].batch = listener[r].batch
    BY <2>1, <2>2
  <2>. QED
    BY <1>1, <2>3, SameTypes
<1>4. ReceiverTyped(r)'
  BY <1>1, <1>2, <1>3, SameTypes DEF ReceiverTyped
<1>5. ReceiverOrdered(r)'
  BY <1>1, <1>3, SameTypes DEF ReceiverOrdered, Increasing, UnreadAt, Ids, id
<1>6. /\ processed' \in [Receiver -> SUBSET (1..MaxSends)]
      /\ last' \in [Receiver -> 0..MaxSends] /\ crashes' \in 0..MaxCrashes
  BY <1>1, <1>2, SameTypes
<1>. QED
  BY <1>1, <1>3, <1>4, <1>5, <1>6, ListenerMoves

LEMMA CrashOrder ==
  ASSUME OrderInv, NEW r \in Receiver, Crash(r)
  PROVE  ChannelTypeOK' /\ Ordered'
<1>1. /\ UNCHANGED <<data, count, newest, dropped, lost, processed, last>>
      /\ crashes' = crashes + 1 /\ crashes < MaxCrashes
      /\ listener' = [listener EXCEPT ![r] = Idle]
  BY DEF Crash
<1>2. /\ listener'[r] = Idle /\ Idle.pc = "query" /\ Idle.batch = <<>>
      /\ \A s \in Receiver \ {r} : listener'[s] = listener[s]
  BY <1>1, SameTypes DEF Idle
<1>3. ReceiverTyped(r)'
  BY <1>2, ChannelAssumption DEF ReceiverTyped
<1>4. ReceiverOrdered(r)'
  BY <1>1, <1>2, SameTypes DEF ReceiverOrdered, Increasing
<1>5. /\ processed' \in [Receiver -> SUBSET (1..MaxSends)]
      /\ last' \in [Receiver -> 0..MaxSends] /\ crashes' \in 0..MaxCrashes
  BY <1>1, SameTypes
<1>. QED
  BY <1>1, <1>2, <1>3, <1>4, <1>5, ListenerMoves

(* After the mark of r's first message: its batch is one shorter, what it  *)
(* has unread in the collection is the same but for that message, and what *)
(* the others have unread is the same.                                     *)
LEMMA MarkFacts ==
  ASSUME OrderInv, NEW r \in Receiver, Mark(r)
  PROVE  LET head == Head(listener[r].batch).id
             rest == Tail(listener[r].batch)
         IN /\ data' \in Seq(Envelope) /\ Len(data') = Len(data) /\ DOMAIN data' = DOMAIN data
            /\ \A i \in DOMAIN data : data'[i].id = data[i].id
            /\ \A s \in Receiver \ {r} : UnreadAt(s)' = UnreadAt(s) /\ listener'[s] = listener[s]
            /\ UnreadAt(r)' = {i \in UnreadAt(r) : data[i].id # head}
            /\ listener'[r].batch = rest
            /\ listener'[r].pc = IF rest = <<>> THEN "query" ELSE "process"
            /\ UNCHANGED <<count, processed, last, newest, dropped, lost, crashes>>
            /\ listener[r].pc = "mark"
<1>. DEFINE head == Head(listener[r].batch).id
            rest == Tail(listener[r].batch)
<1>1. /\ data' = MarkRead(r, {head}) /\ listener[r].pc = "mark"
      /\ listener' = [listener EXCEPT ![r] =
             IF rest = <<>> THEN Idle ELSE [pc |-> "process", batch |-> rest]]
      /\ UNCHANGED <<count, processed, last, newest, dropped, lost, crashes>>
  BY DEF Mark
<1>2. data \in Seq(Envelope)
  BY OrderTypes
<1>. HIDE DEF head, rest
<1>3. /\ data' \in Seq(Envelope) /\ DOMAIN data' = DOMAIN data /\ Len(data') = Len(data)
      /\ \A i \in DOMAIN data :
              /\ data'[i].id = data[i].id /\ data'[i].to = data[i].to
              /\ ~data'[i].read <=> ~data[i].read /\ ~(data[i].to = r /\ data[i].id \in {head})
  BY <1>1, <1>2, MarkData
<1>4. /\ \A s \in Receiver \ {r} : UnreadAt(s)' = UnreadAt(s)
      /\ UnreadAt(r)' = {i \in UnreadAt(r) : data[i].id # head}
  BY <1>3 DEF UnreadAt
<1>5. /\ \A s \in Receiver \ {r} : listener'[s] = listener[s]
      /\ listener'[r].batch = rest
      /\ listener'[r].pc = IF rest = <<>> THEN "query" ELSE "process"
  BY <1>1, SameTypes DEF Idle
<1>. QED
  BY <1>1, <1>3, <1>4, <1>5 DEF head, rest

LEMMA MarkOrder ==
  ASSUME OrderInv, NEW r \in Receiver, Mark(r)
  PROVE  ChannelTypeOK' /\ Ordered'
<1>. DEFINE batch == listener[r].batch
            head == Head(batch).id
            rest == Tail(batch)
<1>1. /\ data' \in Seq(Envelope) /\ Len(data') = Len(data) /\ DOMAIN data' = DOMAIN data
      /\ \A i \in DOMAIN data : data'[i].id = data[i].id
      /\ \A s \in Receiver \ {r} : UnreadAt(s)' = UnreadAt(s) /\ listener'[s] = listener[s]
      /\ UnreadAt(r)' = {i \in UnreadAt(r) : data[i].id # head}
      /\ listener'[r].batch = rest
      /\ listener'[r].pc = IF rest = <<>> THEN "query" ELSE "process"
      /\ UNCHANGED <<count, processed, last, newest, dropped, lost, crashes>>
      /\ listener[r].pc = "mark"
  BY MarkFacts
<1>2. batch \in Seq(Envelope) /\ batch # <<>> /\ Increasing(batch) /\ Len(batch) <= PENDINGLIMIT
  BY <1>1, SameTypes DEF ReceiverTyped, ReceiverOrdered
<1>3. /\ Increasing(rest) /\ rest \in Seq(Envelope) /\ Len(rest) = Len(batch) - 1
      /\ \A k \in DOMAIN rest : k + 1 \in DOMAIN batch /\ rest[k] = batch[k + 1]
      /\ Ids(rest) = Ids(batch) \ {head}
  <2>. HIDE DEF batch
  <2>. QED
    BY <1>2, IncreasingTail
<1>4. ReceiverTyped(r)'
  <2>1. Len(rest) <= PENDINGLIMIT
    BY <1>2, <1>3, ChannelAssumption
  <2>. HIDE DEF rest
  <2>. QED
    BY <1>1, <1>3, <2>1 DEF ReceiverTyped
<1>5. ReceiverOrdered(r)'
  <2>1. ReceiverOrdered(r)
    BY SameTypes
  <2>2. ASSUME NEW i \in UnreadAt(r)', NEW k \in DOMAIN rest
        PROVE  data'[i].id \in Ids(rest) \/ data'[i].id > rest[k].id
    <3>1. i \in UnreadAt(r) /\ data[i].id # head /\ data'[i].id = data[i].id
      BY <1>1 DEF UnreadAt
    <3>2. k + 1 \in DOMAIN batch /\ rest[k] = batch[k + 1]
      BY <1>3
    <3>3. data[i].id \in Ids(batch) \/ data[i].id > batch[k + 1].id
      BY <2>1, <3>1, <3>2 DEF ReceiverOrdered
    <3>. HIDE DEF rest, batch, head
    <3>. QED
      BY <1>3, <3>1, <3>2, <3>3
  <2>3. \A k \in DOMAIN rest : rest[k].id <= count
    BY <2>1, <1>3 DEF ReceiverOrdered
  <2>4. /\ \A i \in UnreadAt(r)', k \in DOMAIN listener'[r].batch :
             data'[i].id \in Ids(listener[r].batch)' \/ data'[i].id > listener'[r].batch[k].id
        /\ Increasing(listener[r].batch)'
        /\ newest'[r] <= count'
        /\ \A k \in DOMAIN listener'[r].batch : listener'[r].batch[k].id <= count'
        /\ listener'[r].pc # "mark"
    <3>. HIDE DEF rest
    <3>. QED
      BY <1>1, <1>3, <2>1, <2>2, <2>3 DEF ReceiverOrdered, Increasing, Ids
  <2>. QED
    BY <2>4 DEF ReceiverOrdered
<1>6. ASSUME NEW s \in Receiver \ {r}
      PROVE  ReceiverTyped(s)' /\ ReceiverOrdered(s)'
  <2>1. ReceiverTyped(s) /\ ReceiverOrdered(s)
    BY SameTypes
  <2>2. \A i \in UnreadAt(s) : i \in DOMAIN data
    BY DEF UnreadAt
  <2>3. listener'[s] = listener[s] /\ UnreadAt(s)' = UnreadAt(s)
        /\ \A i \in UnreadAt(s) : data'[i].id = data[i].id
    BY <1>1, <2>2
  <2>. HIDE DEF rest, batch, head
  <2>. QED
    BY <2>1, <2>3, <1>1 DEF ReceiverTyped, ReceiverOrdered, Increasing, Ids
<1>. HIDE DEF rest, batch, head
<1>7. ChannelTypeOK'
  <2>1. \A s \in Receiver : ReceiverTyped(s)'
    BY <1>4, <1>6
  <2>. QED
    BY <1>1, <2>1 DEF OrderInv, ChannelTypeOK, ReceiverTyped
<1>8. Ordered'
  <2>1. \A s \in Receiver : ReceiverOrdered(s)'
    BY <1>5, <1>6
  <2>2. Increasing(data)'
    BY <1>1 DEF OrderInv, Ordered, Increasing
  <2>3. \A i \in DOMAIN data' : data'[i].id <= count'
    BY <1>1 DEF OrderInv, Ordered
  <2>. QED
    BY <2>1, <2>2, <2>3 DEF Ordered, ReceiverOrdered
<1>. QED
  BY <1>7, <1>8

LEMMA OrderInvNext ==
  ASSUME OrderInv, [Next]_cvars
  PROVE  OrderInv'
<1>1. ChannelInv'
  BY NextChannelInv DEF OrderInv
<1>2. CASE UNCHANGED cvars
  BY <1>1, <1>2 DEF cvars, OrderInv, ChannelTypeOK, Ordered, Increasing, UnreadAt, Ids
<1>3. ASSUME NEW r \in Receiver,
             Send(r) \/ SendLost(r) \/ Fetch(r) \/ Process(r) \/ Mark(r) \/ Crash(r)
      PROVE  ChannelTypeOK' /\ Ordered'
  BY <1>3, SendOrder, SendLostOrder, FetchOrder, ProcessOrder, MarkOrder, CrashOrder
<1>. QED
  BY <1>1, <1>2, <1>3 DEF Next, OrderInv

LEMMA InitOrderInv == Init => OrderInv
<1>. SUFFICES ASSUME Init PROVE OrderInv
  OBVIOUS
<1>1. ChannelInv
  BY InitChannelInv
<1>2. ChannelTypeOK
  <2>1. \A r \in Receiver : listener[r].pc = "query" /\ listener[r].batch = <<>>
    BY DEF Init, Idle
  <2>2. /\ 0 \in 0..MaxSends /\ 0 \in 0..MaxCrashes
        /\ 0 <= PENDINGLIMIT /\ 0 <= CC_SIZE
    BY ChannelAssumption
  <2>3. /\ data \in Seq(Envelope) /\ Len(data) <= CC_SIZE
        /\ \A r \in Receiver : /\ listener[r].batch \in Seq(Envelope)
                               /\ Len(listener[r].batch) <= PENDINGLIMIT
    <3>1. <<>> \in Seq(Envelope) /\ Len(<<>>) = 0
      OBVIOUS
    <3>2. data = <<>>
      BY DEF Init
    <3>3. data \in Seq(Envelope) /\ Len(data) <= CC_SIZE
      BY <2>2, <3>1, <3>2
    <3>4. ASSUME NEW r \in Receiver
          PROVE  listener[r].batch \in Seq(Envelope) /\ Len(listener[r].batch) <= PENDINGLIMIT
      <4>1. listener[r].batch = <<>>
        BY <2>1
      <4>. QED
        BY <2>2, <3>1, <4>1
    <3>. QED
      BY <3>3, <3>4
  <2>. QED
    BY <2>1, <2>2, <2>3 DEF Init, ChannelTypeOK
<1>3. Ordered
  BY DEF Init, Idle, Ordered, Increasing
<1>. QED
  BY <1>1, <1>2, <1>3 DEF OrderInv

THEOREM OrderInductive == MessageSpec => []OrderInv
<1>1. MessageInit => OrderInv
  BY InitOrderInv DEF MessageInit
<1>2. OrderInv /\ [MessageNext]_mvars => OrderInv'
  BY MessageChannelIsChannel, OrderInvNext
<1>. QED
  BY <1>1, <1>2, PTL DEF MessageSpec

(* A listener holds a batch of at most PENDINGLIMIT messages exactly while *)
(* it works on one, and the collection never holds more than its size      *)
(* (listenWorker, createChannel).                                          *)
THEOREM ChannelTypeCorrect == MessageSpec => []ChannelTypeOK
<1>1. OrderInv => ChannelTypeOK
  BY DEF OrderInv
<1>. QED
  BY OrderInductive, <1>1, PTL

-------------------------------------------------------------------------------
(* A receiver's side of the channel is a mailbox. *)

UnreadIds(r) == {data[i].id : i \in UnreadAt(r)}

LEMMA PendingIs ==
  ASSUME NEW r
  PROVE  Pending(r) = (Ids(listener[r].batch) \cup UnreadIds(r))
                        \ (IF listener[r].pc = "mark" THEN {last[r]} ELSE {})
<1>1. {e.id : e \in {data[i] : i \in UnreadAt(r)}} = UnreadIds(r)
  BY DEF UnreadIds
<1>. QED
  BY <1>1 DEF Pending

(* The steps of a mailbox, in the terms of r's side of the channel.        *)
MailSends(r) ==
    /\ newest'[r] > newest[r]
    /\ newest'[r] \in Pending(r)'
    /\ Pending(r)' \subseteq Pending(r) \cup {newest'[r]}
    /\ last'[r] = last[r]

MailProcesses(r) ==
    /\ Pending(r) # {}
    /\ \E m \in Pending(r) :
         /\ \A n \in Pending(r) : m <= n
         /\ last'[r] = m
         /\ Pending(r)' = Pending(r) \ {m}
    /\ newest'[r] = newest[r]

MailLoses(r) ==
    /\ Pending(r)' \subseteq Pending(r)
    /\ newest'[r] = newest[r] /\ last'[r] = last[r]

MailCrashes(r) ==
    /\ last[r] # 0
    /\ Pending(r)' \subseteq Pending(r) \cup {last[r]}
    /\ newest'[r] = newest[r] /\ last'[r] = last[r]

MailStep(r) == MailSends(r) \/ MailProcesses(r) \/ MailLoses(r) \/ MailCrashes(r)

LEMMA SendMails ==
  ASSUME OrderInv, NEW r \in Receiver, NEW s \in Receiver, Send(s)
  PROVE  MailStep(r)
<1>. DEFINE new == [id |-> count + 1, to |-> s, read |-> FALSE]
<1>1. /\ newest' = [newest EXCEPT ![s] = count + 1] /\ listener' = listener /\ last' = last
      /\ DOMAIN newest = Receiver /\ newest[r] <= count /\ newest[r] \in Nat /\ count \in Nat
  <2>1. newest \in [Receiver -> 0..MaxSends] /\ newest[r] <= count
    BY DEF OrderInv, ChannelTypeOK, Ordered
  <2>. QED
    BY <2>1, OrderTypes DEF Send
<1>2. /\ Len(data') \in DOMAIN data' /\ data'[Len(data')] = new
      /\ \E d \in {0, 1} : \A i \in DOMAIN data' :
           i = Len(data') \/ (i + d \in DOMAIN data /\ data'[i] = data[i + d])
  BY SendData
<1>3. new.id = count + 1 /\ new.to = s /\ ~new.read
  OBVIOUS
<1>. HIDE DEF new
<1>4. UnreadIds(r)' \subseteq UnreadIds(r) \cup (IF r = s THEN {count + 1} ELSE {})
  BY <1>2, <1>3 DEF UnreadIds, UnreadAt
<1>5. r = s => count + 1 \in UnreadIds(r)'
  BY <1>2, <1>3 DEF UnreadIds, UnreadAt
<1>6. (Ids(listener[r].batch) \cup UnreadIds(r))'
        \subseteq Ids(listener[r].batch) \cup UnreadIds(r) \cup (IF r = s THEN {count + 1} ELSE {})
  BY <1>1, <1>4 DEF Ids
<1>7. Pending(r)' \subseteq Pending(r) \cup (IF r = s THEN {count + 1} ELSE {})
  BY <1>1, <1>6, PendingIs DEF Pending, UnreadIds
<1>8. CASE r # s
  BY <1>1, <1>7, <1>8 DEF MailStep, MailLoses
<1>9. CASE r = s
  <2>1. newest'[r] = count + 1 /\ newest'[r] > newest[r]
    BY <1>1, <1>9
  <2>2. listener[r].pc = "mark" => last[r] # count + 1
    <3>. SUFFICES ASSUME listener[r].pc = "mark" PROVE last[r] # count + 1
      OBVIOUS
    <3>1. /\ last[r] = listener[r].batch[1].id /\ 1 \in DOMAIN listener[r].batch
      BY OrderTypes DEF OrderInv, Ordered
    <3>2. last[r] <= count
      BY <3>1 DEF OrderInv, Ordered
    <3>. QED
      BY <3>2, <1>1, OrderTypes
  <2>3. count + 1 \in Pending(r)'
    BY <1>1, <1>5, <1>9, <2>2 DEF Pending, UnreadIds
  <2>. QED
    BY <1>1, <1>7, <1>9, <2>1, <2>3 DEF MailStep, MailSends
<1>. QED
  BY <1>8, <1>9

LEMMA SendLostMails ==
  ASSUME OrderInv, NEW r \in Receiver, NEW s \in Receiver, SendLost(s)
  PROVE  MailStep(r)
  BY DEF SendLost, MailStep, MailLoses, Pending, UnreadAt, Ids

LEMMA FetchMails ==
  ASSUME OrderInv, NEW r \in Receiver, NEW s \in Receiver, Fetch(s)
  PROVE  MailStep(r)
<1>. DEFINE n == IF Len(Unread(s)) < PENDINGLIMIT THEN Len(Unread(s)) ELSE PENDINGLIMIT
            batch == SubSeq(Unread(s), 1, n)
<1>1. /\ UNCHANGED <<data, newest, last>> /\ listener[s].pc = "query"
      /\ listener' = [listener EXCEPT ![s] = [pc |-> "process", batch |-> batch]]
  BY DEF Fetch
<1>2. \A k \in DOMAIN batch : \E i \in UnreadAt(s) : batch[k] = data[i]
  BY BatchFacts
<1>. HIDE DEF batch
<1>3. Ids(batch) \subseteq UnreadIds(s)
  BY <1>2 DEF Ids, UnreadIds
<1>4. UnreadIds(r)' = UnreadIds(r)
  BY <1>1 DEF UnreadIds, UnreadAt
<1>5. Pending(r)' \subseteq Pending(r)
  <2>1. CASE r = s
    <3>1. listener'[s].batch = batch /\ listener'[s].pc = "process"
      BY <1>1, SameTypes
    <3>2. Ids(listener[s].batch)' = Ids(batch)
      BY <3>1 DEF Ids
    <3>3. Pending(r)' = Ids(listener[r].batch)' \cup UnreadIds(r)'
      BY <2>1, <3>1 DEF Pending, UnreadIds
    <3>4. UnreadIds(r) \subseteq Pending(r)
      BY <1>1, <2>1, PendingIs
    <3>. QED
      BY <1>3, <1>4, <2>1, <3>2, <3>3, <3>4
  <2>2. CASE r # s
    <3>1. listener'[r] = listener[r]
      BY <1>1, <2>2
    <3>. QED
      BY <1>1, <3>1 DEF Pending, UnreadAt, Ids
  <2>. QED
    BY <2>1, <2>2
<1>. QED
  BY <1>1, <1>5 DEF MailStep, MailLoses

LEMMA ProcessMails ==
  ASSUME OrderInv, NEW r \in Receiver, NEW s \in Receiver, Process(s)
  PROVE  MailStep(r)
<1>. DEFINE id == Head(listener[s].batch).id
<1>1. /\ UNCHANGED <<data, newest>> /\ listener[s].pc = "process"
      /\ last' = [last EXCEPT ![s] = id]
      /\ listener' = [listener EXCEPT ![s].pc = "mark"]
  BY DEF Process
<1>. HIDE DEF id
<1>2. UnreadIds(r)' = UnreadIds(r)
  BY <1>1 DEF UnreadIds, UnreadAt
<1>3. CASE r # s
  <2>1. listener'[r] = listener[r] /\ last'[r] = last[r]
    BY <1>1, <1>3
  <2>. QED
    BY <1>1, <2>1 DEF MailStep, MailLoses, Pending, UnreadAt, Ids
<1>4. CASE r = s
  <2>1. /\ listener'[r].pc = "mark" /\ listener'[r].batch = listener[r].batch /\ last'[r] = id
    <3>1. listener[s] = [pc |-> listener[s].pc, batch |-> listener[s].batch]
      BY DEF OrderInv, ChannelInv, Shape
    <3>2. listener'[s] = [listener[s] EXCEPT !.pc = "mark"]
      BY <1>1, SameTypes
    <3>. QED
      BY <1>1, <1>4, <3>1, <3>2, SameTypes
  <2>2. Ids(listener[r].batch)' = Ids(listener[r].batch)
    BY <2>1 DEF Ids
  <2>3. Pending(r) = Ids(listener[r].batch) \cup UnreadIds(r)
    BY <1>1, <1>4, PendingIs
  <2>4. Pending(r)' = Pending(r) \ {id}
    <3>1. Pending(r)' = (Ids(listener[r].batch)' \cup UnreadIds(r)') \ {last'[r]}
      BY <2>1 DEF Pending, UnreadIds
    <3>. QED
      BY <1>2, <2>1, <2>2, <2>3, <3>1
  <2>5. /\ listener[r].batch \in Seq(Envelope) /\ listener[r].batch # <<>>
        /\ Increasing(listener[r].batch)
        /\ 1 \in DOMAIN listener[r].batch
        /\ id = listener[r].batch[1].id /\ id \in Nat
    BY <1>1, <1>4, OrderTypes DEF OrderInv, Ordered, id
  <2>6. id \in Ids(listener[r].batch)
    BY <2>5 DEF Ids
  <2>7. \A m \in Ids(listener[r].batch) : id <= m
    BY <1>4, <2>5, IncreasingTail DEF Ids, id
  <2>8. \A m \in UnreadIds(r) : id <= m
    <3>. TAKE m \in UnreadIds(r)
    <3>1. PICK i \in UnreadAt(r) : m = data[i].id
      BY DEF UnreadIds
    <3>2. m \in Ids(listener[r].batch) \/ m > id
      BY <2>5, <3>1 DEF OrderInv, Ordered
    <3>3. m \in Nat
      BY <3>1, OrderTypes DEF UnreadAt
    <3>. QED
      BY <2>5, <2>7, <3>2, <3>3
  <2>. QED
    BY <1>1, <2>1, <2>3, <2>4, <2>6, <2>7, <2>8 DEF MailStep, MailProcesses
<1>. QED
  BY <1>3, <1>4

LEMMA MarkMails ==
  ASSUME OrderInv, NEW r \in Receiver, NEW s \in Receiver, Mark(s)
  PROVE  MailStep(r)
<1>. DEFINE batch == listener[s].batch
            head == Head(batch).id
            rest == Tail(batch)
<1>1. /\ DOMAIN data' = DOMAIN data
      /\ \A i \in DOMAIN data : data'[i].id = data[i].id
      /\ \A q \in Receiver \ {s} : UnreadAt(q)' = UnreadAt(q) /\ listener'[q] = listener[q]
      /\ UnreadAt(s)' = {i \in UnreadAt(s) : data[i].id # head}
      /\ listener'[s].batch = rest
      /\ listener'[s].pc = IF rest = <<>> THEN "query" ELSE "process"
      /\ UNCHANGED <<last, newest>>
      /\ listener[s].pc = "mark"
  BY MarkFacts
<1>2. \A q : \A i \in UnreadAt(q) : i \in DOMAIN data
  BY DEF UnreadAt
<1>3. CASE r # s
  <2>1. UnreadIds(r)' = UnreadIds(r)
    BY <1>1, <1>2, <1>3 DEF UnreadIds
  <2>2. listener'[r] = listener[r] /\ last'[r] = last[r]
    BY <1>1, <1>3
  <2>3. Ids(listener[r].batch)' = Ids(listener[r].batch)
    BY <2>2 DEF Ids
  <2>4. Pending(r)' = (Ids(listener[r].batch)' \cup UnreadIds(r)')
                        \ (IF listener'[r].pc = "mark" THEN {last'[r]} ELSE {})
    BY DEF Pending, UnreadIds
  <2>5. Pending(r)' = Pending(r)
    BY <2>1, <2>2, <2>3, <2>4, PendingIs
  <2>. QED
    BY <1>1, <2>5 DEF MailStep, MailLoses
<1>4. CASE r = s
  <2>1. batch \in Seq(Envelope) /\ batch # <<>> /\ Increasing(batch)
    BY <1>1, SameTypes DEF ReceiverTyped, ReceiverOrdered
  <2>2. Ids(rest) = Ids(batch) \ {head}
    <3>. HIDE DEF batch
    <3>. QED
      BY <2>1, IncreasingTail
  <2>3. last[s] = head
    BY <1>1, SameTypes DEF ReceiverOrdered
  <2>. HIDE DEF batch, head, rest
  <2>4. Ids(listener[s].batch)' = Ids(rest) /\ listener'[s].pc # "mark"
    BY <1>1 DEF Ids
  <2>5. UnreadIds(s)' = UnreadIds(s) \ {head}
    BY <1>1, <1>2 DEF UnreadIds
  <2>6. Pending(s)' = Ids(listener[s].batch)' \cup UnreadIds(s)'
    BY <2>4 DEF Pending, UnreadIds
  <2>7. Pending(s) = (Ids(batch) \cup UnreadIds(s)) \ {head}
    BY <1>1, <2>3, PendingIs DEF batch
  <2>8. Pending(s)' = Pending(s)
    BY <2>2, <2>4, <2>5, <2>6, <2>7
  <2>. QED
    BY <1>1, <1>4, <2>8 DEF MailStep, MailLoses
<1>. QED
  BY <1>3, <1>4

LEMMA CrashMails ==
  ASSUME OrderInv, NEW r \in Receiver, NEW s \in Receiver, Crash(s)
  PROVE  MailStep(r)
<1>1. /\ UNCHANGED <<data, last, newest>>
      /\ listener' = [listener EXCEPT ![s] = Idle]
  BY DEF Crash
<1>2. CASE r # s
  <2>1. listener'[r] = listener[r] /\ last'[r] = last[r]
    BY <1>1, <1>2
  <2>. QED
    BY <1>1, <2>1 DEF MailStep, MailLoses, Pending, UnreadAt, Ids
<1>3. CASE r = s
  <2>1. listener'[r].batch = <<>> /\ listener'[r].pc = "query"
    BY <1>1, <1>3, SameTypes DEF Idle
  <2>2. Ids(listener[r].batch)' = {}
    BY <2>1 DEF Ids
  <2>3. UnreadIds(r)' = UnreadIds(r)
    BY <1>1 DEF UnreadIds, UnreadAt
  <2>4. Pending(r)' = UnreadIds(r)
    <3>1. Pending(r)' = Ids(listener[r].batch)' \cup UnreadIds(r)'
      BY <2>1 DEF Pending, UnreadIds
    <3>. QED
      BY <2>2, <2>3, <3>1
  <2>5. CASE listener[r].pc = "mark"
    <3>1. last[r] # 0
      BY <2>5, OrderTypes DEF OrderInv, Ordered
    <3>2. UnreadIds(r) \subseteq Pending(r) \cup {last[r]}
      BY PendingIs
    <3>. QED
      BY <1>1, <2>4, <3>1, <3>2 DEF MailStep, MailCrashes
  <2>6. CASE listener[r].pc # "mark"
    <3>1. UnreadIds(r) \subseteq Pending(r)
      BY <2>6, PendingIs
    <3>. QED
      BY <1>1, <2>4, <3>1 DEF MailStep, MailLoses
  <2>. QED
    BY <2>5, <2>6
<1>. QED
  BY <1>2, <1>3

LEMMA ChannelMails ==
  ASSUME OrderInv, NEW r \in Receiver, [Next]_cvars
  PROVE  MailStep(r)
<1>1. CASE UNCHANGED cvars
  BY <1>1 DEF cvars, MailStep, MailLoses, Pending, UnreadAt, Ids
<1>2. CASE Next
  BY <1>2, SendMails, SendLostMails, FetchMails, ProcessMails, MarkMails, CrashMails DEF Next
<1>. QED
  BY <1>1, <1>2

LEMMA LeastPending ==
  ASSUME OrderInv, NEW r \in Receiver, NEW m \in Pending(r), \A n \in Pending(r) : m <= n
  PROVE  Mail!Min(Pending(r)) = m
<1>1. \A n \in Pending(r) : n \in Nat
  BY PendingIs, OrderTypes DEF Ids, UnreadIds, UnreadAt
<1>2. \A x \in Pending(r) : (\A y \in Pending(r) : x <= y) => x = m
  BY <1>1
<1>. QED
  BY <1>2 DEF Mail!Min

LEMMA ReaderReceives == reader \in Receiver
<1>1. Receiver # {}
  BY MessageAssumption, FS_EmptySet
<1>. QED
  BY <1>1 DEF reader

(* Batches, documents dropped or lost, and crashes reorder nothing: each   *)
(* receiver processes its messages in the order they were sent in, and a   *)
(* crash repeats the last one at most (listenWorker).                      *)
THEOREM ChannelIsMailbox == MessageSpec => ImplementsMailbox
<1>1. MessageInit => Mail!Init
  <2>. SUFFICES ASSUME MessageInit PROVE Mail!Init
    OBVIOUS
  <2>1. Init /\ reader \in Receiver
    BY ReaderReceives DEF MessageInit
  <2>2. newest[reader] = 0 /\ last[reader] = 0 /\ listener[reader].batch = <<>> /\ data = <<>>
    BY <2>1 DEF Init, Idle
  <2>3. Pending(reader) = {}
    BY <2>2 DEF Pending, UnreadAt, Ids
  <2>. QED
    BY <2>2, <2>3 DEF Mail!Init
<1>2. ASSUME OrderInv, [MessageNext]_mvars
      PROVE  [Mail!Next]_(Mail!mvars)
  <2>. DEFINE r == reader
  <2>1. MailStep(r) /\ r \in Receiver
    BY <1>2, MessageChannelIsChannel, ReaderReceives, ChannelMails
  <2>2. CASE MailSends(r)
    BY <2>2 DEF MailSends, Mail!Next, Mail!Send
  <2>3. CASE MailProcesses(r)
    <3>1. PICK m \in Pending(r) : /\ \A n \in Pending(r) : m <= n
                                  /\ last'[r] = m
                                  /\ Pending(r)' = Pending(r) \ {m}
      BY <2>3 DEF MailProcesses
    <3>2. Mail!Min(Pending(r)) = m
      BY <1>2, <2>1, <3>1, LeastPending
    <3>3. newest'[r] = newest[r] /\ Pending(r) # {}
      BY <2>3 DEF MailProcesses
    <3>. QED
      BY <3>1, <3>2, <3>3 DEF Mail!Next, Mail!Process
  <2>4. CASE MailLoses(r)
    BY <2>4 DEF MailLoses, Mail!Next, Mail!Lose
  <2>5. CASE MailCrashes(r)
    BY <2>5 DEF MailCrashes, Mail!Next, Mail!Crash
  <2>. QED
    BY <2>1, <2>2, <2>3, <2>4, <2>5 DEF MailStep
<1>. QED
  BY OrderInductive, <1>1, <1>2, PTL DEF MessageSpec, ImplementsMailbox, Mail!Spec

-------------------------------------------------------------------------------
(* The values of TLVs. *)

Lengths == {MatchLength, ActionLength, OptionLength}

(* The types of a list whose value is a number, or empty.                  *)
NumberTypes(lengths) ==
    DOMAIN lengths \ {"IPV4", "IPV6", "ETHERNET", "SET_ETH_SRC", "SET_ETH_DST"}

LEMMA ReverseFacts ==
  ASSUME NEW s \in Seq(Byte)
  PROVE  /\ Reverse(s) \in Seq(Byte) /\ Len(Reverse(s)) = Len(s)
         /\ \A i \in 1..Len(s) : Reverse(s)[i] = s[Len(s) - i + 1]
  BY DEF Reverse

LEMMA ReverseTwice ==
  ASSUME NEW s \in Seq(Byte)
  PROVE  Reverse(Reverse(s)) = s
<1>1. /\ Reverse(Reverse(s)) \in Seq(Byte)
      /\ Len(Reverse(Reverse(s))) = Len(s)
  BY ReverseFacts
<1>2. \A i \in 1..Len(s) : Reverse(Reverse(s))[i] = s[i]
  <2> TAKE i \in 1..Len(s)
  <2>1. Len(s) - i + 1 \in 1..Len(s) /\ Len(s) - (Len(s) - i + 1) + 1 = i
    OBVIOUS
  <2>2. Reverse(s)[Len(s) - i + 1] = s[i]
    BY <2>1, ReverseFacts
  <2>3. /\ Reverse(s) \in Seq(Byte) /\ Len(Reverse(s)) = Len(s)
        /\ \A j \in 1..Len(Reverse(s)) :
             Reverse(Reverse(s))[j] = Reverse(s)[Len(Reverse(s)) - j + 1]
    BY ReverseFacts
  <2>. QED
    BY <2>2, <2>3
<1>. QED
  BY <1>1, <1>2

(* A number is the same in the document whatever the order of the host     *)
(* that writes it: that of the network.                                    *)
LEMMA MemoryFacts ==
  ASSUME NEW o \in Order, NEW n \in Seq(Byte)
  PROVE  /\ Memory(n, o) \in Seq(Byte)
         /\ Len(Memory(n, o)) = Len(n)
         /\ Memory(Memory(n, o), o) = n
  BY ReverseFacts, ReverseTwice DEF Order, Memory

(* htonll is the conversion of eight bytes.                                *)
LEMMA HtonllTurns ==
  ASSUME NEW o \in Order, NEW n \in Bytes(8)
  PROVE  Htonll(n, o) = Memory(n, o)
<1>1. CASE o = "big"
  BY <1>1 DEF Htonll, Memory
<1>2. CASE o # "big"
  <2> DEFINE low == SubSeq(n, 5, 8)
             high == SubSeq(n, 1, 4)
  <2>1. n \in Seq(Byte) /\ Len(n) = 8
    BY DEF Bytes
  <2>2. /\ low \in Seq(Byte) /\ Len(low) = 4 /\ \A i \in 1..4 : low[i] = n[i + 4]
        /\ high \in Seq(Byte) /\ Len(high) = 4 /\ \A i \in 1..4 : high[i] = n[i]
    <3>1. \A i \in 1..8 : n[i] \in Byte
      BY <2>1, ElementOfSeq
    <3>2. /\ low \in Seq(Byte) /\ Len(low) = 4 /\ \A i \in 1..4 : low[i] = n[5 + i - 1]
          /\ high \in Seq(Byte) /\ Len(high) = 4 /\ \A i \in 1..4 : high[i] = n[1 + i - 1]
      BY <3>1, SubSeqProperties
    <3>. QED
      BY <3>2
  <2>3. /\ Reverse(low) \in Seq(Byte) /\ Len(Reverse(low)) = 4
        /\ \A i \in 1..4 : Reverse(low)[i] = n[9 - i]
        /\ Reverse(high) \in Seq(Byte) /\ Len(Reverse(high)) = 4
        /\ \A i \in 1..4 : Reverse(high)[i] = n[5 - i]
    <3>1. \A i \in 1..4 : 4 - i + 1 \in 1..4 /\ 4 - i + 1 + 4 = 9 - i /\ 4 - i + 1 = 5 - i
      OBVIOUS
    <3>. HIDE DEF low, high
    <3>2. /\ Reverse(low) \in Seq(Byte) /\ Len(Reverse(low)) = 4
          /\ \A i \in 1..4 : Reverse(low)[i] = low[4 - i + 1]
      BY <2>2, ReverseFacts
    <3>3. /\ Reverse(high) \in Seq(Byte) /\ Len(Reverse(high)) = 4
          /\ \A i \in 1..4 : Reverse(high)[i] = high[4 - i + 1]
      BY <2>2, ReverseFacts
    <3>. QED
      BY <2>2, <3>1, <3>2, <3>3
  <2>4. /\ Reverse(n) \in Seq(Byte) /\ Len(Reverse(n)) = 8
        /\ \A i \in 1..8 : Reverse(n)[i] = n[9 - i]
    <3>1. \A i \in 1..8 : Len(n) - i + 1 = 9 - i
      BY <2>1
    <3>2. /\ Reverse(n) \in Seq(Byte) /\ Len(Reverse(n)) = Len(n)
          /\ \A i \in 1..Len(n) : Reverse(n)[i] = n[Len(n) - i + 1]
      BY <2>1, ReverseFacts
    <3>. QED
      BY <2>1, <3>1, <3>2
  <2>5. Reverse(low) \o Reverse(high) = Reverse(n)
    <3>. DEFINE a == Reverse(low)
                b == Reverse(high)
    <3>1. /\ a \in Seq(Byte) /\ Len(a) = 4 /\ \A i \in 1..4 : a[i] = n[9 - i]
          /\ b \in Seq(Byte) /\ Len(b) = 4 /\ \A i \in 1..4 : b[i] = n[5 - i]
      BY <2>3
    <3>. HIDE DEF low, high, a, b
    <3>2. /\ a \o b \in Seq(Byte) /\ Len(a \o b) = 8
          /\ \A i \in 1..8 : (a \o b)[i] = IF i <= 4 THEN a[i] ELSE b[i - 4]
      <4>1. /\ a \o b \in Seq(Byte) /\ Len(a \o b) = Len(a) + Len(b)
            /\ \A i \in 1..Len(a) + Len(b) :
                 (a \o b)[i] = IF i <= Len(a) THEN a[i] ELSE b[i - Len(a)]
        BY <3>1, ConcatProperties
      <4>2. Len(a) = 4 /\ Len(b) = 4
        BY <3>1
      <4>. QED
        BY <4>1, <4>2
    <3>3. \A i \in 1..8 : (a \o b)[i] = Reverse(n)[i]
      <4>1. \A i \in 1..4 : (a \o b)[i] = n[9 - i]
        BY <3>1, <3>2
      <4>2. \A i \in 1..4 : (a \o b)[i + 4] = n[9 - (i + 4)]
        <5>1. \A i \in 1..4 : i + 4 \in 1..8 /\ ~(i + 4 <= 4) /\ i + 4 - 4 = i /\ 9 - (i + 4) = 5 - i
          OBVIOUS
        <5>. QED
          BY <5>1, <3>1, <3>2
      <4>3. \A i \in 5..8 : i - 4 \in 1..4 /\ i - 4 + 4 = i
        OBVIOUS
      <4>4. \A i \in 5..8 : (a \o b)[i] = n[9 - i]
        BY <4>2, <4>3
      <4>5. \A i \in 1..8 : i \in 1..4 \/ i \in 5..8
        OBVIOUS
      <4>. QED
        BY <4>1, <4>4, <4>5, <2>4
    <3>4. a \o b = Reverse(n)
      BY <3>2, <3>3, <2>4, SeqEqual
    <3>. QED
      BY <3>4 DEF a, b
  <2>. QED
    BY <1>2, <2>5 DEF Htonll, Memory
<1>. QED
  BY <1>1, <1>2

LEMMA ConversionTurns ==
  ASSUME NEW o \in Order, NEW n \in Seq(Byte), Len(n) \in {0, 1, 2, 4, 8}
  PROVE  ToNetwork(n, o) = Memory(n, o)
<1> DEFINE l == Len(n)
<1>1. l \in {0, 1, 2, 4, 8} /\ l = Len(n)
  OBVIOUS
<1>2. ToNetwork(n, o) = IF l = 8 THEN Htonll(n, o)
                        ELSE IF l \in {2, 4} THEN Memory(n, o) ELSE n
  BY DEF ToNetwork
<1>. HIDE DEF l
<1>3. CASE l = 2 \/ l = 4
  BY <1>2, <1>3
<1>4. CASE l = 8
  BY <1>1, <1>2, <1>4, HtonllTurns DEF Bytes
<1>5. CASE l = 0 \/ l = 1
  <2>1. \A i \in 1..l : l - i + 1 = i
    BY <1>5
  <2>2. /\ Reverse(n) \in Seq(Byte) /\ Len(Reverse(n)) = l
        /\ \A i \in 1..l : Reverse(n)[i] = n[l - i + 1]
    BY <1>1, ReverseFacts
  <2>3. \A i \in 1..l : Reverse(n)[i] = n[i]
    BY <2>1, <2>2
  <2>4. Reverse(n) = n
    BY <1>1, <2>2, <2>3, SeqEqual
  <2>. QED
    BY <1>2, <1>5, <2>4 DEF Memory
<1>. QED
  BY <1>1, <1>3, <1>4, <1>5

(* What a number becomes on its way: memory of one host, network order,    *)
(* memory of the other.                                                    *)
LEMMA NumberCrosses ==
  ASSUME NEW o1 \in Order, NEW o2 \in Order, NEW n \in Seq(Byte), Len(n) \in {0, 1, 2, 4, 8}
  PROVE  /\ ToNetwork(Memory(n, o1), o1) = n
         /\ ToHost(n, o2) = Memory(n, o2)
  BY MemoryFacts, ConversionTurns DEF ToHost

LEMMA NumberSizes ==
  ASSUME NEW lengths \in Lengths, NEW type \in NumberTypes(lengths)
  PROVE  lengths[type] \in {0, 1, 2, 4, 8}
<1>1. CASE lengths = MatchLength
  BY <1>1 DEF NumberTypes, MatchLength
<1>2. CASE lengths = ActionLength
  BY <1>2 DEF NumberTypes, ActionLength
<1>3. CASE lengths = OptionLength
  BY <1>3 DEF NumberTypes, OptionLength
<1>. QED
  BY <1>1, <1>2, <1>3 DEF Lengths

(* A number in a match, an action or an option is in network order in the  *)
(* document and is read as it was written, whatever the byte orders of the *)
(* two hosts (TLV.cc: the constructors, TLV_to_BSON, value_from_BSON, and  *)
(* getUint8 to getUint64).                                                 *)
THEOREM NumbersReadAsSent ==
  ASSUME NEW o1 \in Order, NEW o2 \in Order,
         NEW lengths \in Lengths, NEW type \in NumberTypes(lengths),
         NEW n \in Bytes(lengths[type]), type # NULL, n # NULL
  PROVE  LET t == [type |-> type, value |-> n]
             doc == ToDocument(Make(t, o1), "host", o1)
         IN /\ doc = t
            /\ Reading(FromDocument(doc, lengths, "host", o2), o2) = t
<1> DEFINE t == [type |-> type, value |-> n]
           size == lengths[type]
<1>1. /\ n \in Seq(Byte) /\ Len(n) = size /\ Len(n) \in {0, 1, 2, 4, 8}
      /\ type \in DOMAIN lengths
  BY NumberSizes DEF Bytes, NumberTypes
<1>2. type \notin {"IPV4", "IPV6", "ETHERNET", "SET_ETH_SRC", "SET_ETH_DST"}
  BY DEF NumberTypes
<1>3. Make(t, o1) = [type |-> type, value |-> Memory(n, o1)]
  BY <1>2 DEF Make, NumberTlv
<1>4. ToDocument(Make(t, o1), "host", o1) = t
  <2>1. ToDocument(Make(t, o1), "host", o1)
          = [type |-> type, value |-> ToNetwork(Memory(n, o1), o1)]
    BY <1>3 DEF ToDocument
  <2>. QED
    BY <1>1, <2>1, NumberCrosses
<1>5. FromDocument(t, lengths, "host", o2) = [type |-> type, value |-> Memory(n, o2)]
  <2>1. FromDocument(t, lengths, "host", o2)
          = [type |-> type, value |-> SubSeq(Memory(n, o2), 1, size)]
    BY <1>1, NumberCrosses DEF FromDocument, Kept, LengthOf
  <2>2. SubSeq(Memory(n, o2), 1, size) = Memory(n, o2)
    BY <1>1, MemoryFacts, SubSeqFull
  <2>. QED
    BY <2>1, <2>2
<1>6. Reading([type |-> type, value |-> Memory(n, o2)], o2) = t
  <2> DEFINE v == Memory(n, o2)
  <2>1. v \in Seq(Byte) /\ Memory(v, o2) = n /\ SubSeq(v, 1, Len(v)) = v
    BY <1>1, MemoryFacts, SubSeqFull
  <2>2. ~(Len(v) < Len(v))
    BY <2>1
  <2>3. GetUint(v, Len(v), o2) = n
    BY <2>1, <2>2 DEF GetUint
  <2>. QED
    BY <1>2, <2>3 DEF Reading
<1>. QED
  BY <1>4, <1>5, <1>6

(* The weights of the bits of a byte, and what the recursion of a sum over *)
(* them is.                                                                *)
Weight(i, p, b) == IF 8 * (i - 1) + b < p THEN 2^(7 - b) ELSE 0

SumOf(i, p, s) == LET w(b) == IF b \in s THEN Weight(i, p, b) ELSE 0
                  IN w(0) + w(1) + w(2) + w(3) + w(4) + w(5) + w(6) + w(7)

SomeBit(s) == CHOOSE b \in s : TRUE

IsSum(f, i, p) == f = [s \in SUBSET (0..7) |->
    IF s = {} THEN 0 ELSE Weight(i, p, SomeBit(s)) + f[s \ {SomeBit(s)}]]

LEMMA WeightType ==
  ASSUME NEW i \in Int, NEW p \in Int
  PROVE  \A b \in 0..7 : Weight(i, p, b) \in Int
<1>. TAKE b \in 0..7
<1>1. b = 0 \/ b = 1 \/ b = 2 \/ b = 3 \/ b = 4 \/ b = 5 \/ b = 6 \/ b = 7
  OBVIOUS
<1>. QED
  BY <1>1 DEF Weight

LEMMA SumSteps ==
  ASSUME NEW i \in Int, NEW p \in Int, NEW s \in SUBSET (0..7), NEW b \in s
  PROVE  SumOf(i, p, s) = Weight(i, p, b) + SumOf(i, p, s \ {b})
<1>. DEFINE v(c) == IF c \in s THEN Weight(i, p, c) ELSE 0
            u(c) == IF c \in s \ {b} THEN Weight(i, p, c) ELSE 0
<1>1. \A c \in 0..7 : v(c) \in Int /\ u(c) \in Int
  <2>1. \A c \in 0..7 : Weight(i, p, c) \in Int
    BY WeightType
  <2>. QED
    BY <2>1
<1>2. \A c \in 0..7 : c # b => u(c) = v(c)
  OBVIOUS
<1>3. u(b) = 0 /\ v(b) = Weight(i, p, b)
  OBVIOUS
<1>4. /\ SumOf(i, p, s) = v(0) + v(1) + v(2) + v(3) + v(4) + v(5) + v(6) + v(7)
      /\ SumOf(i, p, s \ {b}) = u(0) + u(1) + u(2) + u(3) + u(4) + u(5) + u(6) + u(7)
  BY DEF SumOf
<1>5. b = 0 \/ b = 1 \/ b = 2 \/ b = 3 \/ b = 4 \/ b = 5 \/ b = 6 \/ b = 7
  OBVIOUS
<1>. HIDE DEF u, v
<1>6. /\ v(0) \in Int /\ v(1) \in Int /\ v(2) \in Int /\ v(3) \in Int
      /\ v(4) \in Int /\ v(5) \in Int /\ v(6) \in Int /\ v(7) \in Int
  BY <1>1
<1>7. /\ b # 0 => u(0) = v(0)
      /\ b # 1 => u(1) = v(1)
      /\ b # 2 => u(2) = v(2)
      /\ b # 3 => u(3) = v(3)
      /\ b # 4 => u(4) = v(4)
      /\ b # 5 => u(5) = v(5)
      /\ b # 6 => u(6) = v(6)
      /\ b # 7 => u(7) = v(7)
  BY <1>2
<1>. QED
  BY <1>3, <1>4, <1>5, <1>6, <1>7

LEMMA SumExists ==
  ASSUME NEW i \in Int, NEW p \in Int
  PROVE  \E f : IsSum(f, i, p)
<1>. DEFINE f == [s \in SUBSET (0..7) |-> SumOf(i, p, s)]
<1>1. ASSUME NEW s \in SUBSET (0..7)
      PROVE  f[s] = IF s = {} THEN 0 ELSE Weight(i, p, SomeBit(s)) + f[s \ {SomeBit(s)}]
  <2>1. CASE s = {}
    BY <2>1 DEF SumOf
  <2>2. CASE s # {}
    <3>1. SomeBit(s) \in s
      BY <2>2 DEF SomeBit
    <3>2. /\ SumOf(i, p, s) = Weight(i, p, SomeBit(s)) + SumOf(i, p, s \ {SomeBit(s)})
          /\ s \ {SomeBit(s)} \in SUBSET (0..7)
      <4>. DEFINE b == SomeBit(s)
      <4>1. b \in s
        BY <3>1
      <4>. HIDE DEF b
      <4>2. SumOf(i, p, s) = Weight(i, p, b) + SumOf(i, p, s \ {b})
        BY <4>1, SumSteps
      <4>. QED
        BY <4>2 DEF b
    <3>3. f[s] = SumOf(i, p, s) /\ f[s \ {SomeBit(s)}] = SumOf(i, p, s \ {SomeBit(s)})
      BY <3>2
    <3>. HIDE DEF f
    <3>. QED
      BY <2>2, <3>2, <3>3
  <2>. QED
    BY <2>1, <2>2
<1>2. f = [s \in SUBSET (0..7) |-> f[s]]
  OBVIOUS
<1>. HIDE DEF f
<1>3. IsSum(f, i, p)
  BY <1>1, <1>2 DEF IsSum
<1>. QED
  BY <1>3

LEMMA SumIs ==
  ASSUME NEW i \in Int, NEW p \in Int
  PROVE  MapThenSumSet(LAMBDA b : IF 8 * (i - 1) + b < p THEN 2^(7 - b) ELSE 0, 0..7)
           = (CHOOSE f : IsSum(f, i, p))[0..7]
  BY DEF MapThenSumSet, MapThenFoldSet, IsSum, Weight, SomeBit

(* The recursion gives the sum to the whole set: it agrees with the sum on *)
(* the sets of every size.                                                 *)
LEMMA SumOfBits ==
  ASSUME NEW i \in Int, NEW p \in Int
  PROVE  MapThenSumSet(LAMBDA b : IF 8 * (i - 1) + b < p THEN 2^(7 - b) ELSE 0, 0..7)
           = SumOf(i, p, 0..7)
<1>. DEFINE f == CHOOSE g : IsSum(g, i, p)
<1>1. IsSum(f, i, p)
  BY SumExists
<1>. HIDE DEF f
<1>2. \A s \in SUBSET (0..7) : f[s] = IF s = {} THEN 0
          ELSE Weight(i, p, SomeBit(s)) + f[s \ {SomeBit(s)}]
  BY <1>1 DEF IsSum
<1>. DEFINE T == {n \in Nat : \A s \in SUBSET (0..7) :
                   Cardinality(s) = n => f[s] = SumOf(i, p, s)}
<1>3. IsFiniteSet(0..7) /\ \A s \in SUBSET (0..7) : IsFiniteSet(s)
  <2>1. IsFiniteSet(0..7)
    <3>1. \A a, b \in Int : IsFiniteSet(a..b)
      BY FS_Interval
    <3>2. 0 \in Int /\ 7 \in Int
      OBVIOUS
    <3>. QED
      BY <3>1, <3>2, Zenon
  <2>. QED
    BY <2>1, FS_Subset
<1>4. 0 \in T
  <2>1. ASSUME NEW s \in SUBSET (0..7), Cardinality(s) = 0
        PROVE  f[s] = SumOf(i, p, s)
    <3>1. s = {}
      BY <1>3, <2>1, FS_EmptySet
    <3>2. SumOf(i, p, s) = 0
      BY <3>1 DEF SumOf
    <3>. QED
      BY <1>2, <3>1, <3>2
  <2>. QED
    BY <2>1
<1>5. ASSUME NEW n \in T PROVE n + 1 \in T
  <2>1. ASSUME NEW s \in SUBSET (0..7), Cardinality(s) = n + 1
        PROVE  f[s] = SumOf(i, p, s)
    <3>. DEFINE b == SomeBit(s)
    <3>1. s # {}
      BY <1>3, <2>1, FS_EmptySet
    <3>2. b \in s
      BY <3>1 DEF SomeBit
    <3>3. Cardinality(s \ {b}) = n
      <4>1. IsFiniteSet(s) /\ n \in Nat
        BY <1>3
      <4>2. Cardinality(s \ {b}) = Cardinality(s) - 1
        BY <3>2, <4>1, FS_RemoveElement
      <4>. QED
        BY <2>1, <4>1, <4>2
    <3>. HIDE DEF b
    <3>4. f[s \ {b}] = SumOf(i, p, s \ {b})
      BY <3>3
    <3>5. SumOf(i, p, s) = Weight(i, p, b) + SumOf(i, p, s \ {b})
      BY <3>2, SumSteps
    <3>6. f[s] = Weight(i, p, b) + f[s \ {b}]
      BY <1>2, <3>1 DEF b
    <3>. QED
      BY <3>4, <3>5, <3>6
  <2>2. n + 1 \in Nat
    OBVIOUS
  <2>. QED
    BY <2>1, <2>2
<1>6. T \in SUBSET Nat
  OBVIOUS
<1>. HIDE DEF T
<1>7. Cardinality(0..7) \in T
  BY <1>3, <1>4, <1>5, <1>6, SetInduction, FS_CardinalityType
<1>8. f[0..7] = SumOf(i, p, 0..7)
  BY <1>7 DEF T
<1>. QED
  BY <1>8, SumIs DEF f

(* The byte of a mask that has so many bits set, and as the code has it.   *)
Ones(rest) == IF rest >= 8 THEN 255 ELSE IF rest <= 0 THEN 0 ELSE (2^rest - 1) * 2^(8 - rest)

LEMMA OnesAre ==
  ASSUME NEW rest \in Int
  PROVE  /\ rest >= 8 => Ones(rest) = 255
         /\ rest <= 0 => Ones(rest) = 0
         /\ rest = 1 => Ones(rest) = 128
         /\ rest = 2 => Ones(rest) = 192
         /\ rest = 3 => Ones(rest) = 224
         /\ rest = 4 => Ones(rest) = 240
         /\ rest = 5 => Ones(rest) = 248
         /\ rest = 6 => Ones(rest) = 252
         /\ rest = 7 => Ones(rest) = 254
         /\ \/ rest >= 8 \/ rest <= 0 \/ rest = 1 \/ rest = 2 \/ rest = 3 \/ rest = 4
            \/ rest = 5 \/ rest = 6 \/ rest = 7
<1>. DEFINE code(r) == (2^r - 1) * 2^(8 - r)
<1>1. /\ code(1) = 128 /\ code(2) = 192 /\ code(3) = 224 /\ code(4) = 240
      /\ code(5) = 248 /\ code(6) = 252 /\ code(7) = 254
  <2>1. /\ 2^1 = 2 /\ 2^2 = 4 /\ 2^3 = 8 /\ 2^4 = 16 /\ 2^5 = 32 /\ 2^6 = 64 /\ 2^7 = 128
        /\ 8 - 1 = 7 /\ 8 - 2 = 6 /\ 8 - 3 = 5 /\ 8 - 4 = 4 /\ 8 - 5 = 3 /\ 8 - 6 = 2 /\ 8 - 7 = 1
    OBVIOUS
  <2>. QED
    BY <2>1
<1>2. Ones(rest) = IF rest >= 8 THEN 255 ELSE IF rest <= 0 THEN 0 ELSE code(rest)
  BY DEF Ones
<1>. HIDE DEF code
<1>. QED
  BY <1>1, <1>2

(* The bits of a byte of the mask, one by one and as the code has them.    *)
LEMMA MaskByte ==
  ASSUME NEW i \in Int, NEW p \in Int
  PROVE  MapThenSumSet(LAMBDA b : IF 8 * (i - 1) + b < p THEN 2^(7 - b) ELSE 0, 0..7)
           = Ones(p - 8 * (i - 1))
<1>. DEFINE rest == p - 8 * (i - 1)
            w(b, value) == IF b < rest THEN value ELSE 0
            sum == w(0, 128) + w(1, 64) + w(2, 32) + w(3, 16)
                     + w(4, 8) + w(5, 4) + w(6, 2) + w(7, 1)
<1>1. SumOf(i, p, 0..7) = sum
  <2>1. SumOf(i, p, 0..7) = Weight(i, p, 0) + Weight(i, p, 1) + Weight(i, p, 2) + Weight(i, p, 3)
          + Weight(i, p, 4) + Weight(i, p, 5) + Weight(i, p, 6) + Weight(i, p, 7)
    BY DEF SumOf
  <2>2. /\ Weight(i, p, 0) = w(0, 128) /\ Weight(i, p, 1) = w(1, 64)
        /\ Weight(i, p, 2) = w(2, 32) /\ Weight(i, p, 3) = w(3, 16)
        /\ Weight(i, p, 4) = w(4, 8) /\ Weight(i, p, 5) = w(5, 4)
        /\ Weight(i, p, 6) = w(6, 2) /\ Weight(i, p, 7) = w(7, 1)
    <3>1. /\ 2^(7 - 0) = 128 /\ 2^(7 - 1) = 64 /\ 2^(7 - 2) = 32 /\ 2^(7 - 3) = 16
          /\ 2^(7 - 4) = 8 /\ 2^(7 - 5) = 4 /\ 2^(7 - 6) = 2 /\ 2^(7 - 7) = 1
      OBVIOUS
    <3>2. \A b \in 0..7 : 8 * (i - 1) + b < p <=> b < rest
      OBVIOUS
    <3>. HIDE DEF rest
    <3>. QED
      BY <3>1, <3>2 DEF Weight
  <2>. QED
    BY <2>1, <2>2
<1>2. rest \in Int
  OBVIOUS
<1>. HIDE DEF rest
<1>3. /\ rest >= 8 => sum = 255
      /\ rest <= 0 => sum = 0
      /\ rest = 1 => sum = 128
      /\ rest = 2 => sum = 192
      /\ rest = 3 => sum = 224
      /\ rest = 4 => sum = 240
      /\ rest = 5 => sum = 248
      /\ rest = 6 => sum = 252
      /\ rest = 7 => sum = 254
  BY <1>2
<1>. HIDE DEF sum
<1>4. sum = Ones(rest)
  BY <1>2, <1>3, OnesAre
<1>. QED
  BY <1>1, <1>4, SumOfBits DEF rest

(* How many bits of a byte are set at its top.                             *)
Runs(byte, k) ==
    /\ byte \div 2^(8 - k) = 2^k - 1
    /\ k = 8 \/ byte \div 2^(7 - k) # 2^(k + 1) - 1

LEMMA RunsAre ==
  ASSUME NEW byte \in Nat
  PROVE  /\ Runs(byte, 0) <=> byte \div 256 = 0 /\ byte \div 128 # 1
         /\ Runs(byte, 1) <=> byte \div 128 = 1 /\ byte \div 64 # 3
         /\ Runs(byte, 2) <=> byte \div 64 = 3 /\ byte \div 32 # 7
         /\ Runs(byte, 3) <=> byte \div 32 = 7 /\ byte \div 16 # 15
         /\ Runs(byte, 4) <=> byte \div 16 = 15 /\ byte \div 8 # 31
         /\ Runs(byte, 5) <=> byte \div 8 = 31 /\ byte \div 4 # 63
         /\ Runs(byte, 6) <=> byte \div 4 = 63 /\ byte \div 2 # 127
         /\ Runs(byte, 7) <=> byte \div 2 = 127 /\ byte \div 1 # 255
         /\ Runs(byte, 8) <=> byte \div 1 = 255
<1>1. /\ 2^0 = 1 /\ 2^1 = 2 /\ 2^2 = 4 /\ 2^3 = 8 /\ 2^4 = 16 /\ 2^5 = 32 /\ 2^6 = 64
      /\ 2^7 = 128 /\ 2^8 = 256
  OBVIOUS
<1>. QED
  BY <1>1 DEF Runs

LEMMA LeadingOnesOf ==
  ASSUME NEW rest \in 0..7
  PROVE  LeadingOnes(Ones(rest)) = rest
<1>1. LeadingOnes(Ones(rest)) = CHOOSE k \in 0..8 : Runs(Ones(rest), k)
  BY DEF LeadingOnes, Runs
<1>2. Ones(rest) \in {0, 128, 192, 224, 240, 248, 252, 254}
  BY OnesAre
<1>3. \A k \in 0..8 : Runs(Ones(rest), k) <=> k = rest
  <2>. DEFINE byte == Ones(rest)
  <2>1. byte \in Nat
    BY <1>2
  <2>2. /\ rest = 0 => byte = 0
        /\ rest = 1 => byte = 128
        /\ rest = 2 => byte = 192
        /\ rest = 3 => byte = 224
        /\ rest = 4 => byte = 240
        /\ rest = 5 => byte = 248
        /\ rest = 6 => byte = 252
        /\ rest = 7 => byte = 254
    BY OnesAre
  <2>. HIDE DEF byte
  <2>3. /\ Runs(byte, 0) <=> 0 = rest
        /\ Runs(byte, 1) <=> 1 = rest
        /\ Runs(byte, 2) <=> 2 = rest
        /\ Runs(byte, 3) <=> 3 = rest
        /\ Runs(byte, 4) <=> 4 = rest
        /\ Runs(byte, 5) <=> 5 = rest
        /\ Runs(byte, 6) <=> 6 = rest
        /\ Runs(byte, 7) <=> 7 = rest
        /\ Runs(byte, 8) <=> 8 = rest
    <3>1. rest = 0 \/ rest = 1 \/ rest = 2 \/ rest = 3 \/ rest = 4 \/ rest = 5 \/ rest = 6 \/ rest = 7
      OBVIOUS
    <3>. QED
      BY <2>1, <2>2, <3>1, RunsAre
  <2>. TAKE k \in 0..8
  <2>4. k = 0 \/ k = 1 \/ k = 2 \/ k = 3 \/ k = 4 \/ k = 5 \/ k = 6 \/ k = 7 \/ k = 8
    OBVIOUS
  <2>. QED
    BY <2>3, <2>4 DEF byte
<1>4. rest \in 0..8
  OBVIOUS
<1>. HIDE DEF Runs
<1>. QED
  BY <1>1, <1>3, <1>4

(* A mask, and the length of its prefix (IPAddress.cc).                    *)
LEMMA MaskIs ==
  ASSUME NEW version, NEW p \in Int
  PROVE  /\ PrefixMask(version, p) = [i \in 1..Length(version) |-> Ones(p - 8 * (i - 1))]
         /\ PrefixMask(version, p) \in Bytes(Length(version))
         /\ PrefixMask(version, p) = MaskBits(Length(version), p)
<1>. DEFINE mask == [i \in 1..Length(version) |-> Ones(p - 8 * (i - 1))]
<1>1. PrefixMask(version, p) = mask
  BY DEF PrefixMask, Ones
<1>2. Length(version) \in Nat
  BY DEF Length
<1>3. \A i \in 1..Length(version) : Ones(p - 8 * (i - 1)) \in Byte
  <2>. TAKE i \in 1..Length(version)
  <2>1. p - 8 * (i - 1) \in Int
    BY <1>2
  <2>. QED
    BY <2>1, OnesAre DEF Byte
<1>4. mask \in Bytes(Length(version))
  BY <1>2, <1>3 DEF Bytes
<1>5. mask = MaskBits(Length(version), p)
  <2>1. \A i \in 1..Length(version) :
          MapThenSumSet(LAMBDA b : IF 8 * (i - 1) + b < p THEN 2^(7 - b) ELSE 0, 0..7)
            = Ones(p - 8 * (i - 1))
    <3>. TAKE i \in 1..Length(version)
    <3>1. i \in Int
      BY <1>2
    <3>. QED
      BY <3>1, MaskByte
  <2>. QED
    BY <2>1 DEF MaskBits
<1>. QED
  BY <1>1, <1>4, <1>5

LEMMA PrefixOfMask ==
  ASSUME NEW version, NEW p \in 0..8 * Length(version)
  PROVE  ToPrefixLen(PrefixMask(version, p)) = p
<1>. DEFINE n == Length(version)
            mask == PrefixMask(version, p)
            q == p \div 8
<1>1. n \in Nat /\ p \in Nat /\ p <= 8 * n /\ q \in Nat /\ p - 8 * q \in 0..7
  BY DEF Length
<1>2. DOMAIN mask = 1..n /\ Len(mask) = n /\ \A i \in 1..n : mask[i] = Ones(p - 8 * (i - 1))
  BY <1>1, MaskIs DEF Bytes
<1>. HIDE DEF n, mask, q
<1>3. \A i \in 1..n : mask[i] = 255 <=> p - 8 * (i - 1) >= 8
  <2>. TAKE i \in 1..n
  <2>1. p - 8 * (i - 1) \in Int
    BY <1>1
  <2>. QED
    BY <1>2, <2>1, OnesAre
<1>4. CASE p = 8 * n
  <2>1. \A i \in 1..n : p - 8 * (i - 1) >= 8
    BY <1>1, <1>4
  <2>2. \A i \in DOMAIN mask : mask[i] = 255
    BY <1>2, <1>3, <2>1
  <2>. QED
    BY <1>2, <1>4, <2>2 DEF ToPrefixLen, mask
<1>5. CASE p # 8 * n
  <2>. DEFINE First(i) == mask[i] # 255 /\ \A j \in 1..i-1 : mask[j] = 255
  <2>1. q + 1 \in 1..n /\ p - 8 * (q + 1 - 1) = p - 8 * q
    BY <1>1, <1>5
  <2>2. First(q + 1)
    <3>1. mask[q + 1] # 255
      BY <1>1, <1>3, <2>1
    <3>2. \A j \in 1..q + 1 - 1 : j \in 1..n /\ p - 8 * (j - 1) >= 8
      BY <1>1, <2>1
    <3>3. \A j \in 1..q + 1 - 1 : mask[j] = 255
      BY <1>3, <3>2
    <3>. QED
      BY <1>1, <3>1, <3>3
  <2>3. ASSUME NEW i \in 1..n, First(i) PROVE i = q + 1
    <3>1. ~(p - 8 * (i - 1) >= 8)
      BY <1>3, <2>3
    <3>2. ~(q + 1 \in 1..i-1)
      BY <2>2, <2>3
    <3>. QED
      BY <1>1, <3>1, <3>2
  <2>. DEFINE first == CHOOSE i \in DOMAIN mask : First(i)
  <2>4. first = q + 1
    <3>. HIDE DEF First
    <3>. QED
      BY <1>2, <2>1, <2>2, <2>3
  <2>5. LeadingOnes(mask[q + 1]) = p - 8 * q
    BY <1>1, <1>2, <2>1, LeadingOnesOf
  <2>6. ~(\A i \in DOMAIN mask : mask[i] = 255)
    BY <1>2, <2>1, <2>2
  <2>7. ToPrefixLen(mask) = 8 * (q + 1 - 1) + LeadingOnes(mask[q + 1])
    <3>1. ToPrefixLen(mask) = 8 * (first - 1) + LeadingOnes(mask[first])
      BY <2>6 DEF ToPrefixLen
    <3>. HIDE DEF first
    <3>. QED
      BY <1>1, <2>4, <3>1
  <2>. QED
    BY <1>1, <2>5, <2>7 DEF mask
<1>. QED
  BY <1>4, <1>5

(* An address with its mask, as one value.                                 *)
LEMMA Halves ==
  ASSUME NEW n \in {4, 16}, NEW a \in Bytes(n), NEW b \in Bytes(n)
  PROVE  /\ a \o b \in Bytes(2 * n)
         /\ SubSeq(a \o b, 1, n) = a
         /\ SubSeq(a \o b, n + 1, 2 * n) = b
         /\ SubSeq(a \o b, 1, 2 * n) = a \o b
<1>1. a \in Seq(Byte) /\ b \in Seq(Byte) /\ Len(a) = n /\ Len(b) = n /\ n \in Nat
  BY DEF Bytes
<1>2. /\ a \o b \in Seq(Byte) /\ Len(a \o b) = 2 * n
      /\ \A i \in 1..2 * n : (a \o b)[i] = IF i <= n THEN a[i] ELSE b[i - n]
  BY <1>1
<1>. DEFINE s == a \o b
<1>. HIDE DEF s
<1>3. s \in Seq(Byte) /\ Len(s) = 2 * n /\ \A i \in 1..2 * n : s[i] \in Byte
  BY <1>2, ElementOfSeq DEF s
<1>4. SubSeq(s, 1, 2 * n) = s
  BY <1>3, SubSeqFull
<1>5. SubSeq(s, 1, n) = a
  <2>1. \A i \in 1..n : i \in 1..2 * n /\ s[i] \in Byte
    BY <1>1, <1>3
  <2>2. /\ SubSeq(s, 1, n) \in Seq(Byte) /\ Len(SubSeq(s, 1, n)) = n
        /\ \A i \in 1..n : SubSeq(s, 1, n)[i] = s[i]
    BY <1>1, <1>3, <2>1
  <2>3. \A i \in 1..n : s[i] = a[i]
    BY <1>1, <1>2 DEF s
  <2>. QED
    BY <1>1, <2>2, <2>3, SeqEqual
<1>6. SubSeq(s, n + 1, 2 * n) = b
  <2>1. /\ SubSeq(s, n + 1, 2 * n) \in Seq(Byte) /\ Len(SubSeq(s, n + 1, 2 * n)) = n
        /\ \A i \in 1..n : SubSeq(s, n + 1, 2 * n)[i] = s[n + i]
    BY <1>1, <1>3
  <2>2. \A i \in 1..n : s[n + i] = b[i]
    BY <1>1, <1>2 DEF s
  <2>. QED
    BY <1>1, <2>1, <2>2, SeqEqual
<1>. QED
  BY <1>2, <1>4, <1>5, <1>6 DEF s, Bytes

(* Any TLV: what its document is, and what is read from that (TLV.cc: the  *)
(* constructors, TLV_to_BSON, value_from_BSON, the getters).               *)
Crosses(t, lengths, kept, o1, o2) ==
    LET doc == ToDocument(Make(t, o1), kept, o1)
        object == FromDocument(doc, lengths, kept, o2)
    IN doc = OnWire(t) /\ object # NULL /\ Reading(object, o2) = t

LEMMA NullIsNone ==
  /\ \A s \in Types : s # NULL
  /\ \A s \in Seq(Byte) : s # NULL
  /\ \A type \in Types, s \in Seq(Byte) : [type |-> type, value |-> s] # NULL
  BY OutboxAssumption

(* A document whose value is to be kept as it is, of the type's length.    *)
LEMMA KeptAsIs ==
  ASSUME NEW lengths, NEW type \in Types, type \in DOMAIN lengths,
         NEW v \in Bytes(lengths[type]), NEW o
  PROVE  LET t == [type |-> type, value |-> v]
         IN /\ ToDocument(t, "network", o) = t
            /\ FromDocument(t, lengths, "network", o) = t
            /\ t # NULL
<1>1. v \in Seq(Byte) /\ Len(v) = lengths[type] /\ SubSeq(v, 1, Len(v)) = v
  BY SubSeqFull DEF Bytes
<1>2. type # NULL /\ v # NULL /\ [type |-> type, value |-> v] # NULL
  BY <1>1, NullIsNone
<1>. QED
  BY <1>1, <1>2 DEF ToDocument, FromDocument, Kept, LengthOf

LEMMA AddressCrosses ==
  ASSUME NEW type \in {"IPV4", "IPV6"}, NEW o1 \in Order, NEW o2 \in Order,
         NEW a \in Bytes(Length(type)), NEW p \in 0..8 * Length(type)
  PROVE  Crosses([type |-> type, value |-> [addr |-> a, prefix |-> p]], MatchLength,
                 "network", o1, o2)
<1>. DEFINE n == Length(type)
            mask == PrefixMask(type, p)
            t == [type |-> type, value |-> [addr |-> a, prefix |-> p]]
            v == a \o mask
            object == [type |-> type, value |-> v]
<1>1. /\ n \in {4, 16} /\ (type = "IPV4" <=> n = 4) /\ (type = "IPV6" <=> n = 16)
      /\ MatchLength[type] = 2 * n /\ type \in DOMAIN MatchLength /\ type \in Types
  <2>2. CASE type = "IPV4"
    BY <2>2 DEF Length, MatchLength, Types
  <2>3. CASE type = "IPV6"
    BY <2>3 DEF Length, MatchLength, Types
  <2>. QED
    BY <2>2, <2>3
<1>2. /\ mask \in Bytes(n) /\ mask = MaskBits(n, p) /\ ToPrefixLen(mask) = p
      /\ a \in Bytes(n)
  <2>1. p \in Int
    OBVIOUS
  <2>. QED
    BY <2>1, MaskIs, PrefixOfMask
<1>3. a \in Seq(Byte) /\ Len(a) = n
  BY DEF Bytes
<1>. HIDE DEF n, mask
<1>4. Make(t, o1) = object
  <2>1. Memory(Memory(a, o1), o1) = a
    BY <1>3, MemoryFacts
  <2>. QED
    BY <2>1 DEF Make, IPTlv, FromUint32, mask
<1>5. OnWire(t) = object
  BY <1>2, <1>3 DEF OnWire
<1>6. /\ v \in Bytes(2 * n) /\ SubSeq(v, 1, n) = a /\ SubSeq(v, n + 1, 2 * n) = mask
      /\ SubSeq(v, 1, 2 * n) = v
  BY <1>1, <1>2, Halves
<1>. HIDE DEF v
<1>7. /\ ToDocument(object, "network", o1) = object
      /\ FromDocument(object, MatchLength, "network", o2) = object
      /\ object # NULL
  BY <1>1, <1>6, KeptAsIs
<1>8. Reading(object, o2) = t
  <2>1. Len(v) = 2 * n
    BY <1>6 DEF Bytes
  <2>2. IPMask(v) = mask
    <3>1. IPMask(v) = IF Len(v) = 8 THEN SubSeq(v, 5, 8) ELSE SubSeq(v, 17, 32)
      BY DEF IPMask
    <3>2. CASE n = 4
      BY <1>6, <2>1, <3>1, <3>2
    <3>3. CASE n = 16
      BY <1>6, <2>1, <3>1, <3>3
    <3>. QED
      BY <1>1, <3>2, <3>3
  <2>3. Memory(Memory(a, o2), o2) = a
    BY <1>3, MemoryFacts
  <2>4. CASE type = "IPV4"
    BY <1>1, <1>2, <1>6, <2>2, <2>3, <2>4 DEF Reading, ToUint32
  <2>5. CASE type = "IPV6"
    BY <1>1, <1>2, <1>6, <2>2, <2>5 DEF Reading
  <2>. QED
    BY <2>4, <2>5
<1>. QED
  BY <1>4, <1>5, <1>7, <1>8 DEF Crosses

LEMMA MacCrosses ==
  ASSUME NEW lengths \in Lengths, NEW o1 \in Order, NEW o2 \in Order,
         NEW type \in {"ETHERNET", "SET_ETH_SRC", "SET_ETH_DST"}, type \in DOMAIN lengths,
         NEW mac \in Bytes(lengths[type])
  PROVE  Crosses([type |-> type, value |-> mac], lengths, "network", o1, o2)
<1>. DEFINE t == [type |-> type, value |-> mac]
<1>1. type \in Types /\ type \notin {"IPV4", "IPV6"}
  BY DEF Types, MatchLength, ActionLength
<1>2. Make(t, o1) = t /\ Reading(t, o2) = t /\ OnWire(t) = t
  BY <1>1 DEF Make, MacTlv, Reading, OnWire
<1>3. /\ ToDocument(t, "network", o1) = t
      /\ FromDocument(t, lengths, "network", o2) = t
      /\ t # NULL
  BY <1>1, KeptAsIs
<1>. QED
  BY <1>2, <1>3 DEF Crosses

LEMMA NumberTlvCrosses ==
  ASSUME NEW lengths \in Lengths, NEW o1 \in Order, NEW o2 \in Order,
         NEW type \in NumberTypes(lengths), type \in Types, NEW n \in Bytes(lengths[type])
  PROVE  Crosses([type |-> type, value |-> n], lengths, "host", o1, o2)
<1>. DEFINE t == [type |-> type, value |-> n]
<1>1. type # NULL /\ n # NULL /\ n \in Seq(Byte)
  BY NullIsNone DEF Bytes
<1>2. /\ ToDocument(Make(t, o1), "host", o1) = t
      /\ Reading(FromDocument(t, lengths, "host", o2), o2) = t
  BY <1>1, NumbersReadAsSent
<1>3. OnWire(t) = t
  BY DEF OnWire, NumberTypes
<1>4. FromDocument(t, lengths, "host", o2) # NULL
  <2>. DEFINE v == SubSeq(ToHost(n, o2), 1, LengthOf(lengths, type))
  <2>1. FromDocument(t, lengths, "host", o2) = [type |-> type, value |-> v]
    BY <1>1 DEF FromDocument, Kept
  <2>2. v \in Seq(Byte)
    <3>1. Len(n) \in {0, 1, 2, 4, 8} /\ Len(n) = lengths[type] /\ type \in DOMAIN lengths
      BY NumberSizes DEF Bytes, NumberTypes
    <3>2. ToHost(n, o2) = Memory(n, o2)
      BY <1>1, <3>1, NumberCrosses
    <3>3. Memory(n, o2) \in Seq(Byte) /\ Len(Memory(n, o2)) = Len(n)
      BY <1>1, MemoryFacts
    <3>4. SubSeq(Memory(n, o2), 1, Len(n)) = Memory(n, o2)
      BY <3>3, SubSeqFull
    <3>. QED
      BY <3>1, <3>2, <3>3, <3>4 DEF LengthOf
  <2>. QED
    BY <2>1, <2>2, NullIsNone
<1>. QED
  BY <1>2, <1>3, <1>4 DEF Crosses

LEMMA MatchCrosses ==
  ASSUME NEW t \in TLVs(MatchLength), NEW o1 \in Order, NEW o2 \in Order
  PROVE  Crosses(t, MatchLength, MatchOrder(t.type), o1, o2)
<1>1. CASE t.type \in {"IPV4", "IPV6"}
  <2>1. t = [type |-> t.type, value |-> [addr |-> t.value.addr, prefix |-> t.value.prefix]]
    BY <1>1 DEF TLVs
  <2>2. t.value.addr \in Bytes(Length(t.type)) /\ t.value.prefix \in 0..8 * Length(t.type)
    <3>1. CASE t.type = "IPV4"
      BY <3>1 DEF TLVs, Length
    <3>2. CASE t.type = "IPV6"
      BY <3>2 DEF TLVs, Length
    <3>. QED
      BY <1>1, <3>1, <3>2
  <2>3. MatchOrder(t.type) = "network"
    BY <1>1 DEF MatchOrder
  <2>. QED
    BY <1>1, <2>1, <2>2, <2>3, AddressCrosses
<1>2. CASE t.type \notin {"IPV4", "IPV6"}
  <2>1. /\ t = [type |-> t.type, value |-> t.value] /\ t.type \in DOMAIN MatchLength
        /\ t.value \in Bytes(MatchLength[t.type])
    BY <1>2 DEF TLVs, Bytes
  <2>2. CASE t.type = "ETHERNET"
    <3>1. MatchOrder(t.type) = "network"
      BY <2>2 DEF MatchOrder
    <3>. QED
      BY <2>1, <2>2, <3>1, MacCrosses DEF Lengths
  <2>3. CASE t.type # "ETHERNET"
    <3>1. /\ MatchOrder(t.type) = "host" /\ t.type \in Types
          /\ t.type \in NumberTypes(MatchLength)
      BY <1>2, <2>1, <2>3 DEF MatchOrder, Types, NumberTypes, MatchLength
    <3>. QED
      BY <2>1, <3>1, NumberTlvCrosses DEF Lengths
  <2>. QED
    BY <2>2, <2>3
<1>. QED
  BY <1>1, <1>2

LEMMA ActionCrosses ==
  ASSUME NEW t \in TLVs(ActionLength), NEW o1 \in Order, NEW o2 \in Order
  PROVE  Crosses(t, ActionLength, ActionOrder(t.type), o1, o2)
<1>1. t.type \notin {"IPV4", "IPV6"} /\ t.type \in DOMAIN ActionLength
  BY DEF TLVs, ActionLength
<1>2. t = [type |-> t.type, value |-> t.value] /\ t.value \in Bytes(ActionLength[t.type])
  BY <1>1 DEF TLVs, Bytes
<1>3. CASE t.type \in {"SET_ETH_SRC", "SET_ETH_DST"}
  <2>1. ActionOrder(t.type) = "network"
    BY <1>3 DEF ActionOrder
  <2>. QED
    BY <1>1, <1>2, <1>3, <2>1, MacCrosses DEF Lengths
<1>4. CASE t.type \notin {"SET_ETH_SRC", "SET_ETH_DST"}
  <2>1. /\ ActionOrder(t.type) = "host" /\ t.type \in Types
        /\ t.type \in NumberTypes(ActionLength)
    BY <1>1, <1>4 DEF ActionOrder, Types, NumberTypes, ActionLength
  <2>. QED
    BY <1>2, <2>1, NumberTlvCrosses DEF Lengths
<1>. QED
  BY <1>3, <1>4

LEMMA OptionCrosses ==
  ASSUME NEW t \in TLVs(OptionLength), NEW o1 \in Order, NEW o2 \in Order
  PROVE  Crosses(t, OptionLength, OptionOrder(t.type), o1, o2)
<1>1. t.type \notin {"IPV4", "IPV6"} /\ t.type \in DOMAIN OptionLength
  BY DEF TLVs, OptionLength
<1>2. t = [type |-> t.type, value |-> t.value] /\ t.value \in Bytes(OptionLength[t.type])
  BY <1>1 DEF TLVs, Bytes
<1>3. /\ OptionOrder(t.type) = "host" /\ t.type \in Types
      /\ t.type \in NumberTypes(OptionLength)
  BY <1>1 DEF OptionOrder, Types, NumberTypes, OptionLength
<1>. QED
  BY <1>2, <1>3, NumberTlvCrosses DEF Lengths

(* The list of the usable TLVs is the whole list when all of them are.     *)
IsVector(g, s, n) == g = [k \in 0..n |->
    IF k = 0 THEN <<>> ELSE IF s[k] # NULL THEN Append(g[k - 1], s[k]) ELSE g[k - 1]]

LEMMA VectorExists ==
  ASSUME NEW s, NEW n \in Nat, \A i \in 1..n : s[i] # NULL
  PROVE  /\ \E g : IsVector(g, s, n)
         /\ \A g : IsVector(g, s, n) => \A k \in 0..n : g[k] = [i \in 1..k |-> s[i]]
<1>. DEFINE Firsts(k) == [i \in 1..k |-> s[i]]
            all == {s[i] : i \in 1..n}
            f == [k \in 0..n |-> Firsts(k)]
<1>1. \A k \in 0..n : Firsts(k) \in Seq(all) /\ Len(Firsts(k)) = k
  <2>. TAKE k \in 0..n
  <2>1. k \in Nat /\ \A i \in 1..k : s[i] \in all
    OBVIOUS
  <2>. HIDE DEF all
  <2>. QED
    BY <2>1
<1>2. \A k \in 1..n : Firsts(k) = Append(Firsts(k - 1), s[k])
  <2>. TAKE k \in 1..n
  <2>1. k - 1 \in 0..n /\ k \in 0..n /\ k - 1 + 1 = k /\ s[k] \in all
    OBVIOUS
  <2>. HIDE DEF all
  <2>2. /\ Firsts(k - 1) \in Seq(all) /\ Len(Firsts(k - 1)) = k - 1
        /\ Firsts(k) \in Seq(all) /\ Len(Firsts(k)) = k
    BY <1>1, <2>1
  <2>3. \A i \in 1..k - 1 : Firsts(k - 1)[i] = s[i]
    OBVIOUS
  <2>4. \A i \in 1..k : Firsts(k)[i] = s[i]
    OBVIOUS
  <2>. HIDE DEF Firsts
  <2>. DEFINE u == Append(Firsts(k - 1), s[k])
  <2>5. u \in Seq(all) /\ Len(u) = k /\ \A i \in 1..k : u[i] = s[i]
    BY <2>1, <2>2, <2>3
  <2>. HIDE DEF u
  <2>6. Firsts(k) = u
    BY <2>2, <2>4, <2>5, SeqEqual
  <2>. QED
    BY <2>6 DEF u
<1>3. Firsts(0) = <<>>
  OBVIOUS
<1>. HIDE DEF Firsts
<1>4. ASSUME NEW k \in 0..n
      PROVE  f[k] = IF k = 0 THEN <<>>
                    ELSE IF s[k] # NULL THEN Append(f[k - 1], s[k]) ELSE f[k - 1]
  <2>1. CASE k = 0
    BY <1>3, <2>1
  <2>2. CASE k # 0
    <3>1. k \in 1..n /\ k - 1 \in 0..n
      BY <2>2
    <3>. QED
      BY <1>2, <2>2, <3>1
  <2>. QED
    BY <2>1, <2>2
<1>5. IsVector(f, s, n)
  <2>1. f = [k \in 0..n |-> f[k]]
    OBVIOUS
  <2>. HIDE DEF f
  <2>. QED
    BY <1>4, <2>1 DEF IsVector
<1>6. ASSUME NEW g, IsVector(g, s, n)
      PROVE  \A k \in 0..n : g[k] = Firsts(k)
  <2>. DEFINE T == {k \in Nat : k \in 0..n => g[k] = Firsts(k)}
  <2>1. \A k \in 0..n : g[k] = IF k = 0 THEN <<>>
          ELSE IF s[k] # NULL THEN Append(g[k - 1], s[k]) ELSE g[k - 1]
    BY <1>6 DEF IsVector
  <2>2. 0 \in T
    BY <1>3, <2>1
  <2>3. ASSUME NEW k \in T PROVE k + 1 \in T
    <3>1. SUFFICES ASSUME k + 1 \in 0..n PROVE g[k + 1] = Firsts(k + 1)
      OBVIOUS
    <3>2. k \in 0..n /\ k + 1 \in 1..n /\ k + 1 # 0 /\ k + 1 - 1 = k
      BY <3>1
    <3>3. g[k] = Firsts(k) /\ s[k + 1] # NULL
      BY <3>2
    <3>4. Firsts(k + 1) = Append(Firsts(k), s[k + 1])
      BY <1>2, <3>2
    <3>. DEFINE m == k + 1
    <3>5. m \in 0..n /\ m # 0 /\ m - 1 = k /\ s[m] # NULL /\ Firsts(m) = Append(Firsts(k), s[m])
      BY <3>1, <3>2, <3>3, <3>4
    <3>. HIDE DEF m
    <3>6. g[m] = Append(g[k], s[m])
      BY <2>1, <3>5
    <3>. QED
      BY <3>3, <3>5, <3>6 DEF m
  <2>4. T \in SUBSET Nat
    OBVIOUS
  <2>. HIDE DEF T
  <2>5. T = Nat
    BY <2>2, <2>3, <2>4, SetInduction
  <2>. QED
    BY <2>5 DEF T
<1>. QED
  BY <1>5, <1>6 DEF Firsts

LEMMA AllUsable ==
  ASSUME NEW n \in Nat, NEW s, s = [i \in 1..n |-> s[i]], \A i \in 1..n : s[i] # NULL
  PROVE  Usable(s) = s
<1>1. Len(s) = n
  OBVIOUS
<1>2. Usable(s) = (CHOOSE g : IsVector(g, s, n))[n]
  BY <1>1 DEF Usable, IsVector
<1>3. IsVector(CHOOSE g : IsVector(g, s, n), s, n)
  BY VectorExists
<1>4. n \in 0..n
  OBVIOUS
<1>. QED
  BY <1>2, <1>3, <1>4, VectorExists

-------------------------------------------------------------------------------
(* Numbers as text. *)

(* Numbers as text: the digits of a number up to k, which are those of any *)
(* number.                                                                 *)
IsDigits(g, k) == g = [n \in 0..k |-> IF n < 10 THEN <<n>> ELSE Append(g[n \div 10], n % 10)]

DigitsTo(k) == CHOOSE g : IsDigits(g, k)

LEMMA Tenth ==
  ASSUME NEW n \in Nat, n >= 10
  PROVE  n \div 10 \in Nat /\ n \div 10 < n /\ n % 10 \in 0..9 /\ n = 10 * (n \div 10) + (n % 10)
  OBVIOUS

LEMMA DigitsToExist ==
  ASSUME NEW k \in Nat
  PROVE  \E g : IsDigits(g, k)
<1>. DEFINE T == {m \in Nat : \E g : IsDigits(g, m)}
<1>1. 0 \in T
  <2>1. \A n \in 0..0 : n = 0
    OBVIOUS
  <2>2. IsDigits([n \in 0..0 |-> <<n>>], 0)
    BY <2>1 DEF IsDigits
  <2>. QED
    BY <2>2
<1>2. ASSUME NEW m \in T PROVE m + 1 \in T
  <2>1. m \in Nat
    OBVIOUS
  <2>2. PICK g : IsDigits(g, m)
    OBVIOUS
  <2>. DEFINE next == m + 1
              value == IF next < 10 THEN <<next>> ELSE Append(g[next \div 10], next % 10)
              h == [n \in 0..next |-> IF n = next THEN value ELSE g[n]]
  <2>3. /\ next \in Nat /\ next \in 0..next /\ next \notin 0..m
        /\ \A n \in 0..m : n \in 0..next
        /\ \A n \in 0..next : n \in 0..m \/ n = next
        /\ \A n \in 0..next : n >= 10 => n \div 10 \in 0..m
    BY <2>1
  <2>. HIDE DEF next
  <2>4. h[next] = value /\ \A n \in 0..m : h[n] = g[n]
    BY <2>3
  <2>5. ASSUME NEW n \in 0..next
        PROVE  h[n] = IF n < 10 THEN <<n>> ELSE Append(h[n \div 10], n % 10)
    <3>1. n \in Nat
      BY <2>3
    <3>2. n >= 10 => h[n \div 10] = g[n \div 10]
      BY <2>3, <2>4
    <3>3. CASE n = next
      BY <2>4, <3>1, <3>2, <3>3
    <3>4. CASE n \in 0..m
      <4>1. g[n] = IF n < 10 THEN <<n>> ELSE Append(g[n \div 10], n % 10)
        BY <2>2, <3>4 DEF IsDigits
      <4>. QED
        BY <2>4, <3>1, <3>2, <3>4, <4>1
    <3>. QED
      BY <2>3, <3>3, <3>4
  <2>6. h = [n \in 0..next |-> h[n]]
    OBVIOUS
  <2>. HIDE DEF h
  <2>7. IsDigits(h, next)
    BY <2>5, <2>6 DEF IsDigits
  <2>. QED
    BY <2>3, <2>7 DEF next
<1>3. T \in SUBSET Nat
  OBVIOUS
<1>. HIDE DEF T
<1>4. T = Nat
  BY <1>1, <1>2, <1>3, SetInduction
<1>. QED
  BY <1>4 DEF T

LEMMA DigitsToSteps ==
  ASSUME NEW k \in Nat, NEW n \in 0..k
  PROVE  DigitsTo(k)[n] = IF n < 10 THEN <<n>> ELSE Append(DigitsTo(k)[n \div 10], n % 10)
<1>1. IsDigits(DigitsTo(k), k)
  BY DigitsToExist DEF DigitsTo
<1>. QED
  BY <1>1 DEF IsDigits

LEMMA DigitsToAgree ==
  ASSUME NEW k \in Nat, NEW n \in 0..k
  PROVE  DigitsTo(k)[n] = DigitsTo(n)[n]
<1>. DEFINE Agree(m) == \A l \in Nat : m <= l => DigitsTo(l)[m] = DigitsTo(m)[m]
            T == {m \in Nat : \A j \in 0..m : Agree(j)}
<1>1. 0 \in T
  <2>1. \A l \in Nat : DigitsTo(l)[0] = <<0>>
    <3>. TAKE l \in Nat
    <3>1. 0 \in 0..l
      OBVIOUS
    <3>2. DigitsTo(l)[0] = IF 0 < 10 THEN <<0>> ELSE Append(DigitsTo(l)[0 \div 10], 0 % 10)
      BY <3>1, DigitsToSteps, Zenon
    <3>. QED
      BY <3>2
  <2>2. \A j \in 0..0 : j = 0
    OBVIOUS
  <2>. QED
    BY <2>1, <2>2
<1>2. ASSUME NEW m \in T PROVE m + 1 \in T
  <2>1. m \in Nat /\ \A j \in 0..m : Agree(j)
    OBVIOUS
  <2>. DEFINE next == m + 1
              tenth == next \div 10
  <2>2. next \in Nat /\ (next >= 10 => tenth \in 0..m) /\ (next < 10 \/ next >= 10)
    BY <2>1
  <2>. HIDE DEF next, tenth
  <2>3. Agree(next)
    <3>. TAKE l \in Nat
    <3>. HAVE next <= l
    <3>1. next \in 0..l /\ next \in 0..next
      BY <2>2
    <3>2. /\ DigitsTo(l)[next] = IF next < 10 THEN <<next>>
                                 ELSE Append(DigitsTo(l)[tenth], next % 10)
          /\ DigitsTo(next)[next] = IF next < 10 THEN <<next>>
                                    ELSE Append(DigitsTo(next)[tenth], next % 10)
      BY <2>2, <3>1, DigitsToSteps DEF tenth
    <3>3. next >= 10 => DigitsTo(l)[tenth] = DigitsTo(next)[tenth]
      <4>1. ASSUME next >= 10 PROVE DigitsTo(l)[tenth] = DigitsTo(next)[tenth]
        <5>1. tenth \in 0..m /\ Agree(tenth)
          BY <2>1, <2>2, <4>1
        <5>2. tenth <= l /\ tenth <= next
          BY <2>1, <5>1, <3>1 DEF next
        <5>. QED
          BY <2>2, <5>1, <5>2
      <4>. QED
        BY <4>1
    <3>. QED
      BY <2>2, <3>2, <3>3
  <2>4. \A j \in 0..next : j \in 0..m \/ j = next
    BY <2>1 DEF next
  <2>. QED
    BY <2>1, <2>2, <2>3, <2>4 DEF next
<1>3. T \in SUBSET Nat
  OBVIOUS
<1>. HIDE DEF T
<1>4. T = Nat
  BY <1>1, <1>2, <1>3, SetInduction
<1>5. n \in Nat /\ n \in 0..n /\ n <= k
  OBVIOUS
<1>. QED
  BY <1>4, <1>5 DEF T

LEMMA DigitsAre ==
  ASSUME NEW n \in Nat
  PROVE  Digits[n] = IF n < 10 THEN <<n>> ELSE Append(Digits[n \div 10], n % 10)
<1>. DEFINE Is(d) == d = [m \in Nat |->
                IF m < 10 THEN <<m>> ELSE Append(d[m \div 10], m % 10)]
            all == [m \in Nat |-> DigitsTo(m)[m]]
<1>1. ASSUME NEW m \in Nat
      PROVE  all[m] = IF m < 10 THEN <<m>> ELSE Append(all[m \div 10], m % 10)
  <2>1. m \in 0..m
    OBVIOUS
  <2>2. DigitsTo(m)[m] = IF m < 10 THEN <<m>> ELSE Append(DigitsTo(m)[m \div 10], m % 10)
    BY <2>1, DigitsToSteps
  <2>3. CASE m < 10
    BY <2>2, <2>3
  <2>4. CASE m >= 10
    <3>1. m \div 10 \in 0..m /\ m \div 10 \in Nat /\ ~(m < 10)
      BY <2>4
    <3>2. DigitsTo(m)[m \div 10] = DigitsTo(m \div 10)[m \div 10]
      BY <3>1, DigitsToAgree
    <3>. QED
      BY <2>2, <3>1, <3>2
  <2>. QED
    BY <2>3, <2>4
<1>2. all = [m \in Nat |-> all[m]]
  OBVIOUS
<1>. HIDE DEF all
<1>3. Is(all)
  BY <1>1, <1>2
<1>4. Digits = CHOOSE d : Is(d)
  BY DEF Digits
<1>. HIDE DEF Is
<1>5. Is(Digits)
  BY <1>3, <1>4
<1>. QED
  BY <1>5 DEF Is

(* What the fold over the first l digits of a text is.                     *)
IsNumber(g, text, l) == g = [s \in SUBSET (1..l) |->
    IF s = {} THEN 0 ELSE 10 * g[s \ {Max(s)}] + text[Max(s)]]

LEMMA MaxIs ==
  ASSUME NEW s, NEW m \in Int, m \in s, \A x \in s : x \in Int /\ x <= m
  PROVE  Max(s) = m
<1>1. \A y \in s : m >= y
  OBVIOUS
<1>2. ASSUME NEW x \in s, \A y \in s : x >= y PROVE x = m
  BY <1>2
<1>. QED
  BY <1>1, <1>2 DEF Max

LEMMA NumberExists ==
  ASSUME NEW text, NEW l \in Nat
  PROVE  \E g : IsNumber(g, text, l)
<1>. DEFINE T == {k \in Nat : \E g : IsNumber(g, text, k)}
<1>1. 0 \in T
  <2>1. \A s \in SUBSET (1..0) : s = {}
    OBVIOUS
  <2>2. IsNumber([s \in SUBSET (1..0) |-> 0], text, 0)
    BY <2>1 DEF IsNumber
  <2>. QED
    BY <2>2
<1>2. ASSUME NEW k \in T PROVE k + 1 \in T
  <2>1. k \in Nat
    OBVIOUS
  <2>2. PICK g : IsNumber(g, text, k)
    OBVIOUS
  <2>. DEFINE next == k + 1
              h == [s \in SUBSET (1..next) |->
                      IF next \in s THEN 10 * g[s \ {next}] + text[next] ELSE g[s]]
  <2>3. /\ next \in Nat /\ next \notin 1..k /\ 1..k \subseteq 1..next
        /\ \A x \in 1..next : x = next \/ x \in 1..k
        /\ \A x \in 1..next : x \in Int /\ x <= next
    BY <2>1
  <2>. HIDE DEF next
  <2>4. /\ \A s \in SUBSET (1..next) : next \notin s => s \in SUBSET (1..k)
        /\ \A s \in SUBSET (1..k) : s \in SUBSET (1..next) /\ next \notin s
    BY <2>3
  <2>5. ASSUME NEW s \in SUBSET (1..next)
        PROVE  h[s] = IF s = {} THEN 0 ELSE 10 * h[s \ {Max(s)}] + text[Max(s)]
    <3>1. CASE next \in s
      <4>1. Max(s) = next
        BY <2>3, <3>1, MaxIs
      <4>2. s \ {next} \in SUBSET (1..next) /\ next \notin s \ {next} /\ s # {}
        BY <3>1
      <4>3. h[s \ {next}] = g[s \ {next}] /\ h[s] = 10 * g[s \ {next}] + text[next]
        BY <3>1, <4>2
      <4>. QED
        BY <4>1, <4>2, <4>3
    <3>2. CASE next \notin s
      <4>1. s \in SUBSET (1..k) /\ s \ {Max(s)} \in SUBSET (1..k)
        BY <2>4, <3>2
      <4>2. h[s] = g[s] /\ h[s \ {Max(s)}] = g[s \ {Max(s)}]
        BY <2>4, <4>1
      <4>3. g[s] = IF s = {} THEN 0 ELSE 10 * g[s \ {Max(s)}] + text[Max(s)]
        BY <2>2, <4>1 DEF IsNumber
      <4>. QED
        BY <4>2, <4>3
    <3>. QED
      BY <3>1, <3>2
  <2>6. h = [s \in SUBSET (1..next) |-> h[s]]
    OBVIOUS
  <2>. HIDE DEF h
  <2>7. IsNumber(h, text, next)
    BY <2>5, <2>6 DEF IsNumber
  <2>. QED
    BY <2>3, <2>7 DEF next
<1>3. T \in SUBSET Nat
  OBVIOUS
<1>. HIDE DEF T
<1>4. T = Nat
  BY <1>1, <1>2, <1>3, SetInduction
<1>. QED
  BY <1>4 DEF T

(* string_to reads the digits one by one.                                  *)
Reads(text, v) == v[0] = 0 /\ \A k \in 1..Len(text) : v[k] = 10 * v[k - 1] + text[k]

LEMMA NumberInReads ==
  ASSUME NEW text \in Seq(0..9)
  PROVE  \E v : Reads(text, v) /\ NumberIn(text) = v[Len(text)]
<1>. DEFINE l == Len(text)
            g == CHOOSE h : IsNumber(h, text, l)
            v == [k \in 0..l |-> g[1..k]]
<1>1. l \in Nat /\ DOMAIN text = 1..l
  OBVIOUS
<1>2. IsNumber(g, text, l)
  BY <1>1, NumberExists
<1>3. NumberIn(text) = g[1..l]
  BY <1>1 DEF NumberIn, FoldLeft, MapThenFoldSet, IsNumber
<1>. HIDE DEF l, g
<1>4. g[{}] = 0
  BY <1>2 DEF IsNumber
<1>5. ASSUME NEW k \in 1..l PROVE g[1..k] = 10 * g[1..k - 1] + text[k]
  <2>1. k \in Nat /\ 1 <= k /\ k <= l
    BY <1>1
  <2>2. (1..k) \ {k} = 1..k - 1
    BY <2>1
  <2>3. 1..k \in SUBSET (1..l) /\ k \in 1..k
    BY <1>1, <2>1
  <2>4. k \in Int /\ \A x \in 1..k : x \in Int /\ x <= k
    BY <2>1
  <2>5. Max(1..k) = k
    BY <2>3, <2>4, MaxIs
  <2>6. g[1..k] = 10 * g[(1..k) \ {Max(1..k)}] + text[Max(1..k)]
    BY <1>2, <2>3 DEF IsNumber
  <2>. QED
    BY <2>2, <2>5, <2>6
<1>6. v[0] = 0 /\ v[l] = g[1..l]
  <2>1. 0 \in 0..l /\ l \in 0..l /\ 1..0 = {}
    BY <1>1
  <2>. QED
    BY <1>4, <2>1
<1>7. \A k \in 1..l : v[k] = 10 * v[k - 1] + text[k]
  <2>1. \A k \in 1..l : k \in 0..l /\ k - 1 \in 0..l
    BY <1>1
  <2>. QED
    BY <1>5, <2>1
<1>. HIDE DEF v
<1>8. Reads(text, v)
  BY <1>6, <1>7 DEF Reads, l
<1>. QED
  BY <1>3, <1>6, <1>8 DEF l

LEMMA NumberInIs ==
  ASSUME NEW text \in Seq(0..9), NEW v, Reads(text, v)
  PROVE  NumberIn(text) = v[Len(text)]
<1>. DEFINE l == Len(text)
<1>1. PICK w : Reads(text, w) /\ NumberIn(text) = w[l]
  BY NumberInReads
<1>2. /\ v[0] = 0 /\ w[0] = 0
      /\ \A k \in 1..l : v[k] = 10 * v[k - 1] + text[k] /\ w[k] = 10 * w[k - 1] + text[k]
  BY <1>1 DEF Reads
<1>3. l \in Nat
  OBVIOUS
<1>. HIDE DEF l
<1>. DEFINE T == {k \in Nat : k <= l => w[k] = v[k]}
<1>4. 0 \in T
  BY <1>2
<1>5. ASSUME NEW k \in T PROVE k + 1 \in T
  <2>1. k \in Nat
    OBVIOUS
  <2>2. SUFFICES ASSUME k + 1 <= l PROVE w[k + 1] = v[k + 1]
    BY <2>1
  <2>3. k + 1 \in 1..l /\ k <= l /\ k + 1 - 1 = k
    BY <1>3, <2>1, <2>2
  <2>. DEFINE m == k + 1
  <2>4. m \in 1..l /\ m - 1 = k
    BY <2>3
  <2>. HIDE DEF m
  <2>5. w[m] = 10 * w[k] + text[m] /\ v[m] = 10 * v[k] + text[m]
    BY <1>2, <2>4
  <2>6. w[k] = v[k]
    BY <2>3
  <2>. QED
    BY <2>5, <2>6 DEF m
<1>6. T \in SUBSET Nat
  OBVIOUS
<1>. HIDE DEF T
<1>7. T = Nat
  BY <1>4, <1>5, <1>6, SetInduction
<1>. QED
  BY <1>1, <1>3, <1>7 DEF T, l

LEMMA NumberInAppend ==
  ASSUME NEW s \in Seq(0..9), NEW d \in 0..9
  PROVE  NumberIn(Append(s, d)) = 10 * NumberIn(s) + d
<1>. DEFINE l == Len(s)
            text == Append(s, d)
<1>1. PICK v : Reads(s, v) /\ NumberIn(s) = v[l]
  BY NumberInReads
<1>. DEFINE w == [k \in 0..l + 1 |-> IF k = l + 1 THEN 10 * v[l] + d ELSE v[k]]
<1>2. /\ l \in Nat /\ text \in Seq(0..9) /\ Len(text) = l + 1 /\ text[l + 1] = d
      /\ \A k \in 1..l : text[k] = s[k]
  OBVIOUS
<1>. HIDE DEF text
<1>3. w[0] = 0
  BY <1>1, <1>2 DEF Reads
<1>4. w[l + 1] = 10 * w[l] + d /\ w[l] = v[l] /\ l + 1 - 1 = l
  BY <1>2
<1>5. \A k \in 1..l : w[k] = 10 * w[k - 1] + text[k]
  <2>. TAKE k \in 1..l
  <2>1. k \in 0..l + 1 /\ k - 1 \in 0..l + 1 /\ k # l + 1 /\ k - 1 # l + 1
    BY <1>2
  <2>2. v[k] = 10 * v[k - 1] + s[k]
    BY <1>1 DEF Reads
  <2>. QED
    BY <1>2, <2>1, <2>2
<1>6. \A k \in 1..l + 1 : k \in 1..l \/ k = l + 1
  BY <1>2
<1>. HIDE DEF l, w
<1>7. Reads(text, w)
  <2>1. w[l + 1] = 10 * w[l + 1 - 1] + text[l + 1]
    BY <1>2, <1>4
  <2>2. \A k \in 1..Len(text) : w[k] = 10 * w[k - 1] + text[k]
    BY <1>2, <1>5, <1>6, <2>1
  <2>. QED
    BY <1>3, <2>2 DEF Reads
<1>8. NumberIn(text) = w[l + 1]
  BY <1>2, <1>7, NumberInIs
<1>. QED
  BY <1>1, <1>4, <1>8 DEF text

LEMMA NumberInDigit ==
  ASSUME NEW d \in 0..9
  PROVE  NumberIn(<<d>>) = d
<1>. DEFINE v == [k \in 0..1 |-> IF k = 0 THEN 0 ELSE d]
<1>1. <<d>> \in Seq(0..9) /\ Len(<<d>>) = 1 /\ <<d>>[1] = d
  OBVIOUS
<1>2. v[0] = 0 /\ v[1] = d /\ v[1] = 10 * v[0] + d
  OBVIOUS
<1>3. \A k \in 1..1 : k = 1 /\ k - 1 = 0
  OBVIOUS
<1>. HIDE DEF v
<1>4. \A k \in 1..1 : v[k] = 10 * v[k - 1] + <<d>>[k]
  BY <1>1, <1>2, <1>3
<1>5. Reads(<<d>>, v)
  BY <1>1, <1>2, <1>4 DEF Reads
<1>6. NumberIn(<<d>>) = v[Len(<<d>>)]
  BY <1>1, <1>5, NumberInIs
<1>. QED
  BY <1>1, <1>2, <1>6

(* A number is read from its text as it was (converter.h: to_string and    *)
(* string_to).                                                             *)
THEOREM NumbersReadFromText == \A n \in Nat : Digits[n] \in Seq(0..9) /\ NumberIn(Digits[n]) = n
<1>. DEFINE Good(n) == Digits[n] \in Seq(0..9) /\ NumberIn(Digits[n]) = n
            T == {m \in Nat : \A j \in 0..m : Good(j)}
<1>1. ASSUME NEW n \in 0..9 PROVE Good(n)
  <2>1. n \in Nat /\ n < 10
    OBVIOUS
  <2>2. Digits[n] = <<n>>
    BY <2>1, DigitsAre
  <2>. QED
    BY <2>2, NumberInDigit
<1>2. 0 \in T
  <2>1. \A j \in 0..0 : j \in 0..9
    OBVIOUS
  <2>. HIDE DEF Good
  <2>. QED
    BY <1>1, <2>1
<1>3. ASSUME NEW m \in T PROVE m + 1 \in T
  <2>1. m \in Nat /\ \A j \in 0..m : Good(j)
    OBVIOUS
  <2>. DEFINE n == m + 1
              tenth == n \div 10
              digit == n % 10
  <2>2. n \in Nat /\ \A j \in 0..n : j \in 0..m \/ j = n
    BY <2>1
  <2>3. Good(n)
    <3>1. CASE n < 10
      <4>1. n \in 0..9
        BY <2>2, <3>1
      <4>. HIDE DEF n, Good
      <4>. QED
        BY <1>1, <4>1
    <3>2. CASE n >= 10
      <4>1. tenth \in Nat /\ tenth < n /\ digit \in 0..9 /\ n = 10 * tenth + digit
        BY <2>2, <3>2, Tenth
      <4>2. tenth \in 0..m
        BY <2>1, <4>1
      <4>3. Digits[n] = Append(Digits[tenth], digit)
        <5>1. ~(n < 10)
          BY <2>2, <3>2
        <5>. HIDE DEF n
        <5>. QED
          BY <2>2, <5>1, DigitsAre
      <4>. HIDE DEF n, tenth, digit
      <4>4. Digits[tenth] \in Seq(0..9) /\ NumberIn(Digits[tenth]) = tenth
        BY <2>1, <4>2
      <4>5. NumberIn(Append(Digits[tenth], digit)) = 10 * tenth + digit
        BY <4>1, <4>4, NumberInAppend
      <4>6. Append(Digits[tenth], digit) \in Seq(0..9)
        BY <4>1, <4>4
      <4>. QED
        BY <4>1, <4>3, <4>5, <4>6
    <3>3. n < 10 \/ n >= 10
      BY <2>2
    <3>. QED
      BY <3>1, <3>2, <3>3
  <2>. HIDE DEF n, Good
  <2>4. \A j \in 0..n : Good(j)
    BY <2>1, <2>2, <2>3
  <2>. QED
    BY <2>2, <2>4 DEF n
<1>4. T \in SUBSET Nat
  OBVIOUS
<1>. HIDE DEF T
<1>5. T = Nat
  BY <1>2, <1>3, <1>4, SetInduction
<1>6. \A n \in Nat : n \in 0..n
  OBVIOUS
<1>. QED
  BY <1>5, <1>6 DEF T

-------------------------------------------------------------------------------
(* Messages. *)

LEMMA MacReadFromText ==
  ASSUME NEW mac \in Bytes(6)
  PROVE  MacFromString(MacToString(mac)) = mac
<1>1. mac \in Seq(Byte) /\ Len(mac) = 6
  BY DEF Bytes
<1>2. mac = [i \in 1..6 |-> mac[i]]
  BY <1>1
<1>3. \A i \in 1..6 : MacToString(mac)[2 * i - 1] = mac[i]
  <2>. TAKE i \in 1..6
  <2>1. 2 * i - 1 \in 1..11 /\ (2 * i - 1) % 2 = 1 /\ (2 * i - 1 + 1) \div 2 = i
    OBVIOUS
  <2>. QED
    BY <2>1 DEF MacToString
<1>. QED
  BY <1>2, <1>3 DEF MacFromString

LEMMA TypesKept ==
  ASSUME NEW t, NEW o
  PROVE  Make(t, o).type = t.type /\ OnWire(t).type = t.type
<1>1. Make(t, o).type = t.type
  <2>1. CASE t.type = "IPV4"
    BY <2>1 DEF Make, IPTlv
  <2>2. CASE t.type = "IPV6"
    BY <2>2 DEF Make, IPTlv
  <2>3. CASE t.type \in {"ETHERNET", "SET_ETH_SRC", "SET_ETH_DST"}
    BY <2>3 DEF Make, MacTlv
  <2>4. CASE t.type \notin {"IPV4", "IPV6", "ETHERNET", "SET_ETH_SRC", "SET_ETH_DST"}
    BY <2>4 DEF Make, NumberTlv
  <2>. QED
    BY <2>1, <2>2, <2>3, <2>4
<1>. QED
  BY <1>1 DEF OnWire

(* A list of TLVs on the wire.                                             *)
Wire(list) == [i \in DOMAIN list |-> OnWire(list[i])]

LEMMA MatchesCross ==
  ASSUME NEW list \in Seq(TLVs(MatchLength)), NEW o1 \in Order, NEW o2 \in Order
  PROVE  /\ MatchesToBSON(MakeAll(list, o1), o1) = Wire(list)
         /\ ReadAll(MatchesFrom(Wire(list), o2), o2) = list
<1>. DEFINE n == Len(list)
            object(i) == FromDocument(Wire(list)[i], MatchLength, MatchOrder(Wire(list)[i].type), o2)
            objects == [i \in 1..n |-> object(i)]
<1>1. n \in Nat /\ DOMAIN list = 1..n /\ \A i \in 1..n : list[i] \in TLVs(MatchLength)
  OBVIOUS
<1>2. \A i \in 1..n : Crosses(list[i], MatchLength, MatchOrder(list[i].type), o1, o2)
  BY <1>1, MatchCrosses
<1>3. DOMAIN Wire(list) = 1..n /\ \A i \in 1..n : Wire(list)[i] = OnWire(list[i])
  BY <1>1 DEF Wire
<1>4. MatchesToBSON(MakeAll(list, o1), o1) = Wire(list)
  <2>1. \A i \in 1..n : ToDocument(Make(list[i], o1), MatchOrder(Make(list[i], o1).type), o1)
                          = OnWire(list[i])
    BY <1>2, TypesKept DEF Crosses
  <2>. QED
    BY <1>1, <2>1 DEF MatchesToBSON, MakeAll, Wire
<1>5. \A i \in 1..n : object(i) # NULL /\ Reading(object(i), o2) = list[i]
  BY <1>2, <1>3, TypesKept DEF Crosses
<1>6. MatchesFrom(Wire(list), o2) = Usable(objects)
  BY <1>3 DEF MatchesFrom
<1>. HIDE DEF n, object
<1>7. Usable(objects) = objects
  BY <1>1, <1>5, AllUsable
<1>8. ReadAll(objects, o2) = [i \in 1..n |-> list[i]]
  BY <1>5 DEF ReadAll
<1>9. list = [i \in 1..n |-> list[i]]
  BY <1>1
<1>. QED
  BY <1>4, <1>6, <1>7, <1>8, <1>9

LEMMA ActionsCross ==
  ASSUME NEW list \in Seq(TLVs(ActionLength)), NEW o1 \in Order, NEW o2 \in Order
  PROVE  /\ ActionsToBSON(MakeAll(list, o1), o1) = Wire(list)
         /\ ReadAll(ActionsFrom(Wire(list), o2), o2) = list
<1>. DEFINE n == Len(list)
            object(i) == FromDocument(Wire(list)[i], ActionLength, ActionOrder(Wire(list)[i].type), o2)
            objects == [i \in 1..n |-> object(i)]
<1>1. n \in Nat /\ DOMAIN list = 1..n /\ \A i \in 1..n : list[i] \in TLVs(ActionLength)
  OBVIOUS
<1>2. \A i \in 1..n : Crosses(list[i], ActionLength, ActionOrder(list[i].type), o1, o2)
  BY <1>1, ActionCrosses
<1>3. DOMAIN Wire(list) = 1..n /\ \A i \in 1..n : Wire(list)[i] = OnWire(list[i])
  BY <1>1 DEF Wire
<1>4. ActionsToBSON(MakeAll(list, o1), o1) = Wire(list)
  <2>1. \A i \in 1..n : ToDocument(Make(list[i], o1), ActionOrder(Make(list[i], o1).type), o1)
                          = OnWire(list[i])
    BY <1>2, TypesKept DEF Crosses
  <2>. QED
    BY <1>1, <2>1 DEF ActionsToBSON, MakeAll, Wire
<1>5. \A i \in 1..n : object(i) # NULL /\ Reading(object(i), o2) = list[i]
  BY <1>2, <1>3, TypesKept DEF Crosses
<1>6. ActionsFrom(Wire(list), o2) = Usable(objects)
  BY <1>3 DEF ActionsFrom
<1>. HIDE DEF n, object
<1>7. Usable(objects) = objects
  BY <1>1, <1>5, AllUsable
<1>8. ReadAll(objects, o2) = [i \in 1..n |-> list[i]]
  BY <1>5 DEF ReadAll
<1>9. list = [i \in 1..n |-> list[i]]
  BY <1>1
<1>. QED
  BY <1>4, <1>6, <1>7, <1>8, <1>9

LEMMA OptionsCross ==
  ASSUME NEW list \in Seq(TLVs(OptionLength)), NEW o1 \in Order, NEW o2 \in Order
  PROVE  /\ OptionsToBSON(MakeAll(list, o1), o1) = Wire(list)
         /\ ReadAll(OptionsFrom(Wire(list), o2), o2) = list
<1>. DEFINE n == Len(list)
            object(i) == FromDocument(Wire(list)[i], OptionLength, OptionOrder(Wire(list)[i].type), o2)
            objects == [i \in 1..n |-> object(i)]
<1>1. n \in Nat /\ DOMAIN list = 1..n /\ \A i \in 1..n : list[i] \in TLVs(OptionLength)
  OBVIOUS
<1>2. \A i \in 1..n : Crosses(list[i], OptionLength, OptionOrder(list[i].type), o1, o2)
  BY <1>1, OptionCrosses
<1>3. DOMAIN Wire(list) = 1..n /\ \A i \in 1..n : Wire(list)[i] = OnWire(list[i])
  BY <1>1 DEF Wire
<1>4. OptionsToBSON(MakeAll(list, o1), o1) = Wire(list)
  <2>1. \A i \in 1..n : ToDocument(Make(list[i], o1), OptionOrder(Make(list[i], o1).type), o1)
                          = OnWire(list[i])
    BY <1>2, TypesKept DEF Crosses
  <2>. QED
    BY <1>1, <2>1 DEF OptionsToBSON, MakeAll, Wire
<1>5. \A i \in 1..n : object(i) # NULL /\ Reading(object(i), o2) = list[i]
  BY <1>2, <1>3, TypesKept DEF Crosses
<1>6. OptionsFrom(Wire(list), o2) = Usable(objects)
  BY <1>3 DEF OptionsFrom
<1>. HIDE DEF n, object
<1>7. Usable(objects) = objects
  BY <1>1, <1>5, AllUsable
<1>8. ReadAll(objects, o2) = [i \in 1..n |-> list[i]]
  BY <1>5 DEF ReadAll
<1>9. list = [i \in 1..n |-> list[i]]
  BY <1>1
<1>. QED
  BY <1>4, <1>6, <1>7, <1>8, <1>9

(* The class that the type of a message stands for.                        *)
LEMMA ClassOfType ==
  ASSUME NEW c \in DOMAIN MessageType
  PROVE  BuildForType(MessageType[c]) = c
<1>1. \A a \in DOMAIN MessageType : MessageType[a] = MessageType[c] => a = c
  BY DEF MessageType
<1>. HIDE DEF MessageType
<1>2. (CHOOSE a \in DOMAIN MessageType : MessageType[a] = MessageType[c]) = c
  BY <1>1
<1>. QED
  BY <1>2 DEF BuildForType

LEMMA NumbersKept ==
  ASSUME NEW c \in DOMAIN Numbers, NEW m, m = [x \in Numbers[c] \cup {"class"} |-> m[x]],
         m["class"] = c, \A f \in Numbers[c] : m[f] \in Nat
  PROVE  NumbersFromBSON(c, [f \in Numbers[c] |-> Digits[m[f]]]) = m
<1>. DEFINE d == [f \in Numbers[c] |-> Digits[m[f]]]
<1>1. \A f \in Numbers[c] : NumberIn(d[f]) = m[f]
  BY NumbersReadFromText
<1>2. "class" \notin Numbers[c]
  BY DEF Numbers, PortConfig, DatapathPortRegister, DatapathDown, VirtualPlaneMap, DataPlaneMap
<1>. HIDE DEF d
<1>3. NumbersFromBSON(c, d)
        = [f \in Numbers[c] \cup {"class"} |-> IF f = "class" THEN c ELSE NumberIn(d[f])]
  BY DEF NumbersFromBSON
<1>. QED
  BY <1>1, <1>2, <1>3 DEF d

(* What a document and the object made from it have to be.                 *)
MessageCrosses(m, o1, o2) ==
    Read(TakeFromEnvelope(PutInEnvelope(Written(m, o1), o1), o2), o2) = m

LEMMA NumbersCross ==
  ASSUME NEW m \in Meaning, m.class \in DOMAIN Numbers, NEW o1, NEW o2
  PROVE  MessageCrosses(m, o1, o2)
<1>. DEFINE c == m.class
<1>1. c \in DOMAIN Numbers /\ c \notin {"PortRegister", "RouteMod"} /\ c \in DOMAIN MessageType
  BY DEF Numbers, MessageType
<1>2. /\ m = [x \in Numbers[c] \cup {"class"} |-> m[x]]
      /\ m["class"] = c /\ \A f \in Numbers[c] : m[f] \in Nat
  <2>1. CASE m.class = "PortConfig"
    BY <2>1 DEF Meaning, RouteMods, Numbers, PortConfig
  <2>2. CASE m.class = "DatapathPortRegister"
    BY <2>2 DEF Meaning, RouteMods, Numbers, DatapathPortRegister
  <2>3. CASE m.class = "DatapathDown"
    BY <2>3 DEF Meaning, RouteMods, Numbers, DatapathDown
  <2>4. CASE m.class = "VirtualPlaneMap"
    BY <2>4 DEF Meaning, RouteMods, Numbers, VirtualPlaneMap
  <2>5. CASE m.class = "DataPlaneMap"
    BY <2>5 DEF Meaning, RouteMods, Numbers, DataPlaneMap
  <2>. QED
    BY <2>1, <2>2, <2>3, <2>4, <2>5 DEF Numbers
<1>3. Written(m, o1) = m /\ Read(m, o2) = m
  BY <1>1 DEF Written, Read
<1>4. PutInEnvelope(m, o1)
        = [type |-> MessageType[c], content |-> [f \in Numbers[c] |-> Digits[m[f]]]]
  BY <1>1 DEF PutInEnvelope, ToBSON, NumbersToBSON
<1>5. BuildForType(MessageType[c]) = c
  BY <1>1, ClassOfType
<1>6. NumbersFromBSON(c, [f \in Numbers[c] |-> Digits[m[f]]]) = m
  BY <1>1, <1>2, NumbersKept
<1>. HIDE DEF c
<1>7. TakeFromEnvelope([type |-> MessageType[c],
                        content |-> [f \in Numbers[c] |-> Digits[m[f]]]], o2) = m
  BY <1>1, <1>5, <1>6 DEF TakeFromEnvelope, FromBSON
<1>. QED
  BY <1>3, <1>4, <1>7 DEF MessageCrosses

LEMMA PortRegisterCrosses ==
  ASSUME NEW m \in Meaning, m.class = "PortRegister", NEW o1, NEW o2
  PROVE  MessageCrosses(m, o1, o2)
<1>1. /\ m = [class |-> "PortRegister", vm_id |-> m.vm_id, vm_port |-> m.vm_port,
              hwaddress |-> m.hwaddress]
      /\ m.vm_id \in Nat /\ m.vm_port \in Nat /\ m.hwaddress \in Bytes(6)
  BY DEF Meaning, RouteMods
<1>2. Written(m, o1) = m /\ Read(m, o2) = m
  BY DEF Written, Read
<1>3. PutInEnvelope(m, o1) = [type |-> MessageType["PortRegister"], content |-> PortRegisterToBSON(m)]
  BY DEF PutInEnvelope, ToBSON
<1>4. BuildForType(MessageType["PortRegister"]) = "PortRegister"
  <2>1. "PortRegister" \in DOMAIN MessageType
    BY DEF MessageType
  <2>. QED
    BY <2>1, ClassOfType
<1>5. /\ NumberIn(Digits[m.vm_id]) = m.vm_id /\ NumberIn(Digits[m.vm_port]) = m.vm_port
      /\ MacFromString(MacToString(m.hwaddress)) = m.hwaddress
  BY <1>1, NumbersReadFromText, MacReadFromText
<1>6. PortRegisterFromBSON(PortRegisterToBSON(m)) = m
  BY <1>1, <1>5 DEF PortRegisterFromBSON, PortRegisterToBSON
<1>7. TakeFromEnvelope([type |-> MessageType["PortRegister"], content |-> PortRegisterToBSON(m)], o2) = m
  BY <1>4, <1>6 DEF TakeFromEnvelope, FromBSON
<1>. QED
  BY <1>2, <1>3, <1>7 DEF MessageCrosses

LEMMA WrittenRouteMod ==
  ASSUME NEW m \in RouteMods, NEW o
  PROVE  Written(m, o) = [class |-> "RouteMod", mod |-> SentCommand[m.mod], id |-> m.id,
                  matches |-> MakeAll(m.matches, o), actions |-> MakeAll(m.actions, o),
                  options |-> MakeAll(m.options, o)]
<1>1. m = [class |-> "RouteMod", mod |-> m.mod, id |-> m.id, matches |-> m.matches,
           actions |-> m.actions, options |-> m.options]
  BY DEF RouteMods
<1>. DEFINE mod == SentCommand[m.mod]
            x == MakeAll(m.matches, o)
            y == MakeAll(m.actions, o)
            z == MakeAll(m.options, o)
            i == m.id
<1>2. Written(m, o) = [m EXCEPT !.mod = mod, !.matches = x, !.actions = y, !.options = z]
  BY <1>1 DEF Written
<1>3. \E mod0, x0, y0, z0 : m = [class |-> "RouteMod", mod |-> mod0, id |-> i, matches |-> x0,
                                 actions |-> y0, options |-> z0]
  BY <1>1, Zenon
<1>. HIDE DEF mod, x, y, z, i
<1>4. PICK mod0, x0, y0, z0 : m = [class |-> "RouteMod", mod |-> mod0, id |-> i, matches |-> x0,
                                   actions |-> y0, options |-> z0]
  BY <1>3
<1>5. PICK w : w = Written(m, o)
  OBVIOUS
<1>6. w = [m EXCEPT !.mod = mod, !.matches = x, !.actions = y, !.options = z]
  BY <1>2, <1>5
<1>7. w = [class |-> "RouteMod", mod |-> mod, id |-> i, matches |-> x, actions |-> y, options |-> z]
  BY ONLY <1>4, <1>6
<1>. QED
  BY <1>5, <1>7, Zenon DEF mod, x, y, z, i

LEMMA RouteModCrosses ==
  ASSUME NEW m \in RouteMods, NEW o1 \in Order, NEW o2 \in Order
  PROVE  /\ MessageCrosses(m, o1, o2)
         /\ LET doc == PutInEnvelope(Written(m, o1), o1).content
            IN /\ doc.matches = Wire(m.matches)
               /\ doc.actions = Wire(m.actions)
               /\ doc.options = Wire(m.options)
<1>. DEFINE w == [class |-> "RouteMod", mod |-> SentCommand[m.mod], id |-> m.id,
                  matches |-> MakeAll(m.matches, o1), actions |-> MakeAll(m.actions, o1),
                  options |-> MakeAll(m.options, o1)]
            d == [mod |-> Digits[SentCommand[m.mod]], id |-> Digits[m.id],
                  matches |-> Wire(m.matches), actions |-> Wire(m.actions),
                  options |-> Wire(m.options)]
            object == [class |-> "RouteMod", mod |-> RouteModType[m.mod], id |-> m.id,
                       matches |-> MatchesFrom(Wire(m.matches), o2),
                       actions |-> ActionsFrom(Wire(m.actions), o2),
                       options |-> OptionsFrom(Wire(m.options), o2)]
<1>1. /\ m = [class |-> "RouteMod", mod |-> m.mod, id |-> m.id, matches |-> m.matches,
              actions |-> m.actions, options |-> m.options]
      /\ m.mod \in {"add", "delete"} /\ m.id \in Nat
      /\ m.matches \in Seq(TLVs(MatchLength)) /\ m.actions \in Seq(TLVs(ActionLength))
      /\ m.options \in Seq(TLVs(OptionLength))
  BY DEF RouteMods
<1>2. Written(m, o1) = w
  BY WrittenRouteMod
<1>3. /\ MatchesToBSON(MakeAll(m.matches, o1), o1) = Wire(m.matches)
      /\ ReadAll(MatchesFrom(Wire(m.matches), o2), o2) = m.matches
      /\ ActionsToBSON(MakeAll(m.actions, o1), o1) = Wire(m.actions)
      /\ ReadAll(ActionsFrom(Wire(m.actions), o2), o2) = m.actions
      /\ OptionsToBSON(MakeAll(m.options, o1), o1) = Wire(m.options)
      /\ ReadAll(OptionsFrom(Wire(m.options), o2), o2) = m.options
  BY <1>1, MatchesCross, ActionsCross, OptionsCross
<1>4. PutInEnvelope(w, o1) = [type |-> MessageType["RouteMod"], content |-> d]
  <2>1. RouteModToBSON(w, o1) = d
    BY <1>3 DEF RouteModToBSON
  <2>. QED
    BY <2>1 DEF PutInEnvelope, ToBSON
<1>5. Uint8In(Digits[SentCommand[m.mod]]) = RouteModType[m.mod] /\ NumberIn(Digits[m.id]) = m.id
  <2>1. Digits[0] = <<0>> /\ Digits[1] = <<1>>
    <3>1. \A n \in 0..1 : n \in Nat /\ n < 10
      OBVIOUS
    <3>2. \A n \in 0..1 : Digits[n] = <<n>>
      BY <3>1, DigitsAre
    <3>. QED
      BY <3>2
  <2>2. Uint8In(Digits[SentCommand[m.mod]]) = RouteModType[m.mod]
    <3>1. CASE m.mod = "add"
      BY <2>1, <3>1 DEF SentCommand, RouteModType, Uint8In
    <3>2. CASE m.mod = "delete"
      BY <2>1, <3>2 DEF SentCommand, RouteModType, Uint8In
    <3>. QED
      BY <1>1, <3>1, <3>2
  <2>. QED
    BY <1>1, <2>2, NumbersReadFromText
<1>6. TakeFromEnvelope([type |-> MessageType["RouteMod"], content |-> d], o2) = object
  <2>1. "RouteMod" \in DOMAIN MessageType
    BY DEF MessageType
  <2>2. BuildForType(MessageType["RouteMod"]) = "RouteMod"
    BY <2>1, ClassOfType
  <2>3. RouteModFromBSON(d, o2) = object
    BY <1>5 DEF RouteModFromBSON
  <2>. HIDE DEF d, object
  <2>. QED
    BY <2>2, <2>3 DEF TakeFromEnvelope, FromBSON
<1>7. Read(object, o2) = m
  <2>1. Command(RouteModType[m.mod]) = m.mod
    <3>1. CASE m.mod = "add"
      BY <3>1 DEF Command, RouteModType
    <3>2. CASE m.mod = "delete"
      BY <3>2 DEF Command, RouteModType
    <3>. QED
      BY <1>1, <3>1, <3>2
  <2>2. Read(object, o2) = [object EXCEPT !.mod = Command(@),
                                          !.matches = ReadAll(@, o2), !.actions = ReadAll(@, o2),
                                          !.options = ReadAll(@, o2)]
    BY DEF Read
  <2>. QED
    BY <1>1, <1>3, <2>1, <2>2
<1>. HIDE DEF w, object
<1>8. MessageCrosses(m, o1, o2)
  BY <1>2, <1>4, <1>6, <1>7 DEF MessageCrosses
<1>. QED
  BY <1>2, <1>4, <1>8

(* Whatever a message says, the receiver reads it as it was sent           *)
(* (putInEnvelope, takeFromEnvelope and all that to_BSON and from_BSON do).*)
THEOREM MessagesReadAsSent ==
  ASSUME NEW m \in Meaning, NEW o1 \in Order, NEW o2 \in Order
  PROVE  MessageCrosses(m, o1, o2)
<1>1. CASE m.class = "RouteMod"
  <2>1. m \in RouteMods
    BY <1>1 DEF Meaning
  <2>. QED
    BY <2>1, RouteModCrosses
<1>2. CASE m.class # "RouteMod"
  <2>1. m.class = "PortRegister" \/ m.class \in DOMAIN Numbers
    BY <1>2 DEF Meaning, RouteMods, Numbers
  <2>. QED
    BY <2>1, PortRegisterCrosses, NumbersCross
<1>. QED
  BY <1>1, <1>2

-------------------------------------------------------------------------------
(* What the messages of the channel say. *)

(* The n-th envelope holds what the n-th message says, as its sender's     *)
(* host writes it.                                                         *)
Envelopes ==
    /\ said \in Seq(Meaning) /\ Len(said) = count
    /\ posted = [n \in 1..count |-> posted[n]]
    /\ \A n \in 1..count : \E o \in Order : posted[n] = PutInEnvelope(Written(said[n], o), o)

ReadInv ==
    /\ Envelopes
    /\ got = [r \in Receiver |-> got[r]]
    /\ \A r \in Receiver : last[r] # 0 => last[r] \in 1..count
    /\ ReadAsSent

SayInv == OrderInv /\ ReadInv

LEMMA HostOrders ==
  ASSUME NEW r \in Receiver
  PROVE  HostOrder[r] \in Order /\ HostOrder[Peer(r)] \in Order
<1>1. \E s \in Receiver : s # r
  <2>1. SUFFICES ASSUME Receiver = {r} PROVE FALSE
    OBVIOUS
  <2>2. Cardinality({r}) = 1
    BY FS_Singleton
  <2>. QED
    BY <2>1, <2>2, MessageAssumption
<1>2. Peer(r) \in Receiver
  BY <1>1 DEF Peer
<1>. QED
  BY <1>2, MessageAssumption

LEMMA PostSays ==
  ASSUME SayInv, NEW r \in Receiver, Post(r)
  PROVE  ReadInv'
<1>. DEFINE o == HostOrder[Peer(r)]
<1>1. PICK m \in Outbox[r][count'] :
        /\ said' = Append(said, m)
        /\ posted' = Append(posted, PutInEnvelope(Written(m, o), o))
  BY DEF Post
<1>2. count' = count + 1 /\ count \in Nat /\ count' \in 1..MaxSends /\ last' = last /\ got' = got
  <2>1. count' = count + 1 /\ count < MaxSends /\ last' = last /\ got' = got
    BY DEF Post, Send, SendLost
  <2>2. count \in Nat /\ MaxSends \in Nat
    BY OrderTypes, ChannelAssumption DEF SayInv
  <2>. QED
    BY <2>1, <2>2
<1>3. m \in Meaning /\ o \in Order
  BY <1>2, OutboxAssumption, HostOrders
<1>. DEFINE e == PutInEnvelope(Written(m, o), o)
<1>4. /\ said \in Seq(Meaning) /\ Len(said) = count
      /\ posted = [n \in 1..count |-> posted[n]]
      /\ \A n \in 1..count : \E p \in Order : posted[n] = PutInEnvelope(Written(said[n], p), p)
  BY DEF SayInv, ReadInv, Envelopes
<1>. HIDE DEF o
<1>5. /\ said' \in Seq(Meaning) /\ Len(said') = count + 1 /\ said'[count + 1] = m
      /\ \A n \in 1..count : said'[n] = said[n]
  BY <1>1, <1>2, <1>3, <1>4
<1>6. /\ posted' = [n \in 1..count + 1 |-> posted'[n]] /\ posted'[count + 1] = e
      /\ \A n \in 1..count : posted'[n] = posted[n]
  <2>. DEFINE values == {posted[n] : n \in 1..count} \cup {e}
  <2>1. posted \in Seq(values) /\ Len(posted) = count /\ e \in values
    BY <1>2, <1>4
  <2>2. posted' = Append(posted, e)
    BY <1>1
  <2>. HIDE DEF values, e
  <2>3. /\ posted' \in Seq(values) /\ Len(posted') = count + 1
        /\ \A n \in 1..count : posted'[n] = posted[n]
        /\ posted'[count + 1] = e
    BY <1>2, <2>1, <2>2
  <2>4. posted' = [n \in 1..Len(posted') |-> posted'[n]]
    BY <2>3
  <2>. QED
    BY <2>3, <2>4
<1>7. \A n \in 1..count + 1 : n \in 1..count \/ n = count + 1
  BY <1>2
<1>8. Envelopes'
  <2>1. ASSUME NEW n \in 1..count + 1
        PROVE  \E p \in Order : posted'[n] = PutInEnvelope(Written(said'[n], p), p)
    <3>1. CASE n \in 1..count
      BY <1>4, <1>5, <1>6, <3>1
    <3>2. CASE n = count + 1
      BY <1>3, <1>5, <1>6, <3>2
    <3>. QED
      BY <1>7, <3>1, <3>2
  <2>. QED
    BY <1>2, <1>5, <1>6, <2>1 DEF Envelopes
<1>9. \A s \in Receiver : last[s] # 0 =>
        last[s] \in 1..count /\ Read(got[s], HostOrder[s]) = said[last[s]]
  BY DEF SayInv, ReadInv, ReadAsSent
<1>10. \A s \in Receiver : last[s] # 0 =>
         last[s] \in 1..count + 1 /\ Read(got[s], HostOrder[s]) = said'[last[s]]
  BY <1>2, <1>5, <1>9
<1>11. got = [s \in Receiver |-> got[s]]
  BY DEF SayInv, ReadInv
<1>12. /\ got' = [s \in Receiver |-> got'[s]]
       /\ \A s \in Receiver : last'[s] # 0 =>
            last'[s] \in 1..count' /\ Read(got'[s], HostOrder[s]) = said'[last'[s]]
  BY <1>2, <1>10, <1>11
<1>. QED
  BY <1>8, <1>12 DEF ReadInv, ReadAsSent

LEMMA TakeSays ==
  ASSUME SayInv, NEW r \in Receiver, Take(r)
  PROVE  ReadInv'
<1>. DEFINE id == Head(listener[r].batch).id
<1>1. /\ last' = [last EXCEPT ![r] = id] /\ UNCHANGED <<count, said, posted>>
      /\ got' = [got EXCEPT ![r] = TakeFromEnvelope(posted[id], HostOrder[r])]
      /\ listener[r].pc = "process"
  BY DEF Take, Process
<1>2. id \in 1..count
  <2>1. Head(listener[r].batch) = listener[r].batch[1] /\ 1 \in DOMAIN listener[r].batch
    BY <1>1, OrderTypes DEF SayInv
  <2>2. listener[r].batch[1].id \in Nat /\ listener[r].batch[1].id # 0 /\ count \in Nat
    BY <2>1, OrderTypes DEF SayInv
  <2>3. listener[r].batch[1].id <= count
    BY <2>1 DEF SayInv, OrderInv, Ordered
  <2>. QED
    BY <2>1, <2>2, <2>3
<1>. HIDE DEF id
<1>3. PICK o \in Order : posted[id] = PutInEnvelope(Written(said[id], o), o)
  BY <1>2 DEF SayInv, ReadInv, Envelopes
<1>4. said[id] \in Meaning
  BY <1>2 DEF SayInv, ReadInv, Envelopes
<1>5. Read(TakeFromEnvelope(posted[id], HostOrder[r]), HostOrder[r]) = said[id]
  BY <1>3, <1>4, HostOrders, MessagesReadAsSent DEF MessageCrosses
<1>6. Envelopes'
  BY <1>1 DEF SayInv, ReadInv, Envelopes
<1>7. last = [s \in Receiver |-> last[s]]
  BY DEF SayInv, OrderInv, ChannelInv, Shape
<1>8. got = [s \in Receiver |-> got[s]]
  BY DEF SayInv, ReadInv
<1>. QED
  BY <1>1, <1>2, <1>5, <1>6, <1>7, <1>8 DEF SayInv, ReadInv, ReadAsSent

LEMMA OthersSay ==
  ASSUME SayInv, UNCHANGED <<count, last, said, posted, got>>
  PROVE  ReadInv'
  BY DEF SayInv, ReadInv, Envelopes, ReadAsSent

LEMMA NextSays ==
  ASSUME SayInv, [MessageNext]_mvars
  PROVE  ReadInv'
<1>1. ASSUME NEW r \in Receiver, Post(r) PROVE ReadInv'
  BY <1>1, PostSays
<1>2. ASSUME NEW r \in Receiver, Take(r) PROVE ReadInv'
  BY <1>2, TakeSays
<1>3. ASSUME NEW r \in Receiver, ListenerStep(r) PROVE ReadInv'
  BY <1>3, OthersSay DEF ListenerStep, Fetch, Mark, Crash
<1>4. CASE UNCHANGED mvars
  BY <1>4, OthersSay DEF mvars, cvars
<1>. QED
  BY <1>1, <1>2, <1>3, <1>4 DEF MessageNext

LEMMA InitSays == MessageInit => ReadInv
<1>. SUFFICES ASSUME MessageInit PROVE ReadInv
  OBVIOUS
<1>1. /\ said = <<>> /\ posted = <<>> /\ count = 0 /\ \A r \in Receiver : last[r] = 0
      /\ got = [r \in Receiver |-> NULL]
  BY DEF MessageInit, Init
<1>2. /\ <<>> \in Seq(Meaning) /\ Len(<<>>) = 0 /\ <<>> = [n \in 1..0 |-> <<>>[n]]
      /\ \A n \in 1..0 : FALSE
  OBVIOUS
<1>. QED
  BY <1>1, <1>2 DEF ReadInv, Envelopes, ReadAsSent

THEOREM SayInductive == MessageSpec => []SayInv
<1>1. MessageInit => ReadInv
  BY InitSays
<1>2. OrderInv /\ ReadInv /\ [MessageNext]_mvars => ReadInv'
  BY NextSays DEF SayInv
<1>3. OrderInv /\ ReadInv => SayInv
  BY DEF SayInv
<1>. QED
  BY OrderInductive, <1>1, <1>2, <1>3, PTL DEF MessageSpec

(* What a receiver reads from the message it processed last is what the    *)
(* sender said in it, whatever the byte orders of the two hosts.           *)
THEOREM SentIsRead == MessageSpec => []ReadAsSent
<1>1. SayInv => ReadAsSent
  BY DEF SayInv, ReadInv
<1>. QED
  BY SayInductive, <1>1, PTL

(* TLV.cc:158 is right: every number of the message sent last, and every   *)
(* address with its mask, is in network byte order in its document,        *)
(* whatever the sender's host.                                             *)
THEOREM WireIsNetworkOrder == MessageSpec => []NetworkOrder
<1>1. SayInv => NetworkOrder
  <2>. SUFFICES ASSUME SayInv, said # <<>>, Last(said).class = "RouteMod"
                PROVE  LET doc == Last(posted).content
                       IN /\ doc.matches = Wire(Last(said).matches)
                          /\ doc.actions = Wire(Last(said).actions)
                          /\ doc.options = Wire(Last(said).options)
    BY DEF NetworkOrder, Wire
  <2>1. /\ said \in Seq(Meaning) /\ Len(said) = count /\ count \in Nat
        /\ posted = [n \in 1..count |-> posted[n]]
        /\ \A n \in 1..count : \E o \in Order : posted[n] = PutInEnvelope(Written(said[n], o), o)
    BY OrderTypes DEF SayInv, ReadInv, Envelopes
  <2>2. count \in 1..count /\ Last(said) = said[count] /\ Len(posted) = count
    BY <2>1 DEF Last
  <2>3. Last(posted) = posted[count]
    BY <2>2 DEF Last
  <2>4. said[count] \in Meaning
    BY <2>1, <2>2
  <2>5. said[count] \in RouteMods
    BY <2>2, <2>4 DEF Meaning
  <2>6. PICK o \in Order : posted[count] = PutInEnvelope(Written(said[count], o), o)
    BY <2>1, <2>2
  <2>. QED
    BY <2>2, <2>3, <2>5, <2>6, RouteModCrosses
<1>. QED
  BY SayInductive, <1>1, PTL
===============================================================================
