--------------------------- MODULE WasmerWorker_proofs ---------------------------
(***************************************************************************)
(* Proofs about the start of a worker, for any number of messages: the     *)
(* messages are numbered in the order they were posted, and each queue     *)
(* holds an interval of the numbers.                                       *)
(***************************************************************************)
EXTENDS WasmerWorker, SequenceTheorems, TLAPS

\* How many messages were dispatched, and how many of those that were put aside
\* have left the loop's list.
Got == posted - Len(inbox)

Out == Len(buffered) - Len(drain)

\* What waits in each queue.
QueuesOK ==
    /\ posted \in Nat
    /\ inbox \in Seq(Nat) /\ buffered \in Seq(Nat) /\ drain \in Seq(Nat)
    /\ pending \in Seq(Nat) /\ handled \in Seq(Nat)
    /\ Len(inbox) <= posted /\ \A i \in 1 .. Len(inbox) : inbox[i] = Got + i
    /\ Len(buffered) <= Got /\ \A i \in 1 .. Len(buffered) : buffered[i] = i
    /\ Len(drain) <= Len(buffered) /\ \A i \in 1 .. Len(drain) : drain[i] = Out + i

\* Before worker is set everything that was dispatched was put aside, afterwards
\* nothing waits in the list.
PhaseOK ==
    /\ worker \in BOOLEAN
    /\ ~worker => /\ start \in {"importing", "instantiating", "broken"}
                  /\ pending = buffered /\ Len(buffered) = Got
                  /\ drain = <<>> /\ handled = <<>>
    /\ worker => start \in {"draining", "started", "failed"} /\ pending = <<>>
    /\ \A m \in busy : \E i \in 1 .. Len(handled) : handled[i] = m

\* The messages that may have been handled: those that left the list, and those
\* that were dispatched after worker was set.
Due == (1 .. Out) \cup (Len(buffered) + 1 .. Got)

HandledOK ==
    /\ IsInjective(handled)
    /\ \A i \in 1 .. Len(handled) : handled[i] \in Due
    /\ worker /\ start # "failed" =>
           \A m \in Due : \E i \in 1 .. Len(handled) : handled[i] = m

\* The inductive invariant.
IInv == QueuesOK /\ PhaseOK /\ HandledOK /\ BufferedInOrder

----------------------------------------------------------------------------------
(* Sequences.                                                                *)

\* A sequence that is appended to, and one that loses its head.
LEMMA AppendFacts ==
    ASSUME NEW s \in Seq(Nat), NEW e \in Nat
    PROVE  /\ Append(s, e) \in Seq(Nat) /\ Len(Append(s, e)) = Len(s) + 1
           /\ \A i \in 1 .. Len(s) : Append(s, e)[i] = s[i]
           /\ Append(s, e)[Len(s) + 1] = e
  BY AppendProperties

LEMMA TailFacts ==
    ASSUME NEW s \in Seq(Nat), s # <<>>
    PROVE  /\ Head(s) = s[1] /\ Head(s) \in Nat
           /\ Tail(s) \in Seq(Nat) /\ Len(Tail(s)) = Len(s) - 1 /\ Len(s) >= 1
           /\ \A i \in 1 .. Len(s) - 1 : Tail(s)[i] = s[i + 1]
  OBVIOUS

LEMMA LenNat ==
    ASSUME NEW s \in Seq(Nat)
    PROVE  /\ Len(s) \in Nat /\ DOMAIN s = 1 .. Len(s)
           /\ \A i \in 1 .. Len(s) : s[i] \in Nat
  OBVIOUS

\* One more element keeps a sequence injective if it is a new one.
LEMMA AppendInjects ==
    ASSUME NEW s \in Seq(Nat), NEW e \in Nat, IsInjective(s),
           \A i \in 1 .. Len(s) : s[i] # e
    PROVE  IsInjective(Append(s, e))
<1>1. DOMAIN Append(s, e) = 1 .. Len(s) + 1 /\ DOMAIN s = 1 .. Len(s)
  BY AppendFacts, LenNat
<1> SUFFICES ASSUME NEW a \in 1 .. Len(s) + 1, NEW b \in 1 .. Len(s) + 1,
                    Append(s, e)[a] = Append(s, e)[b]
             PROVE  a = b
  BY <1>1 DEF IsInjective
<1>2. a \in 1 .. Len(s) \/ a = Len(s) + 1
  BY LenNat
<1>3. b \in 1 .. Len(s) \/ b = Len(s) + 1
  BY LenNat
<1> QED BY <1>1, <1>2, <1>3, AppendFacts DEF IsInjective

\* Two injective sequences without a common element form an injective one.
LEMMA ConcatInjects ==
    ASSUME NEW s \in Seq(Nat), NEW u \in Seq(Nat), IsInjective(s), IsInjective(u),
           Range(s) \cap Range(u) = {}
    PROVE  IsInjective(s \o u)
<1>1. /\ s \o u \in Seq(Nat) /\ Len(s \o u) = Len(s) + Len(u)
      /\ \A i \in 1 .. Len(s) + Len(u) :
             (s \o u)[i] = IF i <= Len(s) THEN s[i] ELSE u[i - Len(s)]
  BY ConcatProperties
<1>2. /\ DOMAIN (s \o u) = 1 .. Len(s) + Len(u)
      /\ DOMAIN s = 1 .. Len(s) /\ DOMAIN u = 1 .. Len(u)
      /\ Len(s) \in Nat /\ Len(u) \in Nat
  BY <1>1, LenNat
<1>3. \A i \in 1 .. Len(s), k \in 1 .. Len(u) : s[i] # u[k]
  BY <1>2 DEF Range
<1> SUFFICES ASSUME NEW a \in 1 .. Len(s) + Len(u), NEW b \in 1 .. Len(s) + Len(u),
                    (s \o u)[a] = (s \o u)[b]
             PROVE  a = b
  BY <1>2 DEF IsInjective
<1>4. a \in 1 .. Len(s) \/ (a - Len(s) \in 1 .. Len(u) /\ ~(a <= Len(s)))
  BY <1>2
<1>5. b \in 1 .. Len(s) \/ (b - Len(s) \in 1 .. Len(u) /\ ~(b <= Len(s)))
  BY <1>2
<1>6. CASE a <= Len(s) /\ b <= Len(s)
  BY <1>1, <1>2, <1>4, <1>5, <1>6 DEF IsInjective
<1>7. CASE a <= Len(s) /\ ~(b <= Len(s))
  BY <1>1, <1>2, <1>3, <1>4, <1>5, <1>7
<1>8. CASE ~(a <= Len(s)) /\ b <= Len(s)
  BY <1>1, <1>2, <1>3, <1>4, <1>5, <1>8
<1>9. CASE ~(a <= Len(s)) /\ ~(b <= Len(s))
  <2>1. u[a - Len(s)] = u[b - Len(s)]
    BY <1>1, <1>9
  <2>2. a - Len(s) \in DOMAIN u /\ b - Len(s) \in DOMAIN u
    BY <1>2, <1>4, <1>5, <1>9
  <2>3. ASSUME NEW p \in DOMAIN u, NEW q \in DOMAIN u, u[p] = u[q] PROVE p = q
    BY <2>3 DEF IsInjective
  <2>4. a - Len(s) = b - Len(s)
    BY <2>1, <2>2, <2>3
  <2> QED BY <1>2, <2>4
<1> QED BY <1>6, <1>7, <1>8, <1>9

\* A sequence of consecutive numbers.
LEMMA Interval ==
    ASSUME NEW s \in Seq(Nat), NEW o \in Nat, \A i \in 1 .. Len(s) : s[i] = o + i
    PROVE  IsInjective(s) /\ Range(s) = o + 1 .. o + Len(s)
<1>1. IsInjective(s)
  <2>1. \A a, b \in 1 .. Len(s) : s[a] = s[b] => a = b
    BY LenNat
  <2> QED BY <2>1, LenNat DEF IsInjective
<1>2. Range(s) \subseteq o + 1 .. o + Len(s)
  BY LenNat DEF Range
<1>3. ASSUME NEW m \in o + 1 .. o + Len(s) PROVE m \in Range(s)
  <2>1. m - o \in 1 .. Len(s) /\ s[m - o] = m
    BY LenNat
  <2> QED BY <2>1, LenNat DEF Range
<1> QED BY <1>1, <1>2, <1>3

----------------------------------------------------------------------------------
(* Every step keeps the invariant.                                           *)

LEMMA InitHolds == Init => IInv
<1> SUFFICES ASSUME Init PROVE IInv
  OBVIOUS
<1> USE DEF Init
<1>1. QueuesOK
  BY DEF QueuesOK, Got, Out
<1>2. PhaseOK
  <2>1. Len(<<>>) = 0
    OBVIOUS
  <2>2. posted = 0 /\ inbox = <<>> /\ buffered = <<>>
    OBVIOUS
  <2>3. Len(inbox) = 0 /\ Len(buffered) = 0 /\ posted = 0
    BY ONLY <2>1, <2>2
  <2>4. Got = 0
    BY ONLY <2>3 DEF Got
  <2> QED BY <2>3, <2>4 DEF PhaseOK
<1>3. HandledOK
  BY DEF HandledOK, IsInjective, Due
<1>4. BufferedInOrder
  BY DEF BufferedInOrder
<1> QED BY <1>1, <1>2, <1>3, <1>4 DEF IInv

LEMMA PostKeeps == IInv /\ Post => IInv'
<1> SUFFICES ASSUME IInv, Post PROVE IInv'
  OBVIOUS
<1> USE DEF IInv, Post
<1>1. /\ posted \in Nat /\ Len(inbox) \in Nat /\ Len(inbox) <= posted
      /\ inbox \in Seq(Nat) /\ posted + 1 \in Nat
  BY LenNat DEF QueuesOK
<1>2. Got' = Got /\ Out' = Out
  BY <1>1, AppendFacts DEF Got, Out
<1>3. QueuesOK'
  <2>1. inbox' \in Seq(Nat) /\ Len(inbox') = Len(inbox) + 1
    BY <1>1, AppendFacts
  <2>2. \A i \in 1 .. Len(inbox') : inbox'[i] = Got' + i
    <3> TAKE i \in 1 .. Len(inbox')
    <3>1. CASE i \in 1 .. Len(inbox)
      BY <1>1, <1>2, <3>1, AppendFacts DEF QueuesOK
    <3>2. CASE i = Len(inbox) + 1
      BY <1>1, <1>2, <3>2, AppendFacts DEF Got
    <3> QED BY <1>1, <2>1, <3>1, <3>2
  <2>3. posted' \in Nat /\ Len(inbox') <= posted'
    BY <1>1, <2>1
  <2> QED BY <1>2, <2>1, <2>2, <2>3 DEF QueuesOK
<1>4. PhaseOK'
  BY <1>2 DEF PhaseOK
<1>5. HandledOK'
  BY <1>2 DEF HandledOK, Due
<1>6. BufferedInOrder'
  BY DEF BufferedInOrder
<1> QED BY <1>3, <1>4, <1>5, <1>6

\* What handling a message that is due and was not handled changes.
LEMMA HandleFacts ==
    ASSUME NEW m \in Nat, QueuesOK, Handle(m), IsInjective(handled),
           \A x \in busy : \E i \in 1 .. Len(handled) : handled[i] = x,
           \A i \in 1 .. Len(handled) : handled[i] # m
    PROVE  /\ handled' \in Seq(Nat) /\ Len(handled') = Len(handled) + 1
           /\ \A i \in 1 .. Len(handled) : handled'[i] = handled[i]
           /\ handled'[Len(handled) + 1] = m
           /\ IsInjective(handled')
           /\ \A x \in busy' : \E i \in 1 .. Len(handled') : handled'[i] = x
<1> USE DEF Handle
<1>1. handled \in Seq(Nat) /\ Len(handled) \in Nat
  BY LenNat DEF QueuesOK
<1>2. /\ handled' \in Seq(Nat) /\ Len(handled') = Len(handled) + 1
      /\ \A i \in 1 .. Len(handled) : handled'[i] = handled[i]
      /\ handled'[Len(handled) + 1] = m
  BY <1>1, AppendFacts
<1>3. IsInjective(handled')
  BY <1>1, AppendInjects
<1>4. ASSUME NEW x \in busy' PROVE \E i \in 1 .. Len(handled') : handled'[i] = x
  <2>1. CASE x = m
    BY <1>1, <1>2, <2>1
  <2>2. CASE x \in busy
    <3>1. PICK i \in 1 .. Len(handled) : handled[i] = x
      BY <2>2
    <3>2. i \in 1 .. Len(handled')
      BY <1>1, <1>2
    <3> QED BY <1>2, <3>1, <3>2
  <2> QED BY <2>1, <2>2
<1> QED BY <1>2, <1>3, <1>4

\* A message is put aside.
LEMMA PutAsideKeeps == IInv /\ Receive /\ ~worker => IInv'
<1> SUFFICES ASSUME IInv, Receive, ~worker PROVE IInv'
  OBVIOUS
<1> USE DEF IInv
<1>0. /\ inbox' = Tail(inbox) /\ pending' = Append(pending, Head(inbox))
      /\ buffered' = Append(buffered, Head(inbox))
      /\ UNCHANGED <<busy, handled, posted, start, worker, drain>>
  BY DEF Receive
<1>1. /\ posted \in Nat /\ inbox \in Seq(Nat) /\ inbox # <<>>
      /\ buffered \in Seq(Nat) /\ Len(buffered) \in Nat /\ Len(inbox) \in Nat
  BY LenNat DEF QueuesOK, Receive
<1>2. /\ start \in {"importing", "instantiating", "broken"} /\ pending = buffered
      /\ Len(buffered) = Got /\ drain = <<>> /\ handled = <<>>
  BY DEF PhaseOK
<1>3. /\ Head(inbox) = Got + 1 /\ Head(inbox) \in Nat
      /\ inbox' \in Seq(Nat) /\ Len(inbox') = Len(inbox) - 1
      /\ \A i \in 1 .. Len(inbox) - 1 : inbox'[i] = inbox[i + 1]
  BY <1>0, <1>1, TailFacts DEF QueuesOK
<1>4. Got' = Got + 1 /\ Got \in Nat
  BY <1>0, <1>1, <1>3 DEF Got, QueuesOK
<1>5. /\ buffered' \in Seq(Nat) /\ Len(buffered') = Len(buffered) + 1
      /\ \A i \in 1 .. Len(buffered) : buffered'[i] = buffered[i]
      /\ buffered'[Len(buffered) + 1] = Head(inbox)
  BY <1>0, <1>1, <1>3, AppendFacts
<1>6. QueuesOK'
  <2>1. \A i \in 1 .. Len(inbox') : inbox'[i] = Got' + i
    BY <1>1, <1>3, <1>4 DEF QueuesOK
  <2>2. \A i \in 1 .. Len(buffered') : buffered'[i] = i
    <3> TAKE i \in 1 .. Len(buffered')
    <3>1. CASE i \in 1 .. Len(buffered)
      BY <1>5, <3>1 DEF QueuesOK
    <3>2. CASE i = Len(buffered) + 1
      BY <1>2, <1>3, <1>5, <3>2
    <3> QED BY <1>1, <1>5, <3>1, <3>2
  <2>3. Len(inbox') <= posted' /\ Len(buffered') <= Got'
    BY <1>0, <1>1, <1>2, <1>3, <1>4, <1>5 DEF QueuesOK
  <2>4. drain' = <<>> /\ pending' \in Seq(Nat) /\ handled' \in Seq(Nat)
    BY <1>0, <1>1, <1>2, <1>5 DEF QueuesOK
  <2> QED BY <1>0, <1>1, <1>3, <1>5, <2>1, <2>2, <2>3, <2>4 DEF QueuesOK
<1>7. PhaseOK'
  BY <1>0, <1>2, <1>4, <1>5 DEF PhaseOK
<1>8. HandledOK' /\ BufferedInOrder'
  BY <1>0, <1>2 DEF HandledOK, BufferedInOrder, IsInjective
<1> QED BY <1>6, <1>7, <1>8

\* A message is handled as it arrives.
LEMMA AtOnceKeeps == IInv /\ Receive /\ worker => IInv'
<1> SUFFICES ASSUME IInv, Receive, worker PROVE IInv'
  OBVIOUS
<1> USE DEF IInv
<1>0. /\ inbox' = Tail(inbox) /\ Handle(Head(inbox))
      /\ UNCHANGED <<pending, buffered, posted, start, worker, drain>>
  BY DEF Receive
<1>1. /\ posted \in Nat /\ inbox \in Seq(Nat) /\ inbox # <<>> /\ handled \in Seq(Nat)
      /\ Len(handled) \in Nat /\ Len(buffered) \in Nat /\ Len(inbox) \in Nat /\ Len(drain) \in Nat
      /\ Len(buffered) <= Got /\ Len(drain) <= Len(buffered)
  BY LenNat DEF QueuesOK, Receive
<1> DEFINE m == Head(inbox)
<1>m. Handle(m)
  BY <1>0
<1>2. /\ m = Got + 1 /\ m \in Nat
      /\ inbox' \in Seq(Nat) /\ Len(inbox') = Len(inbox) - 1
      /\ \A i \in 1 .. Len(inbox) - 1 : inbox'[i] = inbox[i + 1]
  BY <1>0, <1>1, TailFacts DEF QueuesOK
<1>3. Got' = Got + 1 /\ Got \in Nat /\ Out' = Out /\ Out \in Nat /\ Out <= Len(buffered)
  BY <1>1, <1>2, <1>0 DEF Got, Out, QueuesOK
<1> HIDE DEF m
<1>4. \A i \in 1 .. Len(handled) : handled[i] # m
  <2>1. m \notin Due
    BY <1>1, <1>2, <1>3 DEF Due
  <2> QED BY <2>1 DEF HandledOK
<1>5. /\ handled' \in Seq(Nat) /\ Len(handled') = Len(handled) + 1
      /\ \A i \in 1 .. Len(handled) : handled'[i] = handled[i]
      /\ handled'[Len(handled) + 1] = m
      /\ IsInjective(handled')
      /\ \A x \in busy' : \E i \in 1 .. Len(handled') : handled'[i] = x
  BY <1>2, <1>4, HandleFacts, <1>m DEF HandledOK, PhaseOK
<1>6. QueuesOK'
  <2>1. \A i \in 1 .. Len(inbox') : inbox'[i] = Got' + i
    BY <1>1, <1>2, <1>3, <1>0 DEF QueuesOK
  <2>2. Len(inbox') <= posted' /\ Len(buffered') <= Got'
    BY <1>1, <1>2, <1>3, <1>0 DEF QueuesOK
  <2> QED BY <1>2, <1>3, <1>5, <2>1, <2>2, <1>0 DEF QueuesOK
<1>7. PhaseOK'
  BY <1>5, <1>0 DEF PhaseOK
<1>8. Due' = Due \cup {m}
  BY <1>1, <1>2, <1>3, <1>0 DEF Due
<1>9. HandledOK'
  <2>1. \A i \in 1 .. Len(handled') : handled'[i] \in Due'
    <3> TAKE i \in 1 .. Len(handled')
    <3>1. CASE i \in 1 .. Len(handled)
      BY <1>5, <1>8, <3>1 DEF HandledOK
    <3>2. CASE i = Len(handled) + 1
      BY <1>5, <1>8, <3>2
    <3> QED BY <1>1, <1>5, <3>1, <3>2
  <2>2. ASSUME worker', start' # "failed", NEW x \in Due'
        PROVE  \E i \in 1 .. Len(handled') : handled'[i] = x
    <3>1. CASE x = m
      <4>1. Len(handled) + 1 \in 1 .. Len(handled')
        BY <1>1, <1>5
      <4> QED BY <1>5, <3>1, <4>1
    <3>2. CASE x \in Due
      <4>1. PICK i \in 1 .. Len(handled) : handled[i] = x
        BY <1>0, <2>2, <3>2 DEF HandledOK
      <4>2. i \in 1 .. Len(handled')
        BY <1>1, <1>5
      <4> QED BY <1>5, <4>1, <4>2
    <3> QED BY <1>8, <2>2, <3>1, <3>2
  <2> QED BY <1>5, <2>1, <2>2 DEF HandledOK
<1>10. BufferedInOrder'
  <2> SUFFICES ASSUME NEW k \in DOMAIN buffered', NEW j \in DOMAIN handled',
                      handled'[j] = buffered'[k], NEW l \in 1 .. k - 1
               PROVE  \E i \in 1 .. j - 1 : handled'[i] = buffered'[l]
    BY DEF BufferedInOrder
  <2>0. /\ buffered' = buffered /\ k \in 1 .. Len(buffered) /\ k \in DOMAIN buffered
        /\ j \in 1 .. Len(handled') /\ handled'[j] = buffered[k]
    BY <1>0, <1>5, LenNat DEF QueuesOK
  <2>1. j \in 1 .. Len(handled)
    <3>1. buffered[k] # m
      BY <2>0, <1>1, <1>2, <1>3, <1>0 DEF QueuesOK
    <3> QED BY <2>0, <1>1, <1>5, <3>1
  <2>2. handled[j] = buffered[k] /\ j \in DOMAIN handled /\ k \in DOMAIN buffered
    BY <2>0, <1>1, <1>5, <2>1, LenNat DEF QueuesOK
  <2>3. PICK i \in 1 .. j - 1 : handled[i] = buffered[l]
    BY <2>0, <2>2 DEF BufferedInOrder
  <2>4. i \in 1 .. Len(handled)
    BY <2>0, <1>1, <2>1
  <2> QED BY <2>0, <1>5, <2>3, <2>4
<1> QED BY <1>6, <1>7, <1>9, <1>10

LEMMA ImportedKeeps == IInv /\ Imported => IInv'
  BY DEF IInv, Imported, QueuesOK, PhaseOK, HandledOK, BufferedInOrder, Got, Out, Due

LEMMA StartFailsKeeps == IInv /\ StartFails => IInv'
<1> SUFFICES ASSUME IInv, StartFails PROVE IInv'
  OBVIOUS
<1>1. ~worker
  BY DEF IInv, StartFails, PhaseOK
<1> QED BY <1>1 DEF IInv, StartFails, QueuesOK, PhaseOK, HandledOK, BufferedInOrder, Got, Out, Due

LEMMA InstantiatedKeeps == IInv /\ Instantiated => IInv'
<1> SUFFICES ASSUME IInv, Instantiated PROVE IInv'
  OBVIOUS
<1> USE DEF IInv, Instantiated, Taken, Spliced, WorkerSet
<1>1. ~worker /\ pending = buffered /\ Len(buffered) = Got /\ handled = <<>>
  BY DEF PhaseOK
<1>2. Len(buffered) \in Nat /\ buffered \in Seq(Nat)
  BY LenNat DEF QueuesOK
<1>3. Got' = Got /\ Out' = 0
  BY <1>1, <1>2 DEF Got, Out
<1>4. QueuesOK'
  <2>1. drain' = buffered /\ pending' = <<>>
    BY <1>1
  <2>2. \A i \in 1 .. Len(drain') : drain'[i] = Out' + i
    BY <1>2, <1>3, <2>1 DEF QueuesOK
  <2> QED BY <1>2, <1>3, <2>1, <2>2 DEF QueuesOK
<1>5. PhaseOK'
  BY <1>1, <1>3 DEF PhaseOK
<1>6. Due' = {}
  BY <1>1, <1>2, <1>3 DEF Due
<1>7. HandledOK' /\ BufferedInOrder'
  BY <1>1, <1>6 DEF HandledOK, BufferedInOrder
<1> QED BY <1>4, <1>5, <1>7

LEMMA DrainNextKeeps == IInv /\ DrainNext => IInv'
<1> SUFFICES ASSUME IInv, DrainNext PROVE IInv'
  OBVIOUS
<1> USE DEF IInv
<1>0. /\ start = "draining" /\ drain' = Tail(drain) /\ Handle(Head(drain))
      /\ UNCHANGED <<inbox, posted, start, worker, pending, buffered>>
  BY DEF DrainNext
<1>1. worker
  BY <1>0 DEF PhaseOK
<1>2. /\ drain \in Seq(Nat) /\ drain # <<>> /\ handled \in Seq(Nat) /\ buffered \in Seq(Nat)
      /\ Len(handled) \in Nat /\ Len(buffered) \in Nat /\ Len(drain) \in Nat
      /\ posted \in Nat /\ Len(inbox) \in Nat /\ Len(inbox) <= posted
      /\ Len(buffered) <= Got /\ Len(drain) <= Len(buffered)
  BY LenNat DEF QueuesOK, DrainNext
<1> DEFINE m == Head(drain)
<1>m. Handle(m)
  BY <1>0
<1>3. /\ m = Out + 1 /\ m \in Nat
      /\ drain' \in Seq(Nat) /\ Len(drain') = Len(drain) - 1 /\ Len(drain) >= 1
      /\ \A i \in 1 .. Len(drain) - 1 : drain'[i] = drain[i + 1]
  BY <1>0, <1>2, TailFacts DEF QueuesOK
<1>4. /\ Got' = Got /\ Got \in Nat /\ Out' = Out + 1 /\ Out \in Nat
      /\ Out + 1 <= Len(buffered)
  BY <1>2, <1>3, <1>0 DEF Got, Out
<1> HIDE DEF m
<1>5. \A i \in 1 .. Len(handled) : handled[i] # m
  <2>1. m \notin Due
    BY <1>2, <1>3, <1>4 DEF Due
  <2> QED BY <2>1 DEF HandledOK
<1>6. /\ handled' \in Seq(Nat) /\ Len(handled') = Len(handled) + 1
      /\ \A i \in 1 .. Len(handled) : handled'[i] = handled[i]
      /\ handled'[Len(handled) + 1] = m
      /\ IsInjective(handled')
      /\ \A x \in busy' : \E i \in 1 .. Len(handled') : handled'[i] = x
  BY <1>3, <1>5, HandleFacts, <1>m DEF HandledOK, PhaseOK
<1>7. QueuesOK'
  <2>1. \A i \in 1 .. Len(drain') : drain'[i] = Out' + i
    BY <1>2, <1>3, <1>4, <1>0 DEF QueuesOK
  <2> QED BY <1>2, <1>3, <1>4, <1>6, <2>1, <1>0 DEF QueuesOK
<1>8. PhaseOK'
  BY <1>1, <1>6, <1>0 DEF PhaseOK
<1>9. Due' = Due \cup {m}
  BY <1>2, <1>3, <1>4, <1>0 DEF Due
<1>10. HandledOK'
  <2>1. \A i \in 1 .. Len(handled') : handled'[i] \in Due'
    <3> TAKE i \in 1 .. Len(handled')
    <3>1. CASE i \in 1 .. Len(handled)
      BY <1>6, <1>9, <3>1 DEF HandledOK
    <3>2. CASE i = Len(handled) + 1
      BY <1>6, <1>9, <3>2
    <3> QED BY <1>2, <1>6, <3>1, <3>2
  <2>2. ASSUME NEW x \in Due' PROVE \E i \in 1 .. Len(handled') : handled'[i] = x
    <3>1. CASE x = m
      <4>1. Len(handled) + 1 \in 1 .. Len(handled')
        BY <1>2, <1>6
      <4> QED BY <1>6, <3>1, <4>1
    <3>2. CASE x \in Due
      <4>1. PICK i \in 1 .. Len(handled) : handled[i] = x
        BY <1>0, <1>1, <3>2 DEF HandledOK
      <4>2. i \in 1 .. Len(handled')
        BY <1>2, <1>6
      <4> QED BY <1>6, <4>1, <4>2
    <3> QED BY <1>9, <2>2, <3>1, <3>2
  <2> QED BY <1>6, <2>1, <2>2 DEF HandledOK
<1>11. BufferedInOrder'
  <2> SUFFICES ASSUME NEW k \in DOMAIN buffered', NEW j \in DOMAIN handled',
                      handled'[j] = buffered'[k], NEW l \in 1 .. k - 1
               PROVE  \E i \in 1 .. j - 1 : handled'[i] = buffered'[l]
    BY DEF BufferedInOrder
  <2>0. /\ buffered' = buffered /\ k \in 1 .. Len(buffered) /\ k \in DOMAIN buffered
        /\ j \in 1 .. Len(handled') /\ handled'[j] = buffered[k]
    BY <1>0, <1>2, <1>6, LenNat DEF QueuesOK
  <2>1. CASE j \in 1 .. Len(handled)
    <3>1. handled[j] = buffered[k] /\ j \in DOMAIN handled /\ k \in DOMAIN buffered
      BY <2>0, <1>2, <1>6, <2>1, LenNat
    <3>2. PICK i \in 1 .. j - 1 : handled[i] = buffered[l]
      BY <2>0, <3>1 DEF BufferedInOrder
    <3>3. i \in 1 .. Len(handled)
      BY <2>0, <1>2, <2>1
    <3> QED BY <2>0, <1>6, <3>2, <3>3
  <2>2. CASE j = Len(handled) + 1
    <3>1. k = Out + 1 /\ buffered[l] = l /\ l \in 1 .. Out
      <4>1. buffered[k] = k /\ handled'[j] = Out + 1
        BY <2>0, <1>3, <1>6, <2>2 DEF QueuesOK
      <4>2. k = Out + 1
        BY <2>0, <4>1
      <4>3. l \in 1 .. Out /\ l \in 1 .. Len(buffered)
        BY <1>2, <1>4, <2>0, <4>2
      <4> QED BY <4>2, <4>3 DEF QueuesOK
    <3>2. l \in Due
      BY <2>0, <3>1 DEF Due
    <3>3. PICK i \in 1 .. Len(handled) : handled[i] = l
      BY <2>0, <1>0, <1>1, <3>2 DEF HandledOK
    <3>4. i \in 1 .. j - 1 /\ handled'[i] = handled[i]
      BY <2>0, <1>2, <1>6, <2>2
    <3> QED BY <2>0, <3>1, <3>3, <3>4
  <2>3. Len(handled) \in Nat /\ Len(handled') = Len(handled) + 1
    BY <1>2, <1>6
  <2>4. j \in 1 .. Len(handled) \/ j = Len(handled) + 1
    BY <2>0, <2>3
  <2> QED BY <2>1, <2>2, <2>4
<1> QED BY <1>7, <1>8, <1>10, <1>11

LEMMA DrainedKeeps == IInv /\ Drained => IInv'
  BY DEF IInv, Drained, QueuesOK, PhaseOK, HandledOK, BufferedInOrder, Got, Out, Due

LEMMA DoneKeeps == ASSUME NEW m, IInv, Done(m) PROVE IInv'
  BY DEF IInv, Done, QueuesOK, PhaseOK, HandledOK, BufferedInOrder, Got, Out, Due

\* A handler fails: when it ends the loop, what was left in it is lost.
LEMMA RejectKeeps == ASSUME NEW m, IInv, Reject(m) PROVE IInv'
<1> USE DEF IInv, Reject
<1>1. CASE UNCHANGED <<start, drain>>
  BY <1>1 DEF QueuesOK, PhaseOK, HandledOK, BufferedInOrder, Got, Out, Due
<1>2. CASE start' = "failed" /\ drain' = <<>>
  <2>1. /\ Len(buffered) \in Nat /\ Len(drain) \in Nat /\ Len(drain) <= Len(buffered)
        /\ handled \in Seq(Nat)
    BY LenNat DEF QueuesOK
  <2>2. Got' = Got /\ Out' = Len(buffered) /\ Out \in Nat /\ Out <= Len(buffered)
    BY <1>2, <2>1 DEF Got, Out
  <2>3. QueuesOK'
    BY <1>2, <2>1, <2>2 DEF QueuesOK
  <2>4. worker
    BY <2>1 DEF PhaseOK
  <2>5. PhaseOK'
    BY <1>2, <2>4 DEF PhaseOK
  <2>6. Due \subseteq Due'
    BY <2>1, <2>2 DEF Due
  <2>7. HandledOK'
    BY <1>2, <2>6 DEF HandledOK
  <2>8. BufferedInOrder'
    BY DEF BufferedInOrder
  <2> QED BY <2>3, <2>5, <2>7, <2>8
<1> QED BY <1>1, <1>2

LEMMA Inductive == Spec => []IInv
<1>1. IInv /\ [Next]_vars => IInv'
  <2> SUFFICES ASSUME IInv, [Next]_vars PROVE IInv'
    OBVIOUS
  <2>1. CASE UNCHANGED vars
    BY <2>1 DEF vars, IInv, QueuesOK, PhaseOK, HandledOK, BufferedInOrder, Got, Out, Due
  <2>2. CASE Next
    BY <2>2, PostKeeps, PutAsideKeeps, AtOnceKeeps, ImportedKeeps, InstantiatedKeeps, StartFailsKeeps,
       DrainNextKeeps, DrainedKeeps, DoneKeeps, RejectKeeps DEF Next
  <2> QED BY <2>1, <2>2
<1> QED BY <1>1, InitHolds, PTL DEF Spec

----------------------------------------------------------------------------------
\* For any number of messages and any handlers that fail, a message is handled at
\* most once, and until then it waits in one place; none is lost unless the loop
\* failed.
THEOREM HandledOnce == Spec => []EachOnce
<1>1. IInv => EachOnce
  <2> SUFFICES ASSUME IInv PROVE EachOnce
    OBVIOUS
  <2> USE DEF IInv
  <2>1. /\ posted \in Nat /\ Len(inbox) \in Nat /\ Len(buffered) \in Nat /\ Len(drain) \in Nat
        /\ inbox \in Seq(Nat) /\ pending \in Seq(Nat) /\ drain \in Seq(Nat)
        /\ handled \in Seq(Nat) /\ buffered \in Seq(Nat)
    BY LenNat DEF QueuesOK
  <2>2. /\ Got \in Nat /\ Out \in Nat /\ Got + Len(inbox) = posted
        /\ Out + Len(drain) = Len(buffered) /\ Len(buffered) <= Got
    BY <2>1 DEF Got, Out, QueuesOK
  <2>3. IsInjective(inbox) /\ Range(inbox) = Got + 1 .. posted
    BY <2>1, <2>2, Interval DEF QueuesOK
  <2>4. IsInjective(drain) /\ Range(drain) = Out + 1 .. Len(buffered)
    BY <2>1, <2>2, Interval DEF QueuesOK
  <2>5. Range(handled) \subseteq Due
    BY <2>1, LenNat DEF HandledOK, Range
  <2>6. IsInjective(pending) /\ Range(pending) = IF worker THEN {} ELSE 1 .. Got
    <3>1. CASE worker
      BY <3>1 DEF PhaseOK, IsInjective, Range
    <3>2. CASE ~worker
      <4>1. pending = buffered /\ Len(buffered) = Got
        BY <3>2 DEF PhaseOK
      <4>2. IsInjective(buffered) /\ Range(buffered) = 0 + 1 .. 0 + Len(buffered)
        BY <2>1, Interval, \A i \in 1 .. Len(buffered) : buffered[i] = 0 + i DEF QueuesOK
      <4> QED BY <3>2, <4>1, <4>2
    <3> QED BY <3>1, <3>2 DEF PhaseOK
  <2>7. ~worker => Range(drain) = {} /\ Range(handled) = {}
    BY DEF PhaseOK, Range
  <2> DEFINE one == inbox \o pending
  <2> DEFINE two == one \o drain
  <2>8. /\ one \in Seq(Nat) /\ Range(one) = Range(inbox) \cup Range(pending)
        /\ IsInjective(one)
    <3>1. Range(inbox) \cap Range(pending) = {}
      BY <2>2, <2>3, <2>6
    <3>2. one \in Seq(Nat)
      BY <2>1, ConcatProperties
    <3>3. Range(one) = Range(inbox) \cup Range(pending)
      BY <2>1, RangeConcatenation
    <3>4. IsInjective(one)
      BY <2>1, <2>3, <2>6, <3>1, ConcatInjects
    <3> QED BY <3>2, <3>3, <3>4
  <2> HIDE DEF one
  <2>9. /\ two \in Seq(Nat) /\ Range(two) = Range(one) \cup Range(drain)
        /\ IsInjective(two)
    <3>1. Range(one) \cap Range(drain) = {}
      BY <2>2, <2>3, <2>4, <2>6, <2>7, <2>8
    <3>2. two \in Seq(Nat)
      BY <2>1, <2>8, ConcatProperties
    <3>3. Range(two) = Range(one) \cup Range(drain)
      BY <2>1, <2>8, RangeConcatenation
    <3>4. IsInjective(two)
      BY <2>1, <2>4, <2>8, <3>1, ConcatInjects
    <3> QED BY <3>2, <3>3, <3>4
  <2> HIDE DEF two
  <2>10. /\ Range(two \o handled) = Range(two) \cup Range(handled)
         /\ IsInjective(two \o handled)
    <3>1. Range(two) \cap Range(handled) = {}
      BY <2>2, <2>3, <2>4, <2>5, <2>6, <2>7, <2>8, <2>9 DEF Due
    <3>2. IsInjective(handled)
      BY DEF HandledOK
    <3> QED BY <2>1, <2>9, <3>1, <3>2, ConcatInjects, RangeConcatenation
  <2>11. start # "failed" => Range(two \o handled) = 1 .. posted
    <3>1. CASE ~worker
      BY <2>2, <2>3, <2>6, <2>7, <2>8, <2>9, <2>10, <3>1
    <3>2. CASE worker /\ start # "failed"
      <4>1. Range(handled) = Due
        BY <2>1, <2>5, <3>2, LenNat DEF HandledOK, Range
      <4> QED BY <2>2, <2>3, <2>4, <2>6, <2>8, <2>9, <2>10, <3>2, <4>1 DEF Due
    <3> QED BY <3>1, <3>2
  <2> QED BY <2>10, <2>11 DEF EachOnce, one, two
<1> QED BY <1>1, Inductive, PTL

\* For any number of messages, those that were put aside are handled in the order
\* they arrived.
THEOREM OrderKept == Spec => []BufferedInOrder
<1>1. IInv => BufferedInOrder
  BY DEF IInv
<1> QED BY <1>1, Inductive, PTL
==================================================================================
