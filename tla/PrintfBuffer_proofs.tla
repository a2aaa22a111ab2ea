-------------------------- MODULE PrintfBuffer_proofs --------------------------
(***************************************************************************)
(* Theorems about PrintfBuffer, for any invocations, any printf calls and  *)
(* any size of the buffer.                                                 *)
(***************************************************************************)
EXTENDS PrintfBuffer, FiniteSetTheorems, SequenceTheorems, TLAPS

\* What an argument's word may hold.
Value == IntVal \cup {StringId(l[1], l[2]) : l \in Literals}

Record == [off : Nat \ {0}, site : Site, args : Seq(Value)]

\* The word behind a record.
After(r) == r.off + Len(r.args) + 1

Busy(i) == dev[i].pc # "idle"

Mine(i) == records[dev[i].rec]

--------------------------------------------------------------------------------
(* The inductive invariant, in parts.                                       *)

\* Records are stacked on one another, below the offset in word 0 as long as
\* the kernel runs.
Stacked ==
    /\ records \in Seq(Record)
    /\ \A n \in 1 .. Len(records) : Len(records[n].args) = Len(Args[records[n].site])
    /\ \A m, n \in 1 .. Len(records) : m < n => After(records[m]) <= records[n].off
    /\ stage = "run" => \A n \in 1 .. Len(records) : After(records[n]) <= buf[0] + 1

BufferOK == DOMAIN buf = 0 .. BuffWords - 1 /\ buf[0] \in Nat

\* An invocation works on a record of its own, and only while the kernel runs.
Owner(i) ==
    /\ stage = "run"
    /\ dev[i] \in [pc : {"args", "id"}, rec : 1 .. Len(records), next : Nat \ {0}]
    /\ \A j \in Inv : j # i /\ Busy(j) => dev[j].rec # dev[i].rec
    /\ FitsId(Mine(i).off)
    /\ dev[i].pc = "args" => Whole(Mine(i)) /\ dev[i].next <= Len(Mine(i).args)

Owners == DOMAIN dev = Inv /\ \A i \in Inv : dev[i] = Idle \/ Owner(i)

\* What it has stored is there.
Progress ==
    \A i \in Inv : Busy(i) /\ Whole(Mine(i)) =>
        \A n \in 1 .. Len(Mine(i).args) :
            (dev[i].pc = "args" => n < dev[i].next) => buf[Mine(i).off + n] = Mine(i).args[n]

\* So is what the calls that have returned stored.
Finished ==
    stage = "run" =>
        \A n \in 1 .. Len(records) :
            Whole(records[n]) /\ (\A i \in Inv : Busy(i) => dev[i].rec # n)
                => Stored(records[n])

IInv == Stacked /\ BufferOK /\ Owners /\ Progress /\ Finished

--------------------------------------------------------------------------------
(* Facts about the constants and the records.                               *)

LEMMA ArgumentsFacts ==
    ASSUME NEW k \in Site, NEW v \in Arguments(k)
    PROVE  v \in Seq(Value) /\ Len(v) = Len(Args[k])
<1>1. Args[k] \in Seq({"int", "str"})
  BY PrintfAssumption DEF Site
<1>2. Len(Args[k]) \in Nat /\ DOMAIN Args[k] = 1 .. Len(Args[k])
  BY <1>1
<1>3. v \in [1 .. Len(Args[k]) -> Value]
  BY <1>1, <1>2 DEF Arguments, Value
<1> QED BY <1>2, <1>3, SeqDef

LEMMA RecordFacts ==
    ASSUME Stacked, NEW n \in 1 .. Len(records)
    PROVE  /\ records[n] \in Record
           /\ Len(records[n].args) \in Nat
           /\ records[n].off \in Nat \ {0}
           /\ AllocSize(records[n].site) = Len(records[n].args) + 1
           /\ Whole(records[n]) <=> After(records[n]) <= BuffWords
<1>1. records[n] \in Record /\ Len(records[n].args) = Len(Args[records[n].site])
  BY DEF Stacked
<1>2. Len(records[n].args) \in Nat /\ records[n].off \in Nat \ {0}
  BY <1>1 DEF Record
<1>3. AllocSize(records[n].site) = Len(records[n].args) + 1
  BY <1>1, <1>2 DEF AllocSize
<1>4. Whole(records[n]) <=> records[n].off + (Len(records[n].args) + 1) <= BuffWords
  BY <1>3 DEF Whole, FitsAll
<1>5. After(records[n]) = records[n].off + (Len(records[n].args) + 1)
  BY <1>2 DEF After
<1> QED BY <1>1, <1>2, <1>3, <1>4, <1>5

\* No word belongs to two records.
LEMMA Apart ==
    ASSUME Stacked, NEW m \in 1 .. Len(records), NEW n \in 1 .. Len(records), m # n,
           NEW x \in 0 .. Len(records[m].args), NEW y \in 0 .. Len(records[n].args)
    PROVE  records[m].off + x # records[n].off + y
<1>1. m < n \/ n < m
  OBVIOUS
<1>2. After(records[m]) <= records[n].off \/ After(records[n]) <= records[m].off
  BY <1>1 DEF Stacked
<1>3. /\ records[m].off \in Nat /\ Len(records[m].args) \in Nat
      /\ records[n].off \in Nat /\ Len(records[n].args) \in Nat
  BY RecordFacts
<1>4. \/ records[m].off + Len(records[m].args) + 1 <= records[n].off
      \/ records[n].off + Len(records[n].args) + 1 <= records[m].off
  BY <1>2 DEF After
<1>5. \A a, b, k, l \in Nat :
        a + k + 1 <= b => \A s \in 0 .. k, t \in 0 .. l : a + s # b + t
  OBVIOUS
<1> QED BY <1>3, <1>4, <1>5

\* An invocation that is busy owns a record.
LEMMA OwnerFacts ==
    ASSUME Stacked, Owners, NEW i \in Inv, Busy(i)
    PROVE  /\ Owner(i) /\ dev[i].rec \in 1 .. Len(records)
           /\ Mine(i).off \in Nat \ {0} /\ Len(Mine(i).args) \in Nat
           /\ Whole(Mine(i)) => \A x \in 0 .. Len(Mine(i).args) : Mine(i).off + x < BuffWords
<1>1. Owner(i)
  BY DEF Owners, Busy, Idle
<1>2. dev[i].rec \in 1 .. Len(records)
  BY <1>1 DEF Owner
<1>3. Mine(i).off \in Nat \ {0} /\ Len(Mine(i).args) \in Nat
      /\ (Whole(Mine(i)) => After(Mine(i)) <= BuffWords)
  BY <1>2, RecordFacts DEF Mine
<1> QED BY <1>1, <1>2, <1>3, PrintfAssumption DEF After

--------------------------------------------------------------------------------
(* What the steps preserve.                                                 *)

LEMMA InitInv == Init => IInv
<1> SUFFICES ASSUME Init PROVE IInv
  OBVIOUS
<1> USE DEF Init
<1>1. Stacked
  BY DEF Stacked
<1>2. BufferOK
  BY PrintfAssumption DEF BufferOK
<1>3. \A i \in Inv : dev[i] = Idle /\ ~Busy(i)
  BY DEF Busy, Idle
<1>4. Owners /\ Progress
  BY <1>3 DEF Owners, Progress
<1>5. Finished
  BY DEF Finished
<1> QED BY <1>1, <1>2, <1>4, <1>5 DEF IInv

\* A store into word w, which belongs to record dev[i].rec and to no other,
\* leaves every other record's words and word 0 alone.
LEMMA StoreFacts ==
    ASSUME Stacked, BufferOK, Owners, NEW i \in Inv, Busy(i),
           NEW x \in 0 .. Len(Mine(i).args), NEW v,
           buf' = [buf EXCEPT ![Mine(i).off + x] = v]
    PROVE  /\ BufferOK' /\ buf'[0] = buf[0]
           /\ Mine(i).off + x < BuffWords => buf'[Mine(i).off + x] = v
           /\ \A y \in Nat : y # x => buf'[Mine(i).off + y] = buf[Mine(i).off + y]
           /\ \A n \in 1 .. Len(records) : n # dev[i].rec =>
                  \A y \in 0 .. Len(records[n].args) :
                      buf'[records[n].off + y] = buf[records[n].off + y]
<1>1. dev[i].rec \in 1 .. Len(records)
  BY OwnerFacts
<1>2. Mine(i).off \in Nat \ {0} /\ Len(Mine(i).args) \in Nat
  BY OwnerFacts
<1>3. Mine(i).off + x # 0
  BY <1>2
<1>4. BufferOK' /\ buf'[0] = buf[0]
  BY <1>3, PrintfAssumption DEF BufferOK
<1>5. Mine(i).off + x < BuffWords => buf'[Mine(i).off + x] = v
  BY <1>2, PrintfAssumption DEF BufferOK
<1>6. ASSUME NEW z, z # Mine(i).off + x
      PROVE  buf'[z] = buf[z]
  BY <1>6
<1>7. \A y \in Nat : y # x => Mine(i).off + y # Mine(i).off + x
  BY <1>2
<1>8. ASSUME NEW n \in 1 .. Len(records), n # dev[i].rec,
             NEW y \in 0 .. Len(records[n].args)
      PROVE  records[n].off + y # Mine(i).off + x
  BY <1>1, <1>8, Apart DEF Mine
<1> QED BY <1>4, <1>5, <1>6, <1>7, <1>8

\* A step of invocation i changes no other invocation.
LEMMA OthersKept ==
    ASSUME Owners, NEW i \in Inv, NEW d, dev' = [dev EXCEPT ![i] = d]
    PROVE  /\ DOMAIN dev' = Inv /\ dev'[i] = d
           /\ \A j \in Inv : j # i => dev'[j] = dev[j] /\ (Busy(j)' <=> Busy(j))
  BY DEF Owners, Busy

LEMMA StoreArgInv ==
    ASSUME IInv, NEW i \in Inv, StoreArg(i)
    PROVE  IInv'
<1> DEFINE n == dev[i].next
<1> USE DEF IInv
<1>1. Busy(i) /\ dev[i].pc = "args"
  BY DEF StoreArg, Busy
<1>2. Owner(i) /\ dev[i].rec \in 1 .. Len(records)
      /\ Mine(i).off \in Nat \ {0} /\ Len(Mine(i).args) \in Nat
  BY <1>1, OwnerFacts
<1>3. n \in 1 .. Len(Mine(i).args) /\ Whole(Mine(i))
  BY <1>1, <1>2 DEF Owner
<1>4. buf' = [buf EXCEPT ![Mine(i).off + n] = Mine(i).args[n]]
  BY DEF StoreArg, ArgWord, Mine
<1>5. records' = records /\ stage' = stage
  BY DEF StoreArg
<1>6. /\ dev'[i].pc = IF n = Len(Mine(i).args) THEN "id" ELSE "args"
      /\ dev'[i].next = n + 1 /\ dev'[i].rec = dev[i].rec
      /\ dev'[i] \in [pc : {"args", "id"}, rec : 1 .. Len(records), next : Nat \ {0}]
  <2>1. dev'[i] = [pc |-> IF n = Len(Mine(i).args) THEN "id" ELSE "args",
                   rec |-> dev[i].rec, next |-> n + 1]
    BY OthersKept DEF StoreArg, Mine
  <2>2. dev[i] \in [pc : {"args", "id"}, rec : 1 .. Len(records), next : Nat \ {0}]
    BY <1>2 DEF Owner
  <2> QED BY <1>1, <1>2, <1>3, <2>1, <2>2
<1>7. DOMAIN dev' = Inv /\ \A j \in Inv : j # i => dev'[j] = dev[j] /\ (Busy(j)' <=> Busy(j))
  BY OthersKept DEF StoreArg
<1>8. Busy(i)'
  BY <1>6 DEF Busy
<1>9. \A j \in Inv : (Busy(j)' <=> Busy(j)) /\ dev'[j].rec = dev[j].rec /\ Mine(j)' = Mine(j)
  BY <1>1, <1>5, <1>6, <1>7, <1>8 DEF Mine
<1>10. /\ BufferOK' /\ buf'[0] = buf[0]
       /\ Mine(i).off + n < BuffWords => buf'[Mine(i).off + n] = Mine(i).args[n]
       /\ \A y \in Nat : y # n => buf'[Mine(i).off + y] = buf[Mine(i).off + y]
       /\ \A m \in 1 .. Len(records) : m # dev[i].rec =>
              \A y \in 0 .. Len(records[m].args) :
                  buf'[records[m].off + y] = buf[records[m].off + y]
  <2>1. n \in 0 .. Len(Mine(i).args)
    BY <1>2, <1>3
  <2> HIDE DEF n
  <2> QED BY <1>1, <1>4, <2>1, StoreFacts
<1>11. Stacked'
  BY <1>5, <1>10 DEF Stacked, After
<1>12. Owners'
  <2>1. Owner(i)'
    BY <1>2, <1>3, <1>5, <1>6, <1>9 DEF Owner
  <2>2. ASSUME NEW j \in Inv, j # i, Owner(j)
        PROVE  Owner(j)'
    BY <1>5, <1>7, <1>9, <2>2 DEF Owner
  <2> QED BY <1>7, <2>1, <2>2 DEF Owners
<1>13. Progress'
  <2> SUFFICES ASSUME NEW j \in Inv, Busy(j)', Whole(Mine(j))', NEW m \in 1 .. Len(Mine(j).args),
                      dev'[j].pc = "args" => m < dev'[j].next
               PROVE  buf'[Mine(j).off + m] = Mine(j).args[m]
    BY <1>9 DEF Progress
  <2>1. CASE j # i
    <3>1. Busy(j) /\ Whole(Mine(j)) /\ (dev[j].pc = "args" => m < dev[j].next)
      BY <1>7, <1>9, <2>1
    <3>2. buf[Mine(j).off + m] = Mine(j).args[m]
      BY <3>1 DEF Progress
    <3>3. dev[j].rec \in 1 .. Len(records) /\ dev[j].rec # dev[i].rec
      BY <1>2, <2>1, <3>1, OwnerFacts DEF Owner
    <3>4. buf'[Mine(j).off + m] = buf[Mine(j).off + m]
      BY <1>10, <3>3 DEF Mine
    <3> QED BY <3>2, <3>4
  <2>2. CASE j = i /\ m = n
    BY <1>1, <1>3, <1>10, <2>2, OwnerFacts
  <2>3. CASE j = i /\ m # n
    <3>1. m < n
      BY <1>3, <1>6, <2>3
    <3>2. buf[Mine(i).off + m] = Mine(i).args[m]
      BY <1>1, <1>3, <2>3, <3>1 DEF Progress
    <3> QED BY <1>10, <2>3, <3>2
  <2> QED BY <2>1, <2>2, <2>3
<1>14. Finished'
  <2> SUFFICES ASSUME stage = "run", NEW m \in 1 .. Len(records), Whole(records[m]),
                      \A j \in Inv : Busy(j)' => dev'[j].rec # m
               PROVE  Stored(records[m])'
    BY <1>5 DEF Finished
  <2>1. m # dev[i].rec
    BY <1>8, <1>9
  <2>2. Stored(records[m])
    BY <1>9 DEF Finished
  <2>3. records[m].off + 0 = records[m].off /\ Len(records[m].args) \in Nat
    BY RecordFacts
  <2>4. \A y \in 0 .. Len(records[m].args) : buf'[records[m].off + y] = buf[records[m].off + y]
    BY <1>10, <2>1
  <2> QED BY <1>5, <2>2, <2>3, <2>4 DEF Stored
<1> QED BY <1>10, <1>11, <1>12, <1>13, <1>14

LEMMA StoreIdInv ==
    ASSUME IInv, NEW i \in Inv, StoreId(i)
    PROVE  IInv'
<1> USE DEF IInv
<1>1. Busy(i) /\ dev[i].pc = "id"
  BY DEF StoreId, Busy
<1>2. Owner(i) /\ dev[i].rec \in 1 .. Len(records)
      /\ Mine(i).off \in Nat \ {0} /\ Len(Mine(i).args) \in Nat
  BY <1>1, OwnerFacts
<1>3. buf' = [buf EXCEPT ![Mine(i).off] = Id(Mine(i).site)]
  BY DEF StoreId, Mine
<1>4. records' = records /\ stage' = stage
  BY DEF StoreId
<1>5. dev' = [dev EXCEPT ![i] = Idle]
  BY DEF StoreId
<1>6. DOMAIN dev' = Inv /\ dev'[i] = Idle
      /\ \A j \in Inv : j # i => dev'[j] = dev[j] /\ (Busy(j)' <=> Busy(j))
  BY <1>5, OthersKept
<1>7. ~Busy(i)'
  BY <1>6 DEF Busy, Idle
<1>8. \A j \in Inv : j # i => dev'[j].rec = dev[j].rec /\ Mine(j)' = Mine(j)
  BY <1>4, <1>6 DEF Mine
<1>9. /\ BufferOK' /\ buf'[0] = buf[0]
      /\ Mine(i).off < BuffWords => buf'[Mine(i).off] = Id(Mine(i).site)
      /\ \A y \in Nat : y # 0 => buf'[Mine(i).off + y] = buf[Mine(i).off + y]
      /\ \A m \in 1 .. Len(records) : m # dev[i].rec =>
             \A y \in 0 .. Len(records[m].args) :
                 buf'[records[m].off + y] = buf[records[m].off + y]
  <2>1. 0 \in 0 .. Len(Mine(i).args) /\ Mine(i).off + 0 = Mine(i).off
    BY <1>2
  <2>2. buf' = [buf EXCEPT ![Mine(i).off + 0] = Id(Mine(i).site)]
    BY <1>3, <2>1
  <2>3. /\ BufferOK' /\ buf'[0] = buf[0]
        /\ Mine(i).off + 0 < BuffWords => buf'[Mine(i).off + 0] = Id(Mine(i).site)
        /\ \A y \in Nat : y # 0 => buf'[Mine(i).off + y] = buf[Mine(i).off + y]
        /\ \A m \in 1 .. Len(records) : m # dev[i].rec =>
               \A y \in 0 .. Len(records[m].args) :
                   buf'[records[m].off + y] = buf[records[m].off + y]
    BY <1>1, <2>1, <2>2, StoreFacts
  <2> QED BY <2>1, <2>3
<1>10. Stacked'
  BY <1>4, <1>9 DEF Stacked, After
<1>11. Owners'
  <2> SUFFICES ASSUME NEW j \in Inv, j # i, Owner(j)
               PROVE  Owner(j)'
    BY <1>6 DEF Owners
  <2> QED BY <1>4, <1>6, <1>7, <1>8 DEF Owner
<1>12. Progress'
  <2> SUFFICES ASSUME NEW j \in Inv, Busy(j)', Whole(Mine(j))', j # i, NEW m \in 1 .. Len(Mine(j).args),
                      dev'[j].pc = "args" => m < dev'[j].next
               PROVE  buf'[Mine(j).off + m] = Mine(j).args[m]
    BY <1>7, <1>8 DEF Progress
  <2>1. Busy(j) /\ Whole(Mine(j)) /\ (dev[j].pc = "args" => m < dev[j].next)
    BY <1>6, <1>8
  <2>2. buf[Mine(j).off + m] = Mine(j).args[m]
    BY <2>1 DEF Progress
  <2>3. dev[j].rec \in 1 .. Len(records) /\ dev[j].rec # dev[i].rec
    BY <1>2, <2>1, OwnerFacts DEF Owner
  <2>4. buf'[Mine(j).off + m] = buf[Mine(j).off + m]
    BY <1>9, <2>3 DEF Mine
  <2> QED BY <2>2, <2>4
<1>13. Finished'
  <2> SUFFICES ASSUME stage = "run", NEW m \in 1 .. Len(records), Whole(records[m]),
                      \A j \in Inv : Busy(j)' => dev'[j].rec # m
               PROVE  Stored(records[m])'
    BY <1>4 DEF Finished
  <2>1. CASE m = dev[i].rec
    <3>1. records[m] = Mine(i)
      BY <2>1 DEF Mine
    <3>2. \A y \in 1 .. Len(Mine(i).args) : buf[Mine(i).off + y] = Mine(i).args[y]
      BY <1>1, <3>1 DEF Progress
    <3>3. \A y \in 1 .. Len(Mine(i).args) : buf'[Mine(i).off + y] = Mine(i).args[y]
      BY <1>2, <1>9, <3>2
    <3>4. Mine(i).off < BuffWords
      BY <1>1, <1>2, PrintfAssumption DEF Owner, FitsId
    <3> QED BY <1>4, <1>9, <3>1, <3>3, <3>4 DEF Stored
  <2>2. CASE m # dev[i].rec
    <3>1. Stored(records[m])
      BY <1>6, <2>2 DEF Finished
    <3>2. records[m].off + 0 = records[m].off /\ Len(records[m].args) \in Nat
      BY RecordFacts
    <3>3. \A y \in 0 .. Len(records[m].args) : buf'[records[m].off + y] = buf[records[m].off + y]
      BY <1>9, <2>2
    <3> QED BY <1>4, <3>1, <3>2, <3>3 DEF Stored
  <2> QED BY <2>1, <2>2
<1> QED BY <1>9, <1>10, <1>11, <1>12, <1>13

LEMMA ReserveInv ==
    ASSUME IInv, NEW i \in Inv, NEW k \in Site, NEW v \in Arguments(k), Reserve(i, k, v)
    PROVE  IInv'
<1> DEFINE off == buf[0] + 1
           new == [off |-> off, site |-> k, args |-> v]
           L   == Len(records)
<1> USE DEF IInv
<1>1. /\ records \in Seq(Record) /\ L \in Nat /\ off \in Nat \ {0}
      /\ v \in Seq(Value) /\ Len(v) \in Nat /\ Len(v) = Len(Args[k])
  BY ArgumentsFacts, LenProperties DEF Stacked, BufferOK
<1>2. stage = "run" /\ stage' = "run" /\ ~Busy(i)
  BY DEF Reserve, Busy
<1>3. records' = Append(records, new)
  BY DEF Reserve
<1>4. new \in Record /\ new.off = off /\ new.args = v /\ new.site = k
  BY <1>1 DEF Record
<1>5. /\ records' \in Seq(Record) /\ Len(records') = L + 1 /\ records'[L + 1] = new
      /\ \A m \in 1 .. L : records'[m] = records[m]
  <2> HIDE DEF new
  <2> QED BY <1>1, <1>3, <1>4
<1>6. AllocSize(k) \in Nat /\ AllocSize(k) = 1 + Len(v)
  BY <1>1 DEF AllocSize
<1>7. /\ BufferOK' /\ buf'[0] = buf[0] + AllocSize(k)
      /\ \A w : w # 0 => buf'[w] = buf[w]
  BY <1>6, PrintfAssumption DEF Reserve, BufferOK
<1>8. After(new) = buf'[0] + 1
  <2>1. After(new) = off + Len(v) + 1
    BY <1>4 DEF After
  <2> QED BY <1>1, <1>6, <1>7, <2>1 DEF BufferOK
<1>9. \A m \in 1 .. L : After(records[m]) \in Nat /\ After(records[m]) <= off
  <2> TAKE m \in 1 .. L
  <2>1. records[m].off \in Nat /\ Len(records[m].args) \in Nat
    BY RecordFacts
  <2> QED BY <1>2, <2>1 DEF Stacked, After
<1>10. Stacked'
  <2>1. \A m \in 1 .. L + 1 : Len(records'[m].args) = Len(Args[records'[m].site])
    <3> TAKE m \in 1 .. L + 1
    <3>1. CASE m \in 1 .. L
      BY <1>5, <3>1 DEF Stacked
    <3>2. CASE m = L + 1
      BY <1>1, <1>4, <1>5, <3>2
    <3> QED BY <1>1, <3>1, <3>2
  <2>2. ASSUME NEW m \in 1 .. L + 1, NEW n \in 1 .. L + 1, m < n
        PROVE  After(records'[m]) <= records'[n].off
    <3>1. m \in 1 .. L /\ (n \in 1 .. L \/ n = L + 1)
      BY <1>1, <2>2
    <3>2. CASE n \in 1 .. L
      BY <1>5, <2>2, <3>1, <3>2 DEF Stacked
    <3>3. CASE n = L + 1
      BY <1>4, <1>5, <1>9, <3>1, <3>3
    <3> QED BY <3>1, <3>2, <3>3
  <2>3. ASSUME NEW m \in 1 .. L + 1
        PROVE  After(records'[m]) <= buf'[0] + 1
    <3>1. CASE m \in 1 .. L
      BY <1>1, <1>5, <1>6, <1>7, <1>9, <3>1 DEF BufferOK
    <3>2. CASE m = L + 1
      BY <1>5, <1>7, <1>8, <3>2 DEF BufferOK
    <3> QED BY <1>1, <3>1, <3>2
  <2> HIDE DEF L
  <2> QED BY <1>5, <2>1, <2>2, <2>3 DEF Stacked, After
<1>11. dev' = [dev EXCEPT ![i] = Plan(off, k, v)]
  BY DEF Reserve
<1>12. DOMAIN dev' = Inv /\ dev'[i] = Plan(off, k, v)
       /\ \A j \in Inv : j # i => dev'[j] = dev[j] /\ (Busy(j)' <=> Busy(j))
  BY <1>11, OthersKept
<1>13. \A j \in Inv : j # i /\ Busy(j) =>
           /\ dev[j].rec \in 1 .. L /\ dev'[j].rec = dev[j].rec /\ Mine(j)' = Mine(j)
  <2> TAKE j \in Inv
  <2> HAVE j # i /\ Busy(j)
  <2>1. dev[j].rec \in 1 .. L
    BY OwnerFacts
  <2> QED BY <1>5, <1>12, <2>1 DEF Mine
<1>14. Whole(new) <=> FitsAll(off, k)
  BY <1>4 DEF Whole
<1>15. Busy(i)' =>
          /\ dev'[i] \in [pc : {"args", "id"}, rec : {L + 1}, next : {1}] /\ Mine(i)' = new
          /\ FitsId(off)
          /\ dev'[i].pc = "args" => Whole(new) /\ 1 <= Len(v)
          /\ dev'[i].pc = "id" => (Whole(new) => v = <<>>)
  <2> HAVE Busy(i)'
  <2>1. CASE FitsAll(off, k)
    <3>1. dev'[i] = [pc |-> IF v = <<>> THEN "id" ELSE "args", rec |-> L + 1, next |-> 1]
      BY <1>12, <2>1 DEF Plan
    <3>2. FitsId(off)
      BY <1>1, <1>6, <2>1, PrintfAssumption DEF FitsAll, FitsId
    <3>3. v # <<>> => 1 <= Len(v)
      BY <1>1, EmptySeq
    <3>4. Mine(i)' = new
      BY <1>5, <3>1 DEF Mine
    <3> QED BY <1>14, <2>1, <3>1, <3>2, <3>3, <3>4
  <2>2. CASE ~FitsAll(off, k)
    <3>1. FitsId(off) /\ dev'[i] = [pc |-> "id", rec |-> L + 1, next |-> 1]
      BY <1>12, <2>2 DEF Plan, Busy, Idle
    <3>2. Mine(i)' = new
      BY <1>5, <3>1 DEF Mine
    <3> QED BY <1>14, <2>2, <3>1, <3>2
  <2> QED BY <2>1, <2>2
<1>16. Owners'
  <2>1. ASSUME NEW j \in Inv, j # i, Busy(j)
        PROVE  Owner(j)'
    <3>1. Owner(j)
      BY <2>1, OwnerFacts
    <3>2. \A l \in Inv : l # j /\ Busy(l)' => dev'[l].rec # dev'[j].rec
      BY <1>1, <1>12, <1>13, <1>15, <2>1, <3>1 DEF Owner
    <3> HIDE DEF L
    <3>3. dev[j].rec \in 1 .. L => dev[j].rec \in 1 .. L + 1
      BY <1>1
    <3>4. dev'[j] \in [pc : {"args", "id"}, rec : 1 .. Len(records'), next : Nat \ {0}]
      BY <1>5, <1>12, <1>13, <2>1, <3>1, <3>3 DEF Owner
    <3> QED BY <1>2, <1>12, <1>13, <2>1, <3>1, <3>2, <3>4 DEF Owner
  <2>2. ASSUME Busy(i)'
        PROVE  Owner(i)'
    <3>1. \A l \in Inv : l # i /\ Busy(l)' => dev'[l].rec # dev'[i].rec
      BY <1>1, <1>12, <1>13, <1>15, <2>2
    <3>2. dev'[i] \in [pc : {"args", "id"}, rec : 1 .. Len(records'), next : Nat \ {0}]
      BY <1>1, <1>5, <1>15, <2>2
    <3> QED BY <1>2, <1>4, <1>15, <2>2, <3>1, <3>2 DEF Owner
  <2>3. ~Busy(i)' => dev'[i] = Idle
    BY <1>12 DEF Plan, Busy, Idle
  <2>4. \A j \in Inv : j # i /\ ~Busy(j) => dev'[j] = Idle
    BY <1>12 DEF Owners, Owner, Busy, Idle
  <2> QED BY <1>12, <2>1, <2>2, <2>3, <2>4 DEF Owners
<1>17. Progress'
  <2> SUFFICES ASSUME NEW j \in Inv, Busy(j)', Whole(Mine(j)'), NEW m \in 1 .. Len(Mine(j)'.args),
                      dev'[j].pc = "args" => m < dev'[j].next
               PROVE  buf'[Mine(j)'.off + m] = Mine(j)'.args[m]
    BY DEF Progress
  <2>1. CASE j # i
    <3>1. Busy(j) /\ Mine(j)' = Mine(j) /\ dev'[j] = dev[j]
      BY <1>12, <1>13, <2>1
    <3>2. buf[Mine(j).off + m] = Mine(j).args[m]
      BY <3>1 DEF Progress
    <3>3. Mine(j).off + m # 0
      BY <3>1, OwnerFacts
    <3> QED BY <1>7, <3>1, <3>2, <3>3
  <2>2. CASE j = i
    BY <1>1, <1>4, <1>15, <2>2
  <2> QED BY <2>1, <2>2
<1>18. Finished'
  <2> SUFFICES ASSUME NEW m \in 1 .. L + 1, Whole(records'[m]),
                      \A j \in Inv : Busy(j)' => dev'[j].rec # m
               PROVE  Stored(records[m])'
    BY <1>5 DEF Finished
  <2>1. CASE m \in 1 .. L
    <3>1. Stored(records[m])
      BY <1>2, <1>5, <1>12, <2>1 DEF Finished
    <3>2. records[m].off \in Nat \ {0} /\ Len(records[m].args) \in Nat
      BY <2>1, RecordFacts
    <3>3. \A y \in 0 .. Len(records[m].args) : records[m].off + y # 0
      BY <3>2
    <3>4. records[m]' = records[m]
      BY <1>5, <2>1
    <3> QED BY <1>7, <3>1, <3>2, <3>3, <3>4 DEF Stored
  <2>2. CASE m = L + 1
    <3>1. FitsAll(off, k)
      BY <1>5, <1>14, <2>2
    <3>2. dev'[i].rec = L + 1 /\ Busy(i)'
      BY <1>12, <3>1 DEF Plan, Busy
    <3> QED BY <2>2, <3>2
  <2> QED BY <1>1, <2>1, <2>2
<1> QED BY <1>7, <1>10, <1>16, <1>17, <1>18

\* Outside the kernel no invocation works on a record.
LEMMA Quiet ==
    ASSUME Owners, stage # "run"
    PROVE  DOMAIN dev = Inv /\ \A i \in Inv : dev[i] = Idle /\ ~Busy(i)
  BY DEF Owners, Owner, Busy, Idle

LEMMA CollectInv == IInv /\ Collect => IInv'
<1> SUFFICES ASSUME IInv, Collect PROVE IInv'
  OBVIOUS
<1> USE DEF IInv
<1>1. stage' # "run" /\ dev' = dev /\ records' = records
  BY DEF Collect, device
<1>2. DOMAIN dev = Inv /\ \A i \in Inv : dev[i] = Idle /\ ~Busy(i)
  BY DEF Collect, Owners, Owner, Busy, Idle
<1>3. Stacked'
  BY <1>1 DEF Stacked, After
<1>4. BufferOK'
  BY PrintfAssumption DEF Collect, Cleared, BufferOK
<1>5. Owners' /\ Progress'
  BY <1>1, <1>2 DEF Owners, Progress, Busy
<1>6. Finished'
  BY <1>1 DEF Finished
<1> QED BY <1>3, <1>4, <1>5, <1>6

\* The host reads, the page rests: neither changes buffer or records.
LEMMA WalkInv ==
    ASSUME IInv, stage # "run", stage' # "run", UNCHANGED <<buf, device>>
    PROVE  IInv'
<1> USE DEF IInv, device
<1>1. DOMAIN dev = Inv /\ \A i \in Inv : dev[i] = Idle /\ ~Busy(i)
  BY Quiet
<1>2. Stacked' /\ BufferOK'
  BY DEF Stacked, BufferOK, After
<1>3. Owners' /\ Progress' /\ Finished'
  BY <1>1 DEF Owners, Progress, Finished, Busy
<1> QED BY <1>2, <1>3

LEMMA NextLaunchInv == IInv /\ NextLaunch => IInv'
<1> SUFFICES ASSUME IInv, NextLaunch PROVE IInv'
  OBVIOUS
<1> USE DEF IInv
<1>1. records' = <<>> /\ dev' = dev /\ buf' = buf
  BY DEF NextLaunch
<1>2. DOMAIN dev = Inv /\ \A i \in Inv : dev[i] = Idle /\ ~Busy(i)
  BY Quiet DEF NextLaunch
<1>3. Stacked' /\ BufferOK' /\ Finished'
  BY <1>1 DEF Stacked, BufferOK, Finished
<1>4. Owners' /\ Progress'
  BY <1>1, <1>2 DEF Owners, Progress, Busy
<1> QED BY <1>3, <1>4

LEMMA StepInv == IInv /\ [Next]_vars => IInv'
<1> SUFFICES ASSUME IInv, [Next]_vars PROVE IInv'
  OBVIOUS
<1>1. CASE \E i \in Inv : PrintfCall(i)
  BY <1>1, ReserveInv DEF PrintfCall
<1>2. CASE \E i \in Inv : StoreArg(i)
  BY <1>2, StoreArgInv
<1>3. CASE \E i \in Inv : StoreId(i)
  BY <1>3, StoreIdInv
<1>4. CASE Collect
  BY <1>4, CollectInv
<1>5. CASE PrintRecord
  BY <1>5, WalkInv DEF PrintRecord
<1>6. CASE SkipRecord
  BY <1>6, WalkInv DEF SkipRecord
<1>7. CASE Throw
  BY <1>7, WalkInv DEF Throw
<1>8. CASE EndWalk
  BY <1>8, WalkInv DEF EndWalk
<1>9. CASE NextLaunch
  BY <1>9, NextLaunchInv
<1>10. CASE UNCHANGED vars
  <2> USE <1>10 DEF vars, device, IInv
  <2>1. Stacked' /\ BufferOK'
    BY DEF Stacked, BufferOK, After
  <2>2. Owners'
    BY DEF Owners, Owner, Busy, Mine
  <2>3. Progress' /\ Finished'
    BY DEF Progress, Finished, Busy, Mine, Stored
  <2> QED BY <2>1, <2>2, <2>3
<1> QED BY <1>1, <1>2, <1>3, <1>4, <1>5, <1>6, <1>7, <1>8, <1>9, <1>10 DEF Next

--------------------------------------------------------------------------------
(* The theorems.                                                            *)

LEMMA Inductive == Spec => []IInv
<1>1. Init => IInv
  BY InitInv
<1>2. IInv /\ [Next]_vars => IInv'
  BY StepInv
<1> QED BY <1>1, <1>2, PTL DEF Spec

\* However many invocations print, whatever they print and whatever the size
\* of the buffer: the atomic addition that reserves records never gives two
\* calls a word in common, nor any call the word of the offset
\* (PrintfPass.cpp:137-147).
THEOREM Disjoint == Spec => []RecordsDisjoint
<1>1. IInv => RecordsDisjoint
  <2> SUFFICES ASSUME IInv, NEW m \in 1 .. Len(records), NEW n \in 1 .. Len(records)
               PROVE  /\ 0 \notin Area(records[m])
                      /\ m # n => Area(records[m]) \cap Area(records[n]) = {}
    BY LenProperties DEF RecordsDisjoint, IInv, Stacked
  <2>1. /\ records[m].off \in Nat \ {0} /\ Len(records[m].args) \in Nat
        /\ records[n].off \in Nat \ {0} /\ Len(records[n].args) \in Nat
    BY RecordFacts DEF IInv
  <2>2. ASSUME m # n, NEW w \in Area(records[m]), w \in Area(records[n])
        PROVE  FALSE
    <3>1. /\ w \in records[m].off .. (records[m].off + Len(records[m].args))
          /\ w \in records[n].off .. (records[n].off + Len(records[n].args))
      BY <2>2 DEF Area
    <3>2. \A a, l \in Nat : \A z \in a .. (a + l) : z - a \in 0 .. l /\ a + (z - a) = z
      OBVIOUS
    <3>3. /\ w - records[m].off \in 0 .. Len(records[m].args)
          /\ w - records[n].off \in 0 .. Len(records[n].args)
          /\ records[m].off + (w - records[m].off) = records[n].off + (w - records[n].off)
      BY <2>1, <3>1, <3>2
    <3> QED BY <2>2, <3>3, Apart DEF IInv
  <2> QED BY <2>1, <2>2 DEF Area
<1> QED BY <1>1, Inductive, PTL

\* Nor does any store of one invocation disturb what another call has stored:
\* as long as the kernel runs, the record of every call that has returned and
\* fits holds that call's identifier and arguments (PrintfPass.cpp:149-223).
THEOREM Intact == Spec => []RecordsIntact
<1>1. IInv => RecordsIntact
  BY LenProperties DEF IInv, Stacked, Finished, RecordsIntact, Busy
<1> QED BY <1>1, Inductive, PTL

--------------------------------------------------------------------------------
(* What the host prints: the invariant.                                     *)

\* Every call passes exactly the arguments its format converts; of the others
\* the host loses its place (printf.cpp:180).
AllConverted == \A k \in Site : Conv[k] = Len(Args[k])

\* Where record n begins if the records end before word e + 1.
Begin(n, e) == IF n <= Len(records) THEN records[n].off ELSE e + 1

\* The records follow one another without a gap, from word 1 to word e.
Filled(e) ==
    /\ Begin(1, e) = 1
    /\ \A n \in 1 .. Len(records) : After(records[n]) = Begin(n + 1, e)

\* What was reserved is in word 0 until the host has it; a launch starts at 0.
Total ==
    /\ stage = "run" => Filled(buf[0]) /\ printed = <<>> /\ warned = FALSE
    /\ stage # "run" => buf[0] = 0
    /\ stage \in {"walk", "done"} => Filled(host[0]) /\ host[0] \in Nat
    /\ stage \in {"run", "walk", "done", "threw"}

\* A record whose call has returned begins with its identifier if that fits,
\* even where it is cut off.
Identified ==
    stage = "run" =>
        \A n \in 1 .. Len(records) :
            FitsId(records[n].off) /\ (\A i \in Inv : Busy(i) => dev[i].rec # n)
                => buf[records[n].off] = Id(records[n].site)

\* The host's copy has the same of every record.
Fetched(r) ==
    /\ FitsId(r.off) => host[r.off] = Id(r.site)
    /\ Whole(r) => \A n \in 1 .. Len(r.args) : host[r.off + n] = r.args[n]

Copy == stage = "walk" => \A n \in 1 .. Len(records) : Fetched(records[n])

\* The host prints the first records; it is at the next one, or has given up a
\* record that was cut off and is past the end.
Prints == {Decoded(records[n]) : n \in 1 .. Len(records)}

Walking ==
    stage = "walk" =>
        /\ printed \in Seq(Prints) /\ Len(printed) <= Len(records)
        /\ \A n \in 1 .. Len(printed) :
               Whole(records[n]) /\ printed[n] = Decoded(records[n])
        /\ \/ pos = Begin(Len(printed) + 1, host[0])
           \/ /\ pos \in Nat /\ pos >= DataEnd
              /\ Len(printed) < Len(records) /\ ~Whole(records[Len(printed) + 1])

WInv == IInv /\ Total /\ Identified /\ WarningIsTrue

PInv == WInv /\ Copy /\ Walking /\ PrintedIsWritten

--------------------------------------------------------------------------------
(* Identifiers, and where the records end.                                  *)

\* There are finitely many literals, so an identifier is a number.
LEMMA LiteralsFinite == IsFiniteSet(Literals)
<1> DEFINE Of(k) == {<<k, i>> : i \in {j \in DOMAIN Args[k] : Args[k][j] = "str"}}
           T == {Of(k) : k \in Site}
<1>1. Len(Args) \in Nat /\ IsFiniteSet(Site)
  BY PrintfAssumption, FS_Interval DEF Site
<1>2. IsFiniteSet(T)
  <2>1. [k \in Site |-> Of(k)] \in Surjection(Site, T)
    BY DEF Surjection
  <2> HIDE DEF T
  <2> QED BY <1>1, <2>1, FS_Surjection
<1>3. ASSUME NEW k \in Site
      PROVE  IsFiniteSet(Of(k))
  <2> DEFINE D == {j \in DOMAIN Args[k] : Args[k][j] = "str"}
  <2>1. Args[k] \in Seq({"int", "str"})
    BY <1>3, PrintfAssumption DEF Site
  <2>2. Len(Args[k]) \in Nat /\ DOMAIN Args[k] = 1 .. Len(Args[k])
    BY <2>1
  <2>3. IsFiniteSet(1 .. Len(Args[k])) /\ D \in SUBSET (1 .. Len(Args[k]))
    BY <2>2, FS_Interval
  <2> HIDE DEF D
  <2>4. IsFiniteSet(D)
    BY <2>3, FS_Subset
  <2>5. [i \in D |-> <<k, i>>] \in Surjection(D, {<<k, i>> : i \in D})
    BY DEF Surjection
  <2>6. IsFiniteSet({<<k, i>> : i \in D})
    BY <2>4, <2>5, FS_Surjection
  <2> QED BY <2>6 DEF D
<1>4. IsFiniteSet(UNION T)
  <2> HIDE DEF Of
  <2>1. \A X \in T : IsFiniteSet(X)
    BY <1>3
  <2> HIDE DEF T
  <2> QED BY <1>2, <2>1, FS_UNION
<1> QED BY <1>4 DEF Literals

\* Calls have different identifiers: each counts those before it.
LEMMA IdRises ==
    ASSUME NEW k \in Site, NEW l \in Site, k < l
    PROVE  Id(k) \in Nat /\ Id(l) \in Nat /\ Id(k) < Id(l)
<1> DEFINE Before(n) == {x \in Literals : x[1] < n}
<1>1. k \in Nat \ {0} /\ l \in Nat \ {0}
  BY PrintfAssumption DEF Site
<1>2. Before(k) \in SUBSET Literals /\ Before(l) \in SUBSET Literals
  OBVIOUS
<1>3. ASSUME NEW x \in Literals, x[1] < k
      PROVE  x[1] < l
  <2>1. PICK j \in Site : x[1] = j
    BY <1>3 DEF Literals
  <2>2. j \in Nat
    BY <2>1, PrintfAssumption DEF Site
  <2> QED BY <1>1, <1>3, <2>1, <2>2
<1>4. Before(k) \in SUBSET Before(l)
  BY <1>3
<1> HIDE DEF Before
<1>5. IsFiniteSet(Before(k)) /\ IsFiniteSet(Before(l))
  BY <1>2, LiteralsFinite, FS_Subset
<1>6. Cardinality(Before(k)) <= Cardinality(Before(l))
  BY <1>4, <1>5, FS_Subset
<1>7. Cardinality(Before(k)) \in Nat /\ Cardinality(Before(l)) \in Nat
  BY <1>5, FS_CardinalityType
<1>8. Id(k) = (k - 1) + Cardinality(Before(k)) /\ Id(l) = (l - 1) + Cardinality(Before(l))
  BY DEF Id, Before
<1> QED BY <1>1, <1>6, <1>7, <1>8

LEMMA IdIsOne ==
    ASSUME NEW k \in Site, NEW l \in Site, Id(k) = Id(l)
    PROVE  k = l
<1>1. k \in Nat /\ l \in Nat
  BY PrintfAssumption DEF Site
<1>2. CASE k < l
  BY <1>2, IdRises
<1>3. CASE l < k
  BY <1>3, IdRises
<1> QED BY <1>1, <1>2, <1>3

LEMMA ConversionsOf ==
    ASSUME NEW k \in Site
    PROVE  Conversions(Id(k)) = Conv[k]
<1>1. (CHOOSE l \in Site : Id(l) = Id(k)) = k
  BY IdIsOne
<1> QED BY <1>1 DEF Conversions

\* If a record fits, so do those before it.
LEMMA EarlierFit ==
    ASSUME Stacked, NEW n \in 1 .. Len(records), NEW m \in 1 .. n, Whole(records[n])
    PROVE  Whole(records[m])
<1>1. Len(records) \in Nat
  BY LenProperties DEF Stacked
<1>2. m \in 1 .. Len(records) /\ (m = n \/ m < n)
  BY <1>1
<1>3. CASE m < n
  <2>1. After(records[m]) <= records[n].off
    BY <1>2, <1>3 DEF Stacked
  <2>2. /\ records[m].off \in Nat /\ Len(records[m].args) \in Nat
        /\ records[n].off \in Nat /\ Len(records[n].args) \in Nat
    BY <1>2, RecordFacts
  <2>3. After(records[n]) <= BuffWords
    BY RecordFacts
  <2>4. records[n].off + Len(records[n].args) + 1 <= BuffWords
    BY <2>3 DEF After
  <2>5. After(records[m]) \in Nat
    BY <2>2 DEF After
  <2>6. After(records[m]) <= BuffWords
    BY <2>1, <2>2, <2>4, <2>5, PrintfAssumption
  <2> QED BY <1>2, <2>6, RecordFacts
<1> QED BY <1>2, <1>3

\* No record is longer than what was reserved.
LEMMA FilledFacts ==
    ASSUME Stacked, NEW e \in Nat, Filled(e), NEW n \in 1 .. Len(records)
    PROVE  After(records[n]) <= e + 1
<1>1. Len(records) \in Nat
  BY LenProperties DEF Stacked
<1>2. CASE n = Len(records)
  <2>1. After(records[n]) = e + 1
    BY <1>1, <1>2 DEF Filled, Begin
  <2>2. After(records[n]) \in Nat
    BY <2>1
  <2> QED BY <2>1
<1>3. CASE n < Len(records)
  <2> DEFINE l == Len(records)
  <2>1. l \in 1 .. Len(records)
    BY <1>1, <1>3
  <2>2. After(records[n]) <= records[l].off
    BY <1>3, <2>1 DEF Stacked
  <2>3. After(records[l]) = e + 1
    BY <1>1, <2>1 DEF Filled, Begin
  <2>4. /\ records[n].off \in Nat /\ Len(records[n].args) \in Nat
        /\ records[l].off \in Nat /\ Len(records[l].args) \in Nat
    BY <2>1, RecordFacts
  <2> QED BY <2>2, <2>3, <2>4 DEF After
<1> QED BY <1>1, <1>2, <1>3

\* If more was reserved than there is, the last record does not fit.
LEMMA OverflowFacts ==
    ASSUME Stacked, NEW e \in Nat, Filled(e), BuffWords < e
    PROVE  \E n \in 1 .. Len(records) : ~Whole(records[n])
<1>1. Len(records) \in Nat
  BY LenProperties DEF Stacked
<1>2. Len(records) # 0
  BY PrintfAssumption DEF Filled, Begin
<1>3. Len(records) \in 1 .. Len(records)
  BY <1>1, <1>2
<1>4. After(records[Len(records)]) = e + 1
  BY <1>1, <1>3 DEF Filled, Begin
<1>5. ~Whole(records[Len(records)])
  <2> DEFINE l == Len(records)
  <2>1. Whole(records[l]) <=> After(records[l]) <= BuffWords
    BY <1>3, RecordFacts
  <2>2. BuffWords \in Nat
    BY PrintfAssumption
  <2>3. ~(e + 1 <= BuffWords)
    BY <2>2
  <2> QED BY <1>4, <2>1, <2>3
<1> QED BY <1>3, <1>5

--------------------------------------------------------------------------------
(* What the device's steps preserve of it.                                  *)

\* The record a call reserves.
LEMMA ReserveFacts ==
    ASSUME Stacked, BufferOK, NEW i \in Inv, NEW k \in Site, NEW v \in Arguments(k), Reserve(i, k, v)
    PROVE  LET L == Len(records)
               new == [off |-> buf[0] + 1, site |-> k, args |-> v]
           IN  /\ L \in Nat /\ Len(records') = L + 1 /\ records'[L + 1] = new
               /\ \A m \in 1 .. L : records'[m] = records[m]
               /\ buf'[0] \in Nat /\ After(new) = buf'[0] + 1
               /\ \A w : w # 0 => buf'[w] = buf[w]
<1> DEFINE new == [off |-> buf[0] + 1, site |-> k, args |-> v]
           L   == Len(records)
<1>1. /\ records \in Seq(Record) /\ L \in Nat /\ buf[0] \in Nat
      /\ v \in Seq(Value) /\ Len(v) \in Nat /\ Len(v) = Len(Args[k])
  BY ArgumentsFacts, LenProperties DEF Stacked, BufferOK
<1>2. records' = Append(records, new)
  BY DEF Reserve
<1>3. new \in Record /\ new.off = buf[0] + 1 /\ new.args = v
  BY <1>1 DEF Record
<1>4. /\ Len(records') = L + 1 /\ records'[L + 1] = new
      /\ \A m \in 1 .. L : records'[m] = records[m]
  <2> HIDE DEF new
  <2> QED BY <1>1, <1>2, <1>3
<1>5. AllocSize(k) \in Nat /\ AllocSize(k) = 1 + Len(v)
  BY <1>1 DEF AllocSize
<1>6. /\ buf'[0] = buf[0] + AllocSize(k)
      /\ \A w : w # 0 => buf'[w] = buf[w]
  BY <1>5, PrintfAssumption DEF Reserve, BufferOK
<1>7. After(new) = buf[0] + 1 + Len(v) + 1
  BY <1>3 DEF After
<1> HIDE DEF new
<1>8. buf'[0] \in Nat /\ After(new) = buf'[0] + 1
  BY <1>1, <1>5, <1>6, <1>7
<1> QED BY <1>1, <1>4, <1>6, <1>8 DEF new

LEMMA ReserveW ==
    ASSUME WInv, NEW i \in Inv, NEW k \in Site, NEW v \in Arguments(k), Reserve(i, k, v)
    PROVE  Total' /\ Identified' /\ WarningIsTrue'
<1> DEFINE L == Len(records)
           new == [off |-> buf[0] + 1, site |-> k, args |-> v]
<1> USE DEF WInv, IInv
<1>1. stage = "run" /\ stage' = "run" /\ UNCHANGED <<printed, warned>>
  BY DEF Reserve, walk
<1>2. /\ L \in Nat /\ Len(records') = L + 1 /\ records'[L + 1] = new
      /\ \A m \in 1 .. L : records'[m] = records[m]
      /\ buf'[0] \in Nat /\ After(new) = buf'[0] + 1
      /\ \A w : w # 0 => buf'[w] = buf[w]
  BY ReserveFacts
<1>3. new.off = buf[0] + 1 /\ new.site = k
  OBVIOUS
<1> HIDE DEF new, L
<1>4. Filled(buf[0])
  BY <1>1 DEF Total
<1>5. \A m \in 1 .. L + 1 : Begin(m, buf[0])' = Begin(m, buf[0])
  <2> TAKE m \in 1 .. L + 1
  <2>1. CASE m \in 1 .. L
    BY <1>2, <2>1 DEF Begin, L
  <2>2. CASE m = L + 1
    BY <1>2, <1>3, <2>2 DEF Begin, L
  <2> QED BY <1>2, <2>1, <2>2
<1>6. Filled(buf[0])'
  <2>1. Begin(1, buf[0])' = 1
    BY <1>2, <1>4, <1>5 DEF Filled
  <2>2. \A m \in 1 .. L + 1 : After(records'[m]) = Begin(m + 1, buf[0])'
    <3> TAKE m \in 1 .. L + 1
    <3>1. CASE m \in 1 .. L
      BY <1>2, <1>4, <1>5, <3>1 DEF Filled, L
    <3>2. CASE m = L + 1
      BY <1>2, <3>2 DEF Begin
    <3> QED BY <1>2, <3>1, <3>2
  <2> QED BY <1>2, <2>1, <2>2 DEF Filled, After
<1>7. Total'
  BY <1>1, <1>6 DEF Total
<1>8. Identified'
  <2> SUFFICES ASSUME NEW m \in 1 .. L + 1, FitsId(records'[m].off),
                      \A j \in Inv : Busy(j)' => dev'[j].rec # m
               PROVE  buf'[records'[m].off] = Id(records'[m].site)
    BY <1>2 DEF Identified
  <2>1. dev' = [dev EXCEPT ![i] = Plan(buf[0] + 1, k, v)] /\ ~Busy(i)
    BY DEF Reserve, Busy
  <2>2. /\ dev'[i] = Plan(buf[0] + 1, k, v)
        /\ \A j \in Inv : j # i => dev'[j] = dev[j] /\ (Busy(j)' <=> Busy(j))
    BY <2>1, OthersKept
  <2>3. CASE m \in 1 .. L
    <3>1. buf[records[m].off] = Id(records[m].site)
      BY <1>1, <1>2, <2>1, <2>2, <2>3 DEF Identified, L
    <3>2. records[m].off # 0
      BY <2>3, RecordFacts DEF L
    <3> QED BY <1>2, <2>3, <3>1, <3>2
  <2>4. CASE m = L + 1
    <3>1. FitsId(buf[0] + 1)
      BY <1>2, <1>3, <2>4
    <3>2. Busy(i)' /\ dev'[i].rec = L + 1
      BY <2>2, <3>1 DEF Plan, Busy, L
    <3> QED BY <2>4, <3>2
  <2> QED BY <1>2, <2>3, <2>4
<1>9. WarningIsTrue'
  BY <1>1 DEF WarningIsTrue
<1> QED BY <1>7, <1>8, <1>9

\* A store leaves the records and word 0 as they are.
LEMMA StoreW ==
    ASSUME WInv, stage = "run", buf'[0] = buf[0],
           UNCHANGED <<calls, records, host, stage, walk, launches>>
    PROVE  Total' /\ WarningIsTrue'
<1>1. Total'
  BY DEF WInv, Total, Filled, Begin, After, walk
<1>2. WarningIsTrue'
  BY DEF WarningIsTrue
<1> QED BY <1>1, <1>2

LEMMA StoreArgW ==
    ASSUME WInv, NEW i \in Inv, StoreArg(i)
    PROVE  Total' /\ Identified' /\ WarningIsTrue'
<1> DEFINE n == dev[i].next
<1> USE DEF WInv, IInv
<1>1. Busy(i) /\ dev[i].pc = "args"
  BY DEF StoreArg, Busy
<1>2. stage = "run" /\ n \in 0 .. Len(Mine(i).args)
  BY <1>1, OwnerFacts DEF Owner
<1>3. buf' = [buf EXCEPT ![Mine(i).off + n] = Mine(i).args[n]]
  BY DEF StoreArg, ArgWord, Mine
<1>4. /\ buf'[0] = buf[0]
      /\ \A m \in 1 .. Len(records) : m # dev[i].rec =>
             \A y \in 0 .. Len(records[m].args) :
                 buf'[records[m].off + y] = buf[records[m].off + y]
  <2> HIDE DEF n
  <2> QED BY <1>1, <1>2, <1>3, StoreFacts
<1>5. UNCHANGED <<calls, records, host, stage, walk, launches>>
  BY DEF StoreArg
<1>6. /\ dev'[i].pc \in {"args", "id"} /\ dev'[i].rec = dev[i].rec
      /\ \A j \in Inv : j # i => dev'[j] = dev[j] /\ (Busy(j)' <=> Busy(j))
  <2>1. dev'[i] = [pc |-> IF n = Len(Mine(i).args) THEN "id" ELSE "args",
                   rec |-> dev[i].rec, next |-> n + 1]
    BY OthersKept DEF StoreArg, Mine
  <2>2. \A j \in Inv : j # i => dev'[j] = dev[j] /\ (Busy(j)' <=> Busy(j))
    BY OthersKept DEF StoreArg
  <2> QED BY <2>1, <2>2
<1>7. Identified'
  <2> SUFFICES ASSUME NEW m \in 1 .. Len(records), FitsId(records[m].off),
                      \A j \in Inv : Busy(j)' => dev'[j].rec # m
               PROVE  buf'[records[m].off] = Id(records[m].site)
    BY <1>5 DEF Identified
  <2>1. Busy(i)'
    BY <1>6 DEF Busy
  <2>2. m # dev[i].rec /\ \A j \in Inv : Busy(j) => dev[j].rec # m
    BY <1>6, <2>1
  <2>3. buf[records[m].off] = Id(records[m].site)
    BY <1>2, <2>2 DEF Identified
  <2>4. records[m].off \in Nat /\ Len(records[m].args) \in Nat
    BY RecordFacts
  <2>5. records[m].off + 0 = records[m].off /\ 0 \in 0 .. Len(records[m].args)
    BY <2>4
  <2> QED BY <1>4, <2>2, <2>3, <2>5
<1> QED BY <1>2, <1>4, <1>5, <1>7, StoreW

LEMMA StoreIdW ==
    ASSUME WInv, NEW i \in Inv, StoreId(i)
    PROVE  Total' /\ Identified' /\ WarningIsTrue'
<1> USE DEF WInv, IInv
<1>1. Busy(i)
  BY DEF StoreId, Busy
<1>2. /\ stage = "run" /\ Mine(i).off \in Nat /\ Len(Mine(i).args) \in Nat
      /\ dev[i].rec \in 1 .. Len(records)
  BY <1>1, OwnerFacts DEF Owner
<1>3. 0 \in 0 .. Len(Mine(i).args) /\ Mine(i).off + 0 = Mine(i).off
  BY <1>2
<1>4. buf' = [buf EXCEPT ![Mine(i).off + 0] = Id(Mine(i).site)]
  BY <1>3 DEF StoreId, Mine
<1>5. /\ buf'[0] = buf[0]
      /\ Mine(i).off + 0 < BuffWords => buf'[Mine(i).off + 0] = Id(Mine(i).site)
      /\ \A m \in 1 .. Len(records) : m # dev[i].rec =>
             \A y \in 0 .. Len(records[m].args) :
                 buf'[records[m].off + y] = buf[records[m].off + y]
  BY <1>1, <1>3, <1>4, StoreFacts
<1>6. UNCHANGED <<calls, records, host, stage, walk, launches>>
  BY DEF StoreId
<1>7. \A j \in Inv : j # i => dev'[j] = dev[j] /\ (Busy(j)' <=> Busy(j))
  BY OthersKept DEF StoreId
<1>8. Identified'
  <2> SUFFICES ASSUME NEW m \in 1 .. Len(records), FitsId(records[m].off),
                      \A j \in Inv : Busy(j)' => dev'[j].rec # m
               PROVE  buf'[records[m].off] = Id(records[m].site)
    BY <1>6 DEF Identified
  <2>1. CASE m = dev[i].rec
    <3>1. Mine(i) = records[m]
      BY <2>1 DEF Mine
    <3>2. Mine(i).off < BuffWords
      BY <1>2, <3>1, PrintfAssumption DEF FitsId
    <3> QED BY <1>3, <1>5, <3>1, <3>2
  <2>2. CASE m # dev[i].rec
    <3>1. buf[records[m].off] = Id(records[m].site)
      BY <1>2, <1>7, <2>2 DEF Identified
    <3>2. records[m].off \in Nat /\ Len(records[m].args) \in Nat
      BY RecordFacts
    <3>3. records[m].off + 0 = records[m].off /\ 0 \in 0 .. Len(records[m].args)
      BY <3>2
    <3> QED BY <1>5, <2>2, <3>1, <3>3
  <2> QED BY <2>1, <2>2
<1> QED BY <1>2, <1>5, <1>6, <1>8, StoreW

--------------------------------------------------------------------------------
(* What the host's steps preserve of it.                                    *)

\* The host gets every record as far as it fits.
LEMMA CollectP ==
    ASSUME WInv, Collect
    PROVE  /\ Total' /\ Identified' /\ WarningIsTrue'
           /\ Copy' /\ Walking' /\ PrintedIsWritten'
<1> USE DEF WInv, IInv
<1>1. /\ stage = "run" /\ stage' \in {"walk", "done"} /\ (stage' = "done" => buf[0] = 0)
      /\ records' = records /\ printed' = printed /\ warned' = warned /\ pos' = 1
  BY DEF Collect, device
<1>2. buf[0] \in Nat /\ Filled(buf[0]) /\ printed = <<>> /\ warned = FALSE
  BY <1>1 DEF Total, BufferOK
<1>3. DOMAIN buf = 0 .. BuffWords - 1 /\ BuffWords \in Nat \ {0}
  BY PrintfAssumption DEF BufferOK
<1>4. \A w \in 0 .. BuffWords - 1 : w < buf[0] + 1 => host'[w] = buf[w]
  BY <1>3 DEF Collect, Copied
<1>5. host'[0] = buf[0] /\ buf'[0] = 0
  BY <1>2, <1>3, <1>4 DEF Collect, Cleared
<1>6. Total'
  BY <1>1, <1>2, <1>5 DEF Total, Filled, Begin, After
<1>7. Identified' /\ WarningIsTrue'
  BY <1>1, <1>2 DEF Identified, WarningIsTrue
<1>8. \A i \in Inv : ~Busy(i)
  BY DEF Collect, Busy
<1>9. Copy'
  <2> SUFFICES ASSUME NEW n \in 1 .. Len(records)
               PROVE  Fetched(records[n])'
    BY <1>1 DEF Copy
  <2>1. /\ records[n].off \in Nat \ {0} /\ Len(records[n].args) \in Nat
        /\ Whole(records[n]) => After(records[n]) <= BuffWords
    BY RecordFacts
  <2>2. After(records[n]) <= buf[0] + 1
    BY <1>2, FilledFacts
  <2>3. records[n].off + Len(records[n].args) < buf[0] + 1
    BY <1>2, <2>1, <2>2 DEF After
  <2>4. FitsId(records[n].off) => host'[records[n].off] = Id(records[n].site)
    <3> HAVE FitsId(records[n].off)
    <3>1. buf[records[n].off] = Id(records[n].site)
      BY <1>1, <1>8 DEF Identified
    <3>2. records[n].off \in 0 .. BuffWords - 1 /\ records[n].off < buf[0] + 1
      BY <1>2, <1>3, <2>1, <2>3 DEF FitsId
    <3> QED BY <1>4, <3>1, <3>2
  <2>5. ASSUME Whole(records[n]), NEW x \in 1 .. Len(records[n].args)
        PROVE  host'[records[n].off + x] = records[n].args[x]
    <3>1. buf[records[n].off + x] = records[n].args[x]
      BY <1>1, <1>8, <2>5 DEF Finished, Stored
    <3>2. records[n].off + Len(records[n].args) + 1 <= BuffWords
      BY <2>1, <2>5 DEF After
    <3>3. records[n].off + x \in 0 .. BuffWords - 1 /\ records[n].off + x < buf[0] + 1
      BY <1>2, <1>3, <2>1, <2>3, <3>2
    <3> QED BY <1>4, <3>1, <3>3
  <2> QED BY <1>1, <2>4, <2>5 DEF Fetched
<1>10. Len(records) \in Nat
  BY LenProperties DEF Stacked
<1>11. Walking'
  <2>1. Len(printed') = 0 /\ printed' \in Seq(Prints')
    BY <1>1, <1>2
  <2>2. pos' = Begin(1, host[0])'
    BY <1>1, <1>2, <1>5 DEF Filled, Begin
  <2> QED BY <1>1, <1>10, <2>1, <2>2 DEF Walking
<1>12. PrintedIsWritten'
  <2> SUFFICES ASSUME buf[0] = 0
               PROVE  DOMAIN printed = {} /\ Written' = {}
    BY <1>1 DEF PrintedIsWritten
  <2>1. ASSUME NEW n \in 1 .. Len(records)
        PROVE  FALSE
    <3>1. After(records[n]) <= 1
      BY <1>2, <2>1, FilledFacts
    <3>2. records[n].off \in Nat \ {0} /\ Len(records[n].args) \in Nat
      BY <2>1, RecordFacts
    <3> QED BY <3>1, <3>2 DEF After
  <2>2. DOMAIN records = 1 .. Len(records)
    BY LenProperties DEF Stacked
  <2> QED BY <1>1, <1>2, <2>1, <2>2 DEF Written
<1> QED BY <1>6, <1>7, <1>9, <1>11, <1>12

\* The words the host reads end with the records or with the buffer.
LEMMA DataEndFacts ==
    ASSUME host[0] \in Nat
    PROVE  /\ DataEnd \in Nat /\ DataEnd <= BuffWords /\ DataEnd <= host[0] + 1
           /\ \A w \in Nat : w < BuffWords /\ w < host[0] + 1 => w < DataEnd
  BY PrintfAssumption DEF DataEnd

\* The record the host is at, while it is not past the end: its identifier is
\* there, and it fits exactly if none of its arguments is past the end.
LEMMA NextRecord ==
    ASSUME AllConverted, PInv, stage = "walk", pos < DataEnd
    PROVE  LET m == Len(printed) + 1
               r == records[m]
           IN  /\ m \in 1 .. Len(records) /\ pos = r.off /\ host[pos] = Id(r.site)
               /\ r.site \in Site /\ Conv[r.site] = Len(r.args) /\ Conv[r.site] \in Nat
               /\ Whole(r) <=> Missing(r.site, pos) = {}
<1> DEFINE m == Len(printed) + 1
           r == records[m]
<1> USE DEF PInv, WInv, IInv
<1>1. host[0] \in Nat /\ Filled(host[0])
  BY DEF Total
<1>2. DataEnd \in Nat /\ DataEnd <= BuffWords /\ DataEnd <= host[0] + 1
  BY <1>1, DataEndFacts
<1>3. Len(printed) \in Nat /\ Len(records) \in Nat /\ Len(printed) <= Len(records)
  BY LenProperties DEF Walking, Stacked
<1>4. pos = Begin(m, host[0])
  BY <1>2 DEF Walking
<1>5. m \in 1 .. Len(records) /\ pos = r.off
  <2>1. m <= Len(records)
    BY <1>1, <1>2, <1>4 DEF Begin
  <2> QED BY <1>3, <1>4, <2>1 DEF Begin
<1> HIDE DEF m
<1>6. /\ r \in Record /\ r.off \in Nat \ {0} /\ Len(r.args) \in Nat
      /\ Whole(r) <=> After(r) <= BuffWords
  BY <1>5, RecordFacts
<1>7. r.site \in Site /\ Len(r.args) = Len(Args[r.site])
  BY <1>5, <1>6 DEF Stacked, Record
<1>8. Conv[r.site] = Len(r.args) /\ Conv[r.site] \in Nat
  BY <1>6, <1>7 DEF AllConverted
<1>9. host[pos] = Id(r.site)
  <2>1. FitsId(r.off)
    BY <1>2, <1>5, <1>6, PrintfAssumption DEF FitsId
  <2> QED BY <1>5, <2>1 DEF Copy, Fetched
<1>10. After(r) = pos + Conv[r.site] + 1
  BY <1>5, <1>8 DEF After
<1>11. pos + Conv[r.site] < host[0] + 1
  <2>1. After(r) <= host[0] + 1
    BY <1>1, <1>5, FilledFacts
  <2> QED BY <1>1, <1>5, <1>6, <1>8, <1>10, <2>1
<1> HIDE DEF r
<1>12. ASSUME Whole(r)
       PROVE  Missing(r.site, pos) = {}
  <2>1. pos \in Nat /\ pos + Conv[r.site] + 1 <= BuffWords
    BY <1>5, <1>6, <1>10, <1>12
  <2>2. ASSUME NEW i \in 1 .. Conv[r.site]
        PROVE  pos + i < DataEnd
    <3>1. pos + i \in Nat /\ pos + i < BuffWords /\ pos + i < host[0] + 1
      BY <1>1, <1>8, <1>11, <2>1, <2>2, PrintfAssumption
    <3> QED BY <1>1, <3>1, DataEndFacts
  <2>3. \A i \in 1 .. Conv[r.site] : ~(pos + i >= DataEnd)
    <3> TAKE i \in 1 .. Conv[r.site]
    <3>1. pos + i < DataEnd
      BY <2>2
    <3> QED BY <1>2, <1>8, <2>1, <3>1
  <2> QED BY <2>3 DEF Missing
<1>13. ASSUME Missing(r.site, pos) = {}
       PROVE  Whole(r)
  <2>1. pos \in Nat
    BY <1>5, <1>6
  <2>2. pos + Conv[r.site] < DataEnd
    <3>1. CASE Conv[r.site] = 0
      BY <1>2, <2>1, <3>1
    <3>2. CASE Conv[r.site] # 0
      <4>1. Conv[r.site] \in 1 .. Conv[r.site]
        BY <1>8, <3>2
      <4>2. ~(pos + Conv[r.site] >= DataEnd)
        BY <1>13, <4>1 DEF Missing
      <4> QED BY <1>2, <1>8, <2>1, <4>2
    <3> QED BY <3>1, <3>2
  <2>3. pos + Conv[r.site] + 1 <= BuffWords
    BY <1>2, <1>8, <2>1, <2>2, PrintfAssumption
  <2> QED BY <1>6, <1>10, <2>3
<1> QED BY <1>5, <1>7, <1>8, <1>9, <1>12, <1>13 DEF m, r

\* While the host walks, nobody else does anything.
LEMMA WalkW ==
    ASSUME WInv, stage = "walk", stage' \in {"walk", "threw"}, UNCHANGED <<buf, device, host>>
    PROVE  Total' /\ Identified' /\ WarningIsTrue' /\ (Copy => Copy')
<1> USE DEF WInv, device
<1>1. Total'
  BY DEF Total, Filled, Begin, After
<1>2. Identified' /\ WarningIsTrue'
  BY DEF Identified, WarningIsTrue
<1>3. Copy => Copy'
  BY DEF Copy, Fetched
<1> QED BY <1>1, <1>2, <1>3

\* A record that is printed is the next one, with what its call passed.
LEMMA PrintRecordP ==
    ASSUME AllConverted, PInv, PrintRecord
    PROVE  Walking' /\ PrintedIsWritten'
<1> DEFINE l == Len(printed)
           r == records[l + 1]
           d == [id |-> host[pos], args |-> [i \in 1 .. Conversions(host[pos]) |-> host[pos + i]]]
<1>1. stage = "walk" /\ stage' = "walk" /\ records' = records /\ host' = host /\ pos < DataEnd
  BY DEF PrintRecord, device
<1>2. /\ l + 1 \in 1 .. Len(records) /\ pos = r.off /\ host[pos] = Id(r.site)
      /\ r.site \in Site /\ Conv[r.site] = Len(r.args) /\ Conv[r.site] \in Nat
      /\ Whole(r) <=> Missing(r.site, pos) = {}
  BY <1>1, NextRecord
<1>3. Conversions(host[pos]) = Conv[r.site]
  BY <1>2, ConversionsOf
<1>4. Whole(r)
  BY <1>2 DEF PrintRecord
<1>5. \A n \in 1 .. Conv[r.site] : host[pos + n] = r.args[n]
  BY <1>1, <1>2, <1>4 DEF PInv, Copy, Fetched
<1>6. d = Decoded(r)
  BY <1>2, <1>3, <1>5 DEF Decoded
<1>7. printed' = Append(printed, d) /\ pos' = pos + 1 + Conv[r.site]
  BY <1>3 DEF PrintRecord
<1>8. /\ printed \in Seq(Prints) /\ l \in Nat
      /\ \A n \in 1 .. l : Whole(records[n]) /\ printed[n] = Decoded(records[n])
  BY <1>1, LenProperties DEF PInv, Walking
<1>9. d \in Prints
  BY <1>2, <1>6 DEF Prints
<1> HIDE DEF d
<1>10. /\ printed' \in Seq(Prints) /\ Len(printed') = l + 1 /\ printed'[l + 1] = d
       /\ \A n \in 1 .. l : printed'[n] = printed[n]
  BY <1>7, <1>8, <1>9, AppendProperties
<1>11. Prints' = Prints
  BY <1>1 DEF Prints, Decoded
<1>12. pos' = Begin(l + 2, host[0])
  <2>1. After(r) = Begin(l + 2, host[0])
    BY <1>1, <1>2, <1>8 DEF PInv, WInv, Total, Filled
  <2>2. r.off \in Nat
    BY <1>2, RecordFacts DEF PInv, WInv, IInv
  <2>3. pos' = r.off + Len(r.args) + 1
    BY <1>2, <1>7, <2>2
  <2> QED BY <2>1, <2>3 DEF After
<1>13. \A n \in 1 .. l + 1 : Whole(records[n]) /\ printed'[n] = Decoded(records[n])
  <2> TAKE n \in 1 .. l + 1
  <2>1. CASE n \in 1 .. l
    BY <1>8, <1>10, <2>1
  <2>2. CASE n = l + 1
    BY <1>4, <1>6, <1>10, <2>2
  <2> QED BY <1>8, <2>1, <2>2
<1>14. Walking'
  <2>1. l + 1 <= Len(records) /\ (l + 1) + 1 = l + 2
    BY <1>2, <1>8
  <2>2. pos' = Begin(Len(printed') + 1, host[0])
    BY <1>10, <1>12, <2>1
  <2> HIDE DEF l, r
  <2> QED BY <1>1, <1>10, <1>11, <1>13, <2>1, <2>2 DEF Walking, Begin, Decoded
<1> QED BY <1>1, <1>14 DEF PrintedIsWritten

\* A record that is given up is one that does not fit, and the host is past
\* the end.
LEMMA SkipRecordP ==
    ASSUME AllConverted, PInv, SkipRecord
    PROVE  Walking' /\ PrintedIsWritten'
<1> DEFINE l == Len(printed)
           r == records[l + 1]
<1>1. /\ stage = "walk" /\ stage' = "walk" /\ records' = records /\ host' = host
      /\ printed' = printed /\ pos < DataEnd
  BY DEF SkipRecord, device
<1>2. /\ l + 1 \in 1 .. Len(records) /\ pos = r.off /\ host[pos] = Id(r.site)
      /\ r.site \in Site /\ Conv[r.site] \in Nat
      /\ Whole(r) <=> Missing(r.site, pos) = {}
  BY <1>1, NextRecord
<1>3. PICK k \in Site : /\ Id(k) = host[pos]
                        /\ \E i \in Missing(k, pos) : pos' = Beyond(i)
  BY DEF SkipRecord
<1>4. k = r.site
  BY <1>2, <1>3, IdIsOne
<1>5. PICK i \in Missing(r.site, pos) : pos' = pos + i + 1
  BY <1>3, <1>4 DEF Beyond
<1>6. ~Whole(r)
  BY <1>2, <1>5
<1>7. pos' \in Nat /\ pos' >= DataEnd
  <2>1. pos \in Nat
    BY <1>2, RecordFacts DEF PInv, WInv, IInv
  <2>2. i \in Nat /\ pos + i >= DataEnd
    BY <1>2, <1>5 DEF Missing
  <2>3. DataEnd \in Nat
    BY <1>1, DataEndFacts DEF PInv, WInv, Total
  <2> QED BY <1>5, <2>1, <2>2, <2>3
<1>8. DataEnd' = DataEnd /\ Prints' = Prints
  BY <1>1 DEF DataEnd, Prints, Decoded
<1>9. /\ printed \in Seq(Prints) /\ l \in Nat
      /\ \A n \in 1 .. l : Whole(records[n]) /\ printed[n] = Decoded(records[n])
  BY <1>1, LenProperties DEF PInv, Walking
<1>10. l < Len(records) /\ l <= Len(records)
  BY <1>2, <1>9
<1>11. Walking'
  <2>1. /\ pos' \in Nat /\ pos' >= DataEnd'
        /\ Len(printed') < Len(records') /\ ~Whole(records'[Len(printed') + 1])
    BY <1>1, <1>6, <1>7, <1>8, <1>10
  <2>2. /\ printed' \in Seq(Prints') /\ Len(printed') <= Len(records')
        /\ \A n \in 1 .. Len(printed') : Whole(records'[n]) /\ printed'[n] = Decoded(records'[n])
    BY <1>1, <1>8, <1>9, <1>10
  <2> HIDE DEF l, r
  <2> QED BY <2>1, <2>2 DEF Walking, Decoded
<1> QED BY <1>1, <1>11 DEF PrintedIsWritten

\* When the walk ends, no record that fits is left.
LEMMA EndWalkP ==
    ASSUME PInv, EndWalk
    PROVE  PrintedIsWritten'
<1> DEFINE l == Len(printed)
<1> USE DEF PInv, WInv, IInv
<1>1. /\ stage = "walk" /\ stage' = "done" /\ records' = records /\ printed' = printed
      /\ pos >= DataEnd
  BY DEF EndWalk, device
<1>2. /\ printed \in Seq(Prints) /\ l \in Nat /\ Len(records) \in Nat /\ l <= Len(records)
      /\ \A n \in 1 .. l : Whole(records[n]) /\ printed[n] = Decoded(records[n])
  BY <1>1, LenProperties DEF Walking, Stacked
<1>3. DOMAIN printed = 1 .. l /\ DOMAIN records = 1 .. Len(records)
  BY <1>2, LenProperties DEF Stacked
<1>4. ASSUME l < Len(records)
      PROVE  ~Whole(records[l + 1])
  <2>1. l + 1 \in 1 .. Len(records)
    BY <1>2, <1>4
  <2>2. SUFFICES ASSUME pos = Begin(l + 1, host[0]), Whole(records[l + 1])
                 PROVE  FALSE
    BY <1>1 DEF Walking
  <2>3. host[0] \in Nat /\ Filled(host[0])
    BY <1>1 DEF Total
  <2>4. /\ pos = records[l + 1].off /\ pos \in Nat /\ Len(records[l + 1].args) \in Nat
        /\ After(records[l + 1]) <= BuffWords /\ After(records[l + 1]) <= host[0] + 1
    BY <2>1, <2>2, <2>3, RecordFacts, FilledFacts DEF Begin
  <2>5. pos < BuffWords /\ pos < host[0] + 1
    <3>1. After(records[l + 1]) = pos + Len(records[l + 1].args) + 1
      BY <2>4 DEF After
    <3> QED BY <2>3, <2>4, <3>1, PrintfAssumption
  <2>6. pos < DataEnd /\ DataEnd \in Nat
    BY <2>3, <2>4, <2>5, DataEndFacts
  <2> QED BY <1>1, <2>4, <2>6
<1>5. ASSUME NEW n \in 1 .. Len(records), Whole(records[n])
      PROVE  n \in 1 .. l
  <2>1. SUFFICES ASSUME l < n PROVE FALSE
    BY <1>2, <1>5
  <2>2. l + 1 \in 1 .. n /\ l < Len(records)
    BY <1>2, <1>5, <2>1
  <2> QED BY <1>4, <1>5, <2>2, EarlierFit
<1>6. Written = 1 .. l
  BY <1>2, <1>3, <1>5 DEF Written
<1>7. Written' = Written
  BY <1>1 DEF Written
<1> QED BY <1>1, <1>2, <1>3, <1>6, <1>7 DEF PrintedIsWritten, Decoded

LEMMA EndWalkW ==
    ASSUME WInv, EndWalk
    PROVE  Total' /\ Identified' /\ WarningIsTrue'
<1> USE DEF WInv, IInv
<1>1. /\ stage = "walk" /\ stage' = "done" /\ UNCHANGED <<buf, device, host>>
      /\ warned' = (BuffWords < host[0])
  BY DEF EndWalk, Overflowed
<1>2. Total' /\ Identified'
  BY <1>1 DEF Total, Identified, Filled, Begin, After, device
<1>3. WarningIsTrue'
  <2> SUFFICES ASSUME BuffWords < host[0]
               PROVE  Written' # DOMAIN records'
    BY <1>1 DEF WarningIsTrue
  <2>1. \E n \in 1 .. Len(records) : ~Whole(records[n])
    BY <1>1, OverflowFacts DEF Total
  <2>2. DOMAIN records = 1 .. Len(records)
    BY LenProperties DEF Stacked
  <2> QED BY <1>1, <2>1, <2>2 DEF Written, device
<1> QED BY <1>2, <1>3

LEMMA NextLaunchW ==
    ASSUME WInv, NextLaunch
    PROVE  Total' /\ Identified' /\ WarningIsTrue'
<1>1. /\ stage = "done" /\ stage' = "run" /\ records' = <<>> /\ buf' = buf
      /\ printed' = <<>> /\ warned' = FALSE
  BY DEF NextLaunch
<1>2. buf[0] = 0
  BY <1>1 DEF WInv, Total
<1>3. Total'
  BY <1>1, <1>2 DEF Total, Filled, Begin
<1>4. Identified' /\ WarningIsTrue'
  BY <1>1 DEF Identified, WarningIsTrue
<1> QED BY <1>3, <1>4

LEMMA InitW == Init => WInv
<1> SUFFICES ASSUME Init PROVE WInv
  OBVIOUS
<1>1. IInv
  BY InitInv
<1>2. Total
  BY PrintfAssumption DEF Init, Total, Filled, Begin
<1>3. Identified /\ WarningIsTrue
  BY DEF Init, Identified, WarningIsTrue
<1> QED BY <1>1, <1>2, <1>3 DEF WInv

LEMMA StepW == WInv /\ [Next]_vars => WInv'
<1> SUFFICES ASSUME WInv, [Next]_vars PROVE Total' /\ Identified' /\ WarningIsTrue'
  BY StepInv DEF WInv
<1>1. CASE \E i \in Inv : PrintfCall(i)
  BY <1>1, ReserveW DEF PrintfCall
<1>2. CASE \E i \in Inv : StoreArg(i)
  BY <1>2, StoreArgW
<1>3. CASE \E i \in Inv : StoreId(i)
  BY <1>3, StoreIdW
<1>4. CASE Collect
  BY <1>4, CollectP
<1>5. CASE PrintRecord \/ SkipRecord
  BY <1>5, WalkW DEF PrintRecord, SkipRecord
<1>6. CASE Throw
  BY <1>6, WalkW DEF Throw
<1>7. CASE EndWalk
  BY <1>7, EndWalkW
<1>8. CASE NextLaunch
  BY <1>8, NextLaunchW
<1>9. CASE UNCHANGED vars
  <2> USE <1>9 DEF vars, device, walk, WInv
  <2>1. Total'
    BY DEF Total, Filled, Begin, After
  <2>2. Identified'
    BY DEF Identified, Busy
  <2>3. WarningIsTrue'
    BY DEF WarningIsTrue, Written
  <2> QED BY <2>1, <2>2, <2>3
<1> QED BY <1>1, <1>2, <1>3, <1>4, <1>5, <1>6, <1>7, <1>8, <1>9 DEF Next

LEMMA StepP ==
    ASSUME AllConverted
    PROVE  PInv /\ [Next]_vars => PInv'
<1> SUFFICES ASSUME PInv, [Next]_vars PROVE Copy' /\ Walking' /\ PrintedIsWritten'
  BY StepW DEF PInv
<1>1. ASSUME stage' \in {"run", "threw"}
      PROVE  Copy' /\ Walking' /\ PrintedIsWritten'
  BY <1>1 DEF Copy, Walking, PrintedIsWritten
<1>2. CASE \E i \in Inv : PrintfCall(i)
  BY <1>1, <1>2 DEF PrintfCall, Reserve
<1>3. CASE \E i \in Inv : StoreArg(i) \/ StoreId(i)
  <2>1. PICK i \in Inv : StoreArg(i) \/ StoreId(i)
    BY <1>3
  <2>2. Busy(i) /\ stage' = stage
    BY <2>1 DEF StoreArg, StoreId, Busy
  <2>3. stage = "run"
    BY <2>2, OwnerFacts DEF PInv, WInv, IInv, Owner
  <2> QED BY <1>1, <2>2, <2>3
<1>4. CASE Collect
  BY <1>4, CollectP DEF PInv
<1>5. CASE PrintRecord
  <2>1. Copy'
    BY <1>5, WalkW DEF PrintRecord, PInv
  <2> QED BY <1>5, <2>1, PrintRecordP
<1>6. CASE SkipRecord
  <2>1. Copy'
    BY <1>6, WalkW DEF SkipRecord, PInv
  <2> QED BY <1>6, <2>1, SkipRecordP
<1>7. CASE Throw
  BY <1>1, <1>7 DEF Throw
<1>8. CASE EndWalk
  <2>1. Copy' /\ Walking'
    BY <1>8 DEF EndWalk, Copy, Walking
  <2> QED BY <1>8, <2>1, EndWalkP
<1>9. CASE NextLaunch
  BY <1>1, <1>9 DEF NextLaunch
<1>10. CASE UNCHANGED vars
  <2> USE <1>10 DEF vars, device, walk, PInv
  <2>1. Copy'
    BY DEF Copy, Fetched
  <2>2. Walking'
    BY DEF Walking, Begin, Prints, Decoded, DataEnd
  <2>3. PrintedIsWritten'
    BY DEF PrintedIsWritten, Written, Decoded
  <2> QED BY <2>1, <2>2, <2>3
<1> QED BY <1>2, <1>3, <1>4, <1>5, <1>6, <1>7, <1>8, <1>9, <1>10 DEF Next

\* Whatever is printed and however small the buffer is: when the host says that
\* printfs were skipped, the last record did not fit (printf.cpp:278-281).
THEOREM WarnedRightly == Spec => []WarningIsTrue
<1>1. WInv => WarningIsTrue
  BY DEF WInv
<1> QED BY <1>1, InitW, StepW, PTL DEF Spec

\* If the format of every call converts all its arguments: whatever the size of
\* the buffer, and whatever earlier launches left in it, a walk that completes
\* has printed the records that fit, each once, in the order in which they were
\* reserved and with what their calls passed (printf.cpp:166-284).
THEOREM Printed ==
    ASSUME AllConverted
    PROVE  Spec => []PrintedIsWritten
<1>1. Init => PInv
  BY InitW DEF Init, PInv, Copy, Walking, PrintedIsWritten
<1>2. PInv /\ [Next]_vars => PInv'
  BY StepP
<1>3. PInv => PrintedIsWritten
  BY DEF PInv
<1> QED BY <1>1, <1>2, <1>3, PTL DEF Spec
================================================================================
